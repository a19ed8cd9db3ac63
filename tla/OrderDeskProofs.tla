-------------------------- MODULE OrderDeskProofs --------------------------
(***************************************************************************)
(* Proofs about OrderDesk, for every set of customers, orders, riders and  *)
(* workers, every setting, and with or without deaths and broker failures. *)
(*                                                                         *)
(* The inductive invariant IInv says what a handler may still rely on at   *)
(* each of its statements: the order it works on exists, the wallet it     *)
(* holds is the right one, and an order locked by cancel_order is open.    *)
(* Its wallet part is the invariant of Wallet, brought in by WalletProofs. *)
(*                                                                         *)
(* EarnedInv adds what the rewards rest on: who is about to pay or to      *)
(* record one works on an order that was delivered, and every row is the   *)
(* row of such a reward; the rows and the workers on their way from the    *)
(* test to the row are together never more than there are workers.         *)
(*                                                                         *)
(* Then come sections about one worker at a time (Serial).  What the       *)
(* handler still owes is read off its statement and its locals, and        *)
(* SerialInv says that its instance is the row and that its tests are      *)
(* still true; with it, every statement is a stutter of OrderBook but the  *)
(* one that commits.                                                       *)
(*                                                                         *)
(* The last sections count.  LedgerInv makes the audit trail of a customer *)
(* the sum of what happened to his orders, with any number of workers; the *)
(* balance is bounded by that sum and what is under way, and equals it     *)
(* when one worker is at rest; no reward that was earned is without a row  *)
(* or a request that comes to pay it; and no request goes on for ever.     *)
(***************************************************************************)
EXTENDS OrderDesk, SumFacts

WP == INSTANCE WalletProofs WITH NoWallet <- NoOne

Placed(o) == order[o].status # "none"

\* What checkout writes into an order.
OrdersOK == \A o \in Orders :
    /\ order[o].rider \in Riders => Placed(o)
    /\ Placed(o) => /\ order[o].customer \in Customers
                    /\ order[o].used \in Amounts \cup {0}
                    /\ order[o].bonus \in Amounts \cup {0}

Posting == {"presave", "save", "read", "check", "pay", "log", "notify"}

\* What the request of w has at hand at each of its statements.
RequestOK(w) ==
    /\ req[w].pc \in Posting \cup {"locked", "refund", "spin", "spincheck", "spinpay"} =>
          req[w].order \in Orders /\ Placed(req[w].order)
    /\ req[w].pc \in Posting => req[w].new \in Statuses
    /\ req[w].pc \in {"checkout", "debited"} => inst[w].owner \in Customers
    /\ req[w].pc = "refund" => inst[w].owner = order[req[w].order].customer
    /\ req[w].pc \in {"check", "pay", "log", "spincheck", "spinpay"} =>
          Due(req[w]) /\ inst[w].owner = Payee(req[w])
    /\ req[w].pc \in {"spin", "spincheck", "spinpay"} =>
          req[w].stage = "referral" /\ req[w].new = "delivered"
    /\ req[w].pc = "log" <=> inst[w].due # 0

RequestsOK == \A w \in Workers : RequestOK(w)

\* TypeOK without the part that Wallet proves.
DeskTypeOK == /\ order \in [Orders -> OrderRow]
              /\ lock \in [Orders -> Workers \cup {NoOne}]
              /\ walletLock \in [Customers -> Workers \cup {NoOne}]
              /\ refunds \in [Orders -> Nat]
              /\ bonuses \in [Orders -> Nat]
              /\ referrals \in [Customers -> Nat]
              /\ req \in [Workers -> Request]

IInv == /\ DeskTypeOK
        /\ WP!Inv
        /\ CancelSeesOpenOrder
        /\ OrdersOK
        /\ RequestsOK

-----------------------------------------------------------------------------
(* The sums that are moved are amounts of Wallet *)

LEMMA AmountsArePositive == Amounts \subseteq Nat \ {0}
<1> SUFFICES ASSUME NEW a \in Amounts PROVE a \in Nat \ {0}
  OBVIOUS
<1>1. CASE a \in DeliveryBonuses \cup {ReferralBonus}
  BY <1>1, OrderDeskAssumption DEF Amounts
<1>2. CASE a \in UNION {1..WalletShare[s] : s \in Subtotals}
  <2>1. PICK s \in Subtotals : a \in 1..WalletShare[s]
    BY <1>2
  <2>2. WalletShare[s] \in Nat
    BY OrderDeskAssumption
  <2> QED
    BY <2>1, <2>2
<1> QED
  BY <1>1, <1>2 DEF Amounts

LEMMA WalletAssumed == WP!WalletAssumption
BY AmountsArePositive, OrderDeskAssumption

\* The wallet of the proofs is the wallet of the module.
LEMMA WalletSame == [W!Next]_(W!wvars) => [WP!Next]_(WP!wvars)
BY DEF W!Next, WP!Next, W!wvars, WP!wvars, W!Step, WP!Step,
       W!Open, WP!Open, W!Credit, WP!Credit, W!CreditTx, WP!CreditTx,
       W!DebitTx, WP!DebitTx, W!Log, WP!Log, W!Close, WP!Close,
       W!Crash, WP!Crash, W!Resave, WP!Resave,
       W!Holds, WP!Holds, W!Write, WP!Write,
       W!Sufficient, WP!Sufficient, W!NoInstance, WP!NoInstance

\* A step that Wallet allows keeps the invariant of Wallet.
LEMMA WalletStep == WP!Inv /\ [W!Next]_(W!wvars) => WP!Inv'
<1>1. WP!Inv /\ [WP!Next]_(WP!wvars) => WP!Inv'
  BY WP!StepInv, WalletAssumed
<1> QED
  BY <1>1, WalletSame

LEMMA InstType == ASSUME IInv
                  PROVE  inst \in [Workers -> [owner : Customers \cup {NoOne},
                                               balance : Nat, due : Nat]]
BY DEF IInv, WP!Inv, WP!TypeOK, WP!Instance

-----------------------------------------------------------------------------
(* What a step of one worker leaves to the others *)

SameTerms(o) == /\ order'[o].status # "none"
                /\ order'[o].customer = order[o].customer
                /\ order'[o].subtotal = order[o].subtotal
                /\ order'[o].used = order[o].used
                /\ order'[o].bonus = order[o].bonus

LEMMA OthersOK ==
    ASSUME IInv, NEW w \in Workers,
           \A v \in Workers \ {w} : req'[v] = req[v] /\ inst'[v] = inst[v],
           \A o \in Orders : Placed(o) => SameTerms(o)
    PROVE  \A v \in Workers \ {w} : RequestOK(v)'
BY DEF IInv, RequestsOK, RequestOK, SameTerms, Placed, Due, Payee, Posting

\* Every handler hands on a request of the same order and status.
LEMMA AfterStageType ==
    ASSUME NEW r \in Request
    PROVE  /\ AfterStage(r) \in Request
           /\ AfterStage(r).order = r.order
           /\ AfterStage(r).new = r.new
           /\ AfterStage(r).pc \in {"notify", "read", "done"}
<1>1. CASE r.stage = "signal"
  BY <1>1 DEF AfterStage, Request
<1>2. CASE r.stage = "referral"
  BY <1>2 DEF AfterStage, Request
<1>3. CASE r.stage \notin {"signal", "referral"}
  BY <1>3 DEF AfterStage, Request
<1> QED
  BY <1>1, <1>2, <1>3

LEMMA CheckoutOpenStep ==
    ASSUME IInv, NEW w \in Workers, NEW c \in Customers, CheckoutOpen(w, c)
    PROVE  IInv' /\ [W!Next]_(W!wvars)
<1>1. W!Next
  BY DEF CheckoutOpen, W!Next, W!Step
<1>2. /\ inst' = [inst EXCEPT ![w] = [owner |-> c, balance |-> balance[c], due |-> 0]]
      /\ req' = [req EXCEPT ![w] = [NoRequest EXCEPT !.pc = "checkout"]]
      /\ req[w].pc = "idle"
  BY DEF CheckoutOpen, Goto, At, W!Open
<1>3. DeskTypeOK'
  BY <1>2 DEF CheckoutOpen, IInv, DeskTypeOK, NoRequest, Request, rows
<1>4. CancelSeesOpenOrder'
  BY <1>2
     DEF CheckoutOpen, IInv, DeskTypeOK, CancelSeesOpenOrder, Cancelling, Spinning, Cancellable,
         NoRequest, rows
<1>5. RequestsOK'
  <2>1. \A v \in Workers \ {w} : RequestOK(v)'
    BY <1>2, OthersOK DEF CheckoutOpen, SameTerms, Placed, rows
  <2>2. RequestOK(w)'
    BY <1>2, InstType DEF IInv, DeskTypeOK, RequestOK, NoRequest, Posting
  <2> QED
    BY <2>1, <2>2 DEF RequestsOK
<1>6. OrdersOK'
  BY DEF IInv, CheckoutOpen, OrdersOK, Placed
<1>7. WP!Inv'
  BY <1>1, WalletStep DEF IInv
<1> QED
  BY <1>1, <1>3, <1>4, <1>5, <1>6, <1>7 DEF IInv

LEMMA CheckoutRefusedStep ==
    ASSUME IInv, NEW w \in Workers, CheckoutRefused(w)
    PROVE  IInv' /\ [W!Next]_(W!wvars)
<1>1. /\ UNCHANGED <<balance, posted, granted, inst, order, lock, walletLock, refunds,
                     bonuses, referrals>>
      /\ req' = [req EXCEPT ![w] = [NoRequest EXCEPT !.pc = "done"]]
      /\ req[w].pc = "checkout"
  BY DEF CheckoutRefused, Goto, At, walletVars, rows
<1>2. [W!Next]_(W!wvars) /\ WP!Inv'
  BY <1>1, WalletStep DEF IInv, W!wvars
<1>3. DeskTypeOK'
  <2>1. [NoRequest EXCEPT !.pc = "done"] \in Request
    BY <1>1 DEF IInv, DeskTypeOK, NoRequest, Request
  <2> QED
    BY <1>1, <2>1 DEF IInv, DeskTypeOK
<1>4. CancelSeesOpenOrder'
  BY <1>1 DEF IInv, DeskTypeOK, CancelSeesOpenOrder, Cancelling, Spinning, Cancellable, NoRequest
<1>5. RequestsOK'
  <2>1. \A v \in Workers \ {w} : RequestOK(v)'
    BY <1>1, OthersOK DEF SameTerms, Placed
  <2>2. RequestOK(w)'
    BY <1>1, InstType
       DEF CheckoutRefused, IInv, DeskTypeOK, RequestsOK, RequestOK, OrdersOK, Placed,
                          Posting, NoRequest, Due, Payee
  <2> QED
    BY <2>1, <2>2 DEF RequestsOK
<1>6. OrdersOK'
  BY <1>1 DEF IInv, OrdersOK, Placed
<1> QED
  BY <1>2, <1>3, <1>4, <1>5, <1>6 DEF IInv

LEMMA RiderLoadStep ==
    ASSUME IInv, NEW w \in Workers, NEW o \in Orders, NEW s \in RiderPosts, RiderLoad(w, o, s)
    PROVE  IInv' /\ [W!Next]_(W!wvars)
<1>1. /\ UNCHANGED <<balance, posted, granted, inst, order, lock, walletLock, refunds,
                     bonuses, referrals>>
      /\ req' = [req EXCEPT ![w] = [NoRequest EXCEPT !.pc = "presave", !.order = o, !.new = s]]
      /\ req[w].pc = "idle"
  BY DEF RiderLoad, Goto, At, walletVars, rows
<1>2. [W!Next]_(W!wvars) /\ WP!Inv'
  BY <1>1, WalletStep DEF IInv, W!wvars
<1>3. DeskTypeOK'
  <2>1. [NoRequest EXCEPT !.pc = "presave", !.order = o, !.new = s] \in Request
    BY <1>1, OrderDeskAssumption DEF IInv, DeskTypeOK, NoRequest, Request
  <2> QED
    BY <1>1, <2>1 DEF IInv, DeskTypeOK
<1>4. CancelSeesOpenOrder'
  BY <1>1 DEF IInv, DeskTypeOK, CancelSeesOpenOrder, Cancelling, Spinning, Cancellable, NoRequest
<1>5. RequestsOK'
  <2>1. \A v \in Workers \ {w} : RequestOK(v)'
    BY <1>1, OthersOK DEF SameTerms, Placed
  <2>2. RequestOK(w)'
    BY <1>1, OrderDeskAssumption, InstType
       DEF RiderLoad, IInv, DeskTypeOK, RequestsOK, RequestOK, OrdersOK, Placed,
                          Posting, NoRequest, Due, Payee
  <2> QED
    BY <2>1, <2>2 DEF RequestsOK
<1>6. OrdersOK'
  BY <1>1 DEF IInv, OrdersOK, Placed
<1> QED
  BY <1>2, <1>3, <1>4, <1>5, <1>6 DEF IInv

LEMMA PreSaveStep ==
    ASSUME IInv, NEW w \in Workers, PreSave(w)
    PROVE  IInv' /\ [W!Next]_(W!wvars)
<1>1. /\ UNCHANGED <<balance, posted, granted, inst, order, lock, walletLock, refunds,
                     bonuses, referrals>>
      /\ req' = [req EXCEPT ![w] = [req[w] EXCEPT !.pc = "save", !.prev = order[req[w].order].status]]
      /\ req[w].pc = "presave"
  BY DEF PreSave, Goto, At, walletVars, rows
<1>2. [W!Next]_(W!wvars) /\ WP!Inv'
  BY <1>1, WalletStep DEF IInv, W!wvars
<1>3. DeskTypeOK'
  <2>1. req[w].order \in Orders
    BY <1>1 DEF IInv, RequestsOK, RequestOK, Posting
  <2>2. order[req[w].order].status \in Statuses \cup {"none"}
    BY <2>1 DEF IInv, DeskTypeOK, OrderRow
  <2>3. [req[w] EXCEPT !.pc = "save", !.prev = order[req[w].order].status] \in Request
    BY <1>1, <2>2 DEF IInv, DeskTypeOK, NoRequest, Request
  <2> QED
    BY <1>1, <2>3 DEF IInv, DeskTypeOK
<1>4. CancelSeesOpenOrder'
  BY <1>1 DEF IInv, DeskTypeOK, CancelSeesOpenOrder, Cancelling, Spinning, Cancellable, NoRequest
<1>5. RequestsOK'
  <2>1. \A v \in Workers \ {w} : RequestOK(v)'
    BY <1>1, OthersOK DEF SameTerms, Placed
  <2>2. /\ req'[w].pc = "save" /\ req'[w].order = req[w].order
        /\ req'[w].new = req[w].new /\ req'[w].stage = req[w].stage
    BY <1>1 DEF IInv, DeskTypeOK, Request
  <2>3. RequestOK(w)
    BY DEF IInv, RequestsOK
  <2>4. RequestOK(w)'
    BY <1>1, <2>2, <2>3 DEF RequestOK, Placed, Posting
  <2> QED
    BY <2>1, <2>4 DEF RequestsOK
<1>6. OrdersOK'
  BY <1>1 DEF IInv, OrdersOK, Placed
<1> QED
  BY <1>2, <1>3, <1>4, <1>5, <1>6 DEF IInv

LEMMA SkipStep ==
    ASSUME IInv, NEW w \in Workers, Skip(w)
    PROVE  IInv' /\ [W!Next]_(W!wvars)
<1>1. /\ UNCHANGED <<balance, posted, granted, inst, order, lock, walletLock, refunds,
                     bonuses, referrals>>
      /\ req' = [req EXCEPT ![w] = AfterStage(req[w])]
      /\ req[w].pc = "read"
  BY DEF Skip, Goto, At, walletVars, rows
<1>2. [W!Next]_(W!wvars) /\ WP!Inv'
  BY <1>1, WalletStep DEF IInv, W!wvars
<1>3. DeskTypeOK'
  <2>1. AfterStage(req[w]) \in Request
    BY <1>1, AfterStageType DEF IInv, DeskTypeOK, NoRequest, Request
  <2> QED
    BY <1>1, <2>1 DEF IInv, DeskTypeOK
<1>4. CancelSeesOpenOrder'
  BY <1>1, AfterStageType
     DEF IInv, DeskTypeOK, CancelSeesOpenOrder, Cancelling, Spinning, Cancellable, NoRequest
<1>5. RequestsOK'
  <2>1. \A v \in Workers \ {w} : RequestOK(v)'
    BY <1>1, OthersOK DEF SameTerms, Placed
  <2>2. RequestOK(w) /\ req[w] \in Request /\ req'[w] = AfterStage(req[w])
    BY <1>1 DEF IInv, DeskTypeOK, RequestsOK
  <2>3. /\ req'[w].pc \in {"read", "notify", "done"}
        /\ req'[w].order = req[w].order /\ req'[w].new = req[w].new
    BY <2>2, AfterStageType
  <2>4. RequestOK(w)'
    BY <1>1, <2>2, <2>3 DEF RequestOK, Placed, Posting
  <2> QED
    BY <2>1, <2>4 DEF RequestsOK
<1>6. OrdersOK'
  BY <1>1 DEF IInv, OrdersOK, Placed
<1> QED
  BY <1>2, <1>3, <1>4, <1>5, <1>6 DEF IInv

LEMMA CheckStep ==
    ASSUME IInv, NEW w \in Workers, Check(w)
    PROVE  IInv' /\ [W!Next]_(W!wvars)
<1>1. /\ UNCHANGED <<balance, posted, granted, inst, order, lock, walletLock, refunds,
                     bonuses, referrals>>
      /\ req' = [req EXCEPT ![w] = IF Rows(req[w]) > 0 THEN AfterStage(req[w]) ELSE [req[w] EXCEPT !.pc = "pay"]]
      /\ req[w].pc = "check"
  BY DEF Check, Goto, At, walletVars, rows
<1>2. [W!Next]_(W!wvars) /\ WP!Inv'
  BY <1>1, WalletStep DEF IInv, W!wvars
<1>3. DeskTypeOK'
  <2>1. AfterStage(req[w]) \in Request
    BY AfterStageType DEF IInv, DeskTypeOK
  <2>2. [req[w] EXCEPT !.pc = "pay"] \in Request
    BY DEF IInv, DeskTypeOK, Request
  <2> QED
    BY <1>1, <2>1, <2>2 DEF IInv, DeskTypeOK
<1>4. CancelSeesOpenOrder'
  BY <1>1, AfterStageType
     DEF IInv, DeskTypeOK, CancelSeesOpenOrder, Cancelling, Spinning, Cancellable, NoRequest
<1>5. RequestsOK'
  <2>1. \A v \in Workers \ {w} : RequestOK(v)'
    BY <1>1, OthersOK DEF SameTerms, Placed
  <2>2. RequestOK(w)'
    BY <1>1, AfterStageType, InstType
       DEF Check, IInv, DeskTypeOK, RequestsOK, RequestOK, OrdersOK, Placed,
                          Posting, NoRequest, Due, Payee
  <2> QED
    BY <2>1, <2>2 DEF RequestsOK
<1>6. OrdersOK'
  BY <1>1 DEF IInv, OrdersOK, Placed
<1> QED
  BY <1>2, <1>3, <1>4, <1>5, <1>6 DEF IInv

LEMMA NotifyStep ==
    ASSUME IInv, NEW w \in Workers, Notify(w)
    PROVE  IInv' /\ [W!Next]_(W!wvars)
<1>1. /\ UNCHANGED <<balance, posted, granted, inst, order, lock, walletLock, refunds,
                     bonuses, referrals>>
      /\ req' = [req EXCEPT ![w] = [req[w] EXCEPT !.pc = "read", !.stage = "referral"]]
      /\ req[w].pc = "notify"
  BY DEF Notify, Goto, At, walletVars, rows
<1>2. [W!Next]_(W!wvars) /\ WP!Inv'
  BY <1>1, WalletStep DEF IInv, W!wvars
<1>3. DeskTypeOK'
  <2>1. [req[w] EXCEPT !.pc = "read", !.stage = "referral"] \in Request
    BY <1>1 DEF IInv, DeskTypeOK, NoRequest, Request
  <2> QED
    BY <1>1, <2>1 DEF IInv, DeskTypeOK
<1>4. CancelSeesOpenOrder'
  BY <1>1 DEF IInv, DeskTypeOK, CancelSeesOpenOrder, Cancelling, Spinning, Cancellable, NoRequest
<1>5. RequestsOK'
  <2>1. \A v \in Workers \ {w} : RequestOK(v)'
    BY <1>1, OthersOK DEF SameTerms, Placed
  <2>2. RequestOK(w)'
    BY <1>1, InstType DEF Notify, IInv, DeskTypeOK, RequestsOK, RequestOK, OrdersOK, Placed,
                          Posting, NoRequest, Due, Payee
  <2> QED
    BY <2>1, <2>2 DEF RequestsOK
<1>6. OrdersOK'
  BY <1>1 DEF IInv, OrdersOK, Placed
<1> QED
  BY <1>2, <1>3, <1>4, <1>5, <1>6 DEF IInv

LEMMA ReadWalletStep ==
    ASSUME IInv, NEW w \in Workers, ReadWallet(w)
    PROVE  IInv' /\ [W!Next]_(W!wvars)
<1> DEFINE c == Payee(req[w])
<1>1. /\ UNCHANGED <<order, lock, walletLock, refunds, bonuses, referrals>>
      /\ req' = [req EXCEPT ![w] = [req[w] EXCEPT !.pc = "check"]]
      /\ inst' = [inst EXCEPT ![w] = [owner |-> c, balance |-> balance[c], due |-> 0]]
      /\ req[w].pc = "read"
      /\ Due(req[w])
  BY DEF ReadWallet, Goto, At, rows, W!Open
<1>2. c \in Customers
  <2>1. /\ req[w].order \in Orders
        /\ order[req[w].order].customer \in Customers
    BY <1>1 DEF IInv, RequestsOK, RequestOK, Posting, OrdersOK
  <2> QED
    BY <1>1, <2>1, OrderDeskAssumption DEF Due, Payee
<1>3. W!Next
  BY <1>2 DEF ReadWallet, W!Next, W!Step
<1>4. WP!Inv'
  BY <1>3, WalletStep DEF IInv
<1>5. DeskTypeOK'
  <2>1. [req[w] EXCEPT !.pc = "check"] \in Request
    BY DEF IInv, DeskTypeOK, Request
  <2> QED
    BY <1>1, <2>1 DEF IInv, DeskTypeOK
<1>6. CancelSeesOpenOrder'
  BY <1>1 DEF IInv, DeskTypeOK, CancelSeesOpenOrder, Cancelling, Spinning, Cancellable
<1>7. RequestsOK'
  <2>1. \A v \in Workers \ {w} : RequestOK(v)'
    BY <1>1, OthersOK DEF SameTerms, Placed
  <2>2. /\ req'[w].pc = "check" /\ req'[w].order = req[w].order
        /\ req'[w].new = req[w].new /\ req'[w].stage = req[w].stage
    BY <1>1 DEF IInv, DeskTypeOK, Request
  <2>3. inst'[w].owner = c /\ inst'[w].due = 0
    BY <1>1, InstType
  <2>4. RequestOK(w)
    BY DEF IInv, RequestsOK
  <2>5. RequestOK(w)'
    BY <1>1, <2>2, <2>3, <2>4 DEF RequestOK, Placed, Posting, Due, Payee
  <2> QED
    BY <2>1, <2>5 DEF RequestsOK
<1>8. OrdersOK'
  BY <1>1 DEF IInv, OrdersOK, Placed
<1> QED
  BY <1>3, <1>4, <1>5, <1>6, <1>7, <1>8 DEF IInv

LEMMA PayStep ==
    ASSUME IInv, NEW w \in Workers, Pay(w)
    PROVE  IInv' /\ [W!Next]_(W!wvars)
<1> DEFINE a == Sum(req[w])
<1>1. /\ UNCHANGED <<order, lock, walletLock, refunds, bonuses, referrals>>
      /\ req' = [req EXCEPT ![w] = [req[w] EXCEPT !.pc = "log"]]
      /\ inst' = [inst EXCEPT ![w] =
                    [owner |-> @.owner, balance |-> @.balance + a, due |-> a]]
      /\ req[w].pc = "pay"
  BY DEF Pay, Goto, At, rows, W!Credit
<1>2. a \in Amounts
  <2>1. /\ req[w].order \in Orders
        /\ order[req[w].order].bonus \in Amounts \cup {0}
        /\ Due(req[w])
    BY <1>1 DEF IInv, RequestsOK, RequestOK, Posting, OrdersOK
  <2> QED
    BY <2>1, OrderDeskAssumption DEF Due, Sum, Amounts
<1>3. W!Next
  BY <1>2 DEF Pay, W!Next, W!Step
<1>4. WP!Inv'
  BY <1>3, WalletStep DEF IInv
<1>5. DeskTypeOK'
  <2>1. [req[w] EXCEPT !.pc = "log"] \in Request
    BY DEF IInv, DeskTypeOK, Request
  <2> QED
    BY <1>1, <2>1 DEF IInv, DeskTypeOK
<1>6. CancelSeesOpenOrder'
  BY <1>1 DEF IInv, DeskTypeOK, CancelSeesOpenOrder, Cancelling, Spinning, Cancellable
<1>7. RequestsOK'
  <2>1. \A v \in Workers \ {w} : RequestOK(v)'
    BY <1>1, OthersOK DEF SameTerms, Placed
  <2>2. /\ req'[w].pc = "log" /\ req'[w].order = req[w].order
        /\ req'[w].new = req[w].new /\ req'[w].stage = req[w].stage
    BY <1>1 DEF IInv, DeskTypeOK, Request
  <2>3. inst'[w].owner = inst[w].owner /\ inst'[w].due # 0
    BY <1>1, <1>2, InstType, AmountsArePositive
  <2>4. RequestOK(w)
    BY DEF IInv, RequestsOK
  <2>5. RequestOK(w)'
    BY <1>1, <2>2, <2>3, <2>4 DEF RequestOK, Placed, Posting, Due, Payee
  <2> QED
    BY <2>1, <2>5 DEF RequestsOK
<1>8. OrdersOK'
  BY <1>1 DEF IInv, OrdersOK, Placed
<1> QED
  BY <1>3, <1>4, <1>5, <1>6, <1>7, <1>8 DEF IInv

LEMMA PostRowStep ==
    ASSUME IInv, NEW w \in Workers, PostRow(w)
    PROVE  IInv' /\ [W!Next]_(W!wvars)
<1>1. /\ UNCHANGED <<order, lock, walletLock, refunds>>
      /\ req' = [req EXCEPT ![w] = AfterStage(req[w])]
      /\ inst' = [inst EXCEPT ![w].due = 0]
      /\ req[w].pc = "log"
  BY DEF PostRow, Goto, At, W!Log
<1>2. W!Next
  BY DEF PostRow, W!Next, W!Step
<1>3. WP!Inv'
  BY <1>2, WalletStep DEF IInv
<1>4. DeskTypeOK'
  <2>1. req' \in [Workers -> Request]
    BY <1>1, AfterStageType DEF IInv, DeskTypeOK
  <2>2. /\ bonuses' \in [Orders -> Nat]
        /\ referrals' \in [Customers -> Nat]
    BY DEF PostRow, IInv, DeskTypeOK
  <2> QED
    BY <1>1, <2>1, <2>2 DEF IInv, DeskTypeOK
<1>5. CancelSeesOpenOrder'
  BY <1>1, AfterStageType
     DEF IInv, DeskTypeOK, CancelSeesOpenOrder, Cancelling, Spinning, Cancellable
<1>6. RequestsOK'
  <2>1. \A v \in Workers \ {w} : RequestOK(v)'
    BY <1>1, OthersOK DEF SameTerms, Placed
  <2>2. /\ req'[w].pc \in {"notify", "read", "done"} /\ req'[w].order = req[w].order
        /\ req'[w].new = req[w].new
    BY <1>1, AfterStageType DEF IInv, DeskTypeOK
  <2>3. inst'[w].due = 0
    BY <1>1, InstType
  <2>4. RequestOK(w)'
    BY <1>1, <2>2, <2>3 DEF IInv, RequestsOK, RequestOK, Placed, Posting
  <2> QED
    BY <2>1, <2>4 DEF RequestsOK
<1>7. OrdersOK'
  BY <1>1 DEF IInv, OrdersOK, Placed
<1> QED
  BY <1>2, <1>3, <1>4, <1>5, <1>6, <1>7 DEF IInv

LEMMA CancelLockStep ==
    ASSUME IInv, NEW w \in Workers, NEW o \in Orders, CancelLock(w, o)
    PROVE  IInv' /\ [W!Next]_(W!wvars)
<1>1. /\ UNCHANGED <<balance, posted, granted, inst, order, walletLock, refunds,
                     bonuses, referrals>>
      /\ lock' = [lock EXCEPT ![o] = w]
      /\ req' = [req EXCEPT ![w] = [NoRequest EXCEPT !.pc = "locked", !.order = o]]
      /\ req[w].pc = "idle" /\ lock[o] = NoOne /\ Cancellable(o)
  BY DEF CancelLock, Goto, At, Free, walletVars, rows
<1>2. [W!Next]_(W!wvars) /\ WP!Inv'
  BY <1>1, WalletStep DEF IInv, W!wvars
<1>3. DeskTypeOK'
  <2>1. [NoRequest EXCEPT !.pc = "locked", !.order = o] \in Request
    BY DEF NoRequest, Request
  <2> QED
    BY <1>1, <2>1 DEF IInv, DeskTypeOK
<1>4. CancelSeesOpenOrder'
  BY <1>1, OrderDeskAssumption
     DEF IInv, DeskTypeOK, CancelSeesOpenOrder, Cancelling, Spinning, Cancellable, NoRequest
<1>5. RequestsOK'
  <2>1. \A v \in Workers \ {w} : RequestOK(v)'
    BY <1>1, OthersOK DEF SameTerms, Placed
  <2>2. RequestOK(w)'
    BY <1>1, InstType DEF IInv, DeskTypeOK, RequestsOK, RequestOK, Placed, Cancellable,
                          Posting, NoRequest
  <2> QED
    BY <2>1, <2>2 DEF RequestsOK
<1>6. OrdersOK'
  BY <1>1 DEF IInv, OrdersOK, Placed
<1> QED
  BY <1>2, <1>3, <1>4, <1>5, <1>6 DEF IInv

LEMMA CancelReadStep ==
    ASSUME IInv, NEW w \in Workers, CancelRead(w)
    PROVE  IInv' /\ [W!Next]_(W!wvars)
<1> DEFINE c == order[req[w].order].customer
<1>1. /\ UNCHANGED <<order, lock, walletLock, refunds, bonuses, referrals>>
      /\ req' = [req EXCEPT ![w] = [req[w] EXCEPT !.pc = "refund"]]
      /\ inst' = [inst EXCEPT ![w] = [owner |-> c, balance |-> balance[c], due |-> 0]]
      /\ req[w].pc = "locked"
  BY DEF CancelRead, Goto, At, rows, W!Open
<1>2. c \in Customers
  BY <1>1 DEF IInv, RequestsOK, RequestOK, OrdersOK
<1>3. W!Next
  BY <1>2 DEF CancelRead, W!Next, W!Step
<1>4. WP!Inv'
  BY <1>3, WalletStep DEF IInv
<1>5. DeskTypeOK'
  <2>1. [req[w] EXCEPT !.pc = "refund"] \in Request
    BY DEF IInv, DeskTypeOK, Request
  <2> QED
    BY <1>1, <2>1 DEF IInv, DeskTypeOK
<1>6. CancelSeesOpenOrder'
  BY <1>1 DEF IInv, DeskTypeOK, CancelSeesOpenOrder, Cancelling, Spinning, Cancellable
<1>7. RequestsOK'
  <2>1. \A v \in Workers \ {w} : RequestOK(v)'
    BY <1>1, OthersOK DEF SameTerms, Placed
  <2>2. /\ req'[w].pc = "refund" /\ req'[w].order = req[w].order
    BY <1>1 DEF IInv, DeskTypeOK, Request
  <2>3. inst'[w].owner = c /\ inst'[w].due = 0
    BY <1>1, InstType
  <2>4. RequestOK(w)'
    BY <1>1, <2>2, <2>3 DEF IInv, RequestsOK, RequestOK, Placed, Posting
  <2> QED
    BY <2>1, <2>4 DEF RequestsOK
<1>8. OrdersOK'
  BY <1>1 DEF IInv, OrdersOK, Placed
<1> QED
  BY <1>3, <1>4, <1>5, <1>6, <1>7, <1>8 DEF IInv

LEMMA CancelCommitStep ==
    ASSUME IInv, NEW w \in Workers, CancelCommit(w)
    PROVE  IInv' /\ [W!Next]_(W!wvars)
<1> DEFINE o == req[w].order
           a == order[o].used
<1>1. /\ UNCHANGED <<walletLock, bonuses, referrals>>
      /\ order' = [order EXCEPT ![o].status = "cancelled"]
      /\ lock' = Unlocked(w)
      /\ req' = [req EXCEPT ![w] = [NoRequest EXCEPT !.pc = "done"]]
      /\ req[w].pc = "refund"
  BY DEF CancelCommit, Goto, At
<1>2. /\ o \in Orders /\ Placed(o)
      /\ a \in Amounts \cup {0}
  BY <1>1 DEF IInv, RequestsOK, RequestOK, OrdersOK
<1>3. ASSUME a > 0, W!CreditTx(w, a) PROVE W!Next
  BY <1>2, <1>3 DEF W!Next, W!Step
<1>4. UNCHANGED walletVars => UNCHANGED (W!wvars)
  BY DEF walletVars, W!wvars
<1>5. [W!Next]_(W!wvars)
  BY <1>3, <1>4 DEF CancelCommit
<1>6. WP!Inv'
  BY <1>5, WalletStep DEF IInv
<1>7. /\ \A v \in Workers \ {w} : inst'[v] = inst[v]
      /\ inst'[w].due = 0
  <2>1. CASE W!CreditTx(w, a)
    BY <2>1, <1>1, InstType DEF W!CreditTx, IInv, RequestsOK, RequestOK
  <2>2. CASE UNCHANGED walletVars
    BY <2>2, <1>1 DEF walletVars, IInv, RequestsOK, RequestOK
  <2> QED
    BY <2>1, <2>2 DEF CancelCommit
<1>8. /\ order' \in [Orders -> OrderRow]
      /\ \A p \in Orders : Placed(p) => SameTerms(p)
      /\ \A p \in Orders : order'[p].rider = order[p].rider
      /\ \A p \in Orders : ~Placed(p) => order'[p].status = order[p].status
      /\ \A p \in Orders \ {o} : order'[p] = order[p]
  BY SMTT(30), <1>1, <1>2 DEF IInv, DeskTypeOK, OrderRow, Statuses, Placed, SameTerms
<1>9. DeskTypeOK'
  <2>1. refunds' \in [Orders -> Nat]
    BY <1>2 DEF CancelCommit, IInv, DeskTypeOK
  <2>2. req' \in [Workers -> Request]
    BY <1>1 DEF IInv, DeskTypeOK, NoRequest, Request
  <2>3. lock' \in [Orders -> Workers \cup {NoOne}]
    BY <1>1 DEF IInv, DeskTypeOK, Unlocked
  <2> QED
    BY <1>1, <1>8, <2>1, <2>2, <2>3 DEF IInv, DeskTypeOK
<1>10. CancelSeesOpenOrder'
  <2>1. /\ \A v \in Workers \ {w} : req'[v] = req[v]
        /\ req'[w].pc = "done"
    BY <1>1 DEF IInv, DeskTypeOK, NoRequest
  <2>2. \A p \in Orders : lock'[p] = IF lock[p] = w THEN NoOne ELSE lock[p]
    BY <1>1 DEF Unlocked
  <2>3. lock[o] = w
    BY <1>1 DEF IInv, CancelSeesOpenOrder, Cancelling, Spinning
  <2>4. ASSUME NEW v \in Workers, Cancelling(v)' \/ Spinning(v)'
        PROVE  /\ Cancelling(v)' => (lock[req[v].order] = v /\ Cancellable(req[v].order))'
               /\ Spinning(v)' => (lock[req[v].order] = v
                                      /\ order[req[v].order].status = "delivered")'
    <3>1. /\ v # w /\ req'[v] = req[v]
          /\ Cancelling(v) <=> Cancelling(v)'
          /\ Spinning(v) <=> Spinning(v)'
      BY <2>1, <2>4 DEF Cancelling, Spinning
    <3>2. /\ req[v].order \in Orders
          /\ lock[req[v].order] = v
          /\ Cancelling(v) => Cancellable(req[v].order)
          /\ Spinning(v) => order[req[v].order].status = "delivered"
      BY <2>4, <3>1 DEF IInv, CancelSeesOpenOrder, RequestsOK, RequestOK, Cancelling, Spinning
    <3>3. req[v].order # o
      BY <2>3, <3>1, <3>2
    <3> QED
      BY <1>8, <2>2, <3>1, <3>2, <3>3 DEF Cancellable
  <2>5. ASSUME NEW p \in Orders, lock'[p] \in Workers
        PROVE  (/\ Cancelling(lock[p]) \/ Spinning(lock[p])
                /\ req[lock[p]].order = p)'
    BY <2>1, <2>2, <2>5, OrderDeskAssumption DEF IInv, CancelSeesOpenOrder, Cancelling, Spinning
  <2> QED
    BY <2>4, <2>5 DEF CancelSeesOpenOrder, Cancelling, Spinning
<1>11. RequestsOK'
  <2>1. \A v \in Workers \ {w} : RequestOK(v)'
    BY <1>1, <1>7, <1>8, OthersOK
  <2>2. RequestOK(w)'
    BY <1>1, <1>7 DEF IInv, DeskTypeOK, RequestOK, NoRequest, Posting
  <2> QED
    BY <2>1, <2>2 DEF RequestsOK
<1>12. OrdersOK'
  BY <1>8 DEF IInv, OrdersOK, Placed, SameTerms
<1> QED
  BY <1>5, <1>6, <1>9, <1>10, <1>11, <1>12 DEF IInv

\* Assign and SaveStatus touch the status (and the rider) of an order that is
\* placed and that no transaction holds.
LEMMA StatusWrite ==
    ASSUME IInv, NEW o \in Orders, Placed(o), lock[o] = NoOne,
           NEW st \in Statuses, NEW r \in Riders \cup {NoOne}, NEW d \in BOOLEAN,
           order' = [order EXCEPT ![o] = [@ EXCEPT !.status = st, !.rider = r,
                                                   !.deliveredAt = d]],
           UNCHANGED lock
    PROVE  /\ order' \in [Orders -> OrderRow]
           /\ \A p \in Orders : Placed(p) => SameTerms(p)
           /\ OrdersOK'
           /\ \A v \in Workers : Cancelling(v) \/ Spinning(v) =>
                 order'[req[v].order] = order[req[v].order]
<1>1. order[o] \in OrderRow
  BY DEF IInv, DeskTypeOK
<1>2. /\ \A p \in Orders \ {o} : order'[p] = order[p]
      /\ order'[o] \in OrderRow
      /\ order'[o].status = st
      /\ order'[o].customer = order[o].customer
      /\ order'[o].subtotal = order[o].subtotal
      /\ order'[o].used = order[o].used
      /\ order'[o].bonus = order[o].bonus
  BY <1>1 DEF IInv, DeskTypeOK, OrderRow
<1>3. order' \in [Orders -> OrderRow]
  BY <1>2 DEF IInv, DeskTypeOK
<1>4. \A p \in Orders : Placed(p) => SameTerms(p)
  BY <1>2 DEF Placed, SameTerms, Statuses
<1>5. OrdersOK'
  BY <1>2, <1>4 DEF IInv, OrdersOK, Placed, SameTerms
<1>6. \A v \in Workers : Cancelling(v) \/ Spinning(v) =>
         order'[req[v].order] = order[req[v].order]
  BY <1>2, OrderDeskAssumption
     DEF IInv, CancelSeesOpenOrder, RequestsOK, RequestOK, Cancelling, Spinning
<1> QED
  BY <1>3, <1>4, <1>5, <1>6

LEMMA AssignStep ==
    ASSUME IInv, NEW w \in Workers, NEW o \in Orders, NEW r \in Riders, Assign(w, o, r)
    PROVE  IInv' /\ [W!Next]_(W!wvars)
<1>1. /\ UNCHANGED <<balance, posted, granted, inst, lock, walletLock, req, refunds,
                     bonuses, referrals>>
      /\ Placed(o) /\ lock[o] = NoOne
  BY DEF Assign, Free, Placed, walletVars, rows
<1>2. [W!Next]_(W!wvars) /\ WP!Inv'
  BY <1>1, WalletStep DEF IInv, W!wvars
<1>3. /\ order[o].deliveredAt \in BOOLEAN
      /\ order' = [order EXCEPT ![o] = [@ EXCEPT !.status = "confirmed", !.rider = r,
                                                 !.deliveredAt = order[o].deliveredAt]]
  BY DEF Assign, IInv, DeskTypeOK, OrderRow
<1>4. /\ order' \in [Orders -> OrderRow]
      /\ \A p \in Orders : Placed(p) => SameTerms(p)
      /\ OrdersOK'
      /\ \A v \in Workers : Cancelling(v) \/ Spinning(v) =>
            order'[req[v].order] = order[req[v].order]
  BY <1>1, <1>3, StatusWrite DEF Statuses
<1>5. DeskTypeOK'
  BY <1>1, <1>4 DEF IInv, DeskTypeOK
<1>6. CancelSeesOpenOrder'
  BY <1>1, <1>4 DEF IInv, CancelSeesOpenOrder, Cancelling, Spinning, Cancellable
<1>7. RequestsOK'
  <2>1. \A v \in Workers \ {w} : RequestOK(v)'
    BY <1>1, <1>4, OthersOK
  <2>2. RequestOK(w)'
    BY <1>1 DEF Assign, At, IInv, RequestsOK, RequestOK, Posting
  <2> QED
    BY <2>1, <2>2 DEF RequestsOK
<1> QED
  BY <1>2, <1>4, <1>5, <1>6, <1>7 DEF IInv

LEMMA AfterSaveType ==
    ASSUME NEW r \in Request
    PROVE  /\ AfterSave(r) \in Request
           /\ AfterSave(r).order = r.order
           /\ AfterSave(r).new = r.new
           /\ AfterSave(r).pc \in {"notify", "read"}
           /\ AfterSave(r).pc = "read" => AfterSave(r).stage \in {"signal", "referral"}
<1>1. CASE r.new = r.prev
  BY <1>1 DEF AfterSave, Request
<1>2. CASE r.new # r.prev /\ r.new = "delivered"
  BY <1>2 DEF AfterSave, Request
<1>3. CASE r.new # r.prev /\ r.new # "delivered"
  BY <1>3 DEF AfterSave, Request
<1> QED
  BY <1>1, <1>2, <1>3

LEMMA SaveStatusStep ==
    ASSUME IInv, NEW w \in Workers, SaveStatus(w)
    PROVE  IInv' /\ [W!Next]_(W!wvars)
<1> DEFINE o == req[w].order
           d == order[o].deliveredAt \/ req[w].new = "delivered"
<1>1. /\ UNCHANGED <<balance, posted, granted, inst, lock, walletLock, refunds, bonuses, referrals>>
      /\ req' = [req EXCEPT ![w] = AfterSave(req[w])]
      /\ req[w].pc = "save" /\ lock[o] = NoOne
  BY DEF SaveStatus, At, Goto, Free, walletVars, rows
<1>2. /\ o \in Orders /\ Placed(o)
      /\ req[w].new \in Statuses
      /\ req[w] \in Request
  BY <1>1 DEF IInv, DeskTypeOK, RequestsOK, RequestOK, Posting
<1>3. [W!Next]_(W!wvars) /\ WP!Inv'
  BY <1>1, WalletStep DEF IInv, W!wvars
<1>4. /\ d \in BOOLEAN
      /\ order[o].rider \in Riders \cup {NoOne}
      /\ order' = [order EXCEPT ![o] = [@ EXCEPT !.status = req[w].new, !.rider = order[o].rider,
                                                 !.deliveredAt = d]]
  BY <1>2 DEF SaveStatus, IInv, DeskTypeOK, OrderRow
<1>5. /\ order' \in [Orders -> OrderRow]
      /\ \A p \in Orders : Placed(p) => SameTerms(p)
      /\ OrdersOK'
      /\ \A v \in Workers : Cancelling(v) \/ Spinning(v) =>
            order'[req[v].order] = order[req[v].order]
  BY <1>1, <1>2, <1>4, StatusWrite
<1>6. /\ req' \in [Workers -> Request]
      /\ \A v \in Workers \ {w} : req'[v] = req[v]
      /\ req'[w].pc \in {"notify", "read"}
      /\ req'[w].order = o
      /\ req'[w].new = req[w].new
  BY <1>1, <1>2, AfterSaveType DEF IInv, DeskTypeOK
<1>7. DeskTypeOK'
  BY <1>1, <1>5, <1>6 DEF IInv, DeskTypeOK
<1>8. CancelSeesOpenOrder'
  BY <1>1, <1>5, <1>6 DEF IInv, CancelSeesOpenOrder, Cancelling, Spinning, Cancellable
<1>9. RequestsOK'
  <2>1. \A v \in Workers \ {w} : RequestOK(v)'
    BY <1>1, <1>5, <1>6, OthersOK
  <2>2. RequestOK(w)'
    BY <1>1, <1>2, <1>5, <1>6
       DEF IInv, RequestsOK, RequestOK, Posting, Placed, SameTerms
  <2> QED
    BY <2>1, <2>2 DEF RequestsOK
<1> QED
  BY <1>3, <1>5, <1>7, <1>8, <1>9 DEF IInv

\* What the discount takes from the wallet is nothing, or an amount.
LEMMA SpendIsAmount ==
    ASSUME IInv, NEW w \in Workers, NEW s \in Subtotals
    PROVE  Spend(w, s) \in Amounts \cup {0}
<1>1. inst[w].balance \in Nat /\ WalletShare[s] \in Nat
  BY InstType, OrderDeskAssumption
<1>2. Spend(w, s) \in 0..WalletShare[s]
  BY <1>1 DEF Spend, MinOf
<1>3. CASE Spend(w, s) # 0
  <2>1. Spend(w, s) \in 1..WalletShare[s]
    BY <1>1, <1>2, <1>3
  <2>2. Spend(w, s) \in UNION {1..WalletShare[t] : t \in Subtotals}
    BY <2>1
  <2> QED
    BY <1>3, <2>2 DEF Amounts
<1> QED
  BY <1>3

LEMMA CheckoutCommitStep ==
    ASSUME IInv, NEW w \in Workers, NEW o \in Orders, NEW s \in Subtotals,
           NEW b \in DeliveryBonuses, CheckoutCommit(w, o, s, b)
    PROVE  IInv' /\ [W!Next]_(W!wvars)
<1> DEFINE a == Spend(w, s)
           row == [Unplaced EXCEPT !.status = "placed", !.customer = inst[w].owner,
                                   !.subtotal = s, !.used = a, !.bonus = b]
<1>1. /\ UNCHANGED <<lock, refunds, bonuses, referrals>>
      /\ order' = [order EXCEPT ![o] = row]
      /\ req' = [req EXCEPT ![w] = [NoRequest EXCEPT !.pc = "done"]]
      /\ req[w].pc \in {"checkout", "debited"}
      /\ walletLock' = WalletUnlocked(w)
      /\ ~Placed(o)
  BY DEF CheckoutCommit, Debited, At, Goto, Placed, rows
<1>2. /\ a \in Amounts \cup {0} /\ a \in Nat
      /\ inst[w].owner \in Customers
      /\ inst[w].due = 0
      /\ b \in Amounts \cup {0} /\ b \in Nat
      /\ s \in Nat
  <2>1. b \in Amounts \cup {0}
    BY OrderDeskAssumption DEF Amounts
  <2> QED
    BY <1>1, <2>1, SpendIsAmount, AmountsArePositive, OrderDeskAssumption
       DEF IInv, RequestsOK, RequestOK
<1>3. ASSUME a > 0, W!DebitTx(w, a) PROVE W!Next
  BY <1>2, <1>3 DEF W!Next, W!Step
<1>4. UNCHANGED walletVars => UNCHANGED (W!wvars)
  BY DEF walletVars, W!wvars
<1>5. [W!Next]_(W!wvars)
  BY <1>3, <1>4 DEF CheckoutCommit
<1>6. WP!Inv'
  BY <1>5, WalletStep DEF IInv
<1>7. /\ \A v \in Workers \ {w} : inst'[v] = inst[v]
      /\ inst'[w].due = 0
  <2>1. CASE W!DebitTx(w, a)
    BY <2>1, <1>2, InstType DEF W!DebitTx
  <2>2. CASE UNCHANGED walletVars
    BY <2>2, <1>2 DEF walletVars
  <2> QED
    BY <2>1, <2>2 DEF CheckoutCommit
<1>8. /\ row \in OrderRow
      /\ row.status = "placed" /\ row.customer = inst[w].owner /\ row.rider = NoOne
      /\ row.used = a /\ row.bonus = b
  BY <1>2 DEF Unplaced, OrderRow, Statuses
<1>9. /\ order' \in [Orders -> OrderRow]
      /\ order'[o] = row
      /\ \A p \in Orders \ {o} : order'[p] = order[p]
      /\ \A p \in Orders : Placed(p) => SameTerms(p)
  BY <1>1, <1>8 DEF IInv, DeskTypeOK, Placed, SameTerms
<1>10. /\ req' \in [Workers -> Request]
       /\ req'[w].pc = "done"
       /\ \A v \in Workers \ {w} : req'[v] = req[v]
  BY <1>1 DEF IInv, DeskTypeOK, NoRequest, Request
<1>11. DeskTypeOK'
  <2>1. walletLock' \in [Customers -> Workers \cup {NoOne}]
    BY <1>1 DEF IInv, DeskTypeOK, WalletUnlocked
  <2> QED
    BY <1>1, <1>9, <1>10, <2>1 DEF IInv, DeskTypeOK
<1>12. CancelSeesOpenOrder'
  <2>1. \A v \in Workers : Cancelling(v) \/ Spinning(v) => req[v].order \in Orders \ {o}
    BY <1>1 DEF IInv, RequestsOK, RequestOK, Cancelling, Spinning
  <2> QED
    BY <1>1, <1>9, <1>10, <2>1 DEF IInv, CancelSeesOpenOrder, Cancelling, Spinning, Cancellable
<1>13. RequestsOK'
  <2>1. \A v \in Workers \ {w} : RequestOK(v)'
    BY <1>7, <1>9, <1>10, OthersOK
  <2>2. RequestOK(w)'
    BY <1>7, <1>10 DEF RequestOK, Posting
  <2> QED
    BY <2>1, <2>2 DEF RequestsOK
<1>14. OrdersOK'
  <2>1. /\ row.rider \notin Riders
        /\ row.customer \in Customers
        /\ row.used \in Amounts \cup {0} /\ row.bonus \in Amounts \cup {0}
    BY <1>2, <1>8, OrderDeskAssumption
  <2> HIDE DEF row
  <2> QED
    BY <1>9, <2>1 DEF IInv, OrdersOK, Placed
<1> QED
  BY <1>5, <1>6, <1>11, <1>12, <1>13, <1>14 DEF IInv

LEMMA CheckoutDebitStep ==
    ASSUME IInv, NEW w \in Workers, NEW o \in Orders, NEW s \in Subtotals, CheckoutDebit(w, o, s)
    PROVE  IInv' /\ [W!Next]_(W!wvars)
<1> DEFINE r == [NoRequest EXCEPT !.pc = "debited", !.order = o]
<1>1. /\ UNCHANGED <<balance, posted, granted, inst, order, lock, refunds, bonuses, referrals>>
      /\ walletLock' = [walletLock EXCEPT ![inst[w].owner] = w]
      /\ req' = [req EXCEPT ![w] = r]
      /\ req[w].pc = "checkout"
  BY DEF CheckoutDebit, Goto, At, walletVars, rows
<1>2. [W!Next]_(W!wvars) /\ WP!Inv'
  BY <1>1, WalletStep DEF IInv, W!wvars
<1>3. r \in Request /\ r.pc = "debited" /\ r.order = o
  BY DEF NoRequest, Request
<1> HIDE DEF r
<1>4. DeskTypeOK'
  BY <1>1, <1>3 DEF IInv, DeskTypeOK
<1>5. CancelSeesOpenOrder'
  BY <1>1, <1>3 DEF IInv, DeskTypeOK, CancelSeesOpenOrder, Cancelling, Spinning, Cancellable
<1>6. RequestsOK'
  <2>1. \A v \in Workers \ {w} : RequestOK(v)'
    BY <1>1, OthersOK DEF SameTerms, Placed
  <2>2. RequestOK(w)'
    BY <1>1, <1>3 DEF IInv, DeskTypeOK, RequestsOK, RequestOK, Posting
  <2> QED
    BY <2>1, <2>2 DEF RequestsOK
<1>7. OrdersOK'
  BY <1>1 DEF IInv, OrdersOK, Placed
<1> QED
  BY <1>2, <1>4, <1>5, <1>6, <1>7 DEF IInv

LEMMA SpinLockStep ==
    ASSUME IInv, NEW w \in Workers, NEW o \in Orders, SpinLock(w, o)
    PROVE  IInv' /\ [W!Next]_(W!wvars)
<1> DEFINE r == [pc |-> "spin", stage |-> "referral", order |-> o,
                 new |-> "delivered", prev |-> "delivered"]
<1>1. /\ UNCHANGED <<balance, posted, granted, inst, order, walletLock, refunds,
                     bonuses, referrals>>
      /\ lock' = [lock EXCEPT ![o] = w]
      /\ req' = [req EXCEPT ![w] = r]
      /\ req[w].pc = "idle" /\ lock[o] = NoOne /\ order[o].status = "delivered"
  BY DEF SpinLock, Goto, At, Free, walletVars, rows
<1>2. [W!Next]_(W!wvars) /\ WP!Inv'
  BY <1>1, WalletStep DEF IInv, W!wvars
<1>3. DeskTypeOK'
  BY <1>1 DEF IInv, DeskTypeOK, Request, Statuses
<1>4. CancelSeesOpenOrder'
  BY <1>1, OrderDeskAssumption
     DEF IInv, DeskTypeOK, CancelSeesOpenOrder, Cancelling, Spinning, Cancellable
<1>5. RequestsOK'
  <2>1. \A v \in Workers \ {w} : RequestOK(v)'
    BY <1>1, OthersOK DEF SameTerms, Placed
  <2>2. RequestOK(w)'
    BY <1>1, InstType DEF IInv, DeskTypeOK, RequestsOK, RequestOK, Placed, Posting
  <2> QED
    BY <2>1, <2>2 DEF RequestsOK
<1>6. OrdersOK'
  BY <1>1 DEF IInv, OrdersOK, Placed
<1> QED
  BY <1>2, <1>3, <1>4, <1>5, <1>6 DEF IInv

\* The transaction of a spin ends, and its order is free.
LEMMA SpinOver ==
    ASSUME IInv, NEW w \in Workers, Spinning(w),
           lock' = Unlocked(w), req' = [req EXCEPT ![w] = [NoRequest EXCEPT !.pc = "done"]],
           order' = order, walletLock' = walletLock,
           bonuses' = bonuses, refunds' = refunds, referrals' \in [Customers -> Nat],
           \A v \in Workers \ {w} : inst'[v] = inst[v], inst'[w].due = 0,
           [W!Next]_(W!wvars)
    PROVE  IInv'
<1>1. WP!Inv'
  BY WalletStep DEF IInv
<1>2. [NoRequest EXCEPT !.pc = "done"]
          = [pc |-> "done", stage |-> "none", order |-> NoOne, new |-> "none", prev |-> "none"]
  BY DEF NoRequest
<1>3. DeskTypeOK'
  <2>1. lock' \in [Orders -> Workers \cup {NoOne}]
    BY DEF IInv, DeskTypeOK, Unlocked
  <2> QED
    BY <1>2, <2>1 DEF IInv, DeskTypeOK, Request
<1>4. /\ \A v \in Workers \ {w} : req'[v] = req[v]
      /\ req'[w].pc = "done"
      /\ \A p \in Orders : lock'[p] = IF lock[p] = w THEN NoOne ELSE lock[p]
  BY <1>2 DEF IInv, DeskTypeOK, Unlocked
<1>5. CancelSeesOpenOrder'
  <2>1. ASSUME NEW v \in Workers, Cancelling(v)' \/ Spinning(v)'
        PROVE  /\ Cancelling(v)' => (lock[req[v].order] = v /\ Cancellable(req[v].order))'
               /\ Spinning(v)' => (lock[req[v].order] = v
                                      /\ order[req[v].order].status = "delivered")'
    <3>1. /\ v # w /\ req'[v] = req[v]
          /\ Cancelling(v) <=> Cancelling(v)'
          /\ Spinning(v) <=> Spinning(v)'
      BY <1>4, <2>1 DEF Cancelling, Spinning
    <3>2. /\ req[v].order \in Orders
          /\ lock[req[v].order] = v
          /\ Cancelling(v) => Cancellable(req[v].order)
          /\ Spinning(v) => order[req[v].order].status = "delivered"
      BY <2>1, <3>1 DEF IInv, CancelSeesOpenOrder, RequestsOK, RequestOK, Cancelling, Spinning
    <3> QED
      BY <1>4, <3>1, <3>2 DEF Cancellable
  <2>2. ASSUME NEW p \in Orders, lock'[p] \in Workers
        PROVE  (/\ Cancelling(lock[p]) \/ Spinning(lock[p])
                /\ req[lock[p]].order = p)'
    BY <1>4, <2>2, OrderDeskAssumption DEF IInv, CancelSeesOpenOrder, Cancelling, Spinning
  <2> QED
    BY <2>1, <2>2 DEF CancelSeesOpenOrder, Cancelling, Spinning
<1>6. RequestsOK'
  <2>1. \A v \in Workers \ {w} : RequestOK(v)'
    BY <1>4, OthersOK DEF SameTerms, Placed
  <2>2. RequestOK(w)'
    BY <1>4 DEF RequestOK, Posting
  <2> QED
    BY <2>1, <2>2 DEF RequestsOK
<1>7. OrdersOK'
  BY DEF IInv, OrdersOK, Placed
<1> QED
  BY <1>1, <1>3, <1>5, <1>6, <1>7 DEF IInv

LEMMA SpinEndStep ==
    ASSUME IInv, NEW w \in Workers, SpinEnd(w) \/ SpinFound(w)
    PROVE  IInv' /\ [W!Next]_(W!wvars)
<1>1. /\ UNCHANGED <<balance, posted, granted, inst, order, walletLock, refunds,
                     bonuses, referrals>>
      /\ lock' = Unlocked(w)
      /\ req' = [req EXCEPT ![w] = [NoRequest EXCEPT !.pc = "done"]]
      /\ req[w].pc \in {"spin", "spincheck"}
  BY DEF SpinEnd, SpinFound, Goto, At, walletVars, rows
<1>2. [W!Next]_(W!wvars)
  BY <1>1 DEF W!wvars
<1>3. referrals' \in [Customers -> Nat] /\ inst'[w].due = 0 /\ Spinning(w)
  BY <1>1 DEF IInv, DeskTypeOK, RequestsOK, RequestOK, Spinning
<1> QED
  BY <1>1, <1>2, <1>3, SpinOver

LEMMA SpinReadStep ==
    ASSUME IInv, NEW w \in Workers, SpinRead(w)
    PROVE  IInv' /\ [W!Next]_(W!wvars)
<1> DEFINE c == Payee(req[w])
           r == [req[w] EXCEPT !.pc = "spincheck"]
<1>1. /\ UNCHANGED <<order, lock, walletLock, refunds, bonuses, referrals>>
      /\ req' = [req EXCEPT ![w] = r]
      /\ inst' = [inst EXCEPT ![w] = [owner |-> c, balance |-> balance[c], due |-> 0]]
      /\ req[w].pc = "spin" /\ Due(req[w])
  BY DEF SpinRead, Goto, At, rows, W!Open
<1>2. c \in Customers
  BY <1>1, OrderDeskAssumption
     DEF IInv, RequestsOK, RequestOK, OrdersOK, Due, Payee
<1>3. W!Next
  BY <1>2 DEF SpinRead, W!Next, W!Step
<1>4. WP!Inv'
  BY <1>3, WalletStep DEF IInv
<1>5. /\ r \in Request /\ r.pc = "spincheck"
      /\ r.order = req[w].order /\ r.stage = req[w].stage /\ r.new = req[w].new
  BY DEF IInv, DeskTypeOK, Request
<1> HIDE DEF r
<1>6. DeskTypeOK'
  BY <1>1, <1>5 DEF IInv, DeskTypeOK
<1>7. req'[w] = r /\ inst'[w].owner = c /\ inst'[w].due = 0
  BY <1>1, InstType DEF IInv, DeskTypeOK
<1>8. CancelSeesOpenOrder'
  BY <1>1, <1>5, <1>7 DEF IInv, DeskTypeOK, CancelSeesOpenOrder, Cancelling, Spinning, Cancellable
<1>9. RequestsOK'
  <2>1. \A v \in Workers \ {w} : req'[v] = req[v] /\ inst'[v] = inst[v]
    BY <1>1, InstType DEF IInv, DeskTypeOK
  <2>2. \A v \in Workers \ {w} : RequestOK(v)'
    BY <1>1, <2>1, OthersOK DEF SameTerms, Placed
  <2>3. RequestOK(w)
    BY DEF IInv, RequestsOK
  <2>4. RequestOK(w)'
    BY <1>1, <1>5, <1>7, <2>3 DEF RequestOK, Placed, Posting, Due, Payee
  <2> QED
    BY <2>2, <2>4 DEF RequestsOK
<1>10. OrdersOK'
  BY <1>1 DEF IInv, OrdersOK, Placed
<1> QED
  BY <1>3, <1>4, <1>6, <1>8, <1>9, <1>10 DEF IInv

LEMMA SpinNotFoundStep ==
    ASSUME IInv, NEW w \in Workers, SpinNotFound(w)
    PROVE  IInv' /\ [W!Next]_(W!wvars)
<1> DEFINE r == [req[w] EXCEPT !.pc = "spinpay"]
<1>1. /\ UNCHANGED <<balance, posted, granted, inst, order, lock, walletLock, refunds,
                     bonuses, referrals>>
      /\ req' = [req EXCEPT ![w] = r]
      /\ req[w].pc = "spincheck"
  BY DEF SpinNotFound, Goto, At, walletVars, rows
<1>2. [W!Next]_(W!wvars) /\ WP!Inv'
  BY <1>1, WalletStep DEF IInv, W!wvars
<1>3. /\ r \in Request /\ r.pc = "spinpay"
      /\ r.order = req[w].order /\ r.stage = req[w].stage /\ r.new = req[w].new
  BY DEF IInv, DeskTypeOK, Request
<1> HIDE DEF r
<1>4. DeskTypeOK'
  BY <1>1, <1>3 DEF IInv, DeskTypeOK
<1>5. req'[w] = r
  BY <1>1 DEF IInv, DeskTypeOK
<1>6. CancelSeesOpenOrder'
  BY <1>1, <1>3, <1>5 DEF IInv, DeskTypeOK, CancelSeesOpenOrder, Cancelling, Spinning, Cancellable
<1>7. RequestsOK'
  <2>1. \A v \in Workers \ {w} : RequestOK(v)'
    BY <1>1, OthersOK DEF SameTerms, Placed
  <2>2. RequestOK(w)'
    BY <1>1, <1>3, <1>5 DEF IInv, RequestsOK, RequestOK, Placed, Posting, Due, Payee
  <2> QED
    BY <2>1, <2>2 DEF RequestsOK
<1>8. OrdersOK'
  BY <1>1 DEF IInv, OrdersOK, Placed
<1> QED
  BY <1>2, <1>4, <1>6, <1>7, <1>8 DEF IInv

LEMMA SpinPayStep ==
    ASSUME IInv, NEW w \in Workers, SpinPay(w)
    PROVE  IInv' /\ [W!Next]_(W!wvars)
<1> DEFINE c == order[req[w].order].customer
<1>1. /\ UNCHANGED <<order, walletLock, refunds, bonuses>>
      /\ referrals' = [referrals EXCEPT ![c] = @ + 1]
      /\ lock' = Unlocked(w)
      /\ req' = [req EXCEPT ![w] = [NoRequest EXCEPT !.pc = "done"]]
      /\ req[w].pc = "spinpay"
      /\ W!CreditTx(w, ReferralBonus)
  BY DEF SpinPay, Goto, At
<1>2. c \in Customers
  BY <1>1 DEF IInv, RequestsOK, RequestOK, OrdersOK
<1>3. ReferralBonus \in Amounts
  BY OrderDeskAssumption DEF Amounts
<1>4. [W!Next]_(W!wvars)
  BY <1>1, <1>3 DEF W!Next, W!Step
<1>5. /\ \A v \in Workers \ {w} : inst'[v] = inst[v]
      /\ inst'[w].due = 0
  BY <1>1, InstType DEF W!CreditTx, IInv, RequestsOK, RequestOK
<1>6. referrals' \in [Customers -> Nat] /\ Spinning(w)
  BY <1>1, <1>2 DEF IInv, DeskTypeOK, Spinning
<1> QED
  BY <1>1, <1>4, <1>5, <1>6, SpinOver

LEMMA ReplyStep ==
    ASSUME IInv, NEW w \in Workers, Reply(w)
    PROVE  IInv' /\ [W!Next]_(W!wvars)
<1>1. /\ UNCHANGED <<order, lock, walletLock, refunds, bonuses, referrals>>
      /\ req' = [req EXCEPT ![w] = NoRequest]
      /\ inst' = [inst EXCEPT ![w] = W!NoInstance]
      /\ req[w].pc = "done"
  BY DEF Reply, Goto, At, rows, W!Close
<1>2. W!Next
  BY DEF Reply, W!Next, W!Step
<1>3. WP!Inv'
  BY <1>2, WalletStep DEF IInv
<1>4. DeskTypeOK'
  BY <1>1 DEF IInv, DeskTypeOK, NoRequest, Request
<1>5. CancelSeesOpenOrder'
  BY <1>1 DEF IInv, DeskTypeOK, CancelSeesOpenOrder, Cancelling, Spinning, Cancellable, NoRequest
<1>6. RequestsOK'
  <2>1. \A v \in Workers \ {w} : RequestOK(v)'
    BY <1>1, OthersOK DEF SameTerms, Placed
  <2>2. RequestOK(w)'
    BY <1>1, InstType DEF IInv, DeskTypeOK, RequestOK, NoRequest, Posting, W!NoInstance
  <2> QED
    BY <2>1, <2>2 DEF RequestsOK
<1>7. OrdersOK'
  BY <1>1 DEF IInv, OrdersOK, Placed
<1> QED
  BY <1>2, <1>3, <1>4, <1>5, <1>6, <1>7 DEF IInv

LEMMA AbandonStep ==
    ASSUME IInv, NEW w \in Workers, BrokerDown(w) \/ Die(w)
    PROVE  IInv' /\ [W!Next]_(W!wvars)
<1>1. /\ UNCHANGED <<order, refunds, bonuses, referrals>>
      /\ lock' = Unlocked(w) /\ walletLock' = WalletUnlocked(w)
      /\ req' = [req EXCEPT ![w] = NoRequest]
      /\ inst' = [inst EXCEPT ![w] = W!NoInstance]
  BY DEF BrokerDown, Die, Abandon, Goto, rows, W!Close, W!Crash
<1>2. W!Next
  BY DEF BrokerDown, Die, Abandon, W!Next, W!Step
<1>3. WP!Inv'
  BY <1>2, WalletStep DEF IInv
<1>4. /\ \A v \in Workers \ {w} : req'[v] = req[v]
      /\ req'[w].pc = "idle"
      /\ \A p \in Orders : lock'[p] = IF lock[p] = w THEN NoOne ELSE lock[p]
  BY <1>1 DEF IInv, DeskTypeOK, NoRequest, Unlocked
<1>5. DeskTypeOK'
  <2>1. lock' \in [Orders -> Workers \cup {NoOne}]
    BY <1>1 DEF IInv, DeskTypeOK, Unlocked
  <2>2. walletLock' \in [Customers -> Workers \cup {NoOne}]
    BY <1>1 DEF IInv, DeskTypeOK, WalletUnlocked
  <2> QED
    BY <1>1, <2>1, <2>2 DEF IInv, DeskTypeOK, NoRequest, Request
<1>6. CancelSeesOpenOrder'
  <2>1. ASSUME NEW v \in Workers, Cancelling(v)' \/ Spinning(v)'
        PROVE  /\ Cancelling(v)' => (lock[req[v].order] = v /\ Cancellable(req[v].order))'
               /\ Spinning(v)' => (lock[req[v].order] = v
                                      /\ order[req[v].order].status = "delivered")'
    <3>1. /\ v # w /\ req'[v] = req[v]
          /\ Cancelling(v) <=> Cancelling(v)'
          /\ Spinning(v) <=> Spinning(v)'
      BY <1>4, <2>1 DEF Cancelling, Spinning
    <3>2. /\ req[v].order \in Orders
          /\ lock[req[v].order] = v
          /\ Cancelling(v) => Cancellable(req[v].order)
          /\ Spinning(v) => order[req[v].order].status = "delivered"
      BY <2>1, <3>1 DEF IInv, CancelSeesOpenOrder, RequestsOK, RequestOK, Cancelling, Spinning
    <3> QED
      BY <1>1, <1>4, <3>1, <3>2 DEF Cancellable
  <2>2. ASSUME NEW p \in Orders, lock'[p] \in Workers
        PROVE  (/\ Cancelling(lock[p]) \/ Spinning(lock[p])
                /\ req[lock[p]].order = p)'
    BY <1>4, <2>2, OrderDeskAssumption DEF IInv, CancelSeesOpenOrder, Cancelling, Spinning
  <2> QED
    BY <2>1, <2>2 DEF CancelSeesOpenOrder, Cancelling, Spinning
<1>7. RequestsOK'
  <2>1. \A v \in Workers \ {w} : RequestOK(v)'
    BY <1>1, OthersOK DEF SameTerms, Placed
  <2>2. RequestOK(w)'
    BY <1>1, InstType DEF IInv, DeskTypeOK, RequestOK, NoRequest, Posting, W!NoInstance
  <2> QED
    BY <2>1, <2>2 DEF RequestsOK
<1>8. OrdersOK'
  BY <1>1 DEF IInv, OrdersOK, Placed
<1> QED
  BY <1>2, <1>3, <1>5, <1>6, <1>7, <1>8 DEF IInv

-----------------------------------------------------------------------------
(* The theorems *)

LEMMA InitIInv == Init => IInv
<1> SUFFICES ASSUME Init PROVE IInv
  OBVIOUS
<1>1. WP!Inv
  <2>1. WP!Init
    BY DEF Init, W!Init, WP!Init, W!NoInstance, WP!NoInstance
  <2> QED
    BY <2>1, WP!InitInv, WalletAssumed
<1>2. DeskTypeOK
  BY DEF Init, DeskTypeOK, Unplaced, OrderRow, NoRequest, Request
<1>3. CancelSeesOpenOrder
  BY OrderDeskAssumption DEF Init, CancelSeesOpenOrder, Cancelling, Spinning, NoRequest
<1>4. OrdersOK
  BY OrderDeskAssumption DEF Init, OrdersOK, Placed, Unplaced
<1>5. RequestsOK
  BY DEF Init, RequestsOK, RequestOK, NoRequest, Posting, W!Init, W!NoInstance
<1> QED
  BY <1>1, <1>2, <1>3, <1>4, <1>5 DEF IInv

LEMMA StepIInv == IInv /\ [Next]_vars => IInv' /\ [W!Next]_(W!wvars)
<1> SUFFICES ASSUME IInv, [Next]_vars PROVE IInv' /\ [W!Next]_(W!wvars)
  OBVIOUS
<1>1. CASE UNCHANGED vars
  <2>1. UNCHANGED (W!wvars)
    BY <1>1 DEF vars, W!wvars
  <2>2. WP!Inv'
    BY <2>1, WalletStep DEF IInv
  <2>3. DeskTypeOK' /\ OrdersOK'
    BY <1>1 DEF vars, IInv, DeskTypeOK, OrdersOK, Placed
  <2>4. CancelSeesOpenOrder'
    BY <1>1 DEF vars, IInv, CancelSeesOpenOrder, Cancelling, Spinning, Cancellable
  <2>5. RequestsOK'
    BY <1>1 DEF vars, IInv, RequestsOK, RequestOK, Placed, Due, Payee
  <2> QED
    BY <2>1, <2>2, <2>3, <2>4, <2>5 DEF IInv
<1>2. ASSUME NEW w \in Workers, Start(w) PROVE IInv' /\ [W!Next]_(W!wvars)
  BY <1>2, CheckoutOpenStep, CancelLockStep, AssignStep, RiderLoadStep, SpinLockStep DEF Start
<1>3. ASSUME NEW w \in Workers, Serve(w) PROVE IInv' /\ [W!Next]_(W!wvars)
  BY <1>3, CheckoutDebitStep, CheckoutCommitStep, CheckoutRefusedStep, CancelReadStep,
     CancelCommitStep, PreSaveStep, SaveStatusStep, SkipStep, ReadWalletStep, CheckStep,
     PayStep, PostRowStep, NotifyStep, SpinEndStep, SpinReadStep, SpinNotFoundStep,
     SpinPayStep, ReplyStep
     DEF Serve
<1>4. ASSUME NEW w \in Workers, BrokerDown(w) \/ Die(w)
      PROVE  IInv' /\ [W!Next]_(W!wvars)
  BY <1>4, AbandonStep
<1> QED
  BY <1>1, <1>2, <1>3, <1>4 DEF Next

\* IInv is an invariant of every behaviour of the desk.
THEOREM Invariance == Spec => []IInv
<1>1. IInv /\ [Next]_vars => IInv'
  BY StepIInv
<1> QED
  BY InitIInv, <1>1, PTL DEF Spec

\* Rows, requests and wallets have their types.
THEOREM TypeCorrect == Spec => []TypeOK
<1>1. IInv => TypeOK
  BY DEF IInv, DeskTypeOK, TypeOK, WP!Inv, WP!TypeOK, W!TypeOK, WP!Instance, W!Instance
<1> QED
  BY <1>1, Invariance, PTL

\* While cancel_order is at work its order stays open and locked, and no lock
\* outlives its request.
THEOREM CancelIsIsolated == Spec => []CancelSeesOpenOrder
<1>1. IInv => CancelSeesOpenOrder
  BY DEF IInv
<1> QED
  BY <1>1, Invariance, PTL

\* Every request, at every interleaving and death, uses the wallet as Wallet says.
THEOREM DeskImplementsWallet == Spec => ImplementsWallet
<1>1. Init => W!Init
  BY DEF Init
<1>2. IInv /\ [Next]_vars => [W!Next]_(W!wvars)
  BY StepIInv
<1> QED
  BY <1>1, <1>2, Invariance, PTL DEF Spec, ImplementsWallet, W!Spec

\* With one worker that does not die, every movement of a wallet comes with its row: the
\* handlers inherit what WalletProofs shows of the wallet.
THEOREM DeskKeepsAccounts ==
    ASSUME WP!OneAtATime
    PROVE  Spec => ImplementsAccount
<1>1. Init => WP!Init
  BY DEF Init, W!Init, WP!Init, W!NoInstance, WP!NoInstance
<1>2. IInv /\ [Next]_vars => [WP!Next]_(WP!wvars)
  BY StepIInv, WalletSame
<1>3. WP!Spec => WP!ImplementsAccount
  BY WP!AccountIsImplemented, WalletAssumed
<1>4. WP!Account!Init => W!Account!Init
  BY DEF WP!Account!Init, W!Account!Init, WP!InFlight, W!InFlight, WP!Sole, W!Sole
<1>5. [WP!Account!Next]_(WP!Account!avars) => [W!Account!Next]_(W!Account!avars)
  BY DEF WP!Account!Next, W!Account!Next, WP!Account!avars, W!Account!avars,
         WP!Account!Move, W!Account!Move, WP!InFlight, W!InFlight, WP!Sole, W!Sole
<1> QED
  BY <1>1, <1>2, <1>3, <1>4, <1>5, Invariance, PTL
     DEF Spec, WP!Spec, ImplementsAccount, W!ImplementsAccount, WP!ImplementsAccount,
         W!Account!Spec, WP!Account!Spec

\* So no wallet is overdrawn by any interleaving of the order handlers.
THEOREM NeverOverdrawn == Spec => []Solvent
<1>1. IInv => Solvent
  BY DEF IInv, WP!Inv, WP!Solvent, Solvent, W!Solvent
<1> QED
  BY <1>1, Invariance, PTL

\* The statements that leave the orders, the refunds and the delivery bonuses alone.
Aside(w) == \/ \E o \in Orders, s \in Subtotals : CheckoutDebit(w, o, s)
            \/ \E o \in Orders : SpinLock(w, o)
            \/ SpinEnd(w) \/ SpinRead(w) \/ SpinFound(w) \/ SpinNotFound(w) \/ SpinPay(w)

LEMMA AsideMoves ==
    ASSUME IInv, NEW w \in Workers, Aside(w)
    PROVE  /\ order' = order /\ refunds' = refunds /\ bonuses' = bonuses
           /\ \A v \in Workers \ {w} : req'[v] = req[v]
           /\ req'[w].pc \in {"debited", "spin", "spincheck", "spinpay", "done"}
           /\ req[w].pc \in {"idle", "checkout", "spin", "spincheck", "spinpay"}
           /\ req'[w].pc = "spinpay" => SpinNotFound(w)
           /\ referrals' # referrals => SpinPay(w)
<1>1. req \in [Workers -> Request] /\ req[w] \in Request
  BY DEF IInv, DeskTypeOK
<1>2. [NoRequest EXCEPT !.pc = "done"].pc = "done"
  BY DEF NoRequest
<1>3. CASE \E o \in Orders, s \in Subtotals : CheckoutDebit(w, o, s)
  <2>1. PICK o \in Orders, s \in Subtotals : CheckoutDebit(w, o, s)
    BY <1>3
  <2>2. [NoRequest EXCEPT !.pc = "debited", !.order = o].pc = "debited"
    BY DEF NoRequest
  <2> QED
    BY <1>1, <2>1, <2>2 DEF CheckoutDebit, Goto, At, rows
<1>4. CASE \E o \in Orders : SpinLock(w, o)
  BY <1>1, <1>4 DEF SpinLock, Goto, At, rows
<1>5. CASE SpinEnd(w) \/ SpinFound(w)
  BY <1>1, <1>2, <1>5 DEF SpinEnd, SpinFound, Goto, At, rows
<1>6. CASE SpinRead(w)
  BY <1>1, <1>6 DEF SpinRead, Goto, At, Request, rows
<1>7. CASE SpinNotFound(w)
  BY <1>1, <1>7 DEF SpinNotFound, Goto, At, Request, rows
<1>8. CASE SpinPay(w)
  BY <1>1, <1>2, <1>8 DEF SpinPay, Goto, At
<1> QED
  BY <1>3, <1>4, <1>5, <1>6, <1>7, <1>8 DEF Aside

\* A refund is paid by the request that holds the lock, and closes an open order.
THEOREM RefundIsClosing == Spec => RefundClosesOrder
<1> DEFINE Closing == \A o \in Orders : refunds'[o] # refunds[o] =>
                         /\ Cancellable(o)
                         /\ order'[o].status = "cancelled"
                         /\ \E w \in Workers : lock[o] = w /\ At(w, "refund")
<1>1. IInv /\ [Next]_vars => [Closing]_vars
  <2> SUFFICES ASSUME IInv, Next, NEW o \in Orders, refunds'[o] # refunds[o]
               PROVE  /\ Cancellable(o)
                      /\ order'[o].status = "cancelled"
                      /\ \E w \in Workers : lock[o] = w /\ At(w, "refund")
    BY DEF Closing
  <2>1. PICK w \in Workers : CancelCommit(w)
    <3>1. PICK w \in Workers : Start(w) \/ Serve(w) \/ BrokerDown(w) \/ Die(w)
      BY DEF Next
    <3>2. ~Start(w)
      BY DEF Start, CheckoutOpen, CancelLock, Assign, RiderLoad, SpinLock, rows
    <3>3. ~(BrokerDown(w) \/ Die(w))
      BY DEF BrokerDown, Die, Abandon, rows
    <3>4. Serve(w) => CancelCommit(w)
      BY DEF Serve, CheckoutCommit, Debited, CheckoutDebit, CheckoutRefused, SpinEnd, SpinRead,
             SpinFound, SpinNotFound, SpinPay, CancelRead, PreSave, SaveStatus, Skip, ReadWallet,
             Check, Pay, PostRow, Notify, Reply, rows
    <3> QED
      BY <3>1, <3>2, <3>3, <3>4
  <2>2. /\ req[w].pc = "refund"
        /\ req[w].order = o
    BY <2>1 DEF CancelCommit, At, IInv, DeskTypeOK
  <2>3. lock[o] = w /\ Cancellable(o)
    BY <2>2 DEF IInv, CancelSeesOpenOrder, Cancelling, Spinning
  <2>4. order'[o].status = "cancelled"
    BY <2>1, <2>2 DEF CancelCommit, IInv, DeskTypeOK, OrderRow
  <2> QED
    BY <2>2, <2>3, <2>4 DEF At
<1> QED
  BY <1>1, Invariance, PTL DEF Spec, RefundClosesOrder, Closing

-----------------------------------------------------------------------------
(* Rewards: only after a delivery, and no more often than there are workers *)

\* Where a request stands after its save.
Saved == {"read", "check", "pay", "log", "notify"}

\* What a request that saved "delivered" has seen to, and which reward it is at.
Delivering ==
    /\ \A w \in Workers :
          /\ req[w].pc \in Saved /\ req[w].new = "delivered" => order[req[w].order].deliveredAt
          /\ req[w].pc \in {"read", "check", "pay", "log"} => req[w].stage # "none"
    /\ \A o \in Orders : /\ order[o].deliveredAt => Placed(o)
                         /\ order[o].status = "delivered" => order[o].deliveredAt

\* The rewards need all of it.
EarnedInv == Delivering /\ RewardOnlyAfterDelivery /\ RewardsBounded

\* Checkout fills an order once; no later write takes the terms or the delivery back.
LEMMA TermsKept ==
    ASSUME IInv, Next, NEW o \in Orders, Placed(o)
    PROVE  SameTerms(o) /\ (order[o].deliveredAt => order'[o].deliveredAt)
<1>1. PICK w \in Workers : Start(w) \/ Serve(w) \/ BrokerDown(w) \/ Die(w)
  BY DEF Next
<1>2. order[o] \in OrderRow
  BY DEF IInv, DeskTypeOK
<1>3. ASSUME NEW p \in Orders, NEW s \in Subtotals, NEW b \in DeliveryBonuses,
             CheckoutCommit(w, p, s, b)
      PROVE  order'[o] = order[o]
  BY <1>3 DEF CheckoutCommit, Debited, Placed, IInv, DeskTypeOK
<1>4. CASE CancelCommit(w)
  BY <1>2, <1>4 DEF CancelCommit, Placed, IInv, DeskTypeOK, SameTerms, OrderRow
<1>5. ASSUME NEW p \in Orders, NEW r \in Riders, Assign(w, p, r)
      PROVE  SameTerms(o) /\ order'[o].deliveredAt = order[o].deliveredAt
  BY <1>2, <1>5 DEF Assign, Placed, IInv, DeskTypeOK, SameTerms, OrderRow
<1>6. CASE SaveStatus(w)
  <2>1. req[w].new \in Statuses
    BY <1>6 DEF SaveStatus, At, IInv, RequestsOK, RequestOK, Posting
  <2>2. req[w].new # "none"
    BY <2>1 DEF Statuses
  <2> QED
    BY <1>2, <1>6, <2>2 DEF SaveStatus, Placed, IInv, DeskTypeOK, SameTerms, OrderRow
<1>7. \/ UNCHANGED order
      \/ \E p \in Orders, s \in Subtotals, b \in DeliveryBonuses : CheckoutCommit(w, p, s, b)
      \/ \E p \in Orders, r \in Riders : Assign(w, p, r)
      \/ CancelCommit(w) \/ SaveStatus(w)
  BY <1>1
     DEF Start, Serve, BrokerDown, Die, Abandon, CheckoutOpen, CheckoutDebit, CheckoutRefused,
         SpinEnd, SpinRead, SpinFound, SpinNotFound, SpinPay, CancelLock, CancelRead, RiderLoad,
         SpinLock, PreSave, Skip, ReadWallet, Check, Pay, PostRow, Notify, Reply
<1>8. CASE order'[o] = order[o]
  BY <1>8 DEF SameTerms, Placed
<1> QED
  BY <1>3, <1>4, <1>5, <1>6, <1>7, <1>8

\* A step moves one request; one that has saved goes on with the same order and status.
LEMMA RequestMoves ==
    ASSUME IInv, Next, NEW v \in Workers, req'[v].pc \in Saved
    PROVE  \/ req'[v] = req[v]
           \/ SaveStatus(v) /\ req'[v] = AfterSave(req[v])
           \/ /\ req[v].pc \in Saved
              /\ req'[v].order = req[v].order
              /\ req'[v].new = req[v].new
              /\ \/ req[v].pc # "notify" /\ req'[v].stage = req[v].stage
                 \/ req'[v].stage # "none"
                 \/ req'[v].pc = "notify"
<1>1. PICK w \in Workers : Start(w) \/ Serve(w) \/ BrokerDown(w) \/ Die(w)
  BY DEF Next
<1>2. CASE v # w
  BY <1>1, <1>2
     DEF Start, Serve, BrokerDown, Die, Abandon, CheckoutOpen, CheckoutCommit, Debited,
         CheckoutDebit, CheckoutRefused, SpinEnd, SpinRead, SpinFound, SpinNotFound, SpinPay,
         CancelLock, CancelRead, CancelCommit, Assign, RiderLoad, SpinLock, PreSave, SaveStatus,
         Skip, ReadWallet, Check, Pay, PostRow, Notify, Reply, Goto, IInv, DeskTypeOK
<1>3. CASE v = w
  <2>1. req \in [Workers -> Request] /\ req[w] \in Request
    BY DEF IInv, DeskTypeOK
  <2>2. CASE \/ \E c \in Customers : CheckoutOpen(w, c)
             \/ \E o \in Orders : CancelLock(w, o)
             \/ \E o \in Orders, s \in RiderPosts : RiderLoad(w, o, s)
    <3>1. req'[w].pc \in {"checkout", "locked", "presave"}
      BY <2>1, <2>2 DEF CheckoutOpen, CancelLock, RiderLoad, SpinLock, Goto, NoRequest
    <3> QED
      BY <1>3, <3>1 DEF Saved
  <2>3. CASE \E o \in Orders, r \in Riders : Assign(w, o, r)
    BY <1>3, <2>3 DEF Assign
  <2>4. CASE \/ \E o \in Orders, s \in Subtotals, b \in DeliveryBonuses :
                   CheckoutCommit(w, o, s, b)
             \/ CheckoutRefused(w) \/ CancelCommit(w) \/ Reply(w)
             \/ BrokerDown(w) \/ Die(w)
    <3>1. req'[w].pc \in {"done", "idle"}
      <4>1. CASE \/ \E o \in Orders, s \in Subtotals, b \in DeliveryBonuses :
                       CheckoutCommit(w, o, s, b)
                 \/ CheckoutRefused(w) \/ CancelCommit(w)
        BY <2>1, <4>1 DEF CheckoutCommit, Debited, CheckoutDebit, CheckoutRefused, SpinEnd,
                          SpinRead, SpinFound, SpinNotFound, SpinPay, CancelCommit, Goto,
                          NoRequest
      <4>2. CASE Reply(w) \/ BrokerDown(w) \/ Die(w)
        BY <2>1, <4>2 DEF Reply, BrokerDown, Die, Abandon, Goto, NoRequest
      <4> QED
        BY <2>4, <4>1, <4>2
    <3> QED
      BY <1>3, <3>1 DEF Saved
  <2>5. CASE CancelRead(w) \/ PreSave(w)
    <3>1. req'[w].pc \in {"refund", "save"}
      <4>1. CASE CancelRead(w)
        BY <2>1, <4>1 DEF CancelRead, Goto, Request
      <4>2. CASE PreSave(w)
        BY <2>1, <4>2 DEF PreSave, Goto, Request
      <4> QED
        BY <2>5, <4>1, <4>2
    <3> QED
      BY <1>3, <3>1 DEF Saved
  <2>6. CASE SaveStatus(w)
    BY <1>3, <2>1, <2>6 DEF SaveStatus, Goto
  <2>7. CASE ReadWallet(w) \/ Pay(w) \/ Notify(w)
    <3>1. req[w].pc \in Saved
      BY <2>7 DEF ReadWallet, Pay, Notify, At, Saved
    <3>2. /\ req'[w].order = req[w].order
          /\ req'[w].new = req[w].new
          /\ \/ req[w].pc # "notify" /\ req'[w].stage = req[w].stage
             \/ req'[w].stage # "none"
      <4>1. CASE ReadWallet(w)
        BY <2>1, <4>1 DEF ReadWallet, Goto, At, Request
      <4>2. CASE Pay(w)
        BY <2>1, <4>2 DEF Pay, Goto, At, Request
      <4>3. CASE Notify(w)
        BY <2>1, <4>3 DEF Notify, Goto, Request
      <4> QED
        BY <2>7, <4>1, <4>2, <4>3
    <3> QED
      BY <1>3, <3>1, <3>2
  <2>8. CASE Skip(w) \/ Check(w) \/ PostRow(w)
    <3>1. /\ AfterStage(req[w]).order = req[w].order
          /\ AfterStage(req[w]).new = req[w].new
      BY <2>1, AfterStageType
    <3>2. req'[w] \in {AfterStage(req[w]), [req[w] EXCEPT !.pc = "pay"]}
      BY <2>1, <2>8 DEF Skip, Check, PostRow, Goto
    <3>3. req[w].pc \in Saved
      BY <2>8 DEF Skip, Check, PostRow, At, Saved
    <3>4. /\ [req[w] EXCEPT !.pc = "pay"].order = req[w].order
          /\ [req[w] EXCEPT !.pc = "pay"].new = req[w].new
          /\ [req[w] EXCEPT !.pc = "pay"].stage = req[w].stage
      BY <2>1 DEF Request
    <3>5. AfterStage(req[w]).stage # "none" \/ AfterStage(req[w]).pc \in {"notify", "done"}
      BY <2>1 DEF AfterStage, Request
    <3>6. req[w].pc # "notify" /\ req'[w].pc # "done"
      BY <1>3, <2>8 DEF Skip, Check, PostRow, At, Saved
    <3> QED
      BY <1>3, <3>1, <3>2, <3>3, <3>4, <3>5, <3>6
  <2>9. CASE Aside(w)
    BY <1>3, <2>9, AsideMoves DEF Saved
  <2> QED
    BY <1>1, <2>2, <2>3, <2>4, <2>5, <2>6, <2>7, <2>8, <2>9 DEF Start, Serve, Aside
<1> QED
  BY <1>2, <1>3

LEMMA DeliveringStep == ASSUME IInv, Delivering, Next PROVE Delivering'
<1>0. ASSUME NEW o \in Orders, order'[o].deliveredAt PROVE Placed(o)'
  <2>1. CASE Placed(o)
    BY <2>1, TermsKept DEF SameTerms, Placed
  <2>2. CASE ~Placed(o)
    <3>1. ~order[o].deliveredAt /\ order[o] \in OrderRow
      BY <2>2 DEF Delivering, IInv, DeskTypeOK
    <3>2. PICK w \in Workers : Start(w) \/ Serve(w) \/ BrokerDown(w) \/ Die(w)
      BY DEF Next
    <3>3. order'[o].deliveredAt # order[o].deliveredAt
      BY <1>0, <3>1
    <3>4. \/ SaveStatus(w)
          \/ CancelCommit(w)
          \/ \E p \in Orders, s \in Subtotals, b \in DeliveryBonuses : CheckoutCommit(w, p, s, b)
          \/ \E p \in Orders, r \in Riders : Assign(w, p, r)
      BY <3>2, <3>3
         DEF Start, Serve, BrokerDown, Die, Abandon, CheckoutOpen, CheckoutDebit, CheckoutRefused,
             SpinEnd, SpinRead, SpinFound, SpinNotFound, SpinPay, CancelLock, CancelRead,
             RiderLoad, SpinLock, PreSave, Skip, ReadWallet, Check, Pay, PostRow, Notify, Reply
    <3>5. CASE SaveStatus(w)
      <4>1. Placed(req[w].order)
        BY <3>5 DEF SaveStatus, At, IInv, RequestsOK, RequestOK, Posting
      <4> QED
        BY <2>2, <3>1, <3>3, <3>5, <4>1 DEF SaveStatus, IInv, DeskTypeOK
    <3>6. CASE CancelCommit(w)
      BY <3>1, <3>3, <3>6 DEF CancelCommit, IInv, DeskTypeOK, OrderRow
    <3>7. ASSUME NEW p \in Orders, NEW s \in Subtotals, NEW b \in DeliveryBonuses,
                 CheckoutCommit(w, p, s, b)
          PROVE  FALSE
      <4>1. order'[o] = order[o] \/ order'[o].deliveredAt = FALSE
        BY <3>7 DEF CheckoutCommit, Debited, Unplaced, IInv, DeskTypeOK
      <4> QED
        BY <1>0, <3>3, <4>1
    <3>8. ASSUME NEW p \in Orders, NEW r \in Riders, Assign(w, p, r) PROVE FALSE
      BY <3>1, <3>3, <3>8 DEF Assign, IInv, DeskTypeOK, OrderRow
    <3> QED
      BY <3>4, <3>5, <3>6, <3>7, <3>8
  <2> QED
    BY <2>1, <2>2
<1>d. ASSUME NEW o \in Orders, order'[o].status = "delivered" PROVE order'[o].deliveredAt
  <2>1. /\ order[o].status = "delivered" => order[o].deliveredAt
        /\ order[o] \in OrderRow
    BY DEF Delivering, IInv, DeskTypeOK
  <2>2. PICK w \in Workers : Start(w) \/ Serve(w) \/ BrokerDown(w) \/ Die(w)
    BY DEF Next
  <2>3. \/ order' = order
        \/ SaveStatus(w)
        \/ CancelCommit(w)
        \/ \E p \in Orders, s \in Subtotals, b \in DeliveryBonuses : CheckoutCommit(w, p, s, b)
        \/ \E p \in Orders, r \in Riders : Assign(w, p, r)
    BY <2>2
       DEF Start, Serve, BrokerDown, Die, Abandon, CheckoutOpen, CheckoutDebit, CheckoutRefused,
           SpinEnd, SpinRead, SpinFound, SpinNotFound, SpinPay, CancelLock, CancelRead,
           RiderLoad, SpinLock, PreSave, Skip, ReadWallet, Check, Pay, PostRow, Notify, Reply
  <2>4. CASE order' = order
    BY <1>d, <2>1, <2>4
  <2>5. CASE SaveStatus(w)
    BY <1>d, <2>1, <2>5 DEF SaveStatus, IInv, DeskTypeOK, OrderRow
  <2>6. CASE CancelCommit(w)
    BY <1>d, <2>1, <2>6 DEF CancelCommit, IInv, DeskTypeOK, OrderRow
  <2>7. ASSUME NEW p \in Orders, NEW s \in Subtotals, NEW b \in DeliveryBonuses,
               CheckoutCommit(w, p, s, b)
        PROVE  order'[o].deliveredAt
    <3>1. order'[o] = order[o] \/ order'[o].status = "placed"
      BY <2>7 DEF CheckoutCommit, Unplaced, IInv, DeskTypeOK
    <3> QED
      BY <1>d, <2>1, <3>1
  <2>8. ASSUME NEW p \in Orders, NEW r \in Riders, Assign(w, p, r) PROVE order'[o].deliveredAt
    BY <1>d, <2>1, <2>8 DEF Assign, IInv, DeskTypeOK, OrderRow
  <2> QED
    BY <2>3, <2>4, <2>5, <2>6, <2>7, <2>8
<1> SUFFICES ASSUME NEW w \in Workers, req'[w].pc \in Saved
             PROVE  /\ req'[w].new = "delivered" => order'[req'[w].order].deliveredAt
                    /\ req'[w].pc # "notify" => req'[w].stage # "none"
  BY <1>0, <1>d DEF Delivering, Saved
<1>1. req \in [Workers -> Request] /\ order \in [Orders -> OrderRow]
  BY DEF IInv, DeskTypeOK
<1>2. ASSUME req[w].pc \in Posting, order[req[w].order].deliveredAt
      PROVE  order'[req[w].order].deliveredAt
  BY <1>2, TermsKept DEF IInv, RequestsOK, RequestOK
<1>3. Saved \subseteq Posting /\ \A p \in Saved : p = "notify" \/ p \in {"read", "check", "pay", "log"}
  BY DEF Saved, Posting
<1>4. CASE req'[w] = req[w]
  BY <1>2, <1>3, <1>4 DEF Delivering
<1>5. CASE SaveStatus(w) /\ req'[w] = AfterSave(req[w])
  <2>1. /\ req'[w].order = req[w].order
        /\ req'[w].new = req[w].new
        /\ req'[w].pc # "notify" => req'[w].stage # "none"
    BY <1>1, <1>5 DEF AfterSave, Request
  <2>2. req[w].order \in Orders
    BY <1>5 DEF SaveStatus, At, IInv, RequestsOK, RequestOK, Posting
  <2>3. req[w].new = "delivered" => order'[req[w].order].deliveredAt
    BY <1>1, <1>5, <2>2 DEF SaveStatus, OrderRow
  <2> QED
    BY <2>1, <2>3
<1>6. CASE /\ req[w].pc \in Saved
           /\ req'[w].order = req[w].order
           /\ req'[w].new = req[w].new
           /\ \/ req[w].pc # "notify" /\ req'[w].stage = req[w].stage
              \/ req'[w].stage # "none"
              \/ req'[w].pc = "notify"
  BY <1>2, <1>3, <1>6 DEF Delivering
<1> QED
  BY <1>4, <1>5, <1>6, RequestMoves

\* Rows are only added, one at a time, for what the request pays.
LEMMA RowsMove ==
    ASSUME IInv, Next
    PROVE  \/ UNCHANGED <<bonuses, referrals>>
           \/ \E w \in Workers : PostRow(w)
           \/ \E w \in Workers : SpinPay(w)
<1>1. PICK w \in Workers : Start(w) \/ Serve(w) \/ BrokerDown(w) \/ Die(w)
  BY DEF Next
<1>2. CASE Start(w)
  BY <1>2 DEF Start, CheckoutOpen, CancelLock, Assign, RiderLoad, SpinLock, rows
<1>3. CASE BrokerDown(w) \/ Die(w)
  BY <1>3 DEF BrokerDown, Die, Abandon, rows
<1>4. CASE Serve(w)
  BY <1>4 DEF Serve, CheckoutCommit, CheckoutDebit, CheckoutRefused, SpinEnd, SpinRead,
              SpinFound, SpinNotFound, CancelRead, CancelCommit, PreSave, SaveStatus,
              Skip, ReadWallet, Check, Pay, Notify, Reply, rows
<1> QED
  BY <1>1, <1>2, <1>3, <1>4

LEMMA PostRowWrites ==
    ASSUME IInv, NEW w \in Workers, PostRow(w)
    PROVE  /\ req[w].pc = "log" /\ req[w].order \in Orders /\ Placed(req[w].order)
           /\ req[w].new = "delivered"
           /\ order' = order
           /\ \A v \in Workers \ {w} : req'[v] = req[v]
           /\ req'[w].pc \notin {"pay", "log", "spinpay"}
           /\ IF req[w].stage = "referral"
                THEN /\ referrals' = [referrals EXCEPT ![order[req[w].order].customer] = @ + 1]
                     /\ bonuses' = bonuses
                     /\ order[req[w].order].subtotal >= MinForBonus
                ELSE /\ bonuses' = [bonuses EXCEPT ![req[w].order] = @ + 1]
                     /\ referrals' = referrals
<1>1. /\ req[w].pc = "log" /\ req[w] \in Request
      /\ req' = [req EXCEPT ![w] = AfterStage(req[w])]
      /\ order' = order
  BY DEF PostRow, At, Goto, IInv, DeskTypeOK
<1>2. req[w].order \in Orders /\ Placed(req[w].order) /\ Due(req[w])
  BY <1>1 DEF IInv, RequestsOK, RequestOK, Posting
<1>3. req'[w].pc \notin {"pay", "log", "spinpay"}
  <2>1. req'[w] = AfterStage(req[w])
    BY <1>1 DEF IInv, DeskTypeOK
  <2> QED
    BY <1>1, <2>1, AfterStageType
<1>4. \A v \in Workers \ {w} : req'[v] = req[v]
  BY <1>1 DEF IInv, DeskTypeOK
<1> QED
  BY <1>1, <1>2, <1>3, <1>4 DEF PostRow, Due

LEMMA SpinPayWrites ==
    ASSUME IInv, NEW w \in Workers, SpinPay(w)
    PROVE  /\ req[w].pc = "spinpay" /\ req[w].order \in Orders /\ Placed(req[w].order)
           /\ req[w].stage = "referral" /\ req[w].new = "delivered"
           /\ order[req[w].order].status = "delivered"
           /\ order[req[w].order].subtotal >= MinForBonus
           /\ order' = order /\ bonuses' = bonuses
           /\ referrals' = [referrals EXCEPT ![order[req[w].order].customer] = @ + 1]
           /\ \A v \in Workers \ {w} : req'[v] = req[v]
           /\ req'[w].pc = "done"
<1>1. /\ req[w].pc = "spinpay" /\ order' = order /\ bonuses' = bonuses
      /\ req' = [req EXCEPT ![w] = [NoRequest EXCEPT !.pc = "done"]]
      /\ referrals' = [referrals EXCEPT ![order[req[w].order].customer] = @ + 1]
  BY DEF SpinPay, At, Goto
<1>2. /\ req[w].order \in Orders /\ Placed(req[w].order) /\ Due(req[w])
      /\ req[w].stage = "referral" /\ req[w].new = "delivered"
  BY <1>1 DEF IInv, RequestsOK, RequestOK
<1>3. order[req[w].order].status = "delivered"
  BY <1>1 DEF IInv, CancelSeesOpenOrder, Spinning
<1>4. /\ \A v \in Workers \ {w} : req'[v] = req[v]
      /\ req'[w].pc = "done"
  BY <1>1 DEF IInv, DeskTypeOK, NoRequest
<1> QED
  BY <1>1, <1>2, <1>3, <1>4 DEF Due

LEMMA RewardStep ==
    ASSUME IInv, Delivering, RewardOnlyAfterDelivery, Next
    PROVE  RewardOnlyAfterDelivery'
<1>1. ASSUME NEW o \in Orders, order[o].deliveredAt
      PROVE  /\ order'[o].deliveredAt
             /\ order'[o].customer = order[o].customer
             /\ order'[o].subtotal = order[o].subtotal
  BY <1>1, TermsKept DEF Delivering, SameTerms
<1>2. CASE UNCHANGED <<bonuses, referrals>>
  BY <1>1, <1>2 DEF RewardOnlyAfterDelivery
<1>3. ASSUME NEW w \in Workers, PostRow(w) PROVE RewardOnlyAfterDelivery'
  <2> DEFINE p == req[w].order
  <2>1. p \in Orders /\ order[p].deliveredAt /\ order' = order
    BY <1>3, PostRowWrites DEF Delivering, Saved
  <2>2. bonuses \in [Orders -> Nat] /\ referrals \in [Customers -> Nat]
    BY DEF IInv, DeskTypeOK
  <2>3. CASE req[w].stage = "referral"
    <3>1. /\ bonuses' = bonuses
          /\ referrals' = [referrals EXCEPT ![order[p].customer] = @ + 1]
          /\ order[p].subtotal >= MinForBonus
      BY <1>3, <2>3, PostRowWrites
    <3> QED
      BY <2>1, <2>2, <3>1 DEF RewardOnlyAfterDelivery
  <2>4. CASE req[w].stage # "referral"
    <3>1. referrals' = referrals /\ bonuses' = [bonuses EXCEPT ![p] = @ + 1]
      BY <1>3, <2>4, PostRowWrites
    <3> QED
      BY <2>1, <2>2, <3>1 DEF RewardOnlyAfterDelivery
  <2> QED
    BY <2>3, <2>4
<1>4. ASSUME NEW w \in Workers, SpinPay(w) PROVE RewardOnlyAfterDelivery'
  <2>1. /\ req[w].order \in Orders /\ order[req[w].order].deliveredAt
        /\ order[req[w].order].subtotal >= MinForBonus
        /\ order' = order /\ bonuses' = bonuses
        /\ referrals' = [referrals EXCEPT ![order[req[w].order].customer] = @ + 1]
    BY <1>4, SpinPayWrites DEF Delivering
  <2>2. referrals \in [Customers -> Nat]
    BY DEF IInv, DeskTypeOK
  <2> QED
    BY <2>1, <2>2 DEF RewardOnlyAfterDelivery
<1> QED
  BY <1>2, <1>3, <1>4, RowsMove

\* A request comes to pay by a test that found no row, and goes on to its row.
LEMMA PayingMoves ==
    ASSUME IInv, Next, NEW v \in Workers, req'[v].pc \in {"pay", "log", "spinpay"}
    PROVE  \/ req'[v] = req[v]
           \/ /\ req[v].pc \in {"pay", "log"} /\ req'[v].pc # "spinpay"
              /\ req'[v].stage = req[v].stage /\ req'[v].order = req[v].order
           \/ /\ Rows(req[v]) = 0
              /\ \/ req[v].pc = "check" /\ req'[v].pc # "spinpay"
                 \/ req[v].pc = "spincheck" /\ req'[v].pc = "spinpay"
              /\ order' = order /\ UNCHANGED <<bonuses, referrals>>
              /\ req'[v].stage = req[v].stage /\ req'[v].order = req[v].order
<1>1. PICK w \in Workers : Start(w) \/ Serve(w) \/ BrokerDown(w) \/ Die(w)
  BY DEF Next
<1>2. req \in [Workers -> Request] /\ req[w] \in Request
  BY DEF IInv, DeskTypeOK
<1>3. CASE v # w
  BY <1>1, <1>2, <1>3
     DEF Start, Serve, BrokerDown, Die, Abandon, CheckoutOpen, CheckoutCommit, Debited,
         CheckoutDebit, CheckoutRefused, SpinEnd, SpinRead, SpinFound, SpinNotFound, SpinPay,
         CancelLock, CancelRead, CancelCommit, Assign, RiderLoad, SpinLock, PreSave, SaveStatus,
         Skip, ReadWallet, Check, Pay, PostRow, Notify, Reply, Goto
<1>4. CASE v = w
  <2>1. CASE \/ \E c \in Customers : CheckoutOpen(w, c)
             \/ \E o \in Orders : CancelLock(w, o)
             \/ \E o \in Orders, s \in RiderPosts : RiderLoad(w, o, s)
             \/ CancelRead(w) \/ PreSave(w) \/ Notify(w) \/ ReadWallet(w)
    <3>1. req'[w].pc \in {"checkout", "locked", "presave", "refund", "save", "read", "check"}
      <4>1. CASE \/ \E c \in Customers : CheckoutOpen(w, c)
                 \/ \E o \in Orders : CancelLock(w, o)
                 \/ \E o \in Orders, s \in RiderPosts : RiderLoad(w, o, s)
        BY <1>2, <4>1 DEF CheckoutOpen, CancelLock, RiderLoad, SpinLock, Goto, NoRequest
      <4>2. CASE Notify(w)
        BY <1>2, <4>2 DEF Notify, Goto, Request
      <4>3. CASE CancelRead(w)
        BY <1>2, <4>3 DEF CancelRead, Goto, Request
      <4>4. CASE PreSave(w)
        BY <1>2, <4>4 DEF PreSave, Goto, Request
      <4>5. CASE ReadWallet(w)
        BY <1>2, <4>5 DEF ReadWallet, Goto, Request
      <4> QED
        BY <2>1, <4>1, <4>2, <4>3, <4>4, <4>5
    <3> QED
      BY <1>4, <3>1
  <2>2. CASE \E o \in Orders, r \in Riders : Assign(w, o, r)
    BY <1>4, <2>2 DEF Assign
  <2>3. CASE \/ \E o \in Orders, s \in Subtotals, b \in DeliveryBonuses :
                   CheckoutCommit(w, o, s, b)
             \/ CheckoutRefused(w) \/ CancelCommit(w)
    <3>1. req'[w].pc = "done"
      BY <1>2, <2>3 DEF CheckoutCommit, Debited, CheckoutDebit, CheckoutRefused, SpinEnd,
                        SpinRead, SpinFound, SpinNotFound, SpinPay, CancelCommit, Goto, NoRequest
    <3> QED
      BY <1>4, <3>1
  <2>4. CASE Reply(w) \/ BrokerDown(w) \/ Die(w)
    <3>1. req'[w].pc = "idle"
      BY <1>2, <2>4 DEF Reply, BrokerDown, Die, Abandon, Goto, NoRequest
    <3> QED
      BY <1>4, <3>1
  <2>5. CASE SaveStatus(w)
    <3>1. req'[w] = AfterSave(req[w])
      BY <1>2, <2>5 DEF SaveStatus, Goto
    <3>2. AfterSave(req[w]).pc \in {"read", "notify"}
      BY <1>2 DEF AfterSave, Request
    <3> QED
      BY <1>4, <3>1, <3>2
  <2>6. CASE Skip(w) \/ PostRow(w)
    <3>1. req'[w] = AfterStage(req[w])
      BY <1>2, <2>6 DEF Skip, PostRow, Goto
    <3> QED
      BY <1>2, <1>4, <3>1, AfterStageType
  <2>7. CASE Pay(w)
    BY <1>2, <1>4, <2>7 DEF Pay, Goto, At, Request
  <2>8. CASE Check(w)
    <3>1. /\ req[w].pc = "check" /\ order' = order /\ UNCHANGED <<bonuses, referrals>>
          /\ req'[w] = IF Rows(req[w]) > 0 THEN AfterStage(req[w])
                                           ELSE [req[w] EXCEPT !.pc = "pay"]
      BY <1>2, <2>8 DEF Check, Goto, At, rows
    <3>2. ~(Rows(req[w]) > 0)
      BY <1>2, <1>4, <3>1, AfterStageType
    <3>3. Rows(req[w]) \in Nat
      <4>1. req[w].order \in Orders /\ order[req[w].order].customer \in Customers
        BY <3>1 DEF IInv, RequestsOK, RequestOK, OrdersOK, Posting
      <4> QED
        BY <4>1 DEF Rows, IInv, DeskTypeOK
    <3>4. Rows(req[w]) = 0
      BY <3>2, <3>3
    <3>5. req'[w].stage = req[w].stage /\ req'[w].order = req[w].order
      BY <1>2, <3>1, <3>2 DEF Request
    <3>6. req'[w].pc # "spinpay"
      BY <1>2, <3>1, <3>2 DEF Request
    <3> QED
      BY <1>4, <3>1, <3>4, <3>5, <3>6
  <2>9. CASE Aside(w)
    <3>1. SpinNotFound(w) /\ req'[w].pc = "spinpay"
      BY <1>4, <2>9, AsideMoves
    <3>2. /\ Rows(req[w]) = 0 /\ req[w].pc = "spincheck"
          /\ order' = order /\ UNCHANGED <<bonuses, referrals>>
          /\ req'[w].stage = req[w].stage /\ req'[w].order = req[w].order
      BY <1>2, <3>1 DEF SpinNotFound, Goto, At, Request, rows
    <3> QED
      BY <1>4, <3>1, <3>2
  <2> QED
    BY <1>1, <2>1, <2>2, <2>3, <2>4, <2>5, <2>6, <2>7, <2>8, <2>9 DEF Start, Serve, Aside
<1> QED
  BY <1>3, <1>4

PayingReferral(w) == Paying(w, {"referral"}) \/ At(w, "spinpay")

LEMMA BoundStep ==
    ASSUME IInv, Delivering, RewardsBounded, Next
    PROVE  RewardsBounded'
<1>1. /\ IsFiniteSet(Workers)
      /\ bonuses \in [Orders -> Nat] /\ referrals \in [Customers -> Nat]
      /\ bonuses' \in [Orders -> Nat] /\ referrals' \in [Customers -> Nat]
  BY OrderDeskAssumption, StepIInv DEF IInv, DeskTypeOK
<1>2. ASSUME NEW v \in Workers, req[v].pc \in {"check", "pay", "log", "spincheck", "spinpay"}
      PROVE  /\ req[v].order \in Orders
             /\ order'[req[v].order].customer = order[req[v].order].customer
             /\ req[v].stage # "none"
             /\ req[v].pc \in {"spincheck", "spinpay"} => req[v].stage = "referral"
  <2>1. /\ req[v].order \in Orders /\ Placed(req[v].order)
        /\ req[v].pc \in {"spincheck", "spinpay"} => req[v].stage = "referral"
    BY <1>2 DEF IInv, RequestsOK, RequestOK, Posting
  <2> QED
    BY <1>2, <2>1, TermsKept DEF SameTerms, Delivering
<1>3. ASSUME NEW o \in Orders
      PROVE  bonuses'[o] + Cardinality({w \in Workers :
                 Paying(w, {"signal", "view"})' /\ req'[w].order = o}) <= Cardinality(Workers)
  <2> DEFINE P == {w \in Workers : Paying(w, {"signal", "view"}) /\ req[w].order = o}
             Q == {w \in Workers : Paying(w, {"signal", "view"})' /\ req'[w].order = o}
  <2>1. bonuses[o] + Cardinality(P) <= Cardinality(Workers)
    BY DEF RewardsBounded
  <2>2. \/ bonuses'[o] = bonuses[o] /\ Q \subseteq P
        \/ bonuses'[o] = bonuses[o] + 1 /\ \E w \in P : Q \subseteq P \ {w}
        \/ bonuses'[o] = 0
    <3>1. CASE UNCHANGED <<bonuses, referrals>> /\ bonuses[o] # 0
      <4>1. ASSUME NEW v \in Q PROVE v \in P
        <5>1. /\ v \in Workers /\ req'[v].pc \in {"pay", "log"}
              /\ req'[v].stage \in {"signal", "view"} /\ req'[v].order = o
          BY DEF Paying
        <5>2. CASE Rows(req[v]) = 0 /\ req'[v].stage = req[v].stage /\ req'[v].order = req[v].order
          BY <3>1, <5>1, <5>2 DEF Rows
        <5>3. req'[v].pc # "spinpay"
          BY <5>1
        <5> QED
          BY <5>1, <5>2, PayingMoves DEF Paying
      <4> HIDE DEF P, Q
      <4> QED
        BY <3>1, <4>1
    <3>2. ASSUME NEW w \in Workers, PostRow(w)
          PROVE  \/ bonuses'[o] = bonuses[o] /\ Q \subseteq P
                 \/ bonuses'[o] = bonuses[o] + 1 /\ \E u \in P : Q \subseteq P \ {u}
      <4>1. Q \subseteq P \ {w}
        BY <3>2, PostRowWrites DEF Paying
      <4>2. CASE req[w].stage = "referral" \/ req[w].order # o
        <5>1. bonuses'[o] = bonuses[o]
          BY <1>1, <3>2, <4>2, PostRowWrites
        <5> HIDE DEF P, Q
        <5> QED
          BY <4>1, <5>1
      <4>3. CASE req[w].stage # "referral" /\ req[w].order = o
        <5>1. bonuses'[o] = bonuses[o] + 1 /\ req[w].pc = "log"
          BY <1>1, <3>2, <4>3, PostRowWrites
        <5>2. req[w].stage \in {"signal", "view"}
          BY <1>2, <4>3, <5>1 DEF IInv, DeskTypeOK, Request
        <5>3. w \in P
          BY <4>3, <5>1, <5>2 DEF Paying
        <5> HIDE DEF P, Q
        <5> QED
          BY <4>1, <5>1, <5>3
      <4> QED
        BY <4>2, <4>3
    <3>3. CASE UNCHANGED <<bonuses, referrals>> /\ bonuses[o] = 0
      BY <3>3
    <3>4. ASSUME NEW w \in Workers, SpinPay(w)
          PROVE  bonuses'[o] = bonuses[o] /\ Q \subseteq P
      BY <3>4, SpinPayWrites DEF Paying
    <3> HIDE DEF P, Q
    <3> QED
      BY <3>1, <3>2, <3>3, <3>4, RowsMove
  <2>3. P \subseteq Workers /\ Q \subseteq Workers
    OBVIOUS
  <2>4. bonuses[o] \in Nat /\ bonuses'[o] \in Nat
    BY <1>1
  <2> HIDE DEF P, Q
  <2>5. bonuses'[o] + Cardinality(Q) <= Cardinality(Workers)
    BY <1>1, <2>1, <2>2, <2>3, <2>4, BoundKept
  <2> QED
    BY <2>5 DEF Q
<1>4. ASSUME NEW c \in Customers
      PROVE  referrals'[c] + Cardinality({w \in Workers :
                 PayingReferral(w)' /\ order'[req'[w].order].customer = c})
                   <= Cardinality(Workers)
  <2> DEFINE P == {w \in Workers : PayingReferral(w) /\ order[req[w].order].customer = c}
             Q == {w \in Workers : PayingReferral(w)' /\ order'[req'[w].order].customer = c}
  <2>1. referrals[c] + Cardinality(P) <= Cardinality(Workers)
    BY DEF RewardsBounded, PayingReferral
  <2>2. \/ referrals'[c] = referrals[c] /\ Q \subseteq P
        \/ referrals'[c] = referrals[c] + 1 /\ \E w \in P : Q \subseteq P \ {w}
        \/ referrals'[c] = 0
    <3>1. CASE UNCHANGED <<bonuses, referrals>> /\ referrals[c] # 0
      <4>1. ASSUME NEW v \in Q PROVE v \in P
        <5>1. /\ v \in Workers /\ req'[v].pc \in {"pay", "log", "spinpay"}
              /\ req'[v].pc # "spinpay" => req'[v].stage = "referral"
              /\ order'[req'[v].order].customer = c
          BY DEF Paying, PayingReferral, At
        <5>2. CASE /\ Rows(req[v]) = 0 /\ req[v].pc \in {"check", "spincheck"}
                   /\ req[v].pc = "check" => req'[v].pc # "spinpay"
                   /\ order' = order
                   /\ req'[v].stage = req[v].stage /\ req'[v].order = req[v].order
          BY <1>2, <3>1, <5>1, <5>2 DEF Rows
        <5>3. CASE /\ req[v].pc \in {"pay", "log"} /\ req'[v].pc # "spinpay"
                   /\ req'[v].stage = req[v].stage /\ req'[v].order = req[v].order
          BY <1>2, <5>1, <5>3 DEF Paying, PayingReferral
        <5>4. CASE req'[v] = req[v]
          BY <1>2, <5>1, <5>4 DEF Paying, PayingReferral, At
        <5> HIDE DEF P, Q
        <5> QED
          BY <5>1, <5>2, <5>3, <5>4, PayingMoves
      <4> HIDE DEF P, Q
      <4> QED
        BY <3>1, <4>1
    <3>2. ASSUME NEW w \in Workers, PostRow(w)
          PROVE  \/ referrals'[c] = referrals[c] /\ Q \subseteq P
                 \/ referrals'[c] = referrals[c] + 1 /\ \E u \in P : Q \subseteq P \ {u}
      <4>1. Q \subseteq P \ {w}
        <5>1. req'[w].pc # "spinpay"
          BY <3>2, PostRowWrites
        <5> QED
          BY <3>2, <5>1, PostRowWrites DEF Paying, PayingReferral, At
      <4>2. CASE req[w].stage # "referral" \/ order[req[w].order].customer # c
        <5>1. referrals'[c] = referrals[c]
          BY <1>1, <3>2, <4>2, PostRowWrites
        <5> HIDE DEF P, Q
        <5> QED
          BY <4>1, <5>1
      <4>3. CASE req[w].stage = "referral" /\ order[req[w].order].customer = c
        <5>1. referrals'[c] = referrals[c] + 1 /\ req[w].pc = "log"
          BY <1>1, <3>2, <4>3, PostRowWrites
        <5>2. w \in P
          BY <4>3, <5>1 DEF Paying, PayingReferral
        <5> HIDE DEF P, Q
        <5> QED
          BY <4>1, <5>1, <5>2
      <4> QED
        BY <4>2, <4>3
    <3>3. CASE UNCHANGED <<bonuses, referrals>> /\ referrals[c] = 0
      BY <3>3
    <3>4. ASSUME NEW w \in Workers, SpinPay(w)
          PROVE  \/ referrals'[c] = referrals[c] /\ Q \subseteq P
                 \/ referrals'[c] = referrals[c] + 1 /\ \E u \in P : Q \subseteq P \ {u}
      <4>1. /\ Q \subseteq P \ {w}
            /\ order[req[w].order].customer = c => w \in P
        BY <3>4, SpinPayWrites DEF Paying, PayingReferral, At
      <4>2. referrals'[c] = IF order[req[w].order].customer = c THEN referrals[c] + 1
                                                                ELSE referrals[c]
        BY <1>1, <3>4, SpinPayWrites
      <4> HIDE DEF P, Q
      <4>3. CASE order[req[w].order].customer = c
        BY <4>1, <4>2, <4>3
      <4>4. CASE order[req[w].order].customer # c
        BY <4>1, <4>2, <4>4
      <4> QED
        BY <4>3, <4>4
    <3> HIDE DEF P, Q
    <3> QED
      BY <3>1, <3>2, <3>3, <3>4, RowsMove
  <2>3. P \subseteq Workers /\ Q \subseteq Workers
    OBVIOUS
  <2>4. referrals[c] \in Nat /\ referrals'[c] \in Nat
    BY <1>1
  <2> HIDE DEF P, Q
  <2>5. referrals'[c] + Cardinality(Q) <= Cardinality(Workers)
    BY <1>1, <2>1, <2>2, <2>3, <2>4, BoundKept
  <2> QED
    BY <2>5 DEF Q
<1> QED
  BY <1>3, <1>4 DEF RewardsBounded, Paying, PayingReferral, At

LEMMA InitEarned == Init => EarnedInv
<1> SUFFICES ASSUME Init PROVE EarnedInv
  OBVIOUS
<1>1. Delivering
  BY DEF Init, Delivering, NoRequest, Unplaced, Saved
<1>2. RewardOnlyAfterDelivery
  BY DEF Init, RewardOnlyAfterDelivery
<1>3. RewardsBounded
  <2>1. Cardinality(Workers) \in Nat /\ Cardinality({}) = 0
    BY OrderDeskAssumption, FS_CardinalityType, FS_EmptySet
  <2>2. ASSUME NEW o \in Orders
        PROVE  {w \in Workers : Paying(w, {"signal", "view"}) /\ req[w].order = o} = {}
    BY DEF Init, NoRequest, Paying
  <2>3. ASSUME NEW c \in Customers
        PROVE  {w \in Workers :
                  PayingReferral(w) /\ order[req[w].order].customer = c} = {}
    BY DEF Init, NoRequest, Paying, PayingReferral, At
  <2>4. /\ \A o \in Orders : bonuses[o] = 0
        /\ \A c \in Customers : referrals[c] = 0
    BY DEF Init
  <2>5. 0 + Cardinality({}) <= Cardinality(Workers)
    BY <2>1
  <2>6. ASSUME NEW o \in Orders
        PROVE  bonuses[o] + Cardinality({w \in Workers :
                   Paying(w, {"signal", "view"}) /\ req[w].order = o}) <= Cardinality(Workers)
    BY <2>2, <2>4, <2>5
  <2>7. ASSUME NEW c \in Customers
        PROVE  referrals[c] + Cardinality({w \in Workers :
                   PayingReferral(w) /\ order[req[w].order].customer = c})
                     <= Cardinality(Workers)
    BY <2>3, <2>4, <2>5
  <2> QED
    BY <2>6, <2>7 DEF RewardsBounded, PayingReferral
<1> QED
  BY <1>1, <1>2, <1>3 DEF EarnedInv

LEMMA EarnedInvariance == Spec => [](IInv /\ EarnedInv)
<1>1. IInv /\ EarnedInv /\ [Next]_vars => EarnedInv'
  <2> SUFFICES ASSUME IInv, EarnedInv, [Next]_vars PROVE EarnedInv'
    OBVIOUS
  <2>1. CASE Next
    BY <2>1, DeliveringStep, RewardStep, BoundStep DEF EarnedInv
  <2>2. CASE UNCHANGED vars
    <3>1. Delivering'
      BY <2>2 DEF vars, EarnedInv, Delivering, Placed
    <3>2. RewardOnlyAfterDelivery'
      BY <2>2 DEF vars, EarnedInv, RewardOnlyAfterDelivery
    <3>3. RewardsBounded'
      BY <2>2 DEF vars, EarnedInv, RewardsBounded, Paying, At
    <3> QED
      BY <3>1, <3>2, <3>3 DEF EarnedInv
  <2> QED
    BY <2>1, <2>2
<1> QED
  BY <1>1, InitEarned, Invariance, PTL DEF Spec

\* No interleaving of statuses, deaths and broker failures pays a reward that no
\* delivery has earned.
THEOREM RewardsAreEarned == Spec => []RewardOnlyAfterDelivery
<1>1. EarnedInv => RewardOnlyAfterDelivery
  BY DEF EarnedInv
<1> QED
  BY <1>1, EarnedInvariance, PTL

\* However the tests for an earlier row race, a reward has at most as many rows as
\* there are workers, those that are about to be written included.
THEOREM RewardsStayBounded == Spec => []RewardsBounded
<1>1. EarnedInv => RewardsBounded
  BY DEF EarnedInv
<1> QED
  BY <1>1, EarnedInvariance, PTL

\* README: "A dedupe check stops double-crediting if the order is saved again after
\* delivery".  It does where requests are handled one after the other, whatever statuses
\* are posted and whether the broker fails: no reward has a second row.  (A payment whose
\* worker died before the row has none, so it may be repeated.)
THEOREM RewardsPaidOnce == ASSUME Cardinality(Workers) = 1 PROVE Spec => []PaidOnce
<1>1. RewardsBounded /\ IInv => PaidOnce
  <2> SUFFICES ASSUME RewardsBounded, IInv PROVE PaidOnce
    OBVIOUS
  <2>1. ASSUME NEW S, S \subseteq Workers PROVE Cardinality(S) \in Nat
    BY <2>1, OrderDeskAssumption, FS_Subset, FS_CardinalityType
  <2>2. ASSUME NEW o \in Orders PROVE bonuses[o] <= 1
    <3> DEFINE payers == {w \in Workers : Paying(w, {"signal", "view"}) /\ req[w].order = o}
    <3>1. bonuses[o] + Cardinality(payers) <= 1 /\ bonuses[o] \in Nat
      BY DEF RewardsBounded, IInv, DeskTypeOK
    <3>2. Cardinality(payers) \in Nat
      BY <2>1
    <3> QED
      BY <3>1, <3>2
  <2>3. ASSUME NEW c \in Customers PROVE referrals[c] <= 1
    <3> DEFINE payers == {w \in Workers : PayingReferral(w)
                                             /\ order[req[w].order].customer = c}
    <3>1. referrals[c] + Cardinality(payers) <= 1 /\ referrals[c] \in Nat
      BY DEF RewardsBounded, PayingReferral, IInv, DeskTypeOK
    <3>2. Cardinality(payers) \in Nat
      BY <2>1
    <3> QED
      BY <3>1, <3>2
  <2> QED
    BY <2>2, <2>3 DEF PaidOnce
<1> QED
  BY <1>1, RewardsStayBounded, Invariance, PTL

-----------------------------------------------------------------------------
(* No reward is lost, as long as nobody dies *)

AtReward == {"read", "check", "pay", "log"}

\* The request of w has delivered o and still comes to the tests for its bonus.
BonusComes(w, o) ==
    req[w].pc \in AtReward /\ req[w].new = "delivered" /\ req[w].order = o

\* ... and to the test for the referral bonus, which stands before the view's.
ReferralComes(w, o) ==
    /\ \/ req[w].pc \in AtReward /\ req[w].stage \in {"signal", "referral"}
       \/ req[w].pc = "notify"
    /\ req[w].new = "delivered" /\ req[w].order = o

NoBonusLost ==
    \A o \in Orders : order[o].deliveredAt /\ order[o].bonus > 0 =>
        bonuses[o] > 0 \/ \E w \in Workers : BonusComes(w, o)

Qualifies(o) == /\ order[o].deliveredAt
                /\ Referrer[order[o].customer] # NoOne
                /\ order[o].subtotal >= MinForBonus

NoReferralLost ==
    \A o \in Orders : Qualifies(o) =>
        referrals[order[o].customer] > 0 \/ \E w \in Workers : ReferralComes(w, o)

\* A request at one of its rewards goes on to it, or leaves it in one of three ways.
LEMMA RewardMoves ==
    ASSUME ~MayCrash, IInv, Next, NEW v \in Workers, req[v].pc \in AtReward
    PROVE  \/ /\ req'[v].pc \in AtReward /\ req'[v].stage = req[v].stage
              /\ req'[v].new = req[v].new /\ req'[v].order = req[v].order
           \/ /\ req'[v] = AfterStage(req[v])
              /\ Skip(v) \/ (Check(v) /\ Rows(req[v]) > 0) \/ PostRow(v)
<1>1. PICK w \in Workers : Start(w) \/ Serve(w) \/ BrokerDown(w) \/ Die(w)
  BY DEF Next
<1>2. req \in [Workers -> Request] /\ req[v] \in Request
  BY DEF IInv, DeskTypeOK
<1>3. CASE v # w
  <2>1. req'[v] = req[v]
    BY <1>1, <1>2, <1>3
       DEF Start, Serve, BrokerDown, Die, Abandon, CheckoutOpen, CheckoutCommit, Debited,
           CheckoutDebit, CheckoutRefused, SpinEnd, SpinRead, SpinFound, SpinNotFound, SpinPay,
           CancelLock, CancelRead, CancelCommit, Assign, RiderLoad, SpinLock, PreSave, SaveStatus,
           Skip, ReadWallet, Check, Pay, PostRow, Notify, Reply, Goto
  <2> QED
    BY <2>1
<1>4. CASE v = w
  <2>1. \/ \E o \in Orders, r \in Riders : Assign(v, o, r)
        \/ Skip(v) \/ ReadWallet(v) \/ Check(v) \/ Pay(v) \/ PostRow(v)
    BY <1>1, <1>4
       DEF AtReward, Start, Serve, BrokerDown, Die, CheckoutOpen, CheckoutCommit, Debited,
           CheckoutDebit, CheckoutRefused, SpinEnd, SpinRead, SpinFound, SpinNotFound, SpinPay,
           CancelLock, CancelRead, CancelCommit, RiderLoad, SpinLock, PreSave, SaveStatus, Notify,
           Reply, At
  <2>2. CASE \E o \in Orders, r \in Riders : Assign(v, o, r)
    BY <2>2 DEF Assign
  <2>3. CASE ReadWallet(v)
    BY <1>2, <2>3 DEF ReadWallet, Goto, Request, AtReward
  <2>4. CASE Pay(v)
    BY <1>2, <2>4 DEF Pay, Goto, Request, AtReward
  <2>5. CASE Skip(v) \/ PostRow(v)
    BY <1>2, <2>5 DEF Skip, PostRow, Goto
  <2>6. CASE Check(v)
    <3>1. req'[v] = IF Rows(req[v]) > 0 THEN AfterStage(req[v]) ELSE [req[v] EXCEPT !.pc = "pay"]
      BY <1>2, <2>6 DEF Check, Goto
    <3>2. [req[v] EXCEPT !.pc = "pay"].pc \in AtReward
      BY <1>2 DEF Request, AtReward
    <3>3. /\ [req[v] EXCEPT !.pc = "pay"].stage = req[v].stage
          /\ [req[v] EXCEPT !.pc = "pay"].new = req[v].new
          /\ [req[v] EXCEPT !.pc = "pay"].order = req[v].order
      BY <1>2 DEF Request
    <3>4. CASE Rows(req[v]) > 0
      BY <2>6, <3>1, <3>4
    <3>5. CASE ~(Rows(req[v]) > 0)
      BY <3>1, <3>2, <3>3, <3>5
    <3> QED
      BY <3>4, <3>5
  <2> QED
    BY <2>1, <2>2, <2>3, <2>4, <2>5, <2>6
<1> QED
  BY <1>3, <1>4

\* A request at its notifications comes through, while the broker is up.
LEMMA NotifyMoves ==
    ASSUME ~MayCrash, ~BrokerMayFail, IInv, Next, NEW v \in Workers, req[v].pc = "notify"
    PROVE  \/ req'[v] = req[v]
           \/ req'[v] = [req[v] EXCEPT !.pc = "read", !.stage = "referral"]
<1>1. PICK w \in Workers : Start(w) \/ Serve(w) \/ BrokerDown(w) \/ Die(w)
  BY DEF Next
<1>2. req \in [Workers -> Request]
  BY DEF IInv, DeskTypeOK
<1>3. CASE v # w
  BY <1>1, <1>2, <1>3
     DEF Start, Serve, BrokerDown, Die, Abandon, CheckoutOpen, CheckoutCommit, Debited,
         CheckoutDebit, CheckoutRefused, SpinEnd, SpinRead, SpinFound, SpinNotFound, SpinPay,
         CancelLock, CancelRead, CancelCommit, Assign, RiderLoad, SpinLock, PreSave, SaveStatus,
         Skip, ReadWallet, Check, Pay, PostRow, Notify, Reply, Goto
<1>4. CASE v = w
  <2>1. Notify(v) \/ \E o \in Orders, r \in Riders : Assign(v, o, r)
    BY <1>1, <1>4
       DEF Start, Serve, BrokerDown, Die, CheckoutOpen, CheckoutCommit, Debited, CheckoutDebit,
           CheckoutRefused, SpinEnd, SpinRead, SpinFound, SpinNotFound, SpinPay, CancelLock,
           CancelRead, CancelCommit, RiderLoad, SpinLock, PreSave, SaveStatus, Skip, ReadWallet,
           Check, Pay, PostRow, Reply, At
  <2> QED
    BY <1>2, <2>1 DEF Notify, Assign, Goto
<1> QED
  BY <1>3, <1>4

\* Rows are never taken back.
LEMMA RowsStay ==
    ASSUME IInv, Next
    PROVE  /\ \A o \in Orders : bonuses[o] > 0 => bonuses'[o] > 0
           /\ \A c \in Customers : referrals[c] > 0 => referrals'[c] > 0
<1>1. bonuses \in [Orders -> Nat] /\ referrals \in [Customers -> Nat]
  BY DEF IInv, DeskTypeOK
<1>2. ASSUME NEW w \in Workers, PostRow(w)
      PROVE  /\ \A o \in Orders : bonuses[o] > 0 => bonuses'[o] > 0
             /\ \A c \in Customers : referrals[c] > 0 => referrals'[c] > 0
  <2>1. CASE req[w].stage = "referral"
    <3>1. /\ referrals' = [referrals EXCEPT ![order[req[w].order].customer] = @ + 1]
          /\ bonuses' = bonuses
      BY <1>2, <2>1, PostRowWrites
    <3> QED
      BY <1>1, <3>1
  <2>2. CASE req[w].stage # "referral"
    <3>1. bonuses' = [bonuses EXCEPT ![req[w].order] = @ + 1] /\ referrals' = referrals
      BY <1>2, <2>2, PostRowWrites
    <3> QED
      BY <1>1, <3>1
  <2> QED
    BY <2>1, <2>2
<1>3. ASSUME NEW w \in Workers, SpinPay(w)
      PROVE  /\ \A o \in Orders : bonuses[o] > 0 => bonuses'[o] > 0
             /\ \A c \in Customers : referrals[c] > 0 => referrals'[c] > 0
  <2>1. /\ referrals' = [referrals EXCEPT ![order[req[w].order].customer] = @ + 1]
        /\ bonuses' = bonuses
    BY <1>3, SpinPayWrites
  <2> QED
    BY <1>1, <2>1
<1> QED
  BY <1>2, <1>3, RowsMove

\* An order is delivered by a request that comes to its rewards next.
LEMMA DeliveredBySave ==
    ASSUME IInv, Delivering, Next, NEW o \in Orders,
           order'[o].deliveredAt, ~order[o].deliveredAt
    PROVE  \E w \in Workers : /\ req'[w].pc = "read" /\ req'[w].new = "delivered"
                              /\ req'[w].order = o
                              /\ req'[w].stage \in {"signal", "referral"}
<1>1. PICK w \in Workers : Start(w) \/ Serve(w) \/ BrokerDown(w) \/ Die(w)
  BY DEF Next
<1>2. /\ order \in [Orders -> OrderRow] /\ order[o] \in OrderRow
      /\ req \in [Workers -> Request] /\ req[w] \in Request
  BY DEF IInv, DeskTypeOK
<1>3. CASE CancelCommit(w)
  BY <1>2, <1>3 DEF CancelCommit, OrderRow
<1>4. CASE \E p \in Orders, s \in Subtotals, b \in DeliveryBonuses : CheckoutCommit(w, p, s, b)
  <2>1. order'[o] = order[o] \/ order'[o].deliveredAt = FALSE
    BY <1>2, <1>4 DEF CheckoutCommit, Debited, Unplaced
  <2> QED
    BY <2>1
<1>5. CASE \E p \in Orders, r \in Riders : Assign(w, p, r)
  BY <1>2, <1>5 DEF Assign, OrderRow
<1>6. CASE SaveStatus(w)
  <2>1. req[w].order \in Orders
    BY <1>6 DEF SaveStatus, At, IInv, RequestsOK, RequestOK, Posting
  <2>2. req[w].order = o /\ req[w].new = "delivered"
    BY <1>2, <1>6, <2>1 DEF SaveStatus, OrderRow
  <2>3. req'[w] = AfterSave(req[w])
    BY <1>2, <1>6 DEF SaveStatus, Goto
  <2>4. CASE req[w].new = req[w].prev
    BY <1>2, <2>2, <2>3, <2>4 DEF AfterSave, Request
  <2>5. CASE req[w].new # req[w].prev
    BY <1>2, <2>2, <2>3, <2>5 DEF AfterSave, Request
  <2> QED
    BY <2>4, <2>5
<1>7. CASE UNCHANGED order
  BY <1>7
<1> QED
  BY <1>1, <1>3, <1>4, <1>5, <1>6, <1>7
     DEF Start, Serve, BrokerDown, Die, Abandon, CheckoutOpen, CheckoutDebit, CheckoutRefused,
         SpinEnd, SpinRead, SpinFound, SpinNotFound, SpinPay, CancelLock, CancelRead, RiderLoad,
         SpinLock, PreSave, Skip, ReadWallet, Check, Pay, PostRow, Notify, Reply

LEMMA BonusStep ==
    ASSUME ~MayCrash, IInv, Delivering, NoBonusLost, Next
    PROVE  NoBonusLost'
<1> SUFFICES ASSUME NEW o \in Orders, order'[o].deliveredAt, order'[o].bonus > 0
             PROVE  bonuses'[o] > 0 \/ \E w \in Workers : BonusComes(w, o)'
  BY DEF NoBonusLost, BonusComes
<1>1. CASE ~order[o].deliveredAt
  BY <1>1, DeliveredBySave DEF BonusComes, AtReward
<1>2. CASE order[o].deliveredAt
  <2>1. order[o].bonus > 0
    BY <1>2, TermsKept DEF Delivering, SameTerms
  <2>2. CASE bonuses[o] > 0
    BY <2>2, RowsStay
  <2>3. ASSUME NEW w \in Workers, BonusComes(w, o)
        PROVE  bonuses'[o] > 0 \/ BonusComes(w, o)'
    <3>1. req[w] \in Request /\ bonuses \in [Orders -> Nat]
      BY DEF IInv, DeskTypeOK
    <3>2. CASE /\ req'[w].pc \in AtReward /\ req'[w].new = req[w].new
               /\ req'[w].order = req[w].order
      BY <2>3, <3>2 DEF BonusComes
    <3>3. CASE req'[w] = AfterStage(req[w]) /\ req[w].stage = "referral"
      BY <2>3, <3>1, <3>3 DEF BonusComes, AfterStage, Request, AtReward
    <3>4. CASE Skip(w) /\ req[w].stage # "referral"
      BY <2>1, <2>3, <3>4 DEF Skip, Due, BonusComes
    <3>5. CASE Check(w) /\ Rows(req[w]) > 0 /\ req[w].stage # "referral"
      BY <2>3, <3>5, RowsStay DEF Rows, BonusComes
    <3>6. CASE PostRow(w) /\ req[w].stage # "referral"
      <4>1. bonuses' = [bonuses EXCEPT ![o] = @ + 1]
        BY <2>3, <3>6, PostRowWrites DEF BonusComes
      <4> QED
        BY <3>1, <4>1
    <3> QED
      BY <2>3, <3>2, <3>3, <3>4, <3>5, <3>6, RewardMoves DEF BonusComes
  <2> QED
    BY <1>2, <2>1, <2>2, <2>3 DEF NoBonusLost
<1> QED
  BY <1>1, <1>2

LEMMA ReferralStep ==
    ASSUME ~MayCrash, ~BrokerMayFail, IInv, Delivering, NoReferralLost, Next
    PROVE  NoReferralLost'
<1> SUFFICES ASSUME NEW o \in Orders, Qualifies(o)'
             PROVE  \/ referrals'[order'[o].customer] > 0
                    \/ \E w \in Workers : ReferralComes(w, o)'
  BY DEF NoReferralLost
<1>1. CASE ~order[o].deliveredAt
  BY <1>1, DeliveredBySave DEF Qualifies, ReferralComes, AtReward
<1>2. CASE order[o].deliveredAt
  <2> DEFINE c == order[o].customer
  <2>1. Placed(o) /\ Qualifies(o) /\ order'[o].customer = c /\ c \in Customers
    BY <1>2, TermsKept DEF Delivering, SameTerms, Qualifies, IInv, OrdersOK
  <2>2. CASE referrals[c] > 0
    BY <2>1, <2>2, RowsStay
  <2>3. ASSUME NEW w \in Workers, ReferralComes(w, o)
        PROVE  referrals'[c] > 0 \/ ReferralComes(w, o)'
    <3>1. req[w] \in Request /\ referrals \in [Customers -> Nat]
      BY DEF IInv, DeskTypeOK
    <3>2. CASE req[w].pc = "notify"
      <4>1. \/ req'[w] = req[w]
            \/ req'[w] = [req[w] EXCEPT !.pc = "read", !.stage = "referral"]
        BY <3>2, NotifyMoves
      <4> QED
        BY <2>3, <3>1, <3>2, <4>1 DEF ReferralComes, AtReward, Request
    <3>3. CASE req[w].pc \in AtReward
      <4>1. req[w].stage \in {"signal", "referral"}
        BY <2>3, <3>3 DEF ReferralComes, AtReward
      <4>2. CASE /\ req'[w].pc \in AtReward /\ req'[w].stage = req[w].stage
                 /\ req'[w].new = req[w].new /\ req'[w].order = req[w].order
        BY <2>3, <4>1, <4>2 DEF ReferralComes
      <4>3. CASE req'[w] = AfterStage(req[w]) /\ req[w].stage = "signal"
        BY <2>3, <3>1, <4>3 DEF ReferralComes, AfterStage, Request
      <4>4. CASE Skip(w) /\ req[w].stage = "referral"
        BY <2>1, <2>3, <4>4 DEF Skip, Due, ReferralComes, Qualifies
      <4>5. CASE Check(w) /\ Rows(req[w]) > 0 /\ req[w].stage = "referral"
        BY <2>1, <2>3, <4>5, RowsStay DEF Rows, ReferralComes
      <4>6. CASE PostRow(w) /\ req[w].stage = "referral"
        <5>1. referrals' = [referrals EXCEPT ![c] = @ + 1]
          BY <2>3, <4>6, PostRowWrites DEF ReferralComes
        <5> QED
          BY <2>1, <3>1, <5>1
      <4> QED
        BY <3>3, <4>1, <4>2, <4>3, <4>4, <4>5, <4>6, RewardMoves
    <3> QED
      BY <2>3, <3>2, <3>3 DEF ReferralComes
  <2> QED
    BY <2>1, <2>2, <2>3 DEF NoReferralLost
<1> QED
  BY <1>1, <1>2

\* With any number of workers, and whether or not the broker is up, a delivered order has
\* its bonus or a request on its way to it: no overlap of the dedupe tests lets every
\* request leave the payment to another.
THEOREM BonusIsNotLost == ASSUME ~MayCrash PROVE Spec => []NoBonusLost
<1>1. Init => NoBonusLost
  BY DEF Init, NoBonusLost, Unplaced
<1>2. IInv /\ EarnedInv /\ NoBonusLost /\ [Next]_vars => NoBonusLost'
  <2>1. ASSUME NoBonusLost, UNCHANGED vars PROVE NoBonusLost'
    BY <2>1 DEF vars, NoBonusLost, BonusComes
  <2> QED
    BY <2>1, BonusStep DEF EarnedInv
<1> QED
  BY <1>1, <1>2, EarnedInvariance, PTL DEF Spec

\* The same of the referral bonus, as long as the notifications before it come through.
THEOREM ReferralIsNotLost ==
    ASSUME ~MayCrash, ~BrokerMayFail
    PROVE  Spec => []NoReferralLost
<1>1. Init => NoReferralLost
  BY DEF Init, NoReferralLost, Qualifies, Unplaced
<1>2. IInv /\ EarnedInv /\ NoReferralLost /\ [Next]_vars => NoReferralLost'
  <2>1. ASSUME NoReferralLost, UNCHANGED vars PROVE NoReferralLost'
    BY <2>1 DEF vars, NoReferralLost, ReferralComes, Qualifies
  <2> QED
    BY <2>1, ReferralStep DEF EarnedInv
<1> QED
  BY <1>1, <1>2, EarnedInvariance, PTL DEF Spec

\* So between two requests every delivered order is rewarded, at least once and at most as
\* often as there are workers.
THEOREM DeliveredIsRewarded ==
    ASSUME ~MayCrash
    PROVE  Spec => [](\A o \in Orders :
              /\ \A w \in Workers : At(w, "idle")
              /\ order[o].deliveredAt /\ order[o].bonus > 0
              => bonuses[o] \in 1..Cardinality(Workers))
<1> DEFINE AtRest == \A o \in Orders :
              /\ \A w \in Workers : At(w, "idle")
              /\ order[o].deliveredAt /\ order[o].bonus > 0
              => bonuses[o] \in 1..Cardinality(Workers)
<1>1. IInv /\ NoBonusLost /\ RewardsBounded => AtRest
  <2> SUFFICES ASSUME IInv, NoBonusLost, RewardsBounded, NEW o \in Orders,
                      \A w \in Workers : At(w, "idle"),
                      order[o].deliveredAt, order[o].bonus > 0
               PROVE  bonuses[o] \in 1..Cardinality(Workers)
    OBVIOUS
  <2>1. bonuses[o] > 0 /\ bonuses[o] \in Nat
    BY DEF NoBonusLost, BonusComes, AtReward, At, IInv, DeskTypeOK
  <2> DEFINE P == {w \in Workers : Paying(w, {"signal", "view"}) /\ req[w].order = o}
  <2>2. bonuses[o] + Cardinality(P) <= Cardinality(Workers)
    BY DEF RewardsBounded
  <2>3. Cardinality(P) \in Nat /\ Cardinality(Workers) \in Nat
    BY OrderDeskAssumption, FS_Subset, FS_CardinalityType
  <2> HIDE DEF P
  <2> QED
    BY <2>1, <2>2, <2>3
<1> QED
  BY <1>1, BonusIsNotLost, RewardsStayBounded, Invariance, PTL

-----------------------------------------------------------------------------
(* One request at a time: each handler is one step of OrderBook *)

\* The deployment in which the promises of OrderBook are kept.
Serial == WP!OneAtATime /\ ~BrokerMayFail

Hand == req[Sole]
Asking == {"read", "check", "pay", "log"}

\* What the only request may rely on at its statements, since nobody else writes: the
\* rider it was read for, that a reward about to be paid has no row yet, that the
\* receivers are done with the referral bonus once the view asks, and that a spin finds it
\* paid.
HandOK ==
    /\ Hand.pc \in {"presave", "save"} =>
          order[Hand.order].rider \in Riders /\ Hand.new \in RiderPosts
    /\ Hand.pc \in Asking => Hand.stage \in {"signal", "referral", "view"}
    /\ Hand.pc \in {"pay", "log"} => Rows(Hand) = 0
    /\ Hand.pc \in Asking /\ Hand.stage = "view" => ~OwesReferral(order[Hand.order].customer)
    /\ Hand.pc \in {"spin", "spincheck"} /\ Due(Hand) => Rows(Hand) > 0
    /\ Hand.pc # "spinpay"

BonusPart(x) == IF /\ OwesBonus(Hand.order) /\ order[Hand.order].customer = x
                   /\ ~Written({"signal", "view"})
                THEN order[Hand.order].bonus ELSE 0
ReferralPart(x) == IF /\ OwesReferral(order[Hand.order].customer)
                      /\ Referrer[order[Hand.order].customer] = x
                      /\ ~Written({"referral"})
                   THEN ReferralBonus ELSE 0

LEMMA SoleFacts ==
    ASSUME Serial, IInv
    PROVE  /\ Workers = {Sole}
           /\ Hand \in Request /\ RequestOK(Sole)
           /\ order \in [Orders -> OrderRow]
           /\ bonuses \in [Orders -> Nat] /\ referrals \in [Customers -> Nat]
           /\ balance \in [Customers -> Nat]
           /\ req \in [Workers -> Request]
<1>1. Workers = {Sole}
  BY DEF Serial, WP!OneAtATime, Sole
<1>2. balance \in [Customers -> Nat]
  BY DEF IInv, WP!Inv, WP!TypeOK, WP!Solvent
<1> QED
  BY <1>1, <1>2 DEF IInv, DeskTypeOK, RequestsOK, Hand

OwedSum == \A x \in Customers : Owed(x) = BonusPart(x) + ReferralPart(x)

LEMMA OwedParts == OwedSum
<1> SUFFICES ASSUME NEW x \in Customers PROVE Owed(x) = BonusPart(x) + ReferralPart(x)
  BY DEF OwedSum
<1>1. CASE Rewarding
  BY <1>1, Zenon DEF Owed, BonusPart, ReferralPart, Hand
<1>2. CASE ~Rewarding
  <2>1. Owed(x) = 0 /\ BonusPart(x) = 0 /\ ReferralPart(x) = 0
    BY <1>2 DEF Owed, BonusPart, ReferralPart, OwesBonus, OwesReferral
  <2> QED
    BY <2>1
<1> QED
  BY <1>1, <1>2

LEMMA PartsType ==
    ASSUME Serial, IInv, NEW x \in Customers
    PROVE  BonusPart(x) \in Nat /\ ReferralPart(x) \in Nat
<1>1. ReferralBonus \in Nat
  BY OrderDeskAssumption
<1>2. OwesBonus(Hand.order) => order[Hand.order].bonus \in Nat
  <2>1. Rewarding => Hand.order \in Orders
    BY SoleFacts DEF Rewarding, RequestOK, Posting, Hand
  <2> QED
    BY <2>1, SoleFacts DEF OwesBonus, OrderRow
<1> QED
  BY <1>1, <1>2 DEF BonusPart, ReferralPart

\* What the book does not see.
LEMMA BookSame ==
    ASSUME order' = order,
           \A x \in Customers : balance'[x] + Owed(x)' = balance[x] + Owed(x),
           \A o \in Orders : (bonuses'[o] > 0 \/ OwesBonus(o)') <=> (bonuses[o] > 0 \/ OwesBonus(o)),
           \A c \in Customers :
               (referrals'[c] > 0 \/ OwesReferral(c)') <=> (referrals[c] > 0 \/ OwesReferral(c))
    PROVE  UNCHANGED Book!bvars
BY DEF Book!bvars

\* Nothing is written, and the request goes on with what it owes.
LEMMA OwesSame ==
    ASSUME UNCHANGED <<order, balance, bonuses, referrals>>,
           Hand.pc \in {"read", "check", "notify"},
           Hand'.pc \in {"read", "check", "pay", "notify"},
           Hand'.order = Hand.order, Hand'.new = Hand.new
    PROVE  UNCHANGED Book!bvars
<1>0. OwedSum'
  BY OwedParts, PTL
<1>1. Rewarding' <=> Rewarding
  BY DEF Rewarding, Hand
<1>2. /\ ~Written({"signal", "view"}) /\ ~Written({"signal", "view"})'
      /\ ~Written({"referral"}) /\ ~Written({"referral"})'
  BY DEF Written, At, Hand
<1>3. \A o \in Orders : OwesBonus(o)' <=> OwesBonus(o)
  BY <1>1 DEF OwesBonus, Hand
<1>4. \A c \in Customers : OwesReferral(c)' <=> OwesReferral(c)
  BY <1>1 DEF OwesReferral, Hand
<1>5. ASSUME NEW x \in Customers PROVE Owed(x)' = Owed(x)
  <2>1. BonusPart(x)' = BonusPart(x)
    BY <1>1, <1>2 DEF BonusPart, OwesBonus, Hand
  <2>2. ReferralPart(x)' = ReferralPart(x)
    BY <1>1, <1>2 DEF ReferralPart, OwesReferral, Hand
  <2> QED
    BY <1>0, <2>1, <2>2, OwedParts DEF OwedSum
<1> QED
  BY <1>3, <1>4, <1>5, BookSame

OwesNothing == ~OwesBonus(Hand.order) /\ ~OwesReferral(order[Hand.order].customer)

NothingIsOwed == /\ \A o \in Orders : ~OwesBonus(o)
                 /\ \A c \in Customers : ~OwesReferral(c) /\ Owed(c) = 0

LEMMA NothingOwed == OwesNothing => NothingIsOwed
<1> SUFFICES ASSUME OwesNothing PROVE NothingIsOwed
  OBVIOUS
<1>1. \A o : ~OwesBonus(o)
  BY DEF OwesNothing, OwesBonus, Hand
<1>2. \A c : ~OwesReferral(c)
  BY DEF OwesNothing, OwesReferral, Hand
<1>3. \A c : Owed(c) = 0
  BY <1>1, <1>2 DEF Owed
<1> QED
  BY <1>1, <1>2, <1>3 DEF NothingIsOwed

LEMMA OwesNever ==
    ASSUME UNCHANGED <<order, balance, bonuses, referrals>>, OwesNothing, OwesNothing'
    PROVE  UNCHANGED Book!bvars
<1>1. NothingIsOwed /\ NothingIsOwed'
  <2>1. (OwesNothing => NothingIsOwed)'
    BY NothingOwed, PTL
  <2> QED
    BY <2>1, NothingOwed
<1> QED
  BY <1>1, BookSame DEF NothingIsOwed

LEMMA IdleOwesNothing ==
    Hand.pc \notin {"read", "check", "pay", "log", "notify"} => OwesNothing
BY DEF OwesNothing, OwesBonus, OwesReferral, Rewarding, Hand

\* What opens, locks and reads moves nothing.
LEMMA QuietStep ==
    ASSUME Serial, IInv,
           \/ \E c \in Customers : CheckoutOpen(Sole, c)
           \/ \E o \in Orders : CancelLock(Sole, o)
           \/ \E o \in Orders, s \in RiderPosts : RiderLoad(Sole, o, s)
           \/ CheckoutRefused(Sole) \/ CancelRead(Sole) \/ PreSave(Sole) \/ Reply(Sole),
           HandOK
    PROVE  HandOK' /\ UNCHANGED Book!bvars
<1>1. UNCHANGED <<order, balance, bonuses, referrals>>
  BY DEF CheckoutOpen, CancelLock, RiderLoad, CheckoutRefused, CancelRead, PreSave, Reply, W!Open,
         W!Close, walletVars, rows
<1>2. Sole \in Workers /\ req \in [Workers -> Request] /\ Hand \in Request
  BY SoleFacts
<1>3. /\ Hand.pc \in {"idle", "checkout", "locked", "presave", "done"}
      /\ \/ Hand'.pc \in {"idle", "checkout", "locked", "refund", "done"}
         \/ \E o \in Orders, s \in RiderPosts :
               /\ order[o].rider \in Riders
               /\ Hand' = [NoRequest EXCEPT !.pc = "presave", !.order = o, !.new = s]
         \/ /\ Hand.pc = "presave"
            /\ Hand' = [Hand EXCEPT !.pc = "save", !.prev = order[Hand.order].status]
  <2>1. CASE \E c \in Customers : CheckoutOpen(Sole, c)
    BY <1>2, <2>1 DEF CheckoutOpen, At, Goto, NoRequest, Hand
  <2>2. CASE \E o \in Orders : CancelLock(Sole, o)
    BY <1>2, <2>2 DEF CancelLock, At, Goto, NoRequest, Hand
  <2>3. CASE \E o \in Orders, s \in RiderPosts : RiderLoad(Sole, o, s)
    BY <1>2, <2>3 DEF RiderLoad, At, Goto, Hand
  <2>4. CASE CheckoutRefused(Sole) \/ Reply(Sole)
    <3>1. Hand.pc \in {"checkout", "done"}
      BY <2>4 DEF CheckoutRefused, Reply, At, Hand
    <3>2. Hand' \in {NoRequest, [NoRequest EXCEPT !.pc = "done"]}
      BY <1>2, <2>4 DEF CheckoutRefused, Reply, Goto, Hand
    <3>3. Hand'.pc \in {"idle", "done"}
      BY <3>2 DEF NoRequest
    <3> QED
      BY <3>1, <3>3
  <2>5. CASE CancelRead(Sole)
    BY <1>2, <2>5 DEF CancelRead, At, Goto, Hand, Request
  <2>6. CASE PreSave(Sole)
    BY <1>2, <2>6 DEF PreSave, At, Goto, Hand
  <2> QED
    BY <2>1, <2>2, <2>3, <2>4, <2>5, <2>6
<1>4. Hand'.pc \in {"idle", "checkout", "locked", "refund", "done", "presave", "save"}
  BY <1>2, <1>3 DEF NoRequest, Request
<1>5. HandOK'
  <2>1. CASE Hand'.pc \in {"idle", "checkout", "locked", "refund", "done"}
    BY <2>1 DEF HandOK, Asking, Hand
  <2>2. ASSUME NEW o \in Orders, NEW s \in RiderPosts, order[o].rider \in Riders,
               Hand' = [NoRequest EXCEPT !.pc = "presave", !.order = o, !.new = s]
        PROVE  HandOK'
    <3>1. Hand'.pc = "presave" /\ Hand'.order = o /\ Hand'.new = s
      BY <2>2 DEF NoRequest
    <3> QED
      BY <1>1, <2>2, <3>1 DEF HandOK, Asking
  <2>3. CASE /\ Hand.pc = "presave"
             /\ Hand' = [Hand EXCEPT !.pc = "save", !.prev = order[Hand.order].status]
    <3>1. Hand'.pc = "save" /\ Hand'.order = Hand.order /\ Hand'.new = Hand.new
      BY <1>2, <2>3 DEF Request
    <3> QED
      BY <1>1, <2>3, <3>1 DEF HandOK, Asking
  <2> QED
    BY <1>3, <2>1, <2>2, <2>3
<1>6. OwesNothing /\ OwesNothing'
  <2>1. (Hand.pc \notin {"read", "check", "pay", "log", "notify"} => OwesNothing)'
    BY IdleOwesNothing, PTL
  <2> QED
    BY <1>3, <1>4, <2>1, IdleOwesNothing
<1> QED
  BY <1>1, <1>5, <1>6, OwesNever

\* A checkout that debits and a spin that finds the referral bonus paid move nothing yet.
LEMMA AsideBookStep ==
    ASSUME Serial, IInv, HandOK, Delivering, NoReferralLost, Aside(Sole)
    PROVE  HandOK' /\ UNCHANGED Book!bvars
<1>1. /\ Workers = {Sole} /\ req \in [Workers -> Request] /\ Hand \in Request
      /\ RequestOK(Sole)
      /\ referrals \in [Customers -> Nat]
  BY SoleFacts
<1>2. ~SpinPay(Sole)
  BY DEF SpinPay, At, HandOK, Hand
<1>3. ~SpinNotFound(Sole)
  <2> SUFFICES ASSUME SpinNotFound(Sole) PROVE FALSE
    OBVIOUS
  <2>1. Hand.pc = "spincheck" /\ Rows(Hand) = 0
    BY DEF SpinNotFound, At, Hand
  <2>2. Due(Hand)
    BY <1>1, <2>1 DEF RequestOK, Hand
  <2> QED
    BY <2>1, <2>2 DEF HandOK
<1>4. UNCHANGED <<order, balance, bonuses, referrals>>
  BY <1>2 DEF Aside, CheckoutDebit, SpinLock, SpinEnd, SpinRead, SpinFound, SpinNotFound, W!Open,
              walletVars, rows
<1>5. /\ Hand.pc \in {"idle", "checkout", "spin", "spincheck", "spinpay"}
      /\ Hand'.pc \in {"debited", "spin", "spincheck", "done"}
  BY <1>1, <1>3, AsideMoves DEF Hand
<1>6. OwesNothing /\ OwesNothing'
  <2>1. (Hand.pc \notin {"read", "check", "pay", "log", "notify"} => OwesNothing)'
    BY IdleOwesNothing, PTL
  <2> QED
    BY <1>5, <2>1, IdleOwesNothing
<1>7. HandOK'
  <2>1. CASE Hand'.pc \in {"debited", "done"}
    BY <2>1 DEF HandOK, Asking
  <2>2. ASSUME NEW o \in Orders, SpinLock(Sole, o) PROVE HandOK'
    <3>1. /\ Hand'.pc = "spin" /\ Hand'.stage = "referral" /\ Hand'.order = o
          /\ order[o].status = "delivered" /\ Hand.pc = "idle"
      BY <1>1, <2>2 DEF SpinLock, Goto, At, Hand
    <3>2. Due(Hand)' => Qualifies(o)
      BY <1>4, <3>1 DEF Due, Qualifies, Delivering
    <3>3. Qualifies(o) => referrals[order[o].customer] > 0
      BY <1>1, <3>1 DEF NoReferralLost, ReferralComes, AtReward, Hand
    <3>4. Rows(Hand)' = referrals[order[o].customer]
      BY <1>4, <3>1 DEF Rows
    <3> QED
      BY <3>1, <3>2, <3>3, <3>4 DEF HandOK, Asking
  <2>3. CASE SpinRead(Sole)
    <3>1. Hand.pc = "spin" /\ Hand' = [Hand EXCEPT !.pc = "spincheck"] /\ Due(Hand)
      BY <1>1, <2>3 DEF SpinRead, Goto, At, Hand
    <3>2. /\ Hand'.pc = "spincheck" /\ Hand'.order = Hand.order /\ Hand'.stage = Hand.stage
      BY <1>1, <3>1 DEF Request
    <3>3. Rows(Hand)' = Rows(Hand) /\ Rows(Hand) > 0
      BY <1>4, <3>1, <3>2 DEF HandOK, Rows
    <3> QED
      BY <3>2, <3>3 DEF HandOK, Asking
  <2>4. SpinEnd(Sole) \/ SpinFound(Sole) \/ (\E o \in Orders, s \in Subtotals : CheckoutDebit(Sole, o, s))
           => Hand'.pc \in {"debited", "done"}
    BY <1>1 DEF SpinEnd, SpinFound, CheckoutDebit, Goto, NoRequest, Hand
  <2> QED
    BY <1>2, <1>3, <2>1, <2>2, <2>3, <2>4 DEF Aside
<1> QED
  BY <1>4, <1>6, <1>7, OwesNever

-----------------------------------------------------------------------------
(* The rewards, statement by statement *)

\* A statement that writes nothing, after which the request asks on or is done.
LEMMA AskingStep ==
    ASSUME Serial, IInv, HandOK,
           Skip(Sole) \/ ReadWallet(Sole) \/ Check(Sole) \/ Notify(Sole)
    PROVE  HandOK' /\ UNCHANGED Book!bvars
<1>1. UNCHANGED <<order, balance, bonuses, referrals>>
  BY DEF Skip, ReadWallet, Check, Notify, W!Open, walletVars, rows
<1>2. /\ Sole \in Workers /\ req \in [Workers -> Request] /\ Hand \in Request
      /\ RequestOK(Sole)
  BY SoleFacts
<1>3. CASE Hand'.order = Hand.order /\ Hand'.new = Hand.new /\ HandOK'
           /\ Hand.pc \in {"read", "check", "notify"}
           /\ Hand'.pc \in {"read", "check", "pay", "notify"}
  BY <1>1, <1>3, OwesSame
<1>4. CASE /\ Hand.pc \in {"read", "check"} /\ Hand.stage = "view" /\ Hand'.pc = "done"
           /\ Hand.new = "delivered" => ~OwesBonus(Hand.order)
  <2>1. HandOK'
    BY <1>4 DEF HandOK, Asking
  <2>2. OwesNothing
    BY <1>4 DEF OwesNothing, OwesBonus, Rewarding, HandOK, Asking, Hand
  <2>3. OwesNothing'
    <3>1. (Hand.pc \notin {"read", "check", "pay", "log", "notify"} => OwesNothing)'
      BY IdleOwesNothing, PTL
    <3> QED
      BY <1>4, <3>1
  <2> QED
    BY <1>1, <2>1, <2>2, <2>3, OwesNever
<1>5. ASSUME Hand.pc \in {"read", "check"}, Hand' = AfterStage(Hand),
             Hand.stage = "referral" => ~OwesReferral(order[Hand.order].customer),
             Hand.stage = "view" => (Hand.new = "delivered" => ~OwesBonus(Hand.order))
      PROVE  HandOK' /\ UNCHANGED Book!bvars
  <2>1. Hand.stage \in {"signal", "referral", "view"}
    BY <1>5 DEF HandOK, Asking
  <2>2. CASE Hand.stage = "signal"
    <3>1. Hand'.pc = "notify" /\ Hand'.order = Hand.order /\ Hand'.new = Hand.new
      BY <1>2, <1>5, <2>2 DEF AfterStage, Request
    <3>2. HandOK'
      BY <3>1 DEF HandOK, Asking
    <3> QED
      BY <1>3, <1>5, <3>1, <3>2
  <2>3. CASE Hand.stage = "referral"
    <3>1. /\ Hand'.pc = "read" /\ Hand'.stage = "view"
          /\ Hand'.order = Hand.order /\ Hand'.new = Hand.new
      BY <1>2, <1>5, <2>3 DEF AfterStage, Request
    <3>2. ~OwesReferral(order[Hand.order].customer)'
      BY <1>1, <1>5, <2>3, <3>1 DEF OwesReferral, Rewarding, Hand
    <3>3. HandOK'
      BY <1>1, <3>1, <3>2 DEF HandOK, Asking
    <3> QED
      BY <1>3, <1>5, <3>1, <3>3
  <2>4. CASE Hand.stage = "view"
    <3>1. Hand'.pc = "done"
      BY <1>2, <1>5, <2>4 DEF AfterStage, Request
    <3> QED
      BY <1>4, <1>5, <2>4, <3>1
  <2> QED
    BY <2>1, <2>2, <2>3, <2>4
<1>6. CASE Skip(Sole)
  <2>1. Hand.pc = "read" /\ ~Due(Hand) /\ Hand' = AfterStage(Hand)
    BY <1>2, <1>6 DEF Skip, At, Goto, Hand
  <2>2. Hand.stage = "referral" => ~OwesReferral(order[Hand.order].customer)
    BY <2>1 DEF Due, OwesReferral, Rewarding, Hand
  <2>3. Hand.stage = "view" => (Hand.new = "delivered" => ~OwesBonus(Hand.order))
    BY <2>1 DEF Due, OwesBonus, Hand
  <2> QED
    BY <1>5, <2>1, <2>2, <2>3
<1>7. CASE ReadWallet(Sole)
  <2>1. Hand.pc = "read" /\ Hand' = [Hand EXCEPT !.pc = "check"]
    BY <1>2, <1>7 DEF ReadWallet, At, Goto, Hand
  <2>2. /\ Hand'.pc = "check" /\ Hand'.stage = Hand.stage
        /\ Hand'.order = Hand.order /\ Hand'.new = Hand.new
    BY <1>2, <2>1 DEF Request
  <2>3. HandOK'
    BY <1>1, <2>1, <2>2 DEF HandOK, Asking, OwesReferral, Rewarding, Hand
  <2> QED
    BY <1>3, <2>1, <2>2, <2>3
<1>8. CASE Check(Sole)
  <2>1. Hand.pc = "check"
    BY <1>8 DEF Check, At, Hand
  <2>2. CASE Rows(Hand) > 0
    <3>1. Hand' = AfterStage(Hand)
      BY <1>2, <1>8, <2>2 DEF Check, Goto, Hand
    <3>2. Hand.stage = "referral" => ~OwesReferral(order[Hand.order].customer)
      BY <2>2 DEF Rows, OwesReferral
    <3>3. Hand.stage = "view" => (Hand.new = "delivered" => ~OwesBonus(Hand.order))
      BY <2>2 DEF Rows, OwesBonus
    <3> QED
      BY <1>5, <2>1, <3>1, <3>2, <3>3
  <2>3. CASE ~(Rows(Hand) > 0)
    <3>1. Hand' = [Hand EXCEPT !.pc = "pay"]
      BY <1>2, <1>8, <2>3 DEF Check, Goto, Hand
    <3>2. /\ Hand'.pc = "pay" /\ Hand'.stage = Hand.stage
          /\ Hand'.order = Hand.order /\ Hand'.new = Hand.new
      BY <1>2, <3>1 DEF Request
    <3>3. Rows(Hand) = 0
      <4>1. Hand.order \in Orders /\ order[Hand.order].customer \in Customers
        BY <1>2, <2>1 DEF RequestOK, Posting, Hand, IInv, OrdersOK
      <4>2. Rows(Hand) \in Nat
        BY <4>1, SoleFacts DEF Rows
      <4> QED
        BY <2>3, <4>2
    <3>4. (Rows(Hand) = 0)'
      BY <1>1, <3>2, <3>3 DEF Rows
    <3>5. HandOK'
      BY <1>1, <2>1, <3>2, <3>4 DEF HandOK, Asking, OwesReferral, Rewarding, Hand
    <3> QED
      BY <1>3, <2>1, <3>2, <3>5
  <2> QED
    BY <2>2, <2>3
<1>9. CASE Notify(Sole)
  <2>1. Hand.pc = "notify" /\ Hand' = [Hand EXCEPT !.pc = "read", !.stage = "referral"]
    BY <1>2, <1>9 DEF Notify, At, Goto, Hand
  <2>2. /\ Hand'.pc = "read" /\ Hand'.stage = "referral"
        /\ Hand'.order = Hand.order /\ Hand'.new = Hand.new
    BY <1>2, <2>1 DEF Request
  <2>3. HandOK'
    BY <2>2 DEF HandOK, Asking
  <2> QED
    BY <1>3, <2>1, <2>2, <2>3
<1> QED
  BY <1>6, <1>7, <1>8, <1>9

\* The UPDATE of the wallet moves a reward from what is owed to what is there.
LEMMA PayBookStep ==
    ASSUME Serial, IInv, HandOK, WP!Current, Pay(Sole)
    PROVE  HandOK' /\ UNCHANGED Book!bvars
<1>1. /\ Sole \in Workers /\ req \in [Workers -> Request] /\ Hand \in Request
      /\ RequestOK(Sole) /\ balance \in [Customers -> Nat]
  BY SoleFacts
<1>2. /\ UNCHANGED <<order, bonuses, referrals>>
      /\ Hand.pc = "pay" /\ Hand' = [Hand EXCEPT !.pc = "log"]
  BY <1>1 DEF Pay, At, Goto, rows, Hand
<1>3. /\ Hand'.pc = "log" /\ Hand'.stage = Hand.stage
      /\ Hand'.order = Hand.order /\ Hand'.new = Hand.new
  BY <1>1, <1>2 DEF Request
<1>4. PICK c \in Customers :
         /\ c = Payee(Hand) /\ c = inst[Sole].owner
         /\ balance' = [balance EXCEPT ![c] = balance[c] + Sum(Hand)]
  BY <1>1, <1>2 DEF Pay, W!Credit, W!Holds, W!Write, RequestOK, Hand,
                    WP!Current, WP!Holds, WP!Sole, Sole
<1>5. /\ Hand.stage \in {"signal", "referral", "view"} /\ Rows(Hand) = 0 /\ Due(Hand)
      /\ Hand.new = "delivered" /\ Rewarding /\ Rewarding'
  BY <1>1, <1>2, <1>3 DEF HandOK, Asking, RequestOK, Due, Rewarding, Hand
<1>6. HandOK'
  BY <1>2, <1>3, <1>5 DEF HandOK, Asking, Rows, OwesReferral, Hand
<1>7. (\A o \in Orders : OwesBonus(o)' <=> OwesBonus(o))
      /\ \A x \in Customers : OwesReferral(x)' <=> OwesReferral(x)
  BY <1>2, <1>3, <1>5 DEF OwesBonus, OwesReferral, Hand
<1>8. \A x \in Customers : balance'[x] = IF x = c THEN balance[x] + Sum(Hand) ELSE balance[x]
  BY <1>1, <1>4
<1>9. ~At(Sole, "log") /\ At(Sole, "log")'
  BY <1>2, <1>3 DEF At, Hand
<1>10. ASSUME NEW x \in Customers PROVE balance'[x] + Owed(x)' = balance[x] + Owed(x)
  <2>1. /\ Owed(x) = BonusPart(x) + ReferralPart(x)
        /\ Owed(x)' = BonusPart(x)' + ReferralPart(x)'
    <3>1. OwedSum'
      BY OwedParts, PTL
    <3> QED
      BY <3>1, OwedParts DEF OwedSum
  <2>2. BonusPart(x) \in Nat /\ ReferralPart(x) \in Nat /\ balance[x] \in Nat
    BY <1>1, PartsType
  <2>3. CASE Hand.stage \in {"signal", "view"}
    <3>1. OwesBonus(Hand.order)
      BY <1>5, <2>3 DEF OwesBonus, Due, Rows, Hand
    <3>2. /\ ~Written({"signal", "view"}) /\ Written({"signal", "view"})'
          /\ ~Written({"referral"}) /\ ~Written({"referral"})'
      BY <1>3, <1>9, <2>3 DEF Written, Hand
    <3>3. BonusPart(x) = IF x = c THEN Sum(Hand) ELSE 0
      BY <1>4, <2>3, <3>1, <3>2 DEF BonusPart, Payee, Sum
    <3>4. BonusPart(x)' = 0
      BY <3>2 DEF BonusPart
    <3>5. ReferralPart(x)' = ReferralPart(x)
      BY <1>2, <1>3, <1>5, <3>2 DEF ReferralPart, OwesReferral, Hand
    <3> QED
      BY <1>8, <2>1, <2>2, <3>3, <3>4, <3>5
  <2>4. CASE Hand.stage = "referral"
    <3>1. OwesReferral(order[Hand.order].customer)
      BY <1>5, <2>4 DEF OwesReferral, Due, Rows, Hand
    <3>2. /\ ~Written({"signal", "view"}) /\ ~Written({"signal", "view"})'
          /\ ~Written({"referral"}) /\ Written({"referral"})'
      BY <1>3, <1>9, <2>4 DEF Written, Hand
    <3>3. ReferralPart(x) = IF x = c THEN Sum(Hand) ELSE 0
      BY <1>4, <2>4, <3>1, <3>2 DEF ReferralPart, Payee, Sum
    <3>4. ReferralPart(x)' = 0
      BY <3>2 DEF ReferralPart
    <3>5. BonusPart(x)' = BonusPart(x)
      BY <1>2, <1>3, <1>5, <3>2 DEF BonusPart, OwesBonus, Hand
    <3> QED
      BY <1>8, <2>1, <2>2, <3>3, <3>4, <3>5
  <2> QED
    BY <1>5, <2>3, <2>4
<1> QED
  BY <1>2, <1>6, <1>7, <1>10, BookSame

\* The row that is inserted stands for what was owed.
LEMMA PostRowBookStep ==
    ASSUME Serial, IInv, HandOK, PostRow(Sole)
    PROVE  HandOK' /\ UNCHANGED Book!bvars
<1>1. /\ Sole \in Workers /\ req \in [Workers -> Request] /\ Hand \in Request
      /\ RequestOK(Sole) /\ balance \in [Customers -> Nat]
      /\ bonuses \in [Orders -> Nat] /\ referrals \in [Customers -> Nat]
  BY SoleFacts
<1>2. /\ UNCHANGED <<order, balance>>
      /\ Hand.pc = "log" /\ Hand' = AfterStage(Hand)
  BY <1>1 DEF PostRow, At, Goto, W!Log, Hand
<1>3. /\ Hand.stage \in {"signal", "referral", "view"} /\ Rows(Hand) = 0 /\ Due(Hand)
      /\ Hand.new = "delivered" /\ Rewarding /\ Hand.order \in Orders
  BY <1>1, <1>2 DEF HandOK, Asking, RequestOK, Posting, Due, Rewarding, Hand
<1> DEFINE o == Hand.order
           d == order[Hand.order].customer
<1>4. d \in Customers
  BY <1>1, <1>2, <1>3 DEF RequestOK, Posting, Hand, IInv, OrdersOK
<1>5. At(Sole, "log") /\ ~At(Sole, "log")' /\ Hand'.pc \in {"notify", "read", "done"}
      /\ Hand'.order = o /\ Hand'.new = "delivered"
  BY <1>1, <1>2, <1>3, AfterStageType DEF At, Hand
<1>6. OwedSum /\ OwedSum'
  <2>1. OwedSum'
    BY OwedParts, PTL
  <2> QED
    BY <2>1, OwedParts
<1>7. CASE Hand.stage \in {"signal", "view"}
  <2>1. bonuses' = [bonuses EXCEPT ![o] = bonuses[o] + 1] /\ referrals' = referrals
    BY <1>7 DEF PostRow, Hand
  <2>2. bonuses[o] = 0 /\ bonuses'[o] = 1 /\ order[o].bonus > 0
        /\ \A p \in Orders \ {o} : bonuses'[p] = bonuses[p]
    BY <1>1, <1>3, <1>7, <2>1 DEF Rows, Due
  <2>3. \A x \in Customers : OwesReferral(x)' <=> OwesReferral(x)
    <3>1. CASE Hand.stage = "signal"
      <4>1. Rewarding'
        BY <1>1, <1>2, <1>5, <3>1 DEF Rewarding, AfterStage, Hand, Request
      <4> QED
        BY <1>2, <1>3, <1>5, <2>1, <4>1 DEF OwesReferral, Hand
    <3>2. CASE Hand.stage = "view"
      <4>1. ~Rewarding'
        BY <1>1, <1>2, <3>2 DEF Rewarding, AfterStage, Hand, Request
      <4>2. ~OwesReferral(d)
        BY <1>2, <3>2 DEF HandOK, Asking
      <4> QED
        BY <4>1, <4>2 DEF OwesReferral, Hand
    <3> QED
      BY <1>7, <3>1, <3>2
  <2>4. /\ OwesBonus(o) /\ \A p \in Orders : ~OwesBonus(p)'
        /\ \A p \in Orders \ {o} : ~OwesBonus(p)
    <3>1. OwesBonus(o)
      BY <1>3, <2>2 DEF OwesBonus, Hand
    <3>2. \A p \in Orders : ~OwesBonus(p)'
      BY <1>5, <2>2 DEF OwesBonus, Hand
    <3> QED
      BY <3>1, <3>2 DEF OwesBonus, Hand
  <2>5. \A p \in Orders : (bonuses'[p] > 0 \/ OwesBonus(p)') <=> (bonuses[p] > 0 \/ OwesBonus(p))
    BY <2>2, <2>4
  <2>6. ASSUME NEW x \in Customers PROVE Owed(x)' = Owed(x)
    <3>1. BonusPart(x) = 0
      BY <1>5, <1>7 DEF BonusPart, Written, Hand
    <3>2. BonusPart(x)' = 0
      BY <1>3, <1>5, <2>2 DEF BonusPart, OwesBonus, Hand
    <3>3. ReferralPart(x)' = ReferralPart(x)
      <4>1. ~Written({"referral"}) /\ ~Written({"referral"})'
        BY <1>5, <1>7 DEF Written, Hand
      <4>2. order'[Hand'.order].customer = d
        BY <1>2, <1>5
      <4>3. OwesReferral(order[Hand.order].customer)' <=> OwesReferral(d)
        <5>1. PICK e \in Customers : e = d
          BY <1>4
        <5>2. OwesReferral(e)' <=> OwesReferral(e)
          BY <2>3
        <5>3. OwesReferral(order[Hand.order].customer)' <=> OwesReferral(e)'
          BY <4>2, <5>1 DEF OwesReferral
        <5> QED
          BY <5>1, <5>2, <5>3
      <4> QED
        BY <4>1, <4>2, <4>3 DEF ReferralPart
    <3> QED
      BY <1>6, <3>1, <3>2, <3>3 DEF OwedSum
  <2>7. HandOK'
    BY <1>1, <1>2, <1>7 DEF HandOK, Asking, AfterStage, Hand, Request
  <2> QED
    BY <1>2, <2>1, <2>3, <2>5, <2>6, <2>7, BookSame
<1>8. CASE Hand.stage = "referral"
  <2>1. referrals' = [referrals EXCEPT ![d] = referrals[d] + 1] /\ bonuses' = bonuses
    BY <1>8 DEF PostRow, Hand
  <2>2. /\ referrals[d] = 0 /\ referrals'[d] = 1
        /\ \A x \in Customers \ {d} : referrals'[x] = referrals[x]
    BY <1>1, <1>3, <1>4, <1>8, <2>1 DEF Rows
  <2>3. Hand'.pc = "read" /\ Hand'.stage = "view" /\ Rewarding'
    BY <1>1, <1>2, <1>5, <1>8 DEF Rewarding, AfterStage, Hand, Request
  <2>4. \A p \in Orders : OwesBonus(p)' <=> OwesBonus(p)
    BY <1>2, <1>3, <1>5, <2>1, <2>3 DEF OwesBonus, Hand
  <2>5. /\ \A x \in Customers : ~OwesReferral(x)'
        /\ \A x \in Customers \ {d} : ~OwesReferral(x)
        /\ OwesReferral(d)
    <3>1. \A x \in Customers : ~OwesReferral(x)'
      BY <1>2, <1>5, <2>2 DEF OwesReferral, Hand
    <3>2. \A x \in Customers \ {d} : ~OwesReferral(x)
      BY DEF OwesReferral, Hand
    <3>3. OwesReferral(d)
      BY <1>3, <1>8, <2>2 DEF OwesReferral, Due, Hand
    <3> QED
      BY <3>1, <3>2, <3>3
  <2>6. \A x \in Customers :
           (referrals'[x] > 0 \/ OwesReferral(x)') <=> (referrals[x] > 0 \/ OwesReferral(x))
    BY <2>2, <2>5
  <2>7. ASSUME NEW x \in Customers PROVE Owed(x)' = Owed(x)
    <3>1. ReferralPart(x) = 0
      BY <1>5, <1>8 DEF ReferralPart, Written, Hand
    <3>2. ReferralPart(x)' = 0
      BY <1>2, <1>5, <2>2 DEF ReferralPart, OwesReferral, Hand
    <3>3. BonusPart(x)' = BonusPart(x)
      <4>1. ~Written({"signal", "view"}) /\ ~Written({"signal", "view"})'
        BY <1>5, <1>8 DEF Written, Hand
      <4> QED
        BY <1>2, <1>3, <1>5, <2>1, <2>3, <4>1 DEF BonusPart, OwesBonus, Hand
    <3> QED
      BY <1>6, <3>1, <3>2, <3>3 DEF OwedSum
  <2>8. HandOK'
    <3>1. (~OwesReferral(order[Hand.order].customer))'
      BY <1>2, <1>5, <2>2 DEF OwesReferral, Hand
    <3> QED
      BY <2>3, <3>1 DEF HandOK, Asking
  <2> QED
    BY <1>2, <2>1, <2>4, <2>6, <2>7, <2>8, BookSame
<1> QED
  BY <1>3, <1>7, <1>8

-----------------------------------------------------------------------------
(* The steps that the book sees *)

Money == [x \in Customers |-> balance[x] + Owed(x)]
BonusPaid == [o \in Orders |-> bonuses[o] > 0 \/ OwesBonus(o)]
ReferralPaidFor == [c \in Customers |-> referrals[c] > 0 \/ OwesReferral(c)]

\* Between requests, and in all but a post of "delivered", nothing is owed.
Settled == /\ Money = balance
           /\ BonusPaid = [o \in Orders |-> bonuses[o] > 0]
           /\ ReferralPaidFor = [c \in Customers |-> referrals[c] > 0]

LEMMA SettledBooks == balance \in [Customers -> Nat] /\ OwesNothing => Settled
<1> SUFFICES ASSUME balance \in [Customers -> Nat], OwesNothing PROVE Settled
  OBVIOUS
<1>1. NothingIsOwed
  BY NothingOwed
<1>2. Money = balance
  <2>1. \A x \in Customers : balance[x] + Owed(x) = balance[x]
    BY <1>1 DEF NothingIsOwed
  <2> QED
    BY <2>1 DEF Money
<1> QED
  BY <1>1, <1>2 DEF Settled, NothingIsOwed, BonusPaid, ReferralPaidFor

LEMMA AssignBookStep ==
    ASSUME Serial, IInv, IInv', HandOK, NEW o \in Orders, NEW r \in Riders, Assign(Sole, o, r)
    PROVE  HandOK' /\ Book!Next
<1>1. /\ UNCHANGED <<balance, bonuses, referrals, req>> /\ Hand.pc = "idle" /\ Hand' = Hand
      /\ order[o].status # "none"
      /\ order' = [order EXCEPT ![o].rider = r, ![o].status = "confirmed"]
  BY DEF Assign, At, walletVars, rows, Hand
<1>2. HandOK'
  BY <1>1 DEF HandOK, Asking
<1>3. Settled /\ Settled'
  <2>1. (Hand.pc \notin {"read", "check", "pay", "log", "notify"} => OwesNothing)'
    BY IdleOwesNothing, PTL
  <2>2. (balance \in [Customers -> Nat] /\ OwesNothing => Settled)'
    BY SettledBooks, PTL
  <2> QED
    BY <1>1, <2>1, <2>2, IdleOwesNothing, SettledBooks, SoleFacts
<1>4. Book!Assign(o, r)
  BY <1>1, <1>3 DEF Book!Assign, Settled, Money, BonusPaid, ReferralPaidFor
<1> QED
  BY <1>2, <1>4 DEF Book!Next

LEMMA CancelBookStep ==
    ASSUME Serial, IInv, IInv', HandOK, WP!Current, CancelCommit(Sole)
    PROVE  HandOK' /\ Book!Next
<1>1. /\ Sole \in Workers /\ req \in [Workers -> Request] /\ Hand \in Request
      /\ RequestOK(Sole) /\ balance \in [Customers -> Nat] /\ order \in [Orders -> OrderRow]
  BY SoleFacts
<1>2. /\ Hand.pc = "refund" /\ Hand' = [NoRequest EXCEPT !.pc = "done"]
      /\ UNCHANGED <<bonuses, referrals>>
  BY <1>1 DEF CancelCommit, At, Goto, Hand
<1>3. Hand'.pc = "done"
  BY <1>2 DEF NoRequest
<1>4. PICK o \in Orders : o = Hand.order /\ Cancellable(o) /\ order[o].customer \in Customers
  <2>1. Hand.order \in Orders /\ Placed(Hand.order)
    BY <1>1, <1>2 DEF RequestOK, Hand
  <2>2. Cancellable(Hand.order)
    BY <1>1, <1>2 DEF IInv, CancelSeesOpenOrder, Cancelling, Spinning, Hand
  <2> QED
    BY <2>1, <2>2 DEF IInv, OrdersOK
<1>5. order' = [order EXCEPT ![o].status = "cancelled"]
  BY <1>4 DEF CancelCommit, Hand
<1>6. balance' = [balance EXCEPT ![order[o].customer] = balance[order[o].customer] + order[o].used]
  <2>1. CASE order[o].used > 0
    <3>1. W!CreditTx(Sole, order[o].used)
      BY <1>4, <2>1 DEF CancelCommit, Hand
    <3>2. inst[Sole].owner = order[o].customer
      BY <1>1, <1>2, <1>4 DEF RequestOK, Hand
    <3>3. inst[Sole].balance = balance[order[o].customer]
      BY <1>4, <3>2 DEF WP!Current, WP!Holds, WP!Sole, Sole
    <3> QED
      BY <3>1, <3>2, <3>3 DEF W!CreditTx, W!Write
  <2>2. CASE ~(order[o].used > 0)
    <3>1. balance' = balance
      BY <1>4, <2>2 DEF CancelCommit, walletVars, Hand
    <3>2. order[o].used = 0
      BY <1>1, <2>2 DEF OrderRow
    <3> QED
      BY <1>1, <1>4, <3>1, <3>2
  <2> QED
    BY <2>1, <2>2
<1>7. HandOK'
  BY <1>3 DEF HandOK, Asking
<1>8. Settled /\ Settled'
  <2>1. (Hand.pc \notin {"read", "check", "pay", "log", "notify"} => OwesNothing)'
    BY IdleOwesNothing, PTL
  <2>2. (balance \in [Customers -> Nat] /\ OwesNothing => Settled)'
    BY SettledBooks, PTL
  <2>3. balance' \in [Customers -> Nat]
    BY DEF IInv, WP!Inv, WP!TypeOK, WP!Solvent
  <2> QED
    BY <1>1, <1>2, <1>3, <2>1, <2>2, <2>3, IdleOwesNothing, SettledBooks
<1>9. Book!Cancel(o)
  <2>1. order[o].status \in {"placed", "confirmed"}
    BY <1>4 DEF Cancellable
  <2> QED
    BY <1>2, <1>5, <1>6, <1>8, <2>1
       DEF Book!Cancel, Settled, Money, BonusPaid, ReferralPaidFor
<1> QED
  BY <1>7, <1>9 DEF Book!Next

NewRow(c, s, u, b) == [Unplaced EXCEPT !.status = "placed", !.customer = c, !.subtotal = s,
                                       !.used = u, !.bonus = b]

LEMMA PlacedRow ==
    ASSUME NEW c, NEW s, NEW u, NEW b
    PROVE  NewRow(c, s, u, b)
             = [status |-> "placed", customer |-> c, rider |-> NoOne,
                subtotal |-> s, used |-> u, bonus |-> b, deliveredAt |-> FALSE]
<1> DEFINE row == NewRow(c, s, u, b)
           Row == [status : {"none", "placed"}, customer : {NoOne, c}, rider : {NoOne},
                   subtotal : {0, s}, used : {0, u}, bonus : {0, b}, deliveredAt : {FALSE}]
<1>1. Unplaced \in Row
  BY DEF Unplaced
<1>2. /\ row \in Row
      /\ row.status = "placed" /\ row.customer = c /\ row.rider = NoOne
      /\ row.subtotal = s /\ row.used = u /\ row.bonus = b /\ row.deliveredAt = FALSE
  BY <1>1 DEF NewRow, Unplaced
<1> HIDE DEF row
<1>3. row = [status |-> row.status, customer |-> row.customer, rider |-> row.rider,
             subtotal |-> row.subtotal, used |-> row.used, bonus |-> row.bonus,
             deliveredAt |-> row.deliveredAt]
  BY <1>2
<1>4. row = [status |-> "placed", customer |-> c, rider |-> NoOne,
             subtotal |-> s, used |-> u, bonus |-> b, deliveredAt |-> FALSE]
  BY <1>2, <1>3
<1> QED
  BY <1>4 DEF row

LEMMA CheckoutBookStep ==
    ASSUME Serial, IInv, IInv', HandOK, WP!Current,
           NEW o \in Orders, NEW s \in Subtotals, NEW b \in DeliveryBonuses,
           CheckoutCommit(Sole, o, s, b)
    PROVE  HandOK' /\ Book!Next
<1>1. /\ Sole \in Workers /\ req \in [Workers -> Request] /\ Hand \in Request
      /\ RequestOK(Sole) /\ balance \in [Customers -> Nat] /\ order \in [Orders -> OrderRow]
  BY SoleFacts
<1>2. /\ Hand.pc \in {"checkout", "debited"} /\ Hand' = [NoRequest EXCEPT !.pc = "done"]
      /\ UNCHANGED <<bonuses, referrals>> /\ order[o].status = "none"
  BY <1>1 DEF CheckoutCommit, Debited, At, Goto, rows, Hand
<1>3. Hand'.pc = "done"
  BY <1>2 DEF NoRequest
<1>4. PICK c \in Customers : inst[Sole].owner = c /\ inst[Sole].balance = balance[c]
  <2>1. inst[Sole].owner \in Customers
    BY <1>1, <1>2 DEF RequestOK, Hand
  <2> QED
    BY <2>1 DEF WP!Current, WP!Holds, WP!Sole, Sole
<1>5. PICK spend \in 0..WalletShare[s] :
         /\ spend = Spend(Sole, s) /\ spend <= balance[c]
         /\ spend = balance[c] \/ spend = WalletShare[s]
  <2>1. balance[c] \in Nat /\ WalletShare[s] \in Nat
    BY <1>1, OrderDeskAssumption
  <2>2. Spend(Sole, s) = IF balance[c] <= WalletShare[s] THEN balance[c] ELSE WalletShare[s]
    BY <1>4 DEF Spend, MinOf
  <2> QED
    BY <2>1, <2>2
<1>6. order' = [order EXCEPT ![o] =
                  [status |-> "placed", customer |-> c, rider |-> NoOne,
                   subtotal |-> s, used |-> spend, bonus |-> b, deliveredAt |-> FALSE]]
  <2>1. order' = [order EXCEPT ![o] = NewRow(inst[Sole].owner, s, Spend(Sole, s), b)]
    BY DEF CheckoutCommit, NewRow
  <2>2. inst[Sole].owner = c /\ Spend(Sole, s) = spend
    BY <1>4, <1>5
  <2> QED
    BY <2>1, <2>2, PlacedRow
<1>7. balance' = [balance EXCEPT ![c] = balance[c] - spend]
  <2>1. CASE spend > 0
    BY <1>4, <1>5, <2>1 DEF CheckoutCommit, W!DebitTx, W!Write
  <2>2. CASE ~(spend > 0)
    <3>1. balance' = balance
      BY <1>5, <2>2 DEF CheckoutCommit, walletVars
    <3>2. spend = 0
      BY <2>2
    <3> QED
      BY <1>1, <3>1, <3>2
  <2> QED
    BY <2>1, <2>2
<1>8. HandOK'
  BY <1>3 DEF HandOK, Asking
<1>9. Settled /\ Settled'
  <2>1. (Hand.pc \notin {"read", "check", "pay", "log", "notify"} => OwesNothing)'
    BY IdleOwesNothing, PTL
  <2>2. (balance \in [Customers -> Nat] /\ OwesNothing => Settled)'
    BY SettledBooks, PTL
  <2>3. balance' \in [Customers -> Nat]
    BY DEF IInv, WP!Inv, WP!TypeOK, WP!Solvent
  <2> QED
    BY <1>1, <1>2, <1>3, <2>1, <2>2, <2>3, IdleOwesNothing, SettledBooks
<1>10. Book!Place(c, o, s, b, spend)
  <2>1. spend <= WalletShare[s]
    BY <1>5, OrderDeskAssumption
  <2> QED
    BY <1>2, <1>5, <1>6, <1>7, <1>9, <2>1
       DEF Book!Place, Settled, Money, BonusPaid, ReferralPaidFor
<1> QED
  BY <1>8, <1>10 DEF Book!Next

\* The row after the UPDATE.
LEMMA SavedRow ==
    ASSUME Serial, IInv, SaveStatus(Sole), NEW o \in Orders, o = Hand.order
    PROVE  /\ order' = [order EXCEPT ![o] = order'[o]]
           /\ order'[o] = [order[o] EXCEPT !.status = Hand.new,
                                           !.deliveredAt = order[o].deliveredAt \/ Hand.new = "delivered"]
           /\ order'[o].customer = order[o].customer /\ order'[o].subtotal = order[o].subtotal
           /\ order'[o].bonus = order[o].bonus /\ order'[o].rider = order[o].rider
<1> DEFINE row == [order[o] EXCEPT !.status = Hand.new,
                                   !.deliveredAt = order[o].deliveredAt \/ Hand.new = "delivered"]
<1>1. order \in [Orders -> OrderRow] /\ order[o] \in OrderRow
  BY SoleFacts
<1>2. order' = [order EXCEPT ![o] = row]
  BY DEF SaveStatus, Hand
<1>3. /\ row.customer = order[o].customer /\ row.subtotal = order[o].subtotal
      /\ row.bonus = order[o].bonus /\ row.rider = order[o].rider
  BY <1>1 DEF OrderRow
<1> HIDE DEF row
<1>4. order'[o] = row
  BY <1>1, <1>2
<1>5. row = [order[o] EXCEPT !.status = Hand.new,
                             !.deliveredAt = order[o].deliveredAt \/ Hand.new = "delivered"]
  BY DEF row
<1> QED
  BY <1>2, <1>3, <1>4, <1>5

\* A table of flags, one of which a step may raise.
LEMMA Raised ==
    ASSUME NEW S, NEW f, NEW g, NEW x \in S, NEW due \in BOOLEAN,
           f = [y \in S |-> f[y]], \A y \in S : f[y] \in BOOLEAN,
           g = [y \in S |-> f[y] \/ (y = x /\ due)]
    PROVE  g = [f EXCEPT ![x] = f[x] \/ due]
<1>1. \A y \in S : g[y] = [f EXCEPT ![x] = f[x] \/ due][y]
  <2> SUFFICES ASSUME NEW y \in S PROVE g[y] = [f EXCEPT ![x] = f[x] \/ due][y]
    OBVIOUS
  <2>1. CASE y = x
    BY <2>1, Zenon
  <2>2. CASE y # x
    <3>1. [f EXCEPT ![x] = f[x] \/ due][y] = f[y]
      BY <2>2, Zenon
    <3>2. g[y] = (f[y] \/ (y = x /\ due))
      BY Zenon
    <3> QED
      BY <2>2, <3>1, <3>2
  <2> QED
    BY <2>1, <2>2
<1> DEFINE h == [f EXCEPT ![x] = f[x] \/ due]
<1>2. h = [y \in S |-> h[y]] /\ g = [y \in S |-> g[y]]
  BY Zenon
<1> HIDE DEF h
<1>3. \A y \in S : g[y] = h[y]
  BY <1>1 DEF h
<1>4. g = h
  BY <1>2, <1>3, Zenon
<1> QED
  BY <1>4 DEF h

LEMMA SaveBookStep ==
    ASSUME Serial, IInv, IInv', HandOK, SaveStatus(Sole)
    PROVE  HandOK' /\ Book!Next
<1>1. /\ Sole \in Workers /\ req \in [Workers -> Request] /\ Hand \in Request
      /\ RequestOK(Sole) /\ balance \in [Customers -> Nat] /\ order \in [Orders -> OrderRow]
      /\ bonuses \in [Orders -> Nat] /\ referrals \in [Customers -> Nat]
  BY SoleFacts
<1>2. /\ Hand.pc = "save" /\ Hand' = AfterSave(Hand)
      /\ UNCHANGED <<balance, bonuses, referrals>>
  BY <1>1 DEF SaveStatus, At, Goto, walletVars, rows, Hand
<1>3. PICK o \in Orders : o = Hand.order /\ order[o].customer \in Customers
  BY <1>1, <1>2 DEF RequestOK, Posting, Hand, IInv, OrdersOK
<1>4. PICK s \in RiderPosts : s = Hand.new /\ order[o].rider # NoOne
  BY <1>2, <1>3, OrderDeskAssumption DEF HandOK
<1>5. /\ Hand'.order = o /\ Hand'.new = s /\ Hand'.pc \in {"read", "notify"}
      /\ Hand'.pc = "read" => Hand'.stage \in {"signal", "referral"}
  BY <1>1, <1>2, <1>3, <1>4, AfterSaveType
<1>6. /\ order' = [order EXCEPT ![o] = order'[o]]
      /\ order'[o] = [order[o] EXCEPT !.status = s,
                                      !.deliveredAt = order[o].deliveredAt \/ s = "delivered"]
      /\ order'[o].customer = order[o].customer /\ order'[o].subtotal = order[o].subtotal
      /\ order'[o].bonus = order[o].bonus
  BY <1>3, <1>4, SavedRow
<1>7. HandOK'
  BY <1>5 DEF HandOK, Asking
<1>8. Settled
  BY <1>1, <1>2, IdleOwesNothing, SettledBooks
<1>9. CASE s # "delivered"
  <2>1. OwesNothing'
    BY <1>5, <1>9 DEF OwesNothing, OwesBonus, OwesReferral, Rewarding, Hand
  <2>2. Settled'
    <3>1. (balance \in [Customers -> Nat] /\ OwesNothing => Settled)'
      BY SettledBooks, PTL
    <3> QED
      BY <1>1, <1>2, <2>1, <3>1
  <2>3. order' = [order EXCEPT ![o].status = s]
    <3> DEFINE row == [order[o] EXCEPT !.status = s]
               seen == order[o].deliveredAt \/ s = "delivered"
    <3>1. row = [order[o] EXCEPT !.status = s, !.deliveredAt = seen]
      <4>1. order[o] \in OrderRow /\ seen = order[o].deliveredAt
        BY <1>1, <1>9 DEF OrderRow
      <4> HIDE DEF seen
      <4> QED
        BY <4>1 DEF OrderRow
    <3>2. order'[o] = row
      BY <1>6, <3>1
    <3> HIDE DEF row
    <3>3. order' = [order EXCEPT ![o] = row]
      BY <1>6, <3>2
    <3> QED
      BY <3>3 DEF row
  <2>4. Book!Post(o, s)
    BY <1>2, <1>4, <1>8, <2>2, <2>3
       DEF Book!Post, Settled, Money, BonusPaid, ReferralPaidFor
  <2> QED
    BY <1>7, <1>9, <2>4 DEF Book!Next
<1>10. CASE s = "delivered"
  <2> DEFINE d == order[o].customer
  <2>1. Rewarding' /\ ~Written({"signal", "view"})' /\ ~Written({"referral"})'
    BY <1>5, <1>10 DEF Rewarding, Written, At, Hand
  <2>2. \A p \in Orders : OwesBonus(p)' <=> p = o /\ order[o].bonus > 0 /\ bonuses[o] = 0
    BY <1>2, <1>5, <1>6, <2>1 DEF OwesBonus, Hand
  <2>3. \A x \in Customers : OwesReferral(x)' <=>
           /\ x = d /\ Referrer[d] # NoOne /\ order[o].subtotal >= MinForBonus
           /\ referrals[d] = 0
    BY <1>2, <1>5, <1>6, <2>1 DEF OwesReferral, Hand
  <2>4. Book!BonusDue(o) <=> order[o].bonus > 0 /\ bonuses[o] = 0
    <3>1. BonusPaid[o] <=> bonuses[o] > 0
      BY <1>8 DEF Settled
    <3>2. Book!BonusDue(o) <=> order[o].bonus > 0 /\ ~BonusPaid[o]
      BY DEF Book!BonusDue, BonusPaid
    <3> QED
      BY <1>1, <3>1, <3>2
  <2>5. Book!ReferralDue(o) <=>
           /\ Referrer[d] # NoOne /\ order[o].subtotal >= MinForBonus /\ referrals[d] = 0
    <3>1. ReferralPaidFor[d] <=> referrals[d] > 0
      BY <1>3, <1>8 DEF Settled
    <3>2. Book!ReferralDue(o) <=>
             Referrer[d] # NoOne /\ order[o].subtotal >= MinForBonus /\ ~ReferralPaidFor[d]
      BY DEF Book!ReferralDue, ReferralPaidFor
    <3> QED
      BY <1>1, <1>3, <3>1, <3>2
  <2> DEFINE bonusDue == Book!BonusDue(o)
             referralDue == Book!ReferralDue(o)
  <2>b. bonusDue \in BOOLEAN /\ referralDue \in BOOLEAN
    BY DEF Book!BonusDue, Book!ReferralDue
  <2>c. (\A p \in Orders : OwesBonus(p)' <=> p = o /\ bonusDue)
        /\ \A x \in Customers : OwesReferral(x)' <=> x = d /\ referralDue
    BY <2>2, <2>3, <2>4, <2>5
  <2> HIDE DEF bonusDue, referralDue
  <2>6. BonusPaid' = [BonusPaid EXCEPT ![o] = BonusPaid[o] \/ bonusDue]
    <3> DEFINE f == BonusPaid
               g == BonusPaid'
    <3>1. f = [p \in Orders |-> bonuses[p] > 0]
      BY <1>8 DEF Settled
    <3>2. g = [p \in Orders |-> bonuses[p] > 0 \/ (p = o /\ bonusDue)]
      BY <1>2, <2>c DEF BonusPaid
    <3> HIDE DEF f, g
    <3>3. f = [p \in Orders |-> f[p]] /\ \A p \in Orders : f[p] \in BOOLEAN /\ f[p] = (bonuses[p] > 0)
      BY <3>1
    <3>4. g = [p \in Orders |-> f[p] \/ (p = o /\ bonusDue)]
      BY <3>2, <3>3
    <3>5. g = [f EXCEPT ![o] = f[o] \/ bonusDue]
      BY <2>b, <3>3, <3>4, Raised
    <3> QED
      BY <3>5 DEF f, g
  <2>7. ReferralPaidFor' = [ReferralPaidFor EXCEPT ![d] = ReferralPaidFor[d] \/ referralDue]
    <3> DEFINE f == ReferralPaidFor
               g == ReferralPaidFor'
               e == d
    <3>1. f = [x \in Customers |-> referrals[x] > 0]
      BY <1>8 DEF Settled
    <3>2. g = [x \in Customers |-> referrals[x] > 0 \/ (x = e /\ referralDue)]
      BY <1>2, <2>c DEF ReferralPaidFor
    <3>3. e \in Customers
      BY <1>3
    <3> HIDE DEF f, g, e
    <3>4. f = [x \in Customers |-> f[x]]
          /\ \A x \in Customers : f[x] \in BOOLEAN /\ f[x] = (referrals[x] > 0)
      BY <3>1
    <3>5. g = [x \in Customers |-> f[x] \/ (x = e /\ referralDue)]
      BY <3>2, <3>4
    <3>6. g = [f EXCEPT ![e] = f[e] \/ referralDue]
      BY <2>b, <3>3, <3>4, <3>5, Raised
    <3> QED
      BY <3>6 DEF f, g, e
  <2> USE DEF bonusDue, referralDue
  <2>8. Money' = [x \in Customers |-> Money[x] + Book!Reward(o, x)]
    <3>1. ASSUME NEW x \in Customers PROVE Owed(x)' = Book!Reward(o, x)
      <4>1. Owed(x)' = BonusPart(x)' + ReferralPart(x)'
        <5>1. OwedSum'
          BY OwedParts, PTL
        <5> QED
          BY <5>1 DEF OwedSum
      <4>2. BonusPart(x)' = IF Book!BonusDue(o) /\ d = x THEN order[o].bonus ELSE 0
        BY <1>5, <1>6, <2>1, <2>2, <2>4 DEF BonusPart
      <4>3. ReferralPart(x)' = IF Book!ReferralDue(o) /\ Referrer[d] = x THEN ReferralBonus ELSE 0
        <5>1. OwesReferral(order[Hand.order].customer)' <=> Book!ReferralDue(o)
          BY <1>2, <1>5, <1>6, <2>1, <2>5 DEF OwesReferral, Hand
        <5> QED
          BY <1>5, <1>6, <2>1, <5>1 DEF ReferralPart
      <4> QED
        BY <4>1, <4>2, <4>3 DEF Book!Reward
    <3>2. \A x \in Customers : Money[x] = balance[x]
      BY <1>8 DEF Settled
    <3>3. Money' = [x \in Customers |-> balance[x] + Owed(x)']
      BY <1>2 DEF Money
    <3> QED
      BY <3>1, <3>2, <3>3
  <2>9. order' = [order EXCEPT ![o].status = "delivered", ![o].deliveredAt = TRUE]
    <3> DEFINE row == [order[o] EXCEPT !.status = "delivered", !.deliveredAt = TRUE]
               seen == order[o].deliveredAt \/ s = "delivered"
    <3>1. row = [order[o] EXCEPT !.status = s, !.deliveredAt = seen]
      <4>1. seen = TRUE /\ s = "delivered"
        BY <1>10
      <4> HIDE DEF seen
      <4> QED
        BY <4>1
    <3>2. order'[o] = row
      BY <1>6, <3>1
    <3> HIDE DEF row
    <3>3. order' = [order EXCEPT ![o] = row]
      BY <1>6, <3>2
    <3> QED
      BY <3>3 DEF row
  <2>10. Book!Deliver(o)
    BY <1>4, <2>6, <2>7, <2>8, <2>9 DEF Book!Deliver, Money, BonusPaid, ReferralPaidFor
  <2> QED
    BY <1>4, <1>7, <1>10, <2>10 DEF Book!Next
<1> QED
  BY <1>9, <1>10

-----------------------------------------------------------------------------
(* The handlers implement the order book *)

SerialInv == WP!Current /\ HandOK

\* The instance in hand stays the row: every step is one of the wallet.
LEMMA CurrentKept ==
    ASSUME Serial, IInv, IInv', WP!Current, [W!Next]_(W!wvars)
    PROVE  WP!Current'
<1>1. WP!OneAtATime /\ WP!Inv /\ WP!Inv'
  BY DEF Serial, IInv
<1>2. [WP!Next]_(WP!wvars)
  BY DEF W!Next, WP!Next, W!wvars, WP!wvars, W!Step, WP!Step,
         W!Open, WP!Open, W!Credit, WP!Credit, W!CreditTx, WP!CreditTx,
         W!DebitTx, WP!DebitTx, W!Log, WP!Log, W!Close, WP!Close,
         W!Crash, WP!Crash, W!Resave, WP!Resave,
         W!Holds, WP!Holds, W!Write, WP!Write,
         W!Sufficient, WP!Sufficient, W!NoInstance, WP!NoInstance
<1> QED
  BY <1>1, <1>2, WP!AccountStep, WalletAssumed

LEMMA BookStep ==
    ASSUME Serial, IInv, IInv', EarnedInv, NoReferralLost, [W!Next]_(W!wvars), SerialInv,
           [Next]_vars
    PROVE  SerialInv' /\ [Book!Next]_(Book!bvars)
<1>1. WP!Current'
  BY CurrentKept DEF SerialInv
<1>2. WP!Current /\ HandOK
  BY DEF SerialInv
<1>3. CASE UNCHANGED vars
  <2>1. HandOK'
    BY <1>2, <1>3 DEF vars, HandOK, Asking, Due, Rows, OwesReferral, Rewarding, Hand
  <2>2. UNCHANGED Book!bvars
    BY <1>3 DEF vars, Book!bvars, Owed, OwesBonus, OwesReferral, Rewarding, Written, At
  <2> QED
    BY <1>1, <2>1, <2>2 DEF SerialInv
<1>4. ASSUME Start(Sole) \/ Serve(Sole) PROVE HandOK' /\ [Book!Next]_(Book!bvars)
  <2>1. CASE \E o \in Orders, s \in Subtotals, b \in DeliveryBonuses : CheckoutCommit(Sole, o, s, b)
    BY <1>2, <2>1, CheckoutBookStep
  <2>2. CASE \E o \in Orders, r \in Riders : Assign(Sole, o, r)
    BY <1>2, <2>2, AssignBookStep
  <2>3. CASE CancelCommit(Sole)
    BY <1>2, <2>3, CancelBookStep
  <2>4. CASE SaveStatus(Sole)
    BY <1>2, <2>4, SaveBookStep
  <2>5. CASE Pay(Sole)
    BY <1>2, <2>5, PayBookStep
  <2>6. CASE PostRow(Sole)
    BY <1>2, <2>6, PostRowBookStep
  <2>7. CASE Skip(Sole) \/ ReadWallet(Sole) \/ Check(Sole) \/ Notify(Sole)
    BY <1>2, <2>7, AskingStep
  <2>8. CASE \/ \E c \in Customers : CheckoutOpen(Sole, c)
             \/ \E o \in Orders : CancelLock(Sole, o)
             \/ \E o \in Orders, s \in RiderPosts : RiderLoad(Sole, o, s)
             \/ CheckoutRefused(Sole) \/ CancelRead(Sole) \/ PreSave(Sole) \/ Reply(Sole)
    BY <1>2, <2>8, QuietStep
  <2>9. CASE Aside(Sole)
    BY <1>2, <2>9, AsideBookStep DEF EarnedInv
  <2> QED
    BY <1>4, <2>1, <2>2, <2>3, <2>4, <2>5, <2>6, <2>7, <2>8, <2>9 DEF Start, Serve, Aside
<1>5. ASSUME NEW w \in Workers, BrokerDown(w) \/ Die(w) PROVE FALSE
  BY <1>5 DEF Serial, WP!OneAtATime, BrokerDown, Die
<1>6. CASE Next
  <2>1. Start(Sole) \/ Serve(Sole)
    BY <1>5, <1>6, SoleFacts DEF Next
  <2> QED
    BY <1>1, <1>4, <2>1 DEF SerialInv
<1> QED
  BY <1>3, <1>6

LEMMA InitBook == ASSUME Serial, Init PROVE SerialInv /\ Book!Init
<1>1. IInv
  BY InitIInv
<1>2. Hand = NoRequest
  BY SoleFacts, <1>1 DEF Init, Hand
<1>3. Hand.pc = "idle"
  BY <1>2 DEF NoRequest
<1>4. WP!Current
  <2>1. inst[Sole] = [owner |-> NoOne, balance |-> 0, due |-> 0]
    BY SoleFacts, <1>1 DEF Init, W!Init, W!NoInstance
  <2> QED
    BY <2>1, OrderDeskAssumption DEF WP!Current, WP!Holds, WP!Sole, Sole
<1>5. Settled
  BY <1>1, <1>3, IdleOwesNothing, SettledBooks, SoleFacts
<1>6. HandOK
  BY <1>3 DEF HandOK, Asking
<1>7. /\ Money = [c \in Customers |-> 0]
      /\ BonusPaid = [o \in Orders |-> FALSE]
      /\ ReferralPaidFor = [c \in Customers |-> FALSE]
  <2>1. balance = [c \in Customers |-> 0]
    BY DEF Init, W!Init
  <2>2. \A o \in Orders : BonusPaid[o] = FALSE
    <3>1. \A o \in Orders : (bonuses[o] > 0) = FALSE
      BY DEF Init
    <3>2. \A o \in Orders : BonusPaid[o] = (bonuses[o] > 0)
      BY <1>5, Zenon DEF Settled
    <3> QED
      BY <3>1, <3>2, Zenon
  <2>3. \A c \in Customers : ReferralPaidFor[c] = FALSE
    <3>1. \A c \in Customers : (referrals[c] > 0) = FALSE
      BY DEF Init
    <3>2. \A c \in Customers : ReferralPaidFor[c] = (referrals[c] > 0)
      BY <1>5, Zenon DEF Settled
    <3> QED
      BY <3>1, <3>2, Zenon
  <2>4. BonusPaid = [o \in Orders |-> BonusPaid[o]]
    BY Zenon DEF BonusPaid
  <2>5. ReferralPaidFor = [c \in Customers |-> ReferralPaidFor[c]]
    BY Zenon DEF ReferralPaidFor
  <2> QED
    BY <1>5, <2>1, <2>2, <2>3, <2>4, <2>5 DEF Settled
<1> QED
  BY <1>4, <1>6, <1>7
     DEF SerialInv, Init, Unplaced, Book!Init, Money, BonusPaid, ReferralPaidFor

\* With one worker that neither dies nor loses the broker, for every set of customers,
\* orders and riders and every setting: each handler of orders/views.py, its receivers
\* included, is one step of OrderBook, and every reward is paid once.
THEOREM DeskImplementsBook == ASSUME Serial PROVE Spec => ImplementsBook
<1>1. Init => SerialInv /\ Book!Init
  BY InitBook
<1>2. IInv /\ [Next]_vars => IInv' /\ [W!Next]_(W!wvars)
  BY StepIInv
<1>3. IInv /\ EarnedInv /\ NoReferralLost /\ SerialInv /\ [Next]_vars
         => SerialInv' /\ [Book!Next]_(Book!bvars)
  BY <1>2, BookStep
<1>4. Spec => []NoReferralLost
  <2>1. ~MayCrash /\ ~BrokerMayFail
    BY DEF Serial, WP!OneAtATime
  <2> QED
    BY <2>1, ReferralIsNotLost
<1> QED
  BY <1>1, <1>3, <1>4, EarnedInvariance, PTL DEF Spec, ImplementsBook, Book!Spec

-----------------------------------------------------------------------------
(* The ledger: the rows of a wallet tell what its orders tell *)

\* The tables are finite; the sums over them are not defined otherwise.
FiniteTables == IsFiniteSet(Orders) /\ IsFiniteSet(Customers)

\* A request that has written a reward owes the row of that reward.
DueIsReward == \A w \in Workers : req[w].pc = "log" => inst[w].due = Sum(req[w])

\* An order that is not placed belongs to nobody and moved no money.
Untouched == \A o \in Orders : ~Placed(o) =>
                 /\ order[o].customer = NoOne /\ order[o].used = 0
                 /\ bonuses[o] = 0 /\ refunds[o] = 0

LedgerInv == DueIsReward /\ Untouched /\ LedgerAddsUp

\* The columns that are summed, and the customers a referrer brought.
BonusCol == [o \in Orders |-> bonuses[o] * order[o].bonus]
RefundCol == [o \in Orders |-> refunds[o] * order[o].used]
UsedCol == [o \in Orders |-> order[o].used]
Brought(c) == {d \in Customers : Referrer[d] = c}

LEMMA EarnedIs ==
    ASSUME NEW c
    PROVE  Earned(c) = SumFunctionOnSet(BonusCol, OrdersOf(c))
                         + ReferralBonus * SumFunctionOnSet(referrals, Brought(c))
BY DEF Earned, BonusCol, Brought

LEMMA ProductIsNat == \A m, n \in Nat : m * n \in Nat
OBVIOUS

ColumnsOK ==
    \A o \in Orders : BonusCol[o] \in Nat /\ RefundCol[o] \in Nat /\ UsedCol[o] \in Nat

LEMMA ColumnsType == IInv => ColumnsOK
<1> SUFFICES ASSUME IInv, NEW o \in Orders
             PROVE  BonusCol[o] \in Nat /\ RefundCol[o] \in Nat /\ UsedCol[o] \in Nat
  BY DEF ColumnsOK
<1>1. /\ order[o].used \in Nat /\ order[o].bonus \in Nat
      /\ bonuses[o] \in Nat /\ refunds[o] \in Nat
  BY DEF IInv, DeskTypeOK, OrderRow
<1> QED
  BY <1>1, ProductIsNat DEF BonusCol, RefundCol, UsedCol

LEMMA OrdersOfFinite == FiniteTables => \A c : IsFiniteSet(OrdersOf(c)) /\ IsFiniteSet(Brought(c))
<1> SUFFICES ASSUME FiniteTables, NEW c
             PROVE  IsFiniteSet(OrdersOf(c)) /\ IsFiniteSet(Brought(c))
  OBVIOUS
<1>1. OrdersOf(c) \in SUBSET Orders /\ Brought(c) \in SUBSET Customers
  BY DEF OrdersOf, Brought
<1> QED
  BY <1>1, FS_Subset DEF FiniteTables

LEMMA SumsType ==
    FiniteTables /\ IInv => \A c \in Customers :
        /\ Spent(c) \in Nat /\ Refunded(c) \in Nat
        /\ SumFunctionOnSet(BonusCol, OrdersOf(c)) \in Nat
        /\ SumFunctionOnSet(referrals, Brought(c)) \in Nat
<1> SUFFICES ASSUME FiniteTables, IInv, NEW c \in Customers
             PROVE  /\ Spent(c) \in Nat /\ Refunded(c) \in Nat
                    /\ SumFunctionOnSet(BonusCol, OrdersOf(c)) \in Nat
                    /\ SumFunctionOnSet(referrals, Brought(c)) \in Nat
  OBVIOUS
<1>1. IsFiniteSet(OrdersOf(c)) /\ IsFiniteSet(Brought(c))
  BY OrdersOfFinite
<1>2. \A o \in OrdersOf(c) : BonusCol[o] \in Nat /\ RefundCol[o] \in Nat /\ UsedCol[o] \in Nat
  BY ColumnsType DEF OrdersOf, ColumnsOK
<1>3. \A d \in Brought(c) : referrals[d] \in Nat
  BY DEF Brought, IInv, DeskTypeOK
<1>4. /\ SumFunctionOnSet(UsedCol, OrdersOf(c)) \in Nat
      /\ SumFunctionOnSet(RefundCol, OrdersOf(c)) \in Nat
      /\ SumFunctionOnSet(BonusCol, OrdersOf(c)) \in Nat
  BY <1>1, <1>2, SumIsNat
<1>5. SumFunctionOnSet(referrals, Brought(c)) \in Nat
  BY <1>1, <1>3, SumIsNat
<1> QED
  BY <1>4, <1>5 DEF Spent, Refunded, UsedCol, RefundCol

\* What a step leaves of an order, as far as money goes.
SameMoney(o) == /\ order'[o].customer = order[o].customer
                /\ order'[o].used = order[o].used
                /\ order'[o].bonus = order[o].bonus
                /\ bonuses'[o] = bonuses[o]
                /\ refunds'[o] = refunds[o]

\* If one order changes at most, only the sums of its customer do.
LEMMA SumsElsewhere ==
    ASSUME FiniteTables, IInv, IInv', NEW o \in Orders, NEW c \in Customers,
           \A p \in Orders \ {o} : SameMoney(p),
           SameMoney(o) \/ (order[o].customer # c /\ order'[o].customer # c)
    PROVE  /\ Spent(c)' = Spent(c)
           /\ Refunded(c)' = Refunded(c)
           /\ SumFunctionOnSet(BonusCol, OrdersOf(c))' = SumFunctionOnSet(BonusCol, OrdersOf(c))
<1> DEFINE S == OrdersOf(c)
           T == OrdersOf(c)'
<1>1. T = S
  BY DEF OrdersOf, SameMoney
<1>2. \A p \in S : /\ UsedCol'[p] = UsedCol[p] /\ RefundCol'[p] = RefundCol[p]
                   /\ BonusCol'[p] = BonusCol[p]
  <2>1. \A p \in S : p \in Orders /\ SameMoney(p)
    BY DEF OrdersOf
  <2> QED
    BY <2>1 DEF SameMoney, UsedCol, RefundCol, BonusCol
<1>3. IsFiniteSet(S)
  BY OrdersOfFinite
<1>4. /\ SumFunctionOnSet(UsedCol', S) = SumFunctionOnSet(UsedCol, S)
      /\ SumFunctionOnSet(RefundCol', S) = SumFunctionOnSet(RefundCol, S)
      /\ SumFunctionOnSet(BonusCol', S) = SumFunctionOnSet(BonusCol, S)
  <2> HIDE DEF S
  <2> QED
    BY <1>2, <1>3, SumOfSame
<1> QED
  BY <1>1, <1>4 DEF Spent, Refunded, UsedCol, RefundCol, BonusCol

\* The sums of the customer of the order, which may be new.
LEMMA SumsHere ==
    ASSUME FiniteTables, IInv, IInv', NEW o \in Orders, NEW c \in Customers,
           \A p \in Orders \ {o} : SameMoney(p),
           order'[o].customer = c,
           IF Placed(o) THEN order[o].customer = c
                        ELSE /\ order[o].customer # c
                             /\ order[o].used = 0 /\ bonuses[o] = 0 /\ refunds[o] = 0
    PROVE  /\ Spent(c)' = Spent(c) + UsedCol'[o] - UsedCol[o]
           /\ Refunded(c)' = Refunded(c) + RefundCol'[o] - RefundCol[o]
           /\ SumFunctionOnSet(BonusCol, OrdersOf(c))'
                = SumFunctionOnSet(BonusCol, OrdersOf(c)) + BonusCol'[o] - BonusCol[o]
<1> DEFINE S == OrdersOf(c)
           T == OrdersOf(c)'
           Old(f) == IF o \in S THEN f[o] ELSE 0
<1>1. o \in T /\ T \ {o} = S \ {o}
  BY DEF OrdersOf, SameMoney
<1>2. \A p \in S \ {o} : /\ UsedCol'[p] = UsedCol[p] /\ RefundCol'[p] = RefundCol[p]
                         /\ BonusCol'[p] = BonusCol[p]
  <2>1. \A p \in S \ {o} : p \in Orders /\ SameMoney(p)
    BY DEF OrdersOf
  <2> QED
    BY <2>1 DEF SameMoney, UsedCol, RefundCol, BonusCol
<1>3. IsFiniteSet(S)
  BY OrdersOfFinite
<1>4. /\ \A p \in S : UsedCol[p] \in Nat /\ RefundCol[p] \in Nat /\ BonusCol[p] \in Nat
      /\ \A p \in T : UsedCol'[p] \in Nat /\ RefundCol'[p] \in Nat /\ BonusCol'[p] \in Nat
  <2>1. (IInv => ColumnsOK)'
    BY ColumnsType, PTL
  <2> QED
    BY <2>1, ColumnsType DEF OrdersOf, ColumnsOK
<1>5. /\ Old(UsedCol) = UsedCol[o] /\ Old(RefundCol) = RefundCol[o] /\ Old(BonusCol) = BonusCol[o]
  <2>1. CASE Placed(o)
    BY <2>1 DEF OrdersOf
  <2>2. CASE ~Placed(o)
    <3>1. order[o].bonus \in Nat /\ o \notin S
      BY <2>2 DEF OrdersOf, IInv, DeskTypeOK, OrderRow
    <3> QED
      BY <2>2, <3>1 DEF UsedCol, RefundCol, BonusCol
  <2> QED
    BY <2>1, <2>2
<1> HIDE DEF S, T
<1>6. ASSUME NEW f, NEW g,
             \A p \in S : f[p] \in Nat, \A p \in T : g[p] \in Nat,
             \A p \in S \ {o} : g[p] = f[p], Old(f) = f[o]
      PROVE  SumFunctionOnSet(g, T) = SumFunctionOnSet(f, S) + g[o] - f[o]
  <2>1. SumFunctionOnSet(g, T) = SumFunctionOnSet(f, S) + g[o] - Old(f)
    BY <1>1, <1>3, <1>6, SumChangedAt
  <2> HIDE DEF Old
  <2> QED
    BY <1>6, <2>1
<1> HIDE DEF Old
<1>7. /\ SumFunctionOnSet(UsedCol', T) = SumFunctionOnSet(UsedCol, S) + UsedCol'[o] - UsedCol[o]
      /\ SumFunctionOnSet(RefundCol', T)
            = SumFunctionOnSet(RefundCol, S) + RefundCol'[o] - RefundCol[o]
      /\ SumFunctionOnSet(BonusCol', T)
            = SumFunctionOnSet(BonusCol, S) + BonusCol'[o] - BonusCol[o]
  BY <1>2, <1>4, <1>5, <1>6
<1> QED
  BY <1>7 DEF Spent, Refunded, UsedCol, RefundCol, BonusCol, S, T

\* Rows and terms as they were: so are all sums.
LEMMA QuietLedger ==
    ASSUME LedgerAddsUp, UNCHANGED <<posted, referrals>>, \A o \in Orders : SameMoney(o)
    PROVE  LedgerAddsUp'
<1>1. \A c : OrdersOf(c)' = OrdersOf(c)
  BY DEF OrdersOf, SameMoney
<1>2. BonusCol' = BonusCol /\ RefundCol' = RefundCol /\ UsedCol' = UsedCol
  BY DEF SameMoney, BonusCol, RefundCol, UsedCol
<1>3. \A c \in Customers : /\ Earned(c)' = Earned(c) /\ Refunded(c)' = Refunded(c)
                           /\ Spent(c)' = Spent(c)
  BY <1>1, <1>2 DEF Earned, Refunded, Spent, BonusCol, RefundCol, UsedCol
<1> QED
  BY <1>3 DEF LedgerAddsUp

\* One order changes: the books of its customer must, by as much as his trail, and those
\* of the others stay.
LEMMA OneOrderLedger ==
    ASSUME FiniteTables, IInv, IInv', LedgerAddsUp, NEW o \in Orders, NEW c \in Customers,
           NEW n \in Int,
           \A p \in Orders \ {o} : SameMoney(p),
           order'[o].customer = c,
           IF Placed(o) THEN order[o].customer = c
                        ELSE /\ order[o].customer = NoOne
                             /\ order[o].used = 0 /\ bonuses[o] = 0 /\ refunds[o] = 0,
           referrals' = referrals,
           posted' = [posted EXCEPT ![c] = posted[c] + n],
           (BonusCol'[o] - BonusCol[o]) + (RefundCol'[o] - RefundCol[o])
              = n + (UsedCol'[o] - UsedCol[o])
    PROVE  LedgerAddsUp'
<1> SUFFICES ASSUME NEW d \in Customers
             PROVE  posted'[d] + Spent(d)' = Earned(d)' + Refunded(d)'
  BY DEF LedgerAddsUp
<1> DEFINE B(e) == SumFunctionOnSet(BonusCol, OrdersOf(e))
           R(e) == ReferralBonus * SumFunctionOnSet(referrals, Brought(e))
<1>1. posted \in [Customers -> Int]
  BY DEF IInv, WP!Inv, WP!TypeOK
<1>2. posted[d] + Spent(d) = B(d) + R(d) + Refunded(d)
  BY EarnedIs DEF LedgerAddsUp
<1>3. Earned(d)' = B(d)' + R(d)
  BY DEF Earned, BonusCol, Brought
<1>4. /\ Spent(d) \in Nat /\ Refunded(d) \in Nat /\ B(d) \in Nat /\ R(d) \in Nat
  <2>1. /\ Spent(d) \in Nat /\ Refunded(d) \in Nat /\ B(d) \in Nat
        /\ SumFunctionOnSet(referrals, Brought(d)) \in Nat
    BY SumsType
  <2> QED
    BY <2>1, ProductIsNat, OrderDeskAssumption
<1>5. /\ BonusCol[o] \in Nat /\ RefundCol[o] \in Nat /\ UsedCol[o] \in Nat
      /\ BonusCol'[o] \in Nat /\ RefundCol'[o] \in Nat /\ UsedCol'[o] \in Nat
  <2>1. (IInv => ColumnsOK)'
    BY ColumnsType, PTL
  <2> QED
    BY <2>1, ColumnsType DEF ColumnsOK
<1>6. CASE d # c
  <2>1. order[o].customer # d /\ order'[o].customer # d
    BY <1>6, OrderDeskAssumption
  <2>2. Spent(d)' = Spent(d) /\ Refunded(d)' = Refunded(d) /\ B(d)' = B(d)
    BY <2>1, SumsElsewhere
  <2>3. posted'[d] = posted[d]
    BY <1>1, <1>6
  <2> HIDE DEF B, R
  <2> QED
    BY <1>2, <1>3, <2>2, <2>3
<1>7. CASE d = c
  <2>1. NoOne # c
    BY OrderDeskAssumption
  <2>2. /\ Spent(d)' = Spent(d) + UsedCol'[o] - UsedCol[o]
        /\ Refunded(d)' = Refunded(d) + RefundCol'[o] - RefundCol[o]
        /\ B(d)' = B(d) + BonusCol'[o] - BonusCol[o]
    BY <1>7, <2>1, SumsHere
  <2>3. posted'[d] = posted[d] + n /\ posted[d] \in Int
    BY <1>1, <1>7
  <2> HIDE DEF B, R
  <2> QED
    BY <1>2, <1>3, <1>4, <1>5, <2>2, <2>3
<1> QED
  BY <1>6, <1>7

\* Checkout fills an order of the owner of its instance; the debit is what the order says.
LEMMA CheckoutMoves ==
    ASSUME IInv, Untouched, NEW w \in Workers,
           NEW o \in Orders, NEW s \in Subtotals, NEW b \in DeliveryBonuses,
           CheckoutCommit(w, o, s, b)
    PROVE  /\ inst[w].owner \in Customers /\ Spend(w, s) \in Nat
           /\ ~Placed(o) /\ order[o].customer = NoOne /\ order[o].used = 0
           /\ bonuses[o] = 0 /\ refunds[o] = 0
           /\ order'[o].customer = inst[w].owner
           /\ UNCHANGED referrals
           /\ posted' = [posted EXCEPT ![inst[w].owner] = posted[inst[w].owner] + (-Spend(w, s))]
           /\ \A p \in Orders \ {o} : SameMoney(p)
           /\ BonusCol'[o] = 0 /\ BonusCol[o] = 0 /\ RefundCol'[o] = 0 /\ RefundCol[o] = 0
           /\ UsedCol'[o] = Spend(w, s) /\ UsedCol[o] = 0
<1> DEFINE c == inst[w].owner
           u == Spend(w, s)
<1>1. /\ c \in Customers /\ ~Placed(o)
      /\ order' = [order EXCEPT ![o] = [Unplaced EXCEPT !.status = "placed", !.customer = c,
                                           !.subtotal = s, !.used = u, !.bonus = b]]
      /\ UNCHANGED rows
  BY DEF CheckoutCommit, Debited, At, Placed, IInv, RequestsOK, RequestOK
<1>2. u \in Nat
  <2>1. u \in Amounts \cup {0}
    BY SpendIsAmount
  <2> HIDE DEF u
  <2> QED
    BY <2>1, AmountsArePositive
<1>3. /\ order'[o].customer = c /\ order'[o].used = u
      /\ order[o].customer = NoOne /\ order[o].used = 0
      /\ bonuses[o] = 0 /\ refunds[o] = 0 /\ bonuses'[o] = 0 /\ refunds'[o] = 0
      /\ order[o].bonus \in Nat /\ order'[o].bonus \in Nat
  <2>1. order \in [Orders -> OrderRow] /\ b \in Nat
    BY OrderDeskAssumption DEF IInv, DeskTypeOK
  <2> QED
    BY <1>1, <2>1 DEF Untouched, Unplaced, rows, OrderRow
<1>4. posted' = [posted EXCEPT ![c] = posted[c] + (-u)]
  <2>1. posted \in [Customers -> Int]
    BY DEF IInv, WP!Inv, WP!TypeOK
  <2>2. CASE u > 0
    <3>1. posted' = [posted EXCEPT ![c] = posted[c] - u]
      BY <2>2 DEF CheckoutCommit, Debited, W!DebitTx
    <3> QED
      BY <1>2, <2>1, <3>1
  <2>3. CASE ~(u > 0)
    <3>1. posted' = posted /\ u = 0
      BY <1>2, <2>3 DEF CheckoutCommit, walletVars
    <3> QED
      BY <1>1, <2>1, <3>1
  <2> QED
    BY <2>2, <2>3
<1>5. \A p \in Orders \ {o} : SameMoney(p)
  BY <1>1 DEF SameMoney, rows, IInv, DeskTypeOK
<1>6. /\ BonusCol'[o] = 0 /\ BonusCol[o] = 0 /\ RefundCol'[o] = 0 /\ RefundCol[o] = 0
      /\ UsedCol'[o] = u /\ UsedCol[o] = 0
  BY <1>2, <1>3 DEF BonusCol, RefundCol, UsedCol
<1>7. UNCHANGED referrals
  BY <1>1 DEF rows
<1> HIDE DEF c, u
<1>8. /\ c \in Customers /\ u \in Nat
      /\ ~Placed(o) /\ order[o].customer = NoOne /\ order[o].used = 0
      /\ bonuses[o] = 0 /\ refunds[o] = 0 /\ order'[o].customer = c
  BY <1>1, <1>2, <1>3
<1> QED
  BY <1>4, <1>5, <1>6, <1>7, <1>8 DEF c, u

LEMMA CheckoutLedger ==
    ASSUME FiniteTables, IInv, IInv', Untouched, LedgerAddsUp, NEW w \in Workers,
           NEW o \in Orders, NEW s \in Subtotals, NEW b \in DeliveryBonuses,
           CheckoutCommit(w, o, s, b)
    PROVE  LedgerAddsUp'
<1> DEFINE c == inst[w].owner
           u == Spend(w, s)
<1>1. /\ c \in Customers /\ u \in Nat
      /\ ~Placed(o) /\ order[o].customer = NoOne /\ order[o].used = 0
      /\ bonuses[o] = 0 /\ refunds[o] = 0
      /\ order'[o].customer = c
      /\ UNCHANGED referrals
      /\ posted' = [posted EXCEPT ![c] = posted[c] + (-u)]
      /\ \A p \in Orders \ {o} : SameMoney(p)
      /\ BonusCol'[o] = 0 /\ BonusCol[o] = 0 /\ RefundCol'[o] = 0 /\ RefundCol[o] = 0
      /\ UsedCol'[o] = u /\ UsedCol[o] = 0
  BY CheckoutMoves
<1>2. -u \in Int /\ (0 - 0) + (0 - 0) = (-u) + (u - 0)
  BY <1>1
<1> HIDE DEF c, u
<1> QED
  BY <1>1, <1>2, OneOrderLedger

\* A refund pays back what the order took.
LEMMA CancelMoves ==
    ASSUME IInv, NEW w \in Workers, CancelCommit(w)
    PROVE  LET o == req[w].order
               c == order[o].customer IN
           /\ o \in Orders /\ Placed(o) /\ c \in Customers /\ inst[w].owner = c
           /\ order[o].used \in Nat
           /\ order'[o].customer = c
           /\ UNCHANGED referrals
           /\ posted' = [posted EXCEPT ![c] = posted[c] + order[o].used]
           /\ \A p \in Orders \ {o} : SameMoney(p)
           /\ BonusCol'[o] = BonusCol[o] /\ UsedCol'[o] = UsedCol[o]
           /\ RefundCol'[o] = RefundCol[o] + order[o].used
<1> DEFINE o == req[w].order
           c == order[o].customer
           u == order[o].used
<1>1. /\ o \in Orders /\ Placed(o) /\ inst[w].owner = c /\ c \in Customers
      /\ order' = [order EXCEPT ![o] = [order[o] EXCEPT !.status = "cancelled"]]
      /\ UNCHANGED <<bonuses, referrals>>
  BY DEF CancelCommit, At, IInv, RequestsOK, RequestOK, OrdersOK
<1>2. /\ order \in [Orders -> OrderRow] /\ refunds \in [Orders -> Nat]
      /\ bonuses \in [Orders -> Nat] /\ posted \in [Customers -> Int]
  BY DEF IInv, DeskTypeOK, WP!Inv, WP!TypeOK
<1>3. u \in Nat
  BY <1>1, <1>2 DEF OrderRow
<1>4. /\ order'[o].customer = c /\ order'[o].used = u /\ order'[o].bonus = order[o].bonus
  BY <1>1, <1>2 DEF OrderRow
<1>5. /\ posted' = [posted EXCEPT ![c] = posted[c] + u]
      /\ refunds' = [refunds EXCEPT ![o] = refunds[o] + IF u > 0 THEN 1 ELSE 0]
  <2>1. CASE u > 0
    <3>1. /\ posted' = [posted EXCEPT ![inst[w].owner] = posted[inst[w].owner] + u]
          /\ refunds' = [refunds EXCEPT ![o] = refunds[o] + 1]
      BY <2>1 DEF CancelCommit, W!CreditTx
    <3> QED
      BY <1>1, <2>1, <3>1
  <2>2. CASE ~(u > 0)
    <3>1. posted' = posted /\ refunds' = refunds /\ u = 0
      BY <1>3, <2>2 DEF CancelCommit, walletVars
    <3> HIDE DEF o, c, u
    <3> QED
      BY <1>1, <1>2, <3>1
  <2> QED
    BY <2>1, <2>2
<1>6. \A p \in Orders \ {o} : SameMoney(p)
  BY <1>1, <1>2, <1>5 DEF SameMoney
<1>7. /\ BonusCol'[o] = BonusCol[o] /\ UsedCol'[o] = UsedCol[o]
      /\ RefundCol'[o] = RefundCol[o] + u
  <2>1. refunds'[o] * u = refunds[o] * u + u
    <3>1. refunds'[o] = refunds[o] + (IF u > 0 THEN 1 ELSE 0) /\ refunds[o] \in Nat
      BY <1>1, <1>2, <1>5
    <3> HIDE DEF u
    <3> QED
      BY <1>3, <3>1
  <2> QED
    BY <1>1, <1>4, <2>1 DEF BonusCol, RefundCol, UsedCol
<1> HIDE DEF o, c, u
<1>8. /\ o \in Orders /\ Placed(o) /\ c \in Customers /\ inst[w].owner = c
      /\ u \in Nat /\ order'[o].customer = c /\ UNCHANGED referrals
  BY <1>1, <1>3, <1>4
<1> QED
  BY <1>5, <1>6, <1>7, <1>8 DEF o, c, u

LEMMA CancelLedger ==
    ASSUME FiniteTables, IInv, IInv', LedgerAddsUp, NEW w \in Workers, CancelCommit(w)
    PROVE  LedgerAddsUp'
<1> DEFINE o == req[w].order
           c == order[o].customer
           u == order[o].used
<1>1. /\ o \in Orders /\ Placed(o) /\ c \in Customers /\ order[o].customer = c
      /\ u \in Nat
      /\ order'[o].customer = c
      /\ referrals' = referrals
      /\ posted' = [posted EXCEPT ![c] = posted[c] + u]
      /\ \A p \in Orders \ {o} : SameMoney(p)
      /\ BonusCol'[o] = BonusCol[o] /\ UsedCol'[o] = UsedCol[o]
      /\ RefundCol'[o] = RefundCol[o] + u
  BY CancelMoves
<1>2. BonusCol[o] \in Nat /\ RefundCol[o] \in Nat /\ UsedCol[o] \in Nat
  BY <1>1, ColumnsType DEF ColumnsOK
<1> HIDE DEF o, c, u
<1>3. /\ u \in Int
      /\ (BonusCol'[o] - BonusCol[o]) + (RefundCol'[o] - RefundCol[o])
            = u + (UsedCol'[o] - UsedCol[o])
  BY <1>1, <1>2
<1> QED
  BY <1>1, <1>3, OneOrderLedger

\* A referral bonus, paid to the referrer and counted for the customer he brought.
LEMMA ReferralLedger ==
    ASSUME FiniteTables, IInv, LedgerAddsUp, NEW d \in Customers, NEW c \in Customers,
           c = Referrer[d], UNCHANGED <<order, refunds, bonuses>>,
           referrals' = [referrals EXCEPT ![d] = referrals[d] + 1],
           posted' = [posted EXCEPT ![c] = posted[c] + ReferralBonus]
    PROVE  LedgerAddsUp'
<1> DEFINE B(e) == SumFunctionOnSet(BonusCol, OrdersOf(e))
           S(e) == SumFunctionOnSet(referrals, Brought(e))
<1>1. /\ referrals \in [Customers -> Nat] /\ posted \in [Customers -> Int]
      /\ ReferralBonus \in Nat
  BY OrderDeskAssumption DEF IInv, DeskTypeOK, WP!Inv, WP!TypeOK
<1>2. \A e : OrdersOf(e)' = OrdersOf(e)
  BY DEF OrdersOf
<1>3. BonusCol' = BonusCol /\ RefundCol' = RefundCol /\ UsedCol' = UsedCol
  BY DEF BonusCol, RefundCol, UsedCol
<1>4. \A e \in Customers : Spent(e)' = Spent(e) /\ Refunded(e)' = Refunded(e)
                           /\ Earned(e)' = B(e) + ReferralBonus * S(e)'
  BY <1>2, <1>3 DEF Spent, Refunded, Earned, BonusCol, RefundCol, UsedCol, Brought
<1>5. \A e \in Customers : posted[e] + Spent(e) = B(e) + ReferralBonus * S(e) + Refunded(e)
  BY EarnedIs DEF LedgerAddsUp
<1>6. \A e \in Customers : Spent(e) \in Nat /\ Refunded(e) \in Nat /\ B(e) \in Nat
                           /\ S(e) \in Nat
  BY SumsType
<1>7. ASSUME NEW e \in Customers
      PROVE  posted'[e] + Spent(e)' = Earned(e)' + Refunded(e)'
  <2>1. CASE e # c
    <3>1. \A x \in Brought(e) : referrals'[x] = referrals[x]
      BY <1>1, <2>1 DEF Brought
    <3>2. S(e)' = S(e)
      <4>1. IsFiniteSet(Brought(e))
        BY OrdersOfFinite
      <4>2. SumFunctionOnSet(referrals', Brought(e)) = SumFunctionOnSet(referrals, Brought(e))
        BY <3>1, <4>1, SumOfSame, ZenonT(30)
      <4> QED
        BY <4>2 DEF Brought
    <3>3. posted'[e] = posted[e]
      BY <1>1, <2>1
    <3> HIDE DEF B, S
    <3> QED
      BY <1>4, <1>5, <3>2, <3>3
  <2>2. CASE e = c
    <3>1. d \in Brought(e) /\ \A x \in Brought(e) : referrals[x] \in Nat
      BY <1>1, <2>2 DEF Brought
    <3>2. \A x \in Brought(e) : referrals'[x] = IF x = d THEN referrals[x] + 1 ELSE referrals[x]
      BY <1>1 DEF Brought
    <3>3. S(e)' = S(e) + 1
      <4>1. IsFiniteSet(Brought(e))
        BY OrdersOfFinite
      <4>2. SumFunctionOnSet(referrals', Brought(e)) = SumFunctionOnSet(referrals, Brought(e)) + 1
        BY <3>1, <3>2, <4>1, SumRaised
      <4> QED
        BY <4>2 DEF Brought
    <3>4. posted'[e] = posted[e] + ReferralBonus /\ posted[e] \in Int
      BY <1>1, <2>2
    <3> HIDE DEF B, S
    <3>5. ReferralBonus * (S(e) + 1) = ReferralBonus * S(e) + ReferralBonus
      BY <1>1, <1>6
    <3>6. ReferralBonus * S(e) \in Nat
      BY <1>1, <1>6, ProductIsNat
    <3>7. Earned(e)' = B(e) + ReferralBonus * S(e) + ReferralBonus
      BY <1>1, <1>4, <1>6, <3>3, <3>5, <3>6
    <3>8. /\ Spent(e)' = Spent(e) /\ Refunded(e)' = Refunded(e)
          /\ Spent(e) \in Nat /\ Refunded(e) \in Nat /\ B(e) \in Nat
          /\ posted[e] + Spent(e) = B(e) + ReferralBonus * S(e) + Refunded(e)
      BY <1>4, <1>5, <1>6
    <3> DEFINE bonus == ReferralBonus * S(e)
    <3>9. /\ bonus \in Nat
          /\ Earned(e)' = B(e) + bonus + ReferralBonus
          /\ posted[e] + Spent(e) = B(e) + bonus + Refunded(e)
      BY <3>6, <3>7, <3>8
    <3> HIDE DEF bonus
    <3> QED
      BY <1>1, <3>4, <3>8, <3>9
  <2> QED
    BY <2>1, <2>2
<1> QED
  BY <1>7 DEF LedgerAddsUp

\* The row of a reward is of what was written, and the order or the customer gets it.
LEMMA RewardLedger ==
    ASSUME FiniteTables, IInv, IInv', DueIsReward, LedgerAddsUp, NEW w \in Workers, PostRow(w)
    PROVE  LedgerAddsUp'
<1> DEFINE o == req[w].order
           a == inst[w].due
           c == inst[w].owner
<1>1. /\ req[w].pc = "log" /\ o \in Orders /\ Placed(o) /\ Due(req[w])
      /\ a = Sum(req[w]) /\ c = Payee(req[w]) /\ c \in Customers
      /\ posted' = [posted EXCEPT ![c] = posted[c] + a]
      /\ UNCHANGED <<order, refunds>>
  BY DEF PostRow, At, W!Log, W!Holds, IInv, RequestsOK, RequestOK, Posting, DueIsReward
<1>2. /\ order \in [Orders -> OrderRow] /\ bonuses \in [Orders -> Nat]
      /\ referrals \in [Customers -> Nat] /\ posted \in [Customers -> Int]
  BY DEF IInv, DeskTypeOK, WP!Inv, WP!TypeOK
<1>3. a \in Nat
  BY InstType
<1>4. CASE req[w].stage # "referral"
  <2>1. /\ bonuses' = [bonuses EXCEPT ![o] = bonuses[o] + 1]
        /\ referrals' = referrals
        /\ a = order[o].bonus /\ c = order[o].customer
    BY <1>1, <1>4 DEF PostRow, Sum, Payee
  <2>2. \A p \in Orders \ {o} : SameMoney(p)
    BY <1>1, <1>2, <2>1 DEF SameMoney
  <2>3. /\ BonusCol'[o] = BonusCol[o] + a /\ UsedCol'[o] = UsedCol[o]
        /\ RefundCol'[o] = RefundCol[o]
    <3>1. bonuses'[o] * a = bonuses[o] * a + a
      <4>1. bonuses'[o] = bonuses[o] + 1 /\ bonuses[o] \in Nat
        BY <1>1, <1>2, <2>1
      <4> HIDE DEF a
      <4> QED
        BY <1>3, <4>1
    <3> QED
      BY <1>1, <2>1, <3>1 DEF BonusCol, RefundCol, UsedCol
  <2>4. /\ BonusCol[o] \in Nat /\ RefundCol[o] \in Nat /\ UsedCol[o] \in Nat
    BY <1>1, ColumnsType DEF ColumnsOK
  <2>5. /\ a \in Int /\ order'[o].customer = c
        /\ (BonusCol'[o] - BonusCol[o]) + (RefundCol'[o] - RefundCol[o])
              = a + (UsedCol'[o] - UsedCol[o])
    <3> HIDE DEF o, a, c
    <3> QED
      BY <1>1, <1>3, <2>1, <2>3, <2>4
  <2> HIDE DEF o, a, c
  <2> QED
    BY <1>1, <2>1, <2>2, <2>5, OneOrderLedger
<1>5. CASE req[w].stage = "referral"
  <2>1. /\ referrals' = [referrals EXCEPT ![order[o].customer] = referrals[order[o].customer] + 1]
        /\ bonuses' = bonuses /\ order[o].customer \in Customers
        /\ a = ReferralBonus /\ c = Referrer[order[o].customer]
    BY <1>1, <1>5 DEF PostRow, Sum, Payee, IInv, OrdersOK
  <2> QED
    BY <1>1, <2>1, ReferralLedger
<1> QED
  BY <1>4, <1>5

\* The same of the referral bonus that a spin pays.
LEMMA SpinPayMoves ==
    ASSUME IInv, NEW w \in Workers, SpinPay(w)
    PROVE  LET d == order[req[w].order].customer
               c == inst[w].owner IN
           /\ d \in Customers /\ c \in Customers /\ c = Referrer[d]
           /\ UNCHANGED <<order, refunds, bonuses>>
           /\ referrals' = [referrals EXCEPT ![d] = referrals[d] + 1]
           /\ posted' = [posted EXCEPT ![c] = posted[c] + ReferralBonus]
           /\ granted' = [granted EXCEPT ![c] = granted[c] + ReferralBonus]
           /\ \A v \in Workers : inst'[v].due = inst[v].due /\ inst'[v].owner = inst[v].owner
<1>1. /\ req[w].pc = "spinpay" /\ req[w].order \in Orders /\ Placed(req[w].order)
      /\ req[w].stage = "referral" /\ Due(req[w])
      /\ inst[w].owner = Payee(req[w]) /\ inst[w].due = 0
  BY DEF SpinPay, At, IInv, RequestsOK, RequestOK
<1>2. order[req[w].order].customer \in Customers /\ inst[w].owner = Referrer[order[req[w].order].customer]
  BY <1>1 DEF IInv, OrdersOK, Payee
<1>3. inst[w].owner \in Customers
  BY <1>1, <1>2, OrderDeskAssumption DEF Due
<1> QED
  BY <1>1, <1>2, <1>3, InstType DEF SpinPay, W!CreditTx, W!Holds

LEMMA SpinLedger ==
    ASSUME FiniteTables, IInv, LedgerAddsUp, NEW w \in Workers, SpinPay(w)
    PROVE  LedgerAddsUp'
<1> DEFINE d == order[req[w].order].customer
           c == inst[w].owner
<1>1. /\ d \in Customers /\ c \in Customers /\ c = Referrer[d]
      /\ UNCHANGED <<order, refunds, bonuses>>
      /\ referrals' = [referrals EXCEPT ![d] = referrals[d] + 1]
      /\ posted' = [posted EXCEPT ![c] = posted[c] + ReferralBonus]
  BY SpinPayMoves
<1> HIDE DEF d, c
<1> QED
  BY <1>1, ReferralLedger

\* The steps that move no row and no terms.
LEMMA RestLedger ==
    ASSUME IInv, LedgerAddsUp, Next,
           ~\E w \in Workers : \/ \E o \in Orders, s \in Subtotals, b \in DeliveryBonuses :
                                     CheckoutCommit(w, o, s, b)
                               \/ CancelCommit(w) \/ PostRow(w) \/ SpinPay(w)
    PROVE  LedgerAddsUp'
<1>1. PICK w \in Workers : Start(w) \/ Serve(w) \/ BrokerDown(w) \/ Die(w)
  BY DEF Next
<1>2. UNCHANGED <<posted, referrals, bonuses, refunds>>
  BY <1>1 DEF Start, Serve, BrokerDown, Die, Abandon, CheckoutOpen, CheckoutDebit,
              CheckoutRefused, SpinEnd, SpinRead, SpinFound, SpinNotFound, SpinPay, CancelLock,
              CancelRead, Assign, RiderLoad, SpinLock, PreSave, SaveStatus, Skip, ReadWallet,
              Check, Pay, Notify, Reply, rows, walletVars, W!Open, W!Credit, W!Close, W!Crash
<1>3. order \in [Orders -> OrderRow]
  BY DEF IInv, DeskTypeOK
<1>4. \A o \in Orders : SameMoney(o)
  <2>1. CASE SaveStatus(w)
    BY <1>2, <1>3, <2>1 DEF SaveStatus, SameMoney, OrderRow
  <2>2. CASE \E o \in Orders, r \in Riders : Assign(w, o, r)
    BY <1>2, <1>3, <2>2 DEF Assign, SameMoney, OrderRow
  <2>3. CASE UNCHANGED order
    BY <1>2, <2>3 DEF SameMoney
  <2> QED
    BY <1>1, <2>1, <2>2, <2>3
       DEF Start, Serve, BrokerDown, Die, Abandon, CheckoutOpen, CheckoutDebit, CheckoutRefused,
           SpinEnd, SpinRead, SpinFound, SpinNotFound, SpinPay, CancelLock, CancelRead, RiderLoad,
           SpinLock, PreSave, Skip, ReadWallet, Check, Pay, Notify, Reply
<1> QED
  BY <1>2, <1>4, QuietLedger

\* A request comes to its row from the payment only.
LEMMA LogMoves ==
    ASSUME IInv, Next, NEW v \in Workers, req'[v].pc = "log"
    PROVE  Pay(v) \/ (req'[v] = req[v] /\ inst'[v] = inst[v])
<1>1. PICK w \in Workers : Start(w) \/ Serve(w) \/ BrokerDown(w) \/ Die(w)
  BY DEF Next
<1>2. /\ req \in [Workers -> Request] /\ req[w] \in Request
      /\ inst \in [Workers -> [owner : Customers \cup {NoOne}, balance : Nat, due : Nat]]
  BY InstType DEF IInv, DeskTypeOK
<1>3. CASE v # w
  BY <1>1, <1>2, <1>3
     DEF Start, Serve, BrokerDown, Die, Abandon, CheckoutOpen, CheckoutCommit, Debited,
         CheckoutDebit, CheckoutRefused, SpinEnd, SpinRead, SpinFound, SpinNotFound, SpinPay,
         CancelLock, CancelRead, CancelCommit, Assign, RiderLoad, SpinLock, PreSave, SaveStatus,
         Skip, ReadWallet, Check, Pay, PostRow, Notify, Reply, Goto, walletVars, W!Open, W!Credit,
         W!CreditTx, W!DebitTx, W!Log, W!Close, W!Crash
<1>4. CASE v = w
  <2>1. CASE \/ \E c \in Customers : CheckoutOpen(w, c)
             \/ \E o \in Orders : CancelLock(w, o)
             \/ \E o \in Orders, s \in RiderPosts : RiderLoad(w, o, s)
    BY <1>2, <1>4, <2>1 DEF CheckoutOpen, CancelLock, RiderLoad, SpinLock, Goto, NoRequest
  <2>2. CASE \E o \in Orders, r \in Riders : Assign(w, o, r)
    BY <1>4, <2>2 DEF Assign, walletVars
  <2>3. CASE \/ \E o \in Orders, s \in Subtotals, b \in DeliveryBonuses :
                   CheckoutCommit(w, o, s, b)
             \/ CheckoutRefused(w) \/ CancelCommit(w)
    <3>1. req'[w].pc = "done"
      BY <1>2, <2>3 DEF CheckoutCommit, Debited, CheckoutDebit, CheckoutRefused, SpinEnd,
                        SpinRead, SpinFound, SpinNotFound, SpinPay, CancelCommit, Goto, NoRequest
    <3> QED
      BY <1>4, <3>1
  <2>4. CASE Reply(w) \/ BrokerDown(w) \/ Die(w)
    <3>1. req'[w].pc = "idle"
      BY <1>2, <2>4 DEF Reply, BrokerDown, Die, Abandon, Goto, NoRequest
    <3> QED
      BY <1>4, <3>1
  <2>5. CASE CancelRead(w)
    BY <1>2, <1>4, <2>5 DEF CancelRead, Goto, Request
  <2>6. CASE PreSave(w)
    BY <1>2, <1>4, <2>6 DEF PreSave, Goto, Request
  <2>7. CASE Notify(w)
    BY <1>2, <1>4, <2>7 DEF Notify, Goto, Request
  <2>8. CASE ReadWallet(w)
    BY <1>2, <1>4, <2>8 DEF ReadWallet, Goto, Request
  <2>9. CASE SaveStatus(w)
    <3>1. req'[w] = AfterSave(req[w])
      BY <1>2, <2>9 DEF SaveStatus, Goto
    <3>2. AfterSave(req[w]).pc \in {"read", "notify"}
      BY <1>2 DEF AfterSave, Request
    <3> QED
      BY <1>4, <3>1, <3>2
  <2>10. CASE Skip(w) \/ Check(w) \/ PostRow(w)
    <3>1. req'[w] \in {AfterStage(req[w]), [req[w] EXCEPT !.pc = "pay"]}
      BY <1>2, <2>10 DEF Skip, Check, PostRow, Goto
    <3>2. AfterStage(req[w]).pc # "log" /\ [req[w] EXCEPT !.pc = "pay"].pc # "log"
      BY <1>2, AfterStageType DEF Request
    <3> QED
      BY <1>4, <3>1, <3>2
  <2>11. CASE Aside(w)
    BY <1>4, <2>11, AsideMoves
  <2> QED
    BY <1>1, <1>4, <2>1, <2>2, <2>3, <2>4, <2>5, <2>6, <2>7, <2>8, <2>9, <2>10, <2>11
       DEF Start, Serve, Aside
<1> QED
  BY <1>3, <1>4

LEMMA DueStep == ASSUME IInv, DueIsReward, Next PROVE DueIsReward'
<1> SUFFICES ASSUME NEW v \in Workers, req'[v].pc = "log"
             PROVE  inst'[v].due = Sum(req[v])'
  BY DEF DueIsReward
<1>1. CASE Pay(v)
  <2>1. /\ req'[v] = [req[v] EXCEPT !.pc = "log"] /\ req[v] \in Request
        /\ order' = order /\ inst'[v].due = Sum(req[v])
    BY <1>1, InstType DEF Pay, Goto, IInv, DeskTypeOK, W!Credit
  <2>2. req'[v].stage = req[v].stage /\ req'[v].order = req[v].order
    BY <2>1 DEF Request
  <2> QED
    BY <2>1, <2>2 DEF Sum
<1>2. CASE req'[v] = req[v] /\ inst'[v] = inst[v]
  <2>1. req[v].pc = "log" /\ req[v].order \in Orders /\ Placed(req[v].order)
    BY <1>2 DEF IInv, RequestsOK, RequestOK, Posting
  <2>2. order'[req[v].order].bonus = order[req[v].order].bonus
    BY <2>1, TermsKept DEF SameTerms
  <2> QED
    BY <1>2, <2>1, <2>2 DEF DueIsReward, Sum
<1> QED
  BY <1>1, <1>2, LogMoves

LEMMA UntouchedStep == ASSUME IInv, Untouched, Next PROVE Untouched'
<1> SUFFICES ASSUME NEW o \in Orders, ~Placed(o)'
             PROVE  /\ order'[o].customer = NoOne /\ order'[o].used = 0
                    /\ bonuses'[o] = 0 /\ refunds'[o] = 0
  BY DEF Untouched
<1>1. ~Placed(o)
  BY TermsKept DEF SameTerms, Placed
<1>2. PICK w \in Workers : Start(w) \/ Serve(w) \/ BrokerDown(w) \/ Die(w)
  BY DEF Next
<1>3. /\ order[o].customer = NoOne /\ order[o].used = 0
      /\ bonuses[o] = 0 /\ refunds[o] = 0
  BY <1>1 DEF Untouched
<1>4. /\ order \in [Orders -> OrderRow] /\ bonuses \in [Orders -> Nat]
      /\ refunds \in [Orders -> Nat]
  BY DEF IInv, DeskTypeOK
<1>5. req[w].pc \in Posting \cup {"locked", "refund"} =>
         req[w].order \in Orders /\ req[w].order # o
  BY <1>1 DEF IInv, RequestsOK, RequestOK
<1>6. CASE \E p \in Orders, s \in Subtotals, b \in DeliveryBonuses : CheckoutCommit(w, p, s, b)
  <2>1. PICK p \in Orders, s \in Subtotals, b \in DeliveryBonuses : CheckoutCommit(w, p, s, b)
    BY <1>6
  <2>2. p # o
    BY <1>4, <2>1 DEF CheckoutCommit, Debited, Placed, Unplaced
  <2> QED
    BY <1>3, <1>4, <2>1, <2>2 DEF CheckoutCommit, Debited, rows
<1>7. CASE CancelCommit(w)
  <2>1. req[w].order # o
    BY <1>5, <1>7 DEF CancelCommit, At
  <2> QED
    BY <1>3, <1>4, <1>7, <2>1 DEF CancelCommit
<1>8. CASE SaveStatus(w)
  <2>1. req[w].order # o
    BY <1>5, <1>8 DEF SaveStatus, At, Posting
  <2> QED
    BY <1>3, <1>4, <1>8, <2>1 DEF SaveStatus, rows
<1>9. CASE \E p \in Orders, r \in Riders : Assign(w, p, r)
  BY <1>1, <1>3, <1>4, <1>9 DEF Assign, Placed, rows
<1>10. CASE PostRow(w)
  <2>1. req[w].order # o
    BY <1>5, <1>10 DEF PostRow, At, Posting
  <2> QED
    BY <1>3, <1>4, <1>10, <2>1 DEF PostRow
<1>11. CASE UNCHANGED <<order, bonuses, refunds>>
  BY <1>3, <1>11
<1> QED
  BY <1>2, <1>6, <1>7, <1>8, <1>9, <1>10, <1>11
     DEF Start, Serve, BrokerDown, Die, Abandon, CheckoutOpen, CheckoutDebit, CheckoutRefused,
         SpinEnd, SpinRead, SpinFound, SpinNotFound, SpinPay, CancelLock, CancelRead, RiderLoad,
         SpinLock, PreSave, Skip, ReadWallet, Check, Pay, Notify, Reply, rows

LEMMA InitLedger == ASSUME FiniteTables, Init PROVE LedgerInv
<1>1. DueIsReward
  BY DEF Init, DueIsReward, NoRequest
<1>2. Untouched
  BY DEF Init, Untouched, Unplaced
<1>3. LedgerAddsUp
  <2> SUFFICES ASSUME NEW c \in Customers PROVE posted[c] + Spent(c) = Earned(c) + Refunded(c)
    BY DEF LedgerAddsUp
  <2>1. OrdersOf(c) = {}
    BY OrderDeskAssumption DEF Init, OrdersOf, Unplaced
  <2>2. \A d \in Brought(c) : referrals[d] = 0
    BY DEF Init, Brought
  <2>3. SumFunctionOnSet(referrals, Brought(c)) = 0
    BY <2>2, OrdersOfFinite, SumOfZeros
  <2>4. Spent(c) = 0 /\ Refunded(c) = 0 /\ SumFunctionOnSet(BonusCol, OrdersOf(c)) = 0
    BY <2>1, SumOfNothing DEF Spent, Refunded
  <2>5. ReferralBonus * 0 = 0
    BY OrderDeskAssumption
  <2>6. posted[c] = 0
    BY DEF Init, W!Init
  <2> QED
    BY <2>3, <2>4, <2>5, <2>6, EarnedIs
<1> QED
  BY <1>1, <1>2, <1>3 DEF LedgerInv

LEMMA LedgerInvariance == ASSUME FiniteTables PROVE Spec => []LedgerInv
<1>1. Init => LedgerInv
  BY InitLedger
<1>2. IInv /\ IInv' /\ LedgerInv /\ [Next]_vars => LedgerInv'
  <2> SUFFICES ASSUME IInv, IInv', LedgerInv, [Next]_vars PROVE LedgerInv'
    OBVIOUS
  <2>1. CASE Next
    <3>1. DueIsReward' /\ Untouched'
      BY <2>1, DueStep, UntouchedStep DEF LedgerInv
    <3>2. LedgerAddsUp'
      BY <2>1, CheckoutLedger, CancelLedger, RewardLedger, SpinLedger, RestLedger
         DEF LedgerInv
    <3> QED
      BY <3>1, <3>2 DEF LedgerInv
  <2>2. CASE UNCHANGED vars
    <3>1. DueIsReward'
      BY <2>2 DEF vars, LedgerInv, DueIsReward, Sum
    <3>2. Untouched'
      BY <2>2 DEF vars, LedgerInv, Untouched, Placed
    <3>3. LedgerAddsUp'
      BY <2>2, QuietLedger DEF vars, LedgerInv, SameMoney
    <3> QED
      BY <3>1, <3>2, <3>3 DEF LedgerInv
  <2> QED
    BY <2>1, <2>2
<1> QED
  BY <1>1, <1>2, Invariance, PTL DEF Spec

\* For finitely many orders and customers, whatever overlaps, dies or is rolled back, the
\* rows of a wallet add up to what its owner's orders earned and were refunded, less what
\* they took.
THEOREM TheLedgerAddsUp == ASSUME FiniteTables PROVE Spec => []LedgerAddsUp
<1>1. LedgerInv => LedgerAddsUp
  BY DEF LedgerInv
<1> QED
  BY <1>1, LedgerInvariance, PTL

\* README: "Wallet is bonus-only by design".  The second refund of an order is the only way
\* to more than the bonuses: as long as none was paid, the rows add up to at most those.
THEOREM BonusOnlyUnlessRefundedAgain ==
    ASSUME FiniteTables
    PROVE  Spec => []((\A o \in Orders : refunds[o] <= 1) => BonusOnly)
<1>1. IInv /\ LedgerAddsUp => ((\A o \in Orders : refunds[o] <= 1) => BonusOnly)
  <2> SUFFICES ASSUME IInv, LedgerAddsUp, \A o \in Orders : refunds[o] <= 1,
                      NEW c \in Customers
               PROVE  posted[c] <= Earned(c)
    BY DEF BonusOnly
  <2>1. ASSUME NEW o \in OrdersOf(c)
        PROVE  UsedCol[o] \in Nat /\ RefundCol[o] \in Nat /\ RefundCol[o] <= UsedCol[o]
    <3>1. o \in Orders /\ order[o].used \in Nat /\ refunds[o] \in Nat
      BY DEF OrdersOf, IInv, DeskTypeOK, OrderRow
    <3>2. refunds[o] \in {0, 1}
      BY <3>1
    <3>3. refunds[o] * order[o].used \in {0, order[o].used}
      BY <3>1, <3>2
    <3> QED
      BY <3>1, <3>2, <3>3 DEF UsedCol, RefundCol
  <2>2. Refunded(c) <= Spent(c)
    <3>1. SumFunctionOnSet(RefundCol, OrdersOf(c)) <= SumFunctionOnSet(UsedCol, OrdersOf(c))
      BY <2>1, OrdersOfFinite, SumOfNoMore
    <3> QED
      BY <3>1 DEF Refunded, Spent, RefundCol, UsedCol
  <2>3. Spent(c) \in Nat /\ Refunded(c) \in Nat /\ Earned(c) \in Nat
    <3>1. /\ Spent(c) \in Nat /\ Refunded(c) \in Nat
          /\ SumFunctionOnSet(BonusCol, OrdersOf(c)) \in Nat
          /\ SumFunctionOnSet(referrals, Brought(c)) \in Nat
      BY SumsType
    <3>2. ReferralBonus * SumFunctionOnSet(referrals, Brought(c)) \in Nat
      BY <3>1, ProductIsNat, OrderDeskAssumption
    <3> QED
      BY <3>1, <3>2, EarnedIs
  <2>4. posted[c] + Spent(c) = Earned(c) + Refunded(c) /\ posted[c] \in Int
    BY DEF LedgerAddsUp, IInv, WP!Inv, WP!TypeOK
  <2> QED
    BY <2>2, <2>3, <2>4
<1> QED
  BY <1>1, TheLedgerAddsUp, Invariance, PTL

\* With one worker that does not die the column itself adds up, whenever it is at rest.
THEOREM BalanceAddsUp ==
    ASSUME FiniteTables, WP!OneAtATime
    PROVE  Spec => [](\A c \in Customers : (\A w \in Workers : At(w, "idle")) =>
                         balance[c] + Spent(c) = Earned(c) + Refunded(c))
<1> DEFINE AtRest == \A c \in Customers : (\A w \in Workers : At(w, "idle")) =>
                         balance[c] + Spent(c) = Earned(c) + Refunded(c)
<1>1. Init => WP!Init
  BY DEF Init, W!Init, WP!Init, W!NoInstance, WP!NoInstance
<1>2. IInv /\ [Next]_vars => [WP!Next]_(WP!wvars)
  BY StepIInv, WalletSame
<1>3. WP!Spec => []WP!TrailIsBalance
  BY WP!BalanceIsAudited, WalletAssumed
<1>4. IInv /\ WP!TrailIsBalance /\ LedgerAddsUp => AtRest
  <2> SUFFICES ASSUME IInv, WP!TrailIsBalance, LedgerAddsUp, NEW c \in Customers,
                      \A w \in Workers : At(w, "idle")
               PROVE  balance[c] + Spent(c) = Earned(c) + Refunded(c)
    OBVIOUS
  <2>1. WP!Sole \in Workers
    BY DEF WP!OneAtATime, WP!Sole
  <2>2. inst[WP!Sole].due = 0
    BY <2>1, InstType DEF IInv, RequestsOK, RequestOK, At
  <2>3. balance[c] = posted[c] + 0
    BY <2>2 DEF WP!TrailIsBalance, WP!Audit, WP!InFlight
  <2>4. posted[c] \in Int
    BY DEF IInv, WP!Inv, WP!TypeOK
  <2> QED
    BY <2>3, <2>4 DEF LedgerAddsUp
<1> QED
  BY <1>1, <1>2, <1>3, <1>4, TheLedgerAddsUp, Invariance, PTL DEF Spec, WP!Spec

-----------------------------------------------------------------------------
(* What a wallet can hold at most, as long as nobody dies between write and row *)

\* The rewards of c that are written and whose rows are about to follow.
OwedCol(c) == [w \in Workers |-> IF inst[w].owner = c THEN inst[w].due ELSE 0]
OwedRows(c) == SumFunctionOnSet(OwedCol(c), Workers)

GrantedAddsUp == \A c \in Customers : granted[c] = posted[c] + Spent(c) + OwedRows(c)

OwedType == IInv => \A c : /\ \A w \in Workers : OwedCol(c)[w] \in Nat
                           /\ OwedRows(c) \in Nat

LEMMA OwedIsNat == OwedType
<1> SUFFICES ASSUME IInv, NEW c
             PROVE  (\A w \in Workers : OwedCol(c)[w] \in Nat) /\ OwedRows(c) \in Nat
  BY DEF OwedType
<1>1. \A w \in Workers : OwedCol(c)[w] \in Nat
  BY InstType DEF OwedCol
<1> QED
  BY <1>1, SumIsNat, OrderDeskAssumption DEF OwedRows

LEMMA OwedSame ==
    ASSUME \A v \in Workers : /\ inst'[v].due = inst[v].due
                              /\ inst[v].due # 0 => inst'[v].owner = inst[v].owner
    PROVE  \A c : OwedRows(c)' = OwedRows(c)
<1> SUFFICES ASSUME NEW c PROVE OwedRows(c)' = OwedRows(c)
  OBVIOUS
<1>1. [w \in Workers |-> IF inst'[w].owner = c THEN inst'[w].due ELSE 0]
         = [w \in Workers |-> IF inst[w].owner = c THEN inst[w].due ELSE 0]
  OBVIOUS
<1> QED
  BY <1>1 DEF OwedRows, OwedCol

LEMMA SpentSame ==
    ASSUME \A o \in Orders : /\ order'[o].customer = order[o].customer
                             /\ order'[o].used = order[o].used
    PROVE  \A c : Spent(c)' = Spent(c)
BY DEF Spent, OrdersOf

\* One worker's instance: what it owes to c before and after.
LEMMA OwedMoves ==
    ASSUME IInv, IInv', NEW w \in Workers, NEW c,
           \A v \in Workers \ {w} : inst'[v] = inst[v]
    PROVE  OwedRows(c)' = OwedRows(c) + OwedCol(c)'[w] - OwedCol(c)[w]
<1> DEFINE f == OwedCol(c)
           g == OwedCol(c)'
<1>1. OwedType'
  BY OwedIsNat, PTL
<1>2. (\A v \in Workers : f[v] \in Nat) /\ (\A v \in Workers : g[v] \in Nat)
  BY <1>1, OwedIsNat DEF OwedType
<1>3. \A v \in Workers \ {w} : g[v] = f[v]
  BY DEF OwedCol
<1> HIDE DEF f, g
<1>4. SumFunctionOnSet(g, Workers) = SumFunctionOnSet(f, Workers) + g[w] - f[w]
  BY SMTT(30), <1>2, <1>3, SumChangedAt, OrderDeskAssumption
<1> QED
  BY <1>4 DEF f, g, OwedRows

LEMMA GrantedStep ==
    ASSUME ~MayCrash, FiniteTables, IInv, IInv', Untouched, GrantedAddsUp, Next
    PROVE  GrantedAddsUp'
<1>1. PICK w \in Workers : Start(w) \/ Serve(w) \/ BrokerDown(w) \/ Die(w)
  BY DEF Next
<1>2. /\ order \in [Orders -> OrderRow]
      /\ posted \in [Customers -> Int] /\ granted \in [Customers -> Nat]
      /\ inst \in [Workers -> [owner : Customers \cup {NoOne}, balance : Nat, due : Nat]]
      /\ inst[w] \in [owner : Customers \cup {NoOne}, balance : Nat, due : Nat]
  BY InstType DEF IInv, DeskTypeOK, WP!Inv, WP!TypeOK
<1>3. \A d \in Customers : Spent(d) \in Nat /\ OwedRows(d) \in Nat
  BY SumsType, OwedIsNat DEF OwedType
<1>4. CASE \E o \in Orders, s \in Subtotals, b \in DeliveryBonuses : CheckoutCommit(w, o, s, b)
  <2>1. PICK o \in Orders, s \in Subtotals, b \in DeliveryBonuses : CheckoutCommit(w, o, s, b)
    BY <1>4
  <2> DEFINE c == inst[w].owner
             u == Spend(w, s)
  <2>2. /\ c \in Customers /\ u \in Nat
        /\ ~Placed(o) /\ order[o].customer = NoOne /\ order[o].used = 0
        /\ bonuses[o] = 0 /\ refunds[o] = 0
        /\ order'[o].customer = c
        /\ posted' = [posted EXCEPT ![c] = posted[c] + (-u)]
        /\ \A p \in Orders \ {o} : SameMoney(p)
        /\ UsedCol'[o] = u /\ UsedCol[o] = 0
    BY <2>1, CheckoutMoves
  <2>3. granted' = granted
    BY <2>1 DEF CheckoutCommit, Debited, W!DebitTx, walletVars
  <2>4. \A d : OwedRows(d)' = OwedRows(d)
    <3>1. \A v \in Workers : inst'[v].due = inst[v].due /\ inst'[v].owner = inst[v].owner
      BY <1>2, <2>1 DEF CheckoutCommit, Debited, W!DebitTx, walletVars
    <3> QED
      BY <3>1, OwedSame
  <2> HIDE DEF c, u
  <2>5. ASSUME NEW d \in Customers
        PROVE  granted'[d] = posted'[d] + Spent(d)' + OwedRows(d)'
    <3>1. NoOne # d
      BY OrderDeskAssumption
    <3>2. granted[d] = posted[d] + Spent(d) + OwedRows(d)
      BY DEF GrantedAddsUp
    <3>3. CASE d = c
      <4>1. Spent(d)' = Spent(d) + UsedCol'[o] - UsedCol[o]
        BY <2>2, <3>1, <3>3, SumsHere
      <4>2. posted'[d] = posted[d] + (-u) /\ posted[d] \in Int
        BY <1>2, <2>2, <3>3
      <4> QED
        BY <1>3, <2>2, <2>3, <2>4, <3>2, <4>1, <4>2
    <3>4. CASE d # c
      <4>1. order[o].customer # d /\ order'[o].customer # d
        BY <2>2, <3>1, <3>4
      <4>2. Spent(d)' = Spent(d)
        BY <2>2, <4>1, SumsElsewhere
      <4>3. posted'[d] = posted[d]
        BY <1>2, <2>2, <3>4
      <4> QED
        BY <2>3, <2>4, <3>2, <4>2, <4>3
    <3> QED
      BY <3>3, <3>4
  <2> QED
    BY <2>5 DEF GrantedAddsUp
<1>5. CASE CancelCommit(w)
  <2> DEFINE o == req[w].order
             c == order[o].customer
             u == order[o].used
  <2>1. /\ o \in Orders /\ Placed(o) /\ c \in Customers /\ inst[w].owner = c
        /\ u \in Nat
        /\ posted' = [posted EXCEPT ![c] = posted[c] + u]
    BY <1>5, CancelMoves
  <2>2. granted' = [granted EXCEPT ![c] = granted[c] + u]
    <3>1. CASE u > 0
      <4>1. granted' = [granted EXCEPT ![inst[w].owner] = granted[inst[w].owner] + u]
        BY <1>5, <3>1 DEF CancelCommit, W!CreditTx
      <4> QED
        BY <2>1, <4>1
    <3>2. CASE ~(u > 0)
      <4>1. granted' = granted /\ u = 0
        BY <1>5, <2>1, <3>2 DEF CancelCommit, walletVars
      <4> HIDE DEF c, u
      <4> QED
        BY <1>2, <2>1, <4>1
    <3> QED
      BY <3>1, <3>2
  <2>3. \A d : OwedRows(d)' = OwedRows(d)
    <3>1. \A v \in Workers : inst'[v].due = inst[v].due /\ inst'[v].owner = inst[v].owner
      BY <1>2, <1>5 DEF CancelCommit, W!CreditTx, walletVars
    <3> QED
      BY <3>1, OwedSame
  <2>4. \A d : Spent(d)' = Spent(d)
    <3>1. \A p \in Orders : /\ order'[p].customer = order[p].customer
                            /\ order'[p].used = order[p].used
      BY <1>2, <1>5 DEF CancelCommit, OrderRow
    <3> QED
      BY <3>1, SpentSame
  <2> HIDE DEF o, c, u
  <2>5. ASSUME NEW d \in Customers
        PROVE  granted'[d] = posted'[d] + Spent(d)' + OwedRows(d)'
    <3>1. granted[d] = posted[d] + Spent(d) + OwedRows(d)
      BY DEF GrantedAddsUp
    <3>2. /\ granted'[d] = IF d = c THEN granted[d] + u ELSE granted[d]
          /\ posted'[d] = IF d = c THEN posted[d] + u ELSE posted[d]
          /\ posted[d] \in Int
      BY <1>2, <2>1, <2>2
    <3> QED
      BY <1>3, <2>1, <2>3, <2>4, <3>1, <3>2
  <2> QED
    BY <2>5 DEF GrantedAddsUp
<1>6. CASE Pay(w) \/ PostRow(w)
  <2> DEFINE c == inst[w].owner
  <2>1. \A d : Spent(d)' = Spent(d)
    <3>1. order' = order
      BY <1>6 DEF Pay, PostRow
    <3> QED
      BY <3>1, SpentSame
  <2>2. \A v \in Workers \ {w} : inst'[v] = inst[v]
    BY <1>2, <1>6 DEF Pay, PostRow, W!Credit, W!Log
  <2>3. \A d : OwedRows(d)' = OwedRows(d) + OwedCol(d)'[w] - OwedCol(d)[w]
    BY <2>2, OwedMoves
  <2>4. CASE Pay(w)
    <3> DEFINE a == Sum(req[w])
    <3>1. /\ c \in Customers /\ inst[w].due = 0 /\ posted' = posted
          /\ granted' = [granted EXCEPT ![c] = granted[c] + a]
          /\ inst'[w].owner = c /\ inst'[w].due = a
      BY <1>2, <2>4 DEF Pay, W!Credit, W!Holds
    <3>2. a \in Nat
      <4>1. inst'[w].due \in Nat
        <5>1. (IInv => inst \in [Workers -> [owner : Customers \cup {NoOne},
                                             balance : Nat, due : Nat]])'
          BY InstType, PTL
        <5> QED
          BY <5>1
      <4> QED
        BY <3>1, <4>1
    <3> HIDE DEF c, a
    <3>3. ASSUME NEW d \in Customers
          PROVE  granted'[d] = posted'[d] + Spent(d)' + OwedRows(d)'
      <4>1. granted[d] = posted[d] + Spent(d) + OwedRows(d)
        BY DEF GrantedAddsUp
      <4>2. OwedCol(d)[w] = 0 /\ OwedCol(d)'[w] = IF d = c THEN a ELSE 0
        BY <3>1 DEF OwedCol
      <4>3. granted'[d] = IF d = c THEN granted[d] + a ELSE granted[d]
        BY <1>2, <3>1
      <4>4. posted[d] \in Int /\ posted'[d] = posted[d]
        BY <1>2, <3>1
      <4> QED
        BY <1>3, <2>1, <2>3, <3>2, <4>1, <4>2, <4>3, <4>4
    <3> QED
      BY <3>3 DEF GrantedAddsUp
  <2>5. CASE PostRow(w)
    <3> DEFINE a == inst[w].due
    <3>1. /\ c \in Customers /\ granted' = granted
          /\ posted' = [posted EXCEPT ![c] = posted[c] + a]
          /\ inst'[w].owner = c /\ inst'[w].due = 0
      BY <1>2, <2>5 DEF PostRow, W!Log, W!Holds
    <3>2. a \in Nat
      BY <1>2
    <3>3. ASSUME NEW d \in Customers
          PROVE  granted'[d] = posted'[d] + Spent(d)' + OwedRows(d)'
      <4>1. granted[d] = posted[d] + Spent(d) + OwedRows(d)
        BY DEF GrantedAddsUp
      <4>2. OwedCol(d)'[w] = 0 /\ OwedCol(d)[w] = IF d = c THEN a ELSE 0
        BY <3>1 DEF OwedCol
      <4> HIDE DEF c, a
      <4>3. posted'[d] = IF d = c THEN posted[d] + a ELSE posted[d]
        BY <1>2, <3>1
      <4>4. posted[d] \in Int /\ granted'[d] = granted[d]
        BY <1>2, <3>1
      <4> QED
        BY <1>3, <2>1, <2>3, <3>2, <4>1, <4>2, <4>3, <4>4
    <3> QED
      BY <3>3 DEF GrantedAddsUp
  <2> QED
    BY <1>6, <2>4, <2>5
<1>7. CASE SpinPay(w)
  <2> DEFINE c == inst[w].owner
  <2>1. /\ c \in Customers /\ order' = order
        /\ posted' = [posted EXCEPT ![c] = posted[c] + ReferralBonus]
        /\ granted' = [granted EXCEPT ![c] = granted[c] + ReferralBonus]
        /\ \A v \in Workers : inst'[v].due = inst[v].due /\ inst'[v].owner = inst[v].owner
    BY <1>7, SpinPayMoves
  <2>2. \A d : OwedRows(d)' = OwedRows(d) /\ Spent(d)' = Spent(d)
    BY <2>1, OwedSame, SpentSame
  <2> HIDE DEF c
  <2>3. ASSUME NEW d \in Customers
        PROVE  granted'[d] = posted'[d] + Spent(d)' + OwedRows(d)'
    <3>1. granted[d] = posted[d] + Spent(d) + OwedRows(d)
      BY DEF GrantedAddsUp
    <3>2. /\ granted'[d] = IF d = c THEN granted[d] + ReferralBonus ELSE granted[d]
          /\ posted'[d] = IF d = c THEN posted[d] + ReferralBonus ELSE posted[d]
          /\ posted[d] \in Int /\ ReferralBonus \in Nat
      BY <1>2, <2>1, OrderDeskAssumption
    <3> QED
      BY <1>3, <2>2, <3>1, <3>2
  <2> QED
    BY <2>3 DEF GrantedAddsUp
<1>8. CASE /\ ~\E o \in Orders, s \in Subtotals, b \in DeliveryBonuses : CheckoutCommit(w, o, s, b)
           /\ ~(CancelCommit(w) \/ Pay(w) \/ PostRow(w) \/ SpinPay(w))
  <2>1. UNCHANGED <<posted, granted>>
    BY <1>1, <1>8
       DEF Start, Serve, BrokerDown, Die, Abandon, CheckoutOpen, CheckoutDebit, CheckoutRefused,
           SpinEnd, SpinRead, SpinFound, SpinNotFound, SpinPay, CancelLock, CancelRead, Assign,
           RiderLoad, SpinLock, PreSave, SaveStatus, Skip, ReadWallet, Check, Notify, Reply,
           walletVars, W!Open, W!Close, W!Crash
  <2>2. \A p \in Orders : order'[p].customer = order[p].customer /\ order'[p].used = order[p].used
    <3>1. CASE SaveStatus(w)
      BY <1>2, <3>1 DEF SaveStatus, OrderRow
    <3>2. CASE \E o \in Orders, r \in Riders : Assign(w, o, r)
      BY <1>2, <3>2 DEF Assign, OrderRow
    <3>3. CASE UNCHANGED order
      BY <3>3
    <3> QED
      BY <1>1, <1>8, <3>1, <3>2, <3>3
         DEF Start, Serve, BrokerDown, Die, Abandon, CheckoutOpen, CheckoutDebit, CheckoutRefused,
             SpinEnd, SpinRead, SpinFound, SpinNotFound, SpinPay, CancelLock, CancelRead,
             RiderLoad, SpinLock, PreSave, Skip, ReadWallet, Check, Notify, Reply
  <2>3. \A v \in Workers : /\ inst'[v].due = inst[v].due
                           /\ inst[v].due # 0 => inst'[v].owner = inst[v].owner
    <3>1. \/ inst' = inst
          \/ \E c : W!Open(w, c)
          \/ W!Close(w)
      BY <1>1, <1>8
         DEF Start, Serve, BrokerDown, Die, Abandon, CheckoutOpen, CheckoutDebit, CheckoutRefused,
             SpinEnd, SpinRead, SpinFound, SpinNotFound, SpinPay, CancelLock, CancelRead, Assign,
             RiderLoad, SpinLock, PreSave, SaveStatus, Skip, ReadWallet, Check, Notify, Reply,
             walletVars, W!Crash
    <3> QED
      BY <1>2, <3>1 DEF W!Open, W!Close, W!NoInstance
  <2>4. \A d : OwedRows(d)' = OwedRows(d) /\ Spent(d)' = Spent(d)
    BY <2>2, <2>3, OwedSame, SpentSame
  <2> QED
    BY <2>1, <2>4 DEF GrantedAddsUp
<1> QED
  BY <1>4, <1>5, <1>6, <1>7, <1>8

LEMMA InitGranted == ASSUME FiniteTables, Init PROVE GrantedAddsUp
<1> SUFFICES ASSUME NEW c \in Customers
             PROVE  granted[c] = posted[c] + Spent(c) + OwedRows(c)
  BY DEF GrantedAddsUp
<1>1. OrdersOf(c) = {}
  BY OrderDeskAssumption DEF Init, OrdersOf, Unplaced
<1>2. Spent(c) = 0
  BY <1>1, SumOfNothing DEF Spent
<1>3. \A w \in Workers : OwedCol(c)[w] = 0
  BY DEF OwedCol, Init, W!Init, W!NoInstance
<1>4. OwedRows(c) = 0
  BY <1>3, SumOfZeros, OrderDeskAssumption DEF OwedRows
<1>5. granted[c] = 0 /\ posted[c] = 0
  BY DEF Init, W!Init
<1> QED
  BY <1>2, <1>4, <1>5

LEMMA GrantedInvariance == ASSUME FiniteTables, ~MayCrash PROVE Spec => []GrantedAddsUp
<1>1. Init => GrantedAddsUp
  BY InitGranted
<1>2. IInv /\ IInv' /\ LedgerInv /\ GrantedAddsUp /\ [Next]_vars => GrantedAddsUp'
  <2> SUFFICES ASSUME IInv, IInv', LedgerInv, GrantedAddsUp, [Next]_vars PROVE GrantedAddsUp'
    OBVIOUS
  <2>1. CASE Next
    BY <2>1, GrantedStep DEF LedgerInv
  <2>2. CASE UNCHANGED vars
    <3>1. \A c : Spent(c)' = Spent(c) /\ OwedRows(c)' = OwedRows(c)
      BY <2>2, SpentSame, OwedSame DEF vars
    <3> QED
      BY <2>2, <3>1 DEF vars, GrantedAddsUp
  <2> QED
    BY <2>1, <2>2
<1> QED
  BY <1>1, <1>2, Invariance, LedgerInvariance, PTL DEF Spec

\* With any number of workers, as long as none dies, the lost updates of overlapping
\* requests never leave a wallet with more than its owner earned and got back: every
\* paisa in it is in a row, or about to be.
THEOREM NeverMoreThanEarned ==
    ASSUME FiniteTables, ~MayCrash
    PROVE  Spec => [](\A c \in Customers :
                         /\ 0 <= balance[c]
                         /\ balance[c] <= Earned(c) + Refunded(c) + OwedRows(c))
<1>1. IInv /\ LedgerAddsUp /\ GrantedAddsUp =>
         \A c \in Customers : /\ 0 <= balance[c]
                              /\ balance[c] <= Earned(c) + Refunded(c) + OwedRows(c)
  <2> SUFFICES ASSUME IInv, LedgerAddsUp, GrantedAddsUp, NEW c \in Customers
               PROVE  0 <= balance[c] /\ balance[c] <= Earned(c) + Refunded(c) + OwedRows(c)
    OBVIOUS
  <2>1. /\ 0 <= balance[c] /\ balance[c] <= granted[c] /\ balance[c] \in Int
        /\ posted[c] \in Int /\ granted[c] \in Int
    BY DEF IInv, WP!Inv, WP!TypeOK, WP!Solvent, WP!Backed
  <2>2. granted[c] = Earned(c) + Refunded(c) + OwedRows(c)
    BY DEF LedgerAddsUp, GrantedAddsUp
  <2> QED
    BY <2>1, <2>2
<1> QED
  BY <1>1, TheLedgerAddsUp, GrantedInvariance, Invariance, PTL

-----------------------------------------------------------------------------
(* Requests come to their end *)

\* How many statements are left when a stage of the rewards is over, and in all.
LeftAfter(stage) == CASE stage = "signal"   -> 10
                      [] stage = "referral" -> 5
                      [] OTHER              -> 1
StatementsLeft(r) == CASE r.pc = "presave" -> 16
                       [] r.pc = "save"    -> 15
                       [] r.pc = "read"    -> LeftAfter(r.stage) + 4
                       [] r.pc = "check"   -> LeftAfter(r.stage) + 3
                       [] r.pc = "pay"     -> LeftAfter(r.stage) + 2
                       [] r.pc = "log"     -> LeftAfter(r.stage) + 1
                       [] r.pc = "notify"  -> LeftAfter("signal")
                       [] r.pc = "spin"    -> 4
                       [] r.pc \in {"checkout", "locked", "spincheck"} -> 3
                       [] r.pc \in {"debited", "refund", "spinpay"}    -> 2
                       [] r.pc = "done"    -> 1
                       [] r.pc = "idle"    -> 0

LEMMA StatementsAreFew ==
    ASSUME NEW r \in Request
    PROVE  /\ StatementsLeft(r) \in 0..16
           /\ LeftAfter(r.stage) \in {1, 5, 10}
           /\ r.pc # "idle" => StatementsLeft(r) > 0
<1>1. LeftAfter(r.stage) \in {1, 5, 10} /\ LeftAfter("signal") = 10
  BY DEF LeftAfter
<1>2. r.pc \in {"idle", "checkout", "debited", "locked", "refund", "presave", "save", "read",
                "check", "pay", "log", "notify", "spin", "spincheck", "spinpay", "done"}
  BY DEF Request
<1> QED
  BY <1>1, <1>2 DEF StatementsLeft

\* A stage that is over leaves as many as it should.
LEMMA StageOver ==
    ASSUME NEW r \in Request
    PROVE  StatementsLeft(AfterStage(r)) = LeftAfter(r.stage)
<1>1. CASE r.stage = "signal"
  <2>1. AfterStage(r).pc = "notify"
    BY <1>1 DEF AfterStage, Request
  <2> QED
    BY <1>1, <2>1 DEF StatementsLeft
<1>2. CASE r.stage = "referral"
  <2>1. AfterStage(r).pc = "read" /\ AfterStage(r).stage = "view"
    BY <1>2 DEF AfterStage, Request
  <2> QED
    BY <1>2, <2>1 DEF StatementsLeft, LeftAfter
<1>3. CASE r.stage \notin {"signal", "referral"}
  <2>1. AfterStage(r).pc = "done"
    BY <1>3 DEF AfterStage, Request
  <2> QED
    BY <1>3, <2>1 DEF StatementsLeft, LeftAfter
<1> QED
  BY <1>1, <1>2, <1>3

LEMMA FewerStatements ==
    ASSUME IInv, [Next]_vars, NEW w \in Workers, ~At(w, "idle"), req'[w] # req[w]
    PROVE  StatementsLeft(req'[w]) < StatementsLeft(req[w])
<1> DEFINE r == req[w]
           q == req'[w]
<1>1. /\ r \in Request /\ req \in [Workers -> Request] /\ r.pc # "idle"
      /\ StatementsLeft(r) \in Nat /\ StatementsLeft(r) > 0
  BY StatementsAreFew DEF IInv, DeskTypeOK, At
<1>2. LeftAfter(r.stage) \in {1, 5, 10} /\ LeftAfter("signal") = 10 /\ LeftAfter("referral") = 5
  BY <1>1, StatementsAreFew DEF LeftAfter
<1>3. PICK v \in Workers : Start(v) \/ Serve(v) \/ BrokerDown(v) \/ Die(v)
  BY DEF Next, vars
<1>4. \A u \in Workers : \A x : u # w /\ Goto(u, x) => q = r
  BY <1>1 DEF Goto
<1>5. \A x : Goto(w, x) => q = x
  BY <1>1 DEF Goto
<1>6. CASE Start(v)
  <2>1. v # w \/ req' = req
    BY <1>1, <1>6 DEF Start, CheckoutOpen, CancelLock, Assign, RiderLoad, SpinLock, At
  <2>2. req' = req \/ \E x : Goto(v, x)
    BY <1>6 DEF Start, CheckoutOpen, CancelLock, Assign, RiderLoad, SpinLock
  <2> QED
    BY <1>4, <2>1, <2>2
<1>7. v = w \/ Start(v)
  <2>1. Serve(v) \/ BrokerDown(v) \/ Die(v) => \E x : Goto(v, x)
    BY DEF Serve, CheckoutCommit, Debited, CheckoutDebit, CheckoutRefused, SpinEnd, SpinRead,
           SpinFound, SpinNotFound, SpinPay, CancelRead, CancelCommit, PreSave, SaveStatus, Skip,
           ReadWallet, Check, Pay, PostRow, Notify, Reply, BrokerDown, Die, Abandon
  <2> QED
    BY <1>3, <1>4, <2>1
<1>8. CASE Reply(w) \/ BrokerDown(w) \/ Die(w)
  <2>1. q = NoRequest
    BY <1>5, <1>8 DEF Reply, BrokerDown, Die, Abandon
  <2>2. q.pc = "idle"
    BY <2>1 DEF NoRequest
  <2>3. StatementsLeft(q) = 0
    BY <2>2 DEF StatementsLeft
  <2> QED
    BY <1>1, <2>3
<1>9. CASE (\E o \in Orders, s \in Subtotals, b \in DeliveryBonuses : CheckoutCommit(w, o, s, b))
           \/ CheckoutRefused(w) \/ CancelCommit(w) \/ SpinEnd(w) \/ SpinFound(w) \/ SpinPay(w)
  <2>1. /\ r.pc \in {"checkout", "debited", "refund", "spin", "spincheck", "spinpay"}
        /\ q = [NoRequest EXCEPT !.pc = "done"]
    BY <1>5, <1>9 DEF CheckoutCommit, Debited, CheckoutRefused, CancelCommit, SpinEnd, SpinFound,
                      SpinPay, At
  <2>2. q.pc = "done"
    BY <2>1 DEF NoRequest
  <2> QED
    BY <2>1, <2>2 DEF StatementsLeft
<1>10. CASE CancelRead(w)
  <2>1. r.pc = "locked" /\ q.pc = "refund"
    BY <1>1, <1>5, <1>10 DEF CancelRead, At, Request
  <2> QED
    BY <2>1 DEF StatementsLeft
<1>11. CASE PreSave(w)
  <2>1. r.pc = "presave" /\ q.pc = "save"
    BY <1>1, <1>5, <1>11 DEF PreSave, At, Request
  <2> QED
    BY <2>1 DEF StatementsLeft
<1>12. CASE SaveStatus(w)
  <2>1. r.pc = "save" /\ q = AfterSave(r)
    BY <1>5, <1>12 DEF SaveStatus, At
  <2>2. \/ q.pc = "notify"
        \/ q.pc = "read" /\ q.stage = "signal"
        \/ q.pc = "read" /\ q.stage = "referral"
    BY <1>1, <2>1 DEF AfterSave, Request
  <2> QED
    BY <1>2, <2>1, <2>2 DEF StatementsLeft
<1>13. CASE Skip(w) \/ Check(w) \/ PostRow(w)
  <2>1. /\ r.pc \in {"read", "check", "log"}
        /\ q = AfterStage(r) \/ (q = [r EXCEPT !.pc = "pay"] /\ r.pc = "check")
    BY <1>5, <1>13 DEF Skip, Check, PostRow, At
  <2>2. CASE q = AfterStage(r)
    <3>1. StatementsLeft(q) = LeftAfter(r.stage)
      BY <1>1, <2>2, StageOver
    <3>2. StatementsLeft(r) > LeftAfter(r.stage)
      BY <1>2, <2>1 DEF StatementsLeft
    <3> QED
      BY <1>1, <1>2, <3>1, <3>2
  <2>3. CASE q = [r EXCEPT !.pc = "pay"] /\ r.pc = "check"
    <3>1. q.pc = "pay" /\ q.stage = r.stage
      BY <1>1, <2>3 DEF Request
    <3> QED
      BY <1>2, <2>3, <3>1 DEF StatementsLeft
  <2> QED
    BY <2>1, <2>2, <2>3
<1>14. CASE ReadWallet(w) \/ Pay(w)
  <2>1. \/ r.pc = "read" /\ q = [r EXCEPT !.pc = "check"]
        \/ r.pc = "pay" /\ q = [r EXCEPT !.pc = "log"]
    BY <1>5, <1>14 DEF ReadWallet, Pay, At
  <2>2. /\ q.stage = r.stage
        /\ \/ r.pc = "read" /\ q.pc = "check"
           \/ r.pc = "pay" /\ q.pc = "log"
    BY <1>1, <2>1 DEF Request
  <2> QED
    BY <1>2, <2>2 DEF StatementsLeft
<1>15. CASE Notify(w)
  <2>1. r.pc = "notify" /\ q.pc = "read" /\ q.stage = "referral"
    BY <1>1, <1>5, <1>15 DEF Notify, At, Request
  <2> QED
    BY <1>2, <2>1 DEF StatementsLeft
<1>16. CASE \E o \in Orders, s \in Subtotals : CheckoutDebit(w, o, s)
  <2>1. PICK o \in Orders, s \in Subtotals : CheckoutDebit(w, o, s)
    BY <1>16
  <2>2. r.pc = "checkout" /\ q = [NoRequest EXCEPT !.pc = "debited", !.order = o]
    BY <1>5, <2>1 DEF CheckoutDebit, At
  <2>3. q.pc = "debited"
    BY <2>2 DEF NoRequest
  <2> QED
    BY <2>2, <2>3 DEF StatementsLeft
<1>17. CASE SpinRead(w) \/ SpinNotFound(w)
  <2>1. \/ r.pc = "spin" /\ q = [r EXCEPT !.pc = "spincheck"]
        \/ r.pc = "spincheck" /\ q = [r EXCEPT !.pc = "spinpay"]
    BY <1>5, <1>17 DEF SpinRead, SpinNotFound, At
  <2>2. \/ r.pc = "spin" /\ q.pc = "spincheck"
        \/ r.pc = "spincheck" /\ q.pc = "spinpay"
    BY <1>1, <2>1 DEF Request
  <2> QED
    BY <2>2 DEF StatementsLeft
<1> QED
  BY <1>3, <1>6, <1>7, <1>8, <1>9, <1>10, <1>11, <1>12, <1>13, <1>14, <1>15, <1>16, <1>17
     DEF Serve

\* A wallet row is locked only by a checkout that has debited it.
WalletsHeld == \A c \in Customers : walletLock[c] \in Workers =>
                   At(walletLock[c], "debited") /\ inst[walletLock[c]].owner = c

LEMMA WalletsHeldStep ==
    ASSUME IInv, WalletsHeld, [Next]_vars
    PROVE  WalletsHeld'
<1> SUFFICES ASSUME NEW c \in Customers, NEW u \in Workers, walletLock'[c] = u
             PROVE  req'[u].pc = "debited" /\ inst'[u].owner = c
  BY DEF WalletsHeld, At
<1>1. /\ req \in [Workers -> Request] /\ walletLock \in [Customers -> Workers \cup {NoOne}]
      /\ inst \in [Workers -> [owner : Customers \cup {NoOne}, balance : Nat, due : Nat]]
      /\ NoOne \notin Workers
  BY InstType, OrderDeskAssumption DEF IInv, DeskTypeOK
<1>2. walletLock[c] = u => req[u].pc = "debited" /\ inst[u].owner = c
  BY DEF WalletsHeld, At
<1>3. CASE UNCHANGED vars
  BY <1>2, <1>3 DEF vars, walletVars
<1>4. CASE Next
  <2>1. PICK v \in Workers : Start(v) \/ Serve(v) \/ BrokerDown(v) \/ Die(v)
    BY <1>4 DEF Next
  <2>2. u # v => req'[u] = req[u]
    BY <1>1, <2>1
       DEF Start, Serve, BrokerDown, Die, Abandon, CheckoutOpen, CheckoutDebit, CheckoutCommit,
           CheckoutRefused, CancelLock, CancelRead, CancelCommit, Assign, RiderLoad, SpinLock,
           SpinEnd, SpinRead, SpinFound, SpinNotFound, SpinPay, PreSave, SaveStatus, Skip,
           ReadWallet, Check, Pay, PostRow, Notify, Reply, Goto
  <2>3. u # v => inst'[u] = inst[u]
    BY <1>1, <2>1
       DEF Start, Serve, BrokerDown, Die, Abandon, CheckoutOpen, CheckoutDebit, CheckoutCommit,
           CheckoutRefused, CancelLock, CancelRead, CancelCommit, Assign, RiderLoad, SpinLock,
           SpinEnd, SpinRead, SpinFound, SpinNotFound, SpinPay, PreSave, SaveStatus, Skip,
           ReadWallet, Check, Pay, PostRow, Notify, Reply, walletVars,
           W!Open, W!Credit, W!CreditTx, W!DebitTx, W!Log, W!Close, W!Crash
  <2>4. CASE \E o \in Orders, s \in Subtotals : CheckoutDebit(v, o, s)
    <3>1. PICK o \in Orders, s \in Subtotals : CheckoutDebit(v, o, s)
      BY <2>4
    <3>2. [NoRequest EXCEPT !.pc = "debited", !.order = o].pc = "debited"
      BY DEF NoRequest
    <3>3. /\ req'[v].pc = "debited" /\ req[v].pc = "checkout" /\ inst' = inst
          /\ inst[v].owner \in Customers
          /\ walletLock' = [walletLock EXCEPT ![inst[v].owner] = v]
      BY <1>1, <3>1, <3>2 DEF CheckoutDebit, Goto, At, walletVars, IInv, RequestsOK, RequestOK
    <3>4. CASE c = inst[v].owner
      BY <1>1, <3>3, <3>4
    <3>5. CASE c # inst[v].owner
      <4>1. walletLock[c] = u
        BY <1>1, <3>3, <3>5
      <4> QED
        BY <1>2, <2>2, <3>3, <4>1
    <3> QED
      BY <3>4, <3>5
  <2>5. CASE \/ \E o \in Orders, s \in Subtotals, b \in DeliveryBonuses : CheckoutCommit(v, o, s, b)
             \/ BrokerDown(v) \/ Die(v)
    <3>1. walletLock' = WalletUnlocked(v)
      BY <2>5 DEF CheckoutCommit, BrokerDown, Die, Abandon
    <3>2. walletLock[c] = u /\ u # v
      BY <1>1, <3>1 DEF WalletUnlocked
    <3> QED
      BY <1>2, <2>2, <2>3, <3>2
  <2>6. CASE /\ ~\E o \in Orders, s \in Subtotals : CheckoutDebit(v, o, s)
             /\ ~\E o \in Orders, s \in Subtotals, b \in DeliveryBonuses : CheckoutCommit(v, o, s, b)
             /\ ~BrokerDown(v) /\ ~Die(v)
    <3>1. walletLock' = walletLock
      BY <2>1, <2>6
         DEF Start, Serve, CheckoutOpen, CheckoutRefused, CancelLock, CancelRead, CancelCommit,
             Assign, RiderLoad, SpinLock, SpinEnd, SpinRead, SpinFound, SpinNotFound, SpinPay,
             PreSave, SaveStatus, Skip, ReadWallet, Check, Pay, PostRow, Notify, Reply
    <3>2. req[v].pc # "debited" \/ (req' = req /\ inst' = inst)
      BY <2>1, <2>6
         DEF Start, Serve, CheckoutOpen, CheckoutRefused, CancelLock, CancelRead, CancelCommit,
             Assign, RiderLoad, SpinLock, SpinEnd, SpinRead, SpinFound, SpinNotFound, SpinPay,
             PreSave, SaveStatus, Skip, ReadWallet, Check, Pay, PostRow, Notify, Reply, At,
             walletVars
    <3> QED
      BY <1>2, <2>2, <2>3, <3>1, <3>2
  <2> QED
    BY <2>4, <2>5, <2>6
<1> QED
  BY <1>3, <1>4

LEMMA WalletsStayHeld == Spec => []WalletsHeld
<1>1. Init => WalletsHeld
  BY OrderDeskAssumption DEF Init, WalletsHeld
<1>2. IInv /\ WalletsHeld /\ [Next]_vars => WalletsHeld'
  BY WalletsHeldStep
<1> QED
  BY <1>1, <1>2, Invariance, PTL DEF Spec

\* w cannot take its next statement before v has ended its transaction: the order to be
\* saved, or to be referred to by a row, is locked, or the wallet to be written is.
WaitsForOrder(w, v) == /\ req[w].pc \in {"save", "log"}
                       /\ lock[req[w].order] = v
WaitsForWallet(w, v) == /\ req[w].pc \in {"checkout", "pay", "refund", "spinpay"}
                        /\ walletLock[inst[w].owner] = v
WaitsFor(w, v) == WaitsForOrder(w, v) \/ WaitsForWallet(w, v)

\* What w waits for is under way, and a chain of waits has two links at most.
ShortWait(w) ==
    /\ \A v \in Workers : WaitsFor(w, v) =>
          v # w /\ (Cancelling(v) \/ Spinning(v) \/ At(v, "debited"))
    /\ Cancelling(w) \/ Spinning(w) => \A v \in Workers : WaitsFor(w, v) => At(v, "debited")
    /\ At(w, "debited") => \A v \in Workers : ~WaitsFor(w, v)

\* What RequestsFinish rests on (orders/views.py; orders/signals.py; wallet/signals.py).
\* Whatever other requests do, every statement of a request leaves it fewer to take, at
\* most sixteen in all with every receiver.  And no wait is long: a rider's save or a row
\* of the wallet waits for a cancellation or a spin, which may wait, as a payment may, for
\* a checkout that has debited the wallet, and that one waits for nobody.
THEOREM RequestsAreShort ==
    Spec => /\ [](\A w \in Workers : StatementsLeft(req[w]) \in 0..16 /\ ShortWait(w))
            /\ [][\A w \in Workers : ~At(w, "idle") /\ req'[w] # req[w] =>
                      StatementsLeft(req'[w]) < StatementsLeft(req[w])]_vars
<1> DEFINE Short == \A w \in Workers : StatementsLeft(req[w]) \in 0..16 /\ ShortWait(w)
           Down == \A w \in Workers : ~At(w, "idle") /\ req'[w] # req[w] =>
                      StatementsLeft(req'[w]) < StatementsLeft(req[w])
<1>1. IInv => \A w \in Workers : StatementsLeft(req[w]) \in 0..16
  BY StatementsAreFew DEF IInv, DeskTypeOK
<1>2. IInv /\ WalletsHeld => \A w \in Workers : ShortWait(w)
  <2> SUFFICES ASSUME IInv, WalletsHeld, NEW w \in Workers PROVE ShortWait(w)
    OBVIOUS
  <2>1. ASSUME NEW v \in Workers, WaitsForOrder(w, v)
        PROVE  v # w /\ (Cancelling(v) \/ Spinning(v)) /\ req[w].pc \in {"save", "log"}
    <3>1. req[w].order \in Orders /\ req[w].pc \in {"save", "log"}
      BY <2>1 DEF WaitsForOrder, IInv, RequestsOK, RequestOK, Posting
    <3>2. Cancelling(v) \/ Spinning(v)
      BY <2>1, <3>1 DEF WaitsForOrder, IInv, CancelSeesOpenOrder
    <3> QED
      BY <3>1, <3>2 DEF Cancelling, Spinning
  <2>2. ASSUME NEW v \in Workers, WaitsForWallet(w, v)
        PROVE  v # w /\ At(v, "debited") /\ ~At(w, "debited")
    <3>1. (req[w].order \in Orders /\ Placed(req[w].order)) \/ req[w].pc = "checkout"
      BY <2>2 DEF WaitsForWallet, IInv, RequestsOK, RequestOK, Posting
    <3>2. inst[w].owner \in Customers
      BY <2>2, <3>1, OrderDeskAssumption
         DEF WaitsForWallet, IInv, RequestsOK, RequestOK, OrdersOK, Due, Payee
    <3>3. At(v, "debited")
      BY <2>2, <3>2 DEF WaitsForWallet, WalletsHeld
    <3> QED
      BY <2>2, <3>3 DEF WaitsForWallet, At
  <2>3. At(w, "debited") => ~(Cancelling(w) \/ Spinning(w)) /\ req[w].pc \notin {"save", "log"}
    BY DEF At, Cancelling, Spinning
  <2>4. Cancelling(w) \/ Spinning(w) => req[w].pc \notin {"save", "log"}
    BY DEF Cancelling, Spinning
  <2> QED
    BY <2>1, <2>2, <2>3, <2>4 DEF WaitsFor, ShortWait
<1>3. IInv /\ [Next]_vars => [Down]_vars
  BY FewerStatements
<1>4. IInv /\ WalletsHeld => Short
  BY <1>1, <1>2
<1> QED
  BY <1>3, <1>4, Invariance, WalletsStayHeld, PTL DEF Spec
=============================================================================
