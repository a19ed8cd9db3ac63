------------------------------- MODULE Wallet -------------------------------
(***************************************************************************)
(* The wallet application (wallet/models.py): one Wallet row per customer  *)
(* and its WalletTransaction rows, worked on by concurrent requests.       *)
(*                                                                         *)
(* A request reads the row once into a Python instance (request.user.wallet*)
(* and referrer.wallet are cached on the user object) and every later      *)
(* credit or debit computes from that instance and writes the result       *)
(* absolutely: UPDATE ... SET balance = <number>.  The row is never locked *)
(* (no select_for_update on Wallet anywhere), so the value read may be     *)
(* stale when it is written back.                                          *)
(*                                                                         *)
(* Outside transaction.atomic each statement commits by itself: the UPDATE *)
(* of the balance and the INSERT of the WalletTransaction are two steps.   *)
(* Inside it both become visible at the commit: one step.                  *)
(***************************************************************************)
EXTENDS Integers

CONSTANTS Customers,   \* owners of wallets
          Workers,     \* Gunicorn workers: each serves one request at a time
          Amounts,     \* sums of money, in paise
          NoWallet,    \* "this request has not read a wallet"
          MayCrash     \* TRUE: a worker may die between two statements

ASSUME WalletAssumption ==
    /\ Amounts \subseteq Nat \ {0}
    /\ NoWallet \notin Customers
    /\ MayCrash \in BOOLEAN

VARIABLES balance,     \* balance[c]: column wallet.balance
          posted,      \* posted[c]: signed sum of the rows of WalletTransaction
          granted,     \* granted[c]: all money Wallet.credit ever wrote (history)
          inst         \* inst[w]: the Wallet instance the request of w holds

wvars == <<balance, posted, granted, inst>>

\* due: money already written to the row whose WalletTransaction is not yet inserted.
Instance == [owner : Customers \cup {NoWallet}, balance : Nat, due : Nat]
NoInstance == [owner |-> NoWallet, balance |-> 0, due |-> 0]

Init == /\ balance = [c \in Customers |-> 0]
        /\ posted  = [c \in Customers |-> 0]
        /\ granted = [c \in Customers |-> 0]
        /\ inst    = [w \in Workers |-> NoInstance]

-----------------------------------------------------------------------------
Holds(w) == inst[w].owner \in Customers

\* request.user.wallet: the row is read, and kept for the rest of the request.
Open(w, c) ==
    /\ inst[w].due = 0
    /\ inst' = [inst EXCEPT ![w] = [owner |-> c, balance |-> balance[c], due |-> 0]]
    /\ UNCHANGED <<balance, posted, granted>>

\* self.save(update_fields=["balance"]): writes what the instance says.
Write(w, amount) == balance' = [balance EXCEPT ![inst[w].owner] = amount]

\* Wallet.credit in autocommit, first statement: the UPDATE.
Credit(w, a) ==
    /\ Holds(w) /\ inst[w].due = 0
    /\ Write(w, inst[w].balance + a)
    /\ inst' = [inst EXCEPT ![w] = [owner |-> @.owner, balance |-> @.balance + a, due |-> a]]
    /\ granted' = [granted EXCEPT ![inst[w].owner] = @ + a]
    /\ UNCHANGED posted

\* Wallet.credit in autocommit, second statement: WalletTransaction.objects.create.
Log(w) ==
    /\ Holds(w) /\ inst[w].due > 0
    /\ posted' = [posted EXCEPT ![inst[w].owner] = @ + inst[w].due]
    /\ inst' = [inst EXCEPT ![w].due = 0]
    /\ UNCHANGED <<balance, granted>>

\* Seeded fault: the credit leaves no row.
CreditTxNoRow(w, a) ==
    /\ Holds(w) /\ inst[w].due = 0
    /\ Write(w, inst[w].balance + a)
    /\ inst' = [inst EXCEPT ![w].balance = @ + a]
    /\ granted' = [granted EXCEPT ![inst[w].owner] = @ + a]
    /\ UNCHANGED posted

\* Wallet.credit inside transaction.atomic: UPDATE and INSERT commit together.
CreditTx(w, a) ==
    /\ Holds(w) /\ inst[w].due = 0
    /\ Write(w, inst[w].balance + a)
    /\ inst' = [inst EXCEPT ![w].balance = @ + a]
    /\ granted' = [granted EXCEPT ![inst[w].owner] = @ + a]
    /\ posted'  = [posted  EXCEPT ![inst[w].owner] = @ + a]

\* Seeded fault: Wallet.debit checks nothing.
SufficientDropped(w, a) == TRUE

\* The check of Wallet.debit; it looks at the instance, not at the row.
Sufficient(w, a) == a <= inst[w].balance

\* Seeded fault: the sign of the debit.
DebitTxAdds(w, a) ==
    /\ Holds(w) /\ inst[w].due = 0
    /\ Sufficient(w, a)
    /\ Write(w, inst[w].balance + a)
    /\ inst' = [inst EXCEPT ![w].balance = @ + a]
    /\ posted' = [posted EXCEPT ![inst[w].owner] = @ - a]
    /\ UNCHANGED granted

\* Wallet.debit; its only caller (checkout) runs it inside transaction.atomic.
DebitTx(w, a) ==
    /\ Holds(w) /\ inst[w].due = 0
    /\ Sufficient(w, a)
    /\ Write(w, inst[w].balance - a)
    /\ inst' = [inst EXCEPT ![w].balance = @ - a]
    /\ posted' = [posted EXCEPT ![inst[w].owner] = @ - a]
    /\ UNCHANGED granted

\* The change form of WalletAdmin shows the balance read-only, and still saves
\* every column of the instance that was fetched to save it.
Resave(w) ==
    /\ Holds(w) /\ inst[w].due = 0
    /\ Write(w, inst[w].balance)
    /\ UNCHANGED <<posted, granted, inst>>

\* The request is over; its instances are garbage.
Close(w) ==
    /\ inst[w].due = 0
    /\ inst' = [inst EXCEPT ![w] = NoInstance]
    /\ UNCHANGED <<balance, posted, granted>>

\* The worker dies after the UPDATE and before the INSERT: the row is never written.
Crash(w) ==
    /\ MayCrash
    /\ inst[w].due > 0
    /\ inst' = [inst EXCEPT ![w] = NoInstance]
    /\ UNCHANGED <<balance, posted, granted>>

Step(w) == \/ \E c \in Customers : Open(w, c)
           \/ \E a \in Amounts : Credit(w, a) \/ CreditTx(w, a) \/ DebitTx(w, a)
           \/ Log(w)
           \/ Resave(w)
           \/ Close(w)
           \/ Crash(w)

Next == \E w \in Workers : Step(w)

Spec == Init /\ [][Next]_wvars

-----------------------------------------------------------------------------
TypeOK == /\ balance \in [Customers -> Int]
          /\ posted  \in [Customers -> Int]
          /\ granted \in [Customers -> Nat]
          /\ inst \in [Workers -> Instance]

\* However many requests overlap, and wherever they die, the column never goes
\* below zero: Wallet.debit refuses more than the instance holds, and an
\* instance only ever holds a value that was in the row.
Solvent == \A c \in Customers : balance[c] >= 0

\* A lost update may lose a credit or give back a spent amount, but it never
\* makes money: a wallet, and every stale copy of it, holds at most what
\* Wallet.credit has written for its owner so far.
Backed == /\ \A c \in Customers : balance[c] <= granted[c]
          /\ \A w \in Workers : Holds(w) => inst[w].balance <= granted[inst[w].owner]

\* README: "`Wallet.credit()` / `.debit()` are the only ways the balance moves, and every
\* movement is logged in `WalletTransaction` for an audit trail": with no row about to be
\* inserted, a balance is what its rows add up to.  Two overlapping requests, each writing
\* the balance it computed from its own copy, break it.
Audited == \A c \in Customers :
    (\A w \in Workers : inst[w].owner = c => inst[w].due = 0) => balance[c] = posted[c]

\* Requests one at a time: the deployment in which the promise is kept.
Sole == CHOOSE w \in Workers : TRUE

InFlight(c) == IF inst[Sole].owner = c THEN inst[Sole].due ELSE 0

Account == INSTANCE WalletAccount
             WITH posted <- [c \in Customers |-> posted[c] + InFlight(c)]

\* README: "every movement is logged in WalletTransaction for an audit trail".
\* With one worker and no crash every step of the wallet is a movement of the
\* abstract account, money and trail together (the trail counted with the row about
\* to be inserted), or invisible there.
ImplementsAccount == Account!Spec
=============================================================================
