--------------------------- MODULE WalletAccount ---------------------------
(***************************************************************************)
(* What the wallet application promises, with nothing said of how: a       *)
(* customer's account moves only together with its audit trail, and is     *)
(* never overdrawn.  Wallet.credit and Wallet.debit (wallet/models.py) are *)
(* the only movements.  Wallet implements this module as long as requests  *)
(* do not overlap (see Wallet and MCWallet).                               *)
(***************************************************************************)
EXTENDS Integers

CONSTANTS Customers,   \* owners of the accounts
          Amounts      \* sums of money, in paise, that one movement may carry

VARIABLES balance,     \* balance[c]: money in the account of c
          posted       \* posted[c]: signed sum of the audit trail of c

avars == <<balance, posted>>

Init == /\ balance = [c \in Customers |-> 0]
        /\ posted  = [c \in Customers |-> 0]

\* One movement: the money and its trail in the same step.
Move(c, signed) ==
    /\ balance[c] + signed >= 0
    /\ balance' = [balance EXCEPT ![c] = @ + signed]
    /\ posted'  = [posted  EXCEPT ![c] = @ + signed]

Next == \E c \in Customers, a \in Amounts : Move(c, a) \/ Move(c, -a)

Spec == Init /\ [][Next]_avars
=============================================================================
