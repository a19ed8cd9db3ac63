---------------------------- MODULE WalletProofs ----------------------------
(***************************************************************************)
(* Proofs about Wallet, for every set of customers, workers and amounts,   *)
(* and with or without crashes.                                            *)
(*                                                                         *)
(* Type correctness, Solvent and Backed rest on each other: Open copies a  *)
(* balance into an instance, whose type says that it is a natural number,  *)
(* and a credit computed from a stale instance stays below what was        *)
(* granted because the instance was.  Their conjunction is inductive.      *)
(*                                                                         *)
(* With one worker that does not die (OneAtATime) the instance is as the   *)
(* row (Current), so no update is lost and Wallet implements WalletAccount.*)
(***************************************************************************)
EXTENDS Wallet, TLAPS

Inv == TypeOK /\ Solvent /\ Backed

LEMMA InitInv == Init => Inv
BY WalletAssumption
   DEF Init, Inv, TypeOK, Solvent, Backed, Holds, Instance, NoInstance

\* Open fills the instance from the row.
LEMMA OpenInv == ASSUME Inv, NEW w \in Workers, NEW c \in Customers, Open(w, c)
                 PROVE  Inv'
<1>1. balance[c] \in Nat
  BY DEF Inv, TypeOK, Solvent
<1>2. TypeOK'
  BY <1>1 DEF Inv, TypeOK, Open, Instance
<1>3. Solvent'
  BY DEF Inv, Solvent, Open
<1>4. Backed'
  BY DEF Inv, TypeOK, Backed, Open, Holds
<1> QED
  BY <1>2, <1>3, <1>4 DEF Inv

\* A credit raises the row to at most what is granted with it: the instance it is
\* computed from, stale or not, was granted already.
LEMMA CreditInv == ASSUME Inv, NEW w \in Workers, NEW a \in Amounts,
                          Credit(w, a) \/ CreditTx(w, a)
                   PROVE  Inv'
<1> DEFINE c == inst[w].owner
<1>1. a \in Nat
  BY WalletAssumption
<1>2. Holds(w) /\ c \in Customers
  BY DEF Credit, CreditTx, Holds
<1>3. /\ inst[w] \in Instance
      /\ inst[w].balance \in Nat
  BY DEF Inv, TypeOK, Instance
<1>4. inst[w].balance <= granted[c]
  BY <1>2 DEF Inv, Backed
<1>5. CASE Credit(w, a)
  <2>1. TypeOK'
    BY <1>1, <1>2, <1>3, <1>4, <1>5 DEF Inv, TypeOK, Credit, Write, Instance
  <2>2. Solvent'
    BY <1>1, <1>2, <1>3, <1>4, <1>5 DEF Inv, TypeOK, Solvent, Credit, Write
  <2>3. Backed'
    BY <1>1, <1>2, <1>3, <1>4, <1>5 DEF Inv, TypeOK, Backed, Credit, Write, Holds, Instance
  <2> QED
    BY <2>1, <2>2, <2>3 DEF Inv
<1>6. CASE CreditTx(w, a)
  <2>1. TypeOK'
    BY <1>1, <1>2, <1>3, <1>4, <1>6 DEF Inv, TypeOK, CreditTx, Write, Instance
  <2>2. Solvent'
    BY <1>1, <1>2, <1>3, <1>4, <1>6 DEF Inv, TypeOK, Solvent, CreditTx, Write
  <2>3. Backed'
    BY <1>1, <1>2, <1>3, <1>4, <1>6 DEF Inv, TypeOK, Backed, CreditTx, Write, Holds, Instance
  <2> QED
    BY <2>1, <2>2, <2>3 DEF Inv
<1> QED
  BY <1>5, <1>6

\* The check of Wallet.debit keeps the instance, and so the row, at or above zero.
LEMMA DebitInv == ASSUME Inv, NEW w \in Workers, NEW a \in Amounts, DebitTx(w, a)
                  PROVE  Inv'
<1> DEFINE c == inst[w].owner
<1>1. /\ a \in Nat
      /\ c \in Customers
      /\ inst[w] \in Instance
      /\ inst[w].balance - a \in Nat
      /\ inst[w].balance <= granted[c]
  BY WalletAssumption DEF Inv, TypeOK, Backed, DebitTx, Sufficient, Holds, Instance
<1>2. TypeOK'
  BY <1>1 DEF Inv, TypeOK, DebitTx, Write, Instance
<1>3. Solvent'
  BY <1>1 DEF Inv, TypeOK, Solvent, DebitTx, Write
<1>4. Backed'
  BY <1>1 DEF Inv, TypeOK, Backed, DebitTx, Write, Holds, Instance
<1> QED
  BY <1>2, <1>3, <1>4 DEF Inv

\* Log, Close and Crash leave the money alone.
LEMMA RestInv == ASSUME Inv, NEW w \in Workers, Log(w) \/ Close(w) \/ Crash(w)
                 PROVE  Inv'
<1>1. TypeOK'
  BY DEF Inv, TypeOK, Log, Close, Crash, Instance, NoInstance, Holds
<1>2. Solvent'
  BY DEF Inv, Solvent, Log, Close, Crash
<1>3. Backed'
  BY WalletAssumption
     DEF Inv, TypeOK, Backed, Log, Close, Crash, Holds, Instance, NoInstance
<1> QED
  BY <1>1, <1>2, <1>3 DEF Inv

\* Resave writes back what the instance, stale or not, was granted already.
LEMMA ResaveInv == ASSUME Inv, NEW w \in Workers, Resave(w)
                   PROVE  Inv'
<1> DEFINE c == inst[w].owner
<1>1. /\ c \in Customers
      /\ inst[w].balance \in Nat
      /\ inst[w].balance <= granted[c]
  BY DEF Inv, TypeOK, Backed, Resave, Holds, Instance
<1>2. TypeOK'
  BY <1>1 DEF Inv, TypeOK, Resave, Write
<1>3. Solvent'
  BY <1>1 DEF Inv, TypeOK, Solvent, Resave, Write
<1>4. Backed'
  BY <1>1 DEF Inv, TypeOK, Backed, Resave, Write, Holds
<1> QED
  BY <1>2, <1>3, <1>4 DEF Inv

LEMMA StepInv == Inv /\ [Next]_wvars => Inv'
<1> SUFFICES ASSUME Inv, [Next]_wvars PROVE Inv'
  OBVIOUS
<1>1. CASE UNCHANGED wvars
  BY <1>1 DEF Inv, TypeOK, Solvent, Backed, Holds, wvars
<1>2. ASSUME NEW w \in Workers, Step(w) PROVE Inv'
  BY <1>2, OpenInv, CreditInv, DebitInv, RestInv, ResaveInv DEF Step
<1> QED
  BY <1>1, <1>2 DEF Next

\* The conjunction is an invariant of every behaviour of the wallet.
THEOREM Invariance == Spec => []Inv
<1> QED
  BY InitInv, StepInv, PTL DEF Spec

\* The columns and the instances have their types.
THEOREM TypeCorrect == Spec => []TypeOK
<1>1. Inv => TypeOK
  BY DEF Inv
<1> QED
  BY <1>1, Invariance, PTL

\* However many requests overlap, no wallet is ever overdrawn.
THEOREM NeverOverdrawn == Spec => []Solvent
<1>1. Inv => Solvent
  BY DEF Inv
<1> QED
  BY <1>1, Invariance, PTL

\* Overlapping requests may lose money but never make any.
THEOREM NeverMinted == Spec => []Backed
<1>1. Inv => Backed
  BY DEF Inv
<1> QED
  BY <1>1, Invariance, PTL

-----------------------------------------------------------------------------
(* One request at a time *)

\* The deployment in which the promise of WalletAccount is kept.
OneAtATime == (\E w : Workers = {w}) /\ ~MayCrash

\* The instance in hand, if there is one, is the row.
Current == /\ Holds(Sole) => inst[Sole].balance = balance[inst[Sole].owner]
           /\ inst[Sole].due > 0 => Holds(Sole)

Audit(c) == posted[c] + InFlight(c)

LEMMA SoleIsAll == ASSUME OneAtATime PROVE Workers = {Sole}
BY DEF OneAtATime, Sole

LEMMA InitAccount == ASSUME OneAtATime, Init PROVE Current /\ Account!Init
<1>1. inst[Sole] = NoInstance
  BY SoleIsAll DEF Init
<1>2. Current
  BY <1>1, WalletAssumption DEF Current, Holds, NoInstance
<1>3. \A c \in Customers : InFlight(c) = 0
  BY <1>1, WalletAssumption DEF InFlight, NoInstance
<1>4. [c \in Customers |-> posted[c] + InFlight(c)] = [c \in Customers |-> 0]
  BY <1>3 DEF Init
<1> QED
  BY <1>2, <1>4 DEF Init, Account!Init

\* A step that changes the row and the trail of one owner by as much.
LEMMA Moved ==
    ASSUME Inv, Inv', NEW c \in Customers, NEW a \in Amounts, NEW n \in {a, -a},
           balance' = [balance EXCEPT ![c] = balance[c] + n],
           Audit(c)' = Audit(c) + n,
           \A d \in Customers \ {c} : Audit(d)' = Audit(d)
    PROVE  Account!Next
<1> DEFINE trail == [d \in Customers |-> posted[d] + InFlight(d)]
<1>1. /\ balance[c] + n >= 0
      /\ balance' = [balance EXCEPT ![c] = balance[c] + n]
  <2>1. balance'[c] >= 0 /\ balance'[c] = balance[c] + n
    BY DEF Inv, Solvent, TypeOK
  <2> QED
    BY <2>1
<1>2. trail' = [trail EXCEPT ![c] = trail[c] + n]
  BY DEF Audit
<1>3. Account!Move(c, n)
  BY <1>1, <1>2 DEF Account!Move
<1> QED
  BY <1>3 DEF Account!Next

LEMMA NotMoved ==
    ASSUME balance' = balance, \A c \in Customers : Audit(c)' = Audit(c)
    PROVE  UNCHANGED Account!avars
BY DEF Account!avars, Audit

\* Every step of the only worker is a movement of the account, or none.
LEMMA AccountStep ==
    ASSUME OneAtATime, Inv, Inv', Current, [Next]_wvars
    PROVE  Current' /\ [Account!Next]_(Account!avars)
<1> DEFINE i == inst[Sole]
<1>1. i \in Instance /\ balance \in [Customers -> Int] /\ posted \in [Customers -> Int]
  BY SoleIsAll DEF Inv, TypeOK
<1>2. ASSUME NEW a \in Amounts, Credit(Sole, a)
      PROVE  Current' /\ Account!Next
  <2>1. PICK c \in Customers :
        /\ i.owner = c /\ i.balance = balance[c] /\ i.due = 0
        /\ balance' = [balance EXCEPT ![c] = i.balance + a] /\ posted' = posted
        /\ inst'[Sole] = [owner |-> c, balance |-> i.balance + a, due |-> a]
    BY <1>1, <1>2, SoleIsAll DEF Credit, Holds, Write, Current, Inv, TypeOK
  <2>2. a \in Nat
    BY WalletAssumption
  <2>3. Current'
    BY <1>1, <2>1 DEF Current, Holds
  <2>4. Audit(c)' = Audit(c) + a /\ \A d \in Customers \ {c} : Audit(d)' = Audit(d)
    BY <1>1, <2>1, <2>2 DEF Audit, InFlight
  <2> QED
    BY <2>1, <2>3, <2>4, Moved
<1>3. ASSUME NEW a \in Amounts, CreditTx(Sole, a)
      PROVE  Current' /\ Account!Next
  <2>1. PICK c \in Customers :
        /\ i.owner = c /\ i.balance = balance[c] /\ i.due = 0
        /\ balance' = [balance EXCEPT ![c] = i.balance + a]
        /\ posted' = [posted EXCEPT ![c] = posted[c] + a]
        /\ inst'[Sole] = [i EXCEPT !.balance = i.balance + a]
    BY <1>1, <1>3, SoleIsAll DEF CreditTx, Holds, Write, Current, Inv, TypeOK
  <2>2. a \in Nat
    BY WalletAssumption
  <2>3. inst'[Sole].owner = c /\ inst'[Sole].due = 0 /\ inst'[Sole].balance = i.balance + a
    BY <1>1, <2>1 DEF Instance
  <2>4. Current'
    BY <1>1, <2>1, <2>3 DEF Current, Holds
  <2>5. Audit(c)' = Audit(c) + a /\ \A d \in Customers \ {c} : Audit(d)' = Audit(d)
    BY <1>1, <2>1, <2>2, <2>3 DEF Audit, InFlight
  <2> QED
    BY <2>1, <2>4, <2>5, Moved
<1>4. ASSUME NEW a \in Amounts, DebitTx(Sole, a)
      PROVE  Current' /\ Account!Next
  <2>1. PICK c \in Customers :
        /\ i.owner = c /\ i.balance = balance[c] /\ i.due = 0
        /\ balance' = [balance EXCEPT ![c] = i.balance - a]
        /\ posted' = [posted EXCEPT ![c] = posted[c] - a]
        /\ inst'[Sole] = [i EXCEPT !.balance = i.balance - a]
    BY <1>1, <1>4, SoleIsAll DEF DebitTx, Holds, Write, Current, Inv, TypeOK
  <2>2. a \in Nat /\ balance[c] \in Int /\ i.balance - a = balance[c] + (-a) /\ -a \in {a, -a}
    BY <1>1, <2>1, WalletAssumption
  <2>3. inst'[Sole].owner = c /\ inst'[Sole].due = 0 /\ inst'[Sole].balance = i.balance - a
    BY <1>1, <2>1 DEF Instance
  <2>4. Current'
    BY <1>1, <2>1, <2>3 DEF Current, Holds
  <2>5. Audit(c)' = Audit(c) + (-a) /\ \A d \in Customers \ {c} : Audit(d)' = Audit(d)
    BY <1>1, <2>1, <2>2, <2>3 DEF Audit, InFlight
  <2> QED
    BY <2>1, <2>2, <2>4, <2>5, Moved
<1>5. ASSUME \/ \E d \in Customers : Open(Sole, d)
             \/ Resave(Sole) \/ Close(Sole)
      PROVE  Current' /\ UNCHANGED Account!avars
  <2>1. posted' = posted /\ i.due = 0 /\ inst'[Sole].due = 0
    BY <1>1, <1>5, SoleIsAll DEF Open, Resave, Close, NoInstance, Inv, TypeOK
  <2>2. balance' = balance
    BY <1>1, <1>5 DEF Open, Resave, Close, Write, Holds, Current
  <2>3. Current'
    BY <1>1, <1>5, <2>1, <2>2, SoleIsAll, WalletAssumption
       DEF Open, Resave, Close, NoInstance, Current, Holds, Inv, TypeOK
  <2>4. \A d \in Customers : Audit(d)' = Audit(d)
    BY <2>1 DEF Audit, InFlight
  <2> QED
    BY <2>2, <2>3, <2>4, NotMoved
<1>6. ASSUME Log(Sole) PROVE Current' /\ UNCHANGED Account!avars
  <2>1. PICK c \in Customers :
        /\ i.owner = c /\ balance' = balance
        /\ posted' = [posted EXCEPT ![c] = posted[c] + i.due]
        /\ inst'[Sole] = [i EXCEPT !.due = 0]
    BY <1>1, <1>6, SoleIsAll DEF Log, Holds, Inv, TypeOK
  <2>2. inst'[Sole].owner = c /\ inst'[Sole].due = 0 /\ inst'[Sole].balance = i.balance
    BY <1>1, <2>1 DEF Instance
  <2>3. Current'
    BY <2>1, <2>2 DEF Current, Holds
  <2>4. i.due \in Nat
    BY <1>1 DEF Instance
  <2>5. \A d \in Customers : Audit(d)' = Audit(d)
    BY <1>1, <2>1, <2>2, <2>4 DEF Audit, InFlight
  <2> QED
    BY <2>1, <2>3, <2>5, NotMoved
<1>7. CASE UNCHANGED wvars
  <2>1. Current'
    BY <1>7 DEF wvars, Current, Holds
  <2>2. \A d \in Customers : Audit(d)' = Audit(d)
    BY <1>7 DEF wvars, Audit, InFlight
  <2> QED
    BY <1>7, <2>1, <2>2, NotMoved DEF wvars
<1> QED
  BY <1>2, <1>3, <1>4, <1>5, <1>6, <1>7, SoleIsAll DEF Next, Step, Crash, OneAtATime

\* README: "every movement is logged in WalletTransaction for an audit trail".  With
\* requests one at a time and no deaths, for all customers and sums, every step of the
\* wallet is a movement of WalletAccount or invisible there.
THEOREM AccountIsImplemented == ASSUME OneAtATime PROVE Spec => ImplementsAccount
<1>1. Init => Current /\ Account!Init
  BY InitAccount
<1>2. Inv /\ Inv' /\ Current /\ [Next]_wvars => Current' /\ [Account!Next]_(Account!avars)
  BY AccountStep
<1> QED
  BY <1>1, <1>2, Invariance, PTL DEF Spec, ImplementsAccount, Account!Spec

\* The column and the trail, which counts the row about to be inserted.
TrailIsBalance == \A c \in Customers : balance[c] = Audit(c)

\* Then the two never differ: README: "every movement is logged in WalletTransaction".
THEOREM BalanceIsAudited == ASSUME OneAtATime PROVE Spec => []TrailIsBalance
<1> DEFINE trail == [c \in Customers |-> posted[c] + InFlight(c)]
           Same == balance = trail
<1>1. Init => Current /\ Same
  BY InitAccount DEF Account!Init
<1>2. Inv /\ Inv' /\ Current /\ Same /\ [Next]_wvars => Current' /\ Same'
  <2> SUFFICES ASSUME Inv, Inv', Current, Same, [Next]_wvars PROVE Current' /\ Same'
    OBVIOUS
  <2>1. Current' /\ [Account!Next]_(Account!avars)
    BY AccountStep
  <2>2. CASE Account!Next
    BY <2>1, <2>2 DEF Account!Next, Account!Move
  <2>3. CASE UNCHANGED Account!avars
    BY <2>1, <2>3 DEF Account!avars
  <2> QED
    BY <2>1, <2>2, <2>3
<1>3. Same => TrailIsBalance
  BY DEF TrailIsBalance, Audit
<1> QED
  BY <1>1, <1>2, <1>3, Invariance, PTL DEF Spec

\* What two overlapping requests break (Audited) holds where there is one at a time: with
\* no row about to be inserted, the balance is the sum of the rows.
THEOREM AuditedAlone == ASSUME OneAtATime PROVE Spec => []Audited
<1>1. Inv /\ TrailIsBalance => Audited
  <2> SUFFICES ASSUME TrailIsBalance, Inv, NEW c \in Customers,
                      \A w \in Workers : inst[w].owner = c => inst[w].due = 0
               PROVE  balance[c] = posted[c]
    BY DEF Audited
  <2>1. InFlight(c) = 0
    BY SoleIsAll DEF InFlight
  <2>2. posted[c] \in Int
    BY DEF Inv, TypeOK
  <2> QED
    BY <2>1, <2>2 DEF TrailIsBalance, Audit
<1> QED
  BY <1>1, BalanceIsAudited, Invariance, PTL
=============================================================================
