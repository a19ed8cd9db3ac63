--------------------------- MODULE GiftSpinProofs ---------------------------
(***************************************************************************)
(* Proofs about GiftSpin, for every set of orders, gifts and workers.      *)
(*                                                                         *)
(* That stock_quantity never becomes negative rests on what the winner of  *)
(* a gift holds, and that rests on the locks: an order is locked from the  *)
(* first statement of a spin on, so its tests stay true (OrderHeld), and a *)
(* gift from the moment it was tested again (WinnerHoldsBoth).             *)
(*                                                                         *)
(* That no piece of a gift vanishes rests on this too, and on the same sum *)
(* for the number an open form of staff shows (FormsAddUp), which will be  *)
(* the stock when the form is saved.                                       *)
(*                                                                         *)
(* That a spin ends stays with TLC, but what its fairness has to work on   *)
(* is proved: no lock outlives its request, and one that is not of the     *)
(* gift that was won is of a gift nobody can win (LocksOwned), so that     *)
(* only spins that want such gifts can wait in a circle; and StepsLeft     *)
(* goes down at every step.                                                *)
(***************************************************************************)
EXTENDS GiftSpin, FiniteSetTheorems, TLAPS

\* A spin in hand has its order locked, and so still without a gift.
OrderHeld == \A w \in Workers : ~At(w, "idle") =>
                /\ req[w].order \in Orders
                /\ orderLock[req[w].order] = w
                /\ MaySpin(req[w].order)

\* The gift it waits for is one of those it found.
GiftChosen == \A w \in Workers : req[w].pc \in {"wait", "won"} => req[w].gift \in Gifts

IInv == TypeOK /\ OrderHeld /\ GiftChosen /\ WinnerHoldsBoth

LEMMA InitIInv == Init => IInv
BY GiftSpinAssumption
   DEF Init, IInv, TypeOK, OrderHeld, GiftChosen, WinnerHoldsBoth, At, NoSpin, Spin

LEMMA SpinOrderStep ==
    ASSUME IInv, NEW w \in Workers, NEW o \in Orders, SpinOrder(w, o) PROVE IInv'
<1>1. TypeOK'
  BY DEF IInv, TypeOK, SpinOrder, NoSpin, Spin, orderRows, giftRows
<1>2. OrderHeld'
  BY GiftSpinAssumption
     DEF IInv, TypeOK, OrderHeld, SpinOrder, At, NoSpin, MaySpin, orderRows, giftRows
<1>3. GiftChosen'
  BY DEF IInv, TypeOK, GiftChosen, SpinOrder, NoSpin
<1>4. WinnerHoldsBoth'
  BY GiftSpinAssumption
     DEF IInv, TypeOK, WinnerHoldsBoth, OrderHeld, SpinOrder, At, NoSpin, MaySpin, Eligible,
         orderRows, giftRows
<1> QED
  BY <1>1, <1>2, <1>3, <1>4 DEF IInv

LEMMA SpinQueryStep ==
    ASSUME IInv, NEW w \in Workers, SpinQuery(w) PROVE IInv'
<1> DEFINE found == {g \in Gifts : Eligible(g, req[w].order)}
<1>1. /\ req[w] \in Spin
      /\ req' = [req EXCEPT ![w] = [pc |-> "sorted", order |-> req[w].order,
                                    gift |-> NoOne, seen |-> found]]
      /\ req[w].pc = "query"
      /\ UNCHANGED <<delivered, orderRows, giftRows, orderLock, giftLock>>
  BY DEF IInv, TypeOK, SpinQuery, At
<1>2. TypeOK'
  BY <1>1 DEF IInv, TypeOK, Spin, orderRows, giftRows
<1>3. OrderHeld'
  BY <1>1 DEF IInv, TypeOK, OrderHeld, At, MaySpin, orderRows
<1>4. GiftChosen'
  BY <1>1 DEF IInv, TypeOK, GiftChosen
<1>5. WinnerHoldsBoth'
  BY <1>1 DEF IInv, TypeOK, WinnerHoldsBoth, At, MaySpin, Eligible, orderRows, giftRows
<1> QED
  BY <1>2, <1>3, <1>4, <1>5 DEF IInv

LEMMA SpinNextStep ==
    ASSUME IInv, NEW w \in Workers, NEW g \in Gifts, SpinNext(w, g) PROVE IInv'
<1>1. /\ req[w] \in Spin
      /\ req' = [req EXCEPT ![w] = [pc |-> "wait", order |-> req[w].order,
                                    seen |-> req[w].seen \ {g}, gift |-> g]]
      /\ req[w].pc = "sorted"
      /\ UNCHANGED <<delivered, orderRows, giftRows, orderLock, giftLock>>
  BY DEF IInv, TypeOK, Spin, SpinNext, At
<1>2. TypeOK'
  BY <1>1 DEF IInv, TypeOK, Spin, orderRows, giftRows
<1>3. OrderHeld'
  BY <1>1 DEF IInv, TypeOK, OrderHeld, At, MaySpin, orderRows
<1>4. GiftChosen'
  BY <1>1 DEF IInv, TypeOK, GiftChosen
<1>5. WinnerHoldsBoth'
  BY <1>1 DEF IInv, TypeOK, WinnerHoldsBoth, At, MaySpin, Eligible, orderRows, giftRows
<1> QED
  BY <1>2, <1>3, <1>4, <1>5 DEF IInv

\* The lock is given only to a gift that passes the test again.
LEMMA SpinLockStep ==
    ASSUME IInv, NEW w \in Workers, SpinLock(w) PROVE IInv'
<1> DEFINE g == req[w].gift
<1>1. /\ req[w] \in Spin /\ g \in Gifts
      /\ req[w].pc = "wait"
      /\ giftLock[g] = NoOne
      /\ UNCHANGED <<delivered, orderRows, giftRows, orderLock>>
  BY DEF IInv, TypeOK, GiftChosen, SpinLock, At
<1>2. /\ \/ giftLock' = [giftLock EXCEPT ![g] = w]
         \/ giftLock' = giftLock /\ g \notin catalog
      /\ \/ Eligible(g, req[w].order) /\ req' = [req EXCEPT ![w].pc = "won"]
         \/ ~Eligible(g, req[w].order) /\ req' = [req EXCEPT ![w].pc = "sorted"]
  BY DEF SpinLock
<1>3. TypeOK'
  <2>1. req' \in [Workers -> Spin]
    <3>1. PICK pc \in {"won", "sorted"} : req' = [req EXCEPT ![w].pc = pc]
      BY <1>2
    <3>2. [req[w] EXCEPT !.pc = pc] \in Spin
      BY <1>1 DEF Spin
    <3> QED
      BY <3>1, <3>2 DEF IInv, TypeOK
  <2>2. giftLock' \in [Gifts -> Workers \cup {NoOne}]
    BY <1>1, <1>2 DEF IInv, TypeOK
  <2> QED
    BY <1>1, <2>1, <2>2 DEF IInv, TypeOK, orderRows, giftRows
<1> DEFINE SameSpin(v) == /\ req'[v].order = req[v].order
                          /\ req'[v].gift = req[v].gift
                          /\ v # w => req'[v].pc = req[v].pc
<1>4. \A v \in Workers : SameSpin(v)
  BY <1>1, <1>2 DEF IInv, TypeOK, Spin
<1>5. OrderHeld'
  BY <1>1, <1>4 DEF IInv, OrderHeld, At, MaySpin, orderRows
<1>6. GiftChosen'
  BY <1>1, <1>4 DEF IInv, GiftChosen
<1>7. WinnerHoldsBoth'
  <2>1. \A v \in Workers : At(v, "won") => giftLock'[req[v].gift] = v /\ req'[v] = req[v]
    BY <1>1, <1>2, GiftSpinAssumption DEF IInv, TypeOK, GiftChosen, WinnerHoldsBoth, At
  <2>2. \A v \in Workers \ {w} : req'[v] = req[v]
    BY <1>2 DEF IInv, TypeOK
  <2>3. req'[w].pc = "won" => /\ Eligible(g, req[w].order) /\ giftLock'[g] = w
                              /\ orderLock[req[w].order] = w /\ MaySpin(req[w].order)
    <3>1. orderLock[req[w].order] = w /\ MaySpin(req[w].order)
      BY <1>1 DEF IInv, OrderHeld, At
    <3>2. req'[w].pc = "won" => Eligible(g, req[w].order)
      BY <1>1, <1>2 DEF IInv, TypeOK, Spin
    <3>3. Eligible(g, req[w].order) => giftLock'[g] = w
      BY <1>1, <1>2 DEF IInv, TypeOK, Eligible
    <3> QED
      BY <3>1, <3>2, <3>3
  <2> QED
    BY <1>1, <1>4, <2>1, <2>2, <2>3
       DEF IInv, WinnerHoldsBoth, At, MaySpin, Eligible, orderRows, giftRows
<1> QED
  BY <1>3, <1>5, <1>6, <1>7 DEF IInv

\* The end of a transaction frees its rows and leaves those of the others.
LEMMA Released ==
    ASSUME IInv, NEW w \in Workers
    PROVE  /\ ReleaseOrder(w) \in [Orders -> Workers \cup {NoOne}]
           /\ ReleaseGift(w) \in [Gifts -> Workers \cup {NoOne}]
           /\ \A o \in Orders, v \in Workers \ {w} : orderLock[o] = v => ReleaseOrder(w)[o] = v
           /\ \A g \in Gifts, v \in Workers \ {w} : giftLock[g] = v => ReleaseGift(w)[g] = v
BY DEF IInv, TypeOK, ReleaseOrder, ReleaseGift

\* Nothing was written: no gift was left, the worker died, or its query failed.
LEMMA RollbackStep ==
    ASSUME IInv, NEW w \in Workers, SpinNothing(w) \/ Die(w) \/ BreakCircle(w) PROVE IInv'
<1>1. /\ orderLock' = ReleaseOrder(w)
      /\ giftLock' = ReleaseGift(w)
      /\ req' = [req EXCEPT ![w] = NoSpin]
      /\ UNCHANGED <<delivered, orderRows, giftRows>>
  BY DEF SpinNothing, Die, BreakCircle
<1>2. TypeOK'
  BY <1>1, Released DEF IInv, TypeOK, NoSpin, Spin, orderRows, giftRows
<1>3. OrderHeld'
  BY <1>1, Released DEF IInv, TypeOK, OrderHeld, At, NoSpin, MaySpin, orderRows
<1>4. GiftChosen'
  BY <1>1 DEF IInv, TypeOK, GiftChosen, NoSpin
<1>5. WinnerHoldsBoth'
  BY <1>1, Released
     DEF IInv, TypeOK, OrderHeld, GiftChosen, WinnerHoldsBoth, At, NoSpin, MaySpin, Eligible,
         orderRows, giftRows
<1> QED
  BY <1>2, <1>3, <1>4, <1>5 DEF IInv

\* The winner writes rows that no other spin in hand works on.
LEMMA SpinCommitStep ==
    ASSUME IInv, NEW w \in Workers, SpinCommit(w) PROVE IInv'
<1> DEFINE o == req[w].order
           g == req[w].gift
<1>1. /\ req[w].pc = "won"
      /\ o \in Orders /\ g \in Gifts
      /\ orderLock[o] = w /\ giftLock[g] = w
      /\ stock[g] \in Nat /\ stock[g] > 0
  BY DEF SpinCommit, At, IInv, TypeOK, OrderHeld, GiftChosen, WinnerHoldsBoth, Eligible
<1>2. /\ stock' = [stock EXCEPT ![g] = @ - 1]
      /\ prize' = [prize EXCEPT ![o] = g]
      /\ spunAt' = [spunAt EXCEPT ![o] = TRUE]
      /\ orderLock' = ReleaseOrder(w)
      /\ giftLock' = ReleaseGift(w)
      /\ req' = [req EXCEPT ![w] = NoSpin]
      /\ UNCHANGED <<delivered, active, catalog, form, supplied>>
  BY DEF SpinCommit
<1>3. TypeOK'
  BY <1>1, <1>2, Released DEF IInv, TypeOK, NoSpin, Spin
<1>4. \A v \in Workers \ {w} : ~At(v, "idle") =>
         /\ req[v].order \in Orders \ {o}
         /\ orderLock[req[v].order] = v
         /\ MaySpin(req[v].order)
  BY <1>1 DEF IInv, OrderHeld
<1>5. OrderHeld'
  BY <1>2, <1>4, Released DEF IInv, TypeOK, At, NoSpin, MaySpin, OrderHeld
<1>6. GiftChosen'
  BY <1>2 DEF IInv, TypeOK, GiftChosen, NoSpin
<1>7. \A v \in Workers \ {w} : At(v, "won") =>
         /\ req[v].gift \in Gifts \ {g}
         /\ giftLock[req[v].gift] = v
         /\ Eligible(req[v].gift, req[v].order)
  BY <1>1 DEF IInv, GiftChosen, WinnerHoldsBoth, At
<1>8. WinnerHoldsBoth'
  BY <1>2, <1>4, <1>7, Released
     DEF IInv, TypeOK, WinnerHoldsBoth, At, NoSpin, MaySpin, Eligible
<1> QED
  BY <1>3, <1>5, <1>6, <1>8 DEF IInv

\* The status may not change under a lock, nor a gift.
LEMMA OutsideStep ==
    ASSUME IInv,
           \/ \E o \in Orders, d \in BOOLEAN : SetDelivered(o, d)
           \/ \E g \in Gifts : \/ EditOpen(g) \/ Delete(g)
                               \/ \E n \in Restocks, a \in BOOLEAN : EditSave(g, n, a)
    PROVE  IInv'
<1>1. ASSUME NEW o \in Orders, NEW d \in BOOLEAN, SetDelivered(o, d) PROVE IInv'
  BY <1>1, GiftSpinAssumption
     DEF SetDelivered, IInv, TypeOK, OrderHeld, GiftChosen, WinnerHoldsBoth, At, MaySpin,
         Eligible, orderRows, giftRows
<1>2. ASSUME NEW g \in Gifts, EditOpen(g) PROVE IInv'
  BY <1>2
     DEF EditOpen, IInv, TypeOK, OrderHeld, GiftChosen, WinnerHoldsBoth, At, MaySpin,
         Eligible, orderRows
<1>3. ASSUME NEW g \in Gifts, Delete(g) PROVE IInv'
  <2>1. TypeOK'
    BY <1>3 DEF Delete, IInv, TypeOK
  <2>2. OrderHeld' /\ GiftChosen'
    BY <1>3 DEF Delete, IInv, TypeOK, OrderHeld, GiftChosen, At, MaySpin
  <2>3. WinnerHoldsBoth'
    BY <1>3, GiftSpinAssumption
       DEF Delete, IInv, TypeOK, OrderHeld, GiftChosen, WinnerHoldsBoth, At, MaySpin, Eligible
  <2> QED
    BY <2>1, <2>2, <2>3 DEF IInv
<1>4. ASSUME NEW g \in Gifts, NEW n \in Restocks, NEW a \in BOOLEAN, EditSave(g, n, a)
      PROVE  IInv'
  <2>1. form[g] \in Nat /\ n \in Nat /\ giftLock[g] = NoOne
    BY <1>4, GiftSpinAssumption DEF EditSave, IInv, TypeOK
  <2>2. TypeOK'
    BY <1>4, <2>1 DEF EditSave, IInv, TypeOK, orderRows
  <2>3. OrderHeld' /\ GiftChosen'
    BY <1>4 DEF EditSave, IInv, OrderHeld, GiftChosen, At, MaySpin, orderRows
  <2>4. WinnerHoldsBoth'
    BY <1>4, <2>1, GiftSpinAssumption
       DEF EditSave, IInv, TypeOK, WinnerHoldsBoth, GiftChosen, At, MaySpin, Eligible, orderRows
  <2> QED
    BY <2>2, <2>3, <2>4 DEF IInv
<1> QED
  BY <1>1, <1>2, <1>3, <1>4

LEMMA StepIInv == IInv /\ [Next]_vars => IInv'
<1> SUFFICES ASSUME IInv, [Next]_vars PROVE IInv'
  OBVIOUS
<1>1. CASE UNCHANGED vars
  BY <1>1 DEF vars, IInv, TypeOK, OrderHeld, GiftChosen, WinnerHoldsBoth, At, MaySpin, Eligible
<1>2. ASSUME NEW w \in Workers,
             (\E o \in Orders : SpinOrder(w, o)) \/ Serve(w) \/ Die(w) \/ BreakCircle(w)
      PROVE  IInv'
  BY <1>2, SpinOrderStep, SpinQueryStep, SpinNextStep, SpinLockStep, SpinCommitStep,
     RollbackStep DEF Serve
<1>3. CASE \/ \E o \in Orders, d \in BOOLEAN : SetDelivered(o, d)
           \/ \E g \in Gifts : \/ EditOpen(g) \/ Delete(g)
                               \/ \E n \in Restocks, a \in BOOLEAN : EditSave(g, n, a)
  BY <1>3, OutsideStep
<1> QED
  BY <1>1, <1>2, <1>3 DEF Next

THEOREM Invariance == Spec => []IInv
BY InitIInv, StepIInv, PTL DEF Spec

\* In particular stock_quantity is a natural number: no gift is given that is not there.
THEOREM TypeCorrect == Spec => []TypeOK
<1>1. IInv => TypeOK
  BY DEF IInv
<1> QED
  BY <1>1, Invariance, PTL

\* Nothing that is tested before a gift is given can change until it is given.
THEOREM WinnerIsIsolated == Spec => []WinnerHoldsBoth
<1>1. IInv => WinnerHoldsBoth
  BY DEF IInv
<1> QED
  BY <1>1, Invariance, PTL

\* A gift leaves the stock in the very step in which an order wins it, and is
\* taken from an order only by deleting the gift.
THEOREM GiftsAreDrawnOnce == Spec => OneGiftPerSpin
<1> DEFINE Kept == \A o \in Orders : prize'[o] # prize[o] => Drawn(o) \/ Lost(o)
<1>1. IInv /\ [Next]_vars => [Kept]_vars
  <2> SUFFICES ASSUME IInv, Next, NEW o \in Orders, prize'[o] # prize[o]
               PROVE  Drawn(o) \/ Lost(o)
    OBVIOUS
  <2>1. \/ \E w \in Workers : SpinCommit(w)
        \/ \E g \in Gifts : Delete(g)
    BY DEF Next, Serve, SpinOrder, SpinQuery, SpinNext, SpinLock, SpinNothing, Die,
           BreakCircle, SetDelivered, EditOpen, EditSave, orderRows
  <2>2. ASSUME NEW w \in Workers, SpinCommit(w) PROVE Drawn(o)
    <3>1. req[w].pc = "won" /\ prize' = [prize EXCEPT ![req[w].order] = req[w].gift]
      BY <2>2 DEF SpinCommit, At
    <3>2. o = req[w].order /\ prize'[o] = req[w].gift
      BY <3>1 DEF IInv, TypeOK
    <3> QED
      BY <2>2, <3>1, <3>2 DEF SpinCommit, IInv, WinnerHoldsBoth, At, MaySpin, Eligible, Drawn
  <2>3. ASSUME NEW g \in Gifts, Delete(g) PROVE Lost(o)
    BY <2>3 DEF Delete, IInv, TypeOK, Lost
  <2> QED
    BY <2>1, <2>2, <2>3
<1> QED
  BY <1>1, Invariance, PTL DEF Spec, OneGiftPerSpin, Kept

-----------------------------------------------------------------------------
(* StockAddsUp *)

Won(g) == {o \in Orders : prize[o] = g}

FormsAddUp == \A g \in catalog :
    form[g] # NoOne => form[g] + Cardinality(Won(g)) >= supplied[g]

AddsUp == StockAddsUp /\ FormsAddUp

LEMMA WonIsCounted ==
    \A g \in Gifts : IsFiniteSet(Won(g)) /\ Cardinality(Won(g)) \in Nat
<1>1. \A g \in Gifts : Won(g) \in SUBSET Orders
  BY DEF Won
<1> QED
  BY <1>1, FS_Subset, FS_CardinalityType, GiftSpinAssumption

\* A step that changes neither number, nor who won what.
LEMMA AddsUpStays ==
    ASSUME AddsUp, UNCHANGED <<stock, prize, catalog, form, supplied>>
    PROVE  AddsUp'
BY DEF AddsUp, StockAddsUp, FormsAddUp, Won

LEMMA CommitAddsUp ==
    ASSUME IInv, AddsUp, NEW w \in Workers, SpinCommit(w)
    PROVE  AddsUp'
<1>1. PICK o \in Orders, g \in Gifts : /\ o = req[w].order /\ g = req[w].gift
                                      /\ prize[o] = NoOne /\ g # NoOne
  BY GiftSpinAssumption
     DEF SpinCommit, At, IInv, OrderHeld, GiftChosen, WinnerHoldsBoth, MaySpin
<1>2. /\ stock' = [stock EXCEPT ![g] = @ - 1] /\ prize' = [prize EXCEPT ![o] = g]
      /\ UNCHANGED <<catalog, form, supplied>>
  BY <1>1 DEF SpinCommit
<1>3. /\ stock \in [Gifts -> Nat] /\ supplied \in [Gifts -> Nat] /\ catalog \subseteq Gifts
      /\ form \in [Gifts -> Nat \cup {NoOne}] /\ prize \in [Orders -> Gifts \cup {NoOne}]
  BY DEF IInv, TypeOK
<1>4. Won(g)' = Won(g) \cup {o} /\ o \notin Won(g)
  BY <1>1, <1>2, <1>3 DEF Won
<1>5. Cardinality(Won(g)') = Cardinality(Won(g)) + 1
  BY <1>1, <1>4, WonIsCounted, FS_AddElement
<1>6. \A x \in Gifts \ {g} : Won(x)' = Won(x)
  BY <1>1, <1>2, <1>3, GiftSpinAssumption DEF Won
<1>7. /\ stock'[g] = stock[g] - 1
      /\ \A x \in Gifts \ {g} : stock'[x] = stock[x]
  BY <1>1, <1>2, <1>3
<1>8. ASSUME NEW x \in catalog
      PROVE  /\ stock'[x] + Cardinality(Won(x)') >= supplied[x]
             /\ form[x] # NoOne => form[x] + Cardinality(Won(x)') >= supplied[x]
  <2>1. /\ stock[x] + Cardinality(Won(x)) >= supplied[x]
        /\ form[x] # NoOne => form[x] + Cardinality(Won(x)) >= supplied[x]
    BY DEF AddsUp, StockAddsUp, FormsAddUp, Won
  <2>2. Cardinality(Won(x)) \in Nat
    BY <1>3, WonIsCounted
  <2>3. CASE x = g
    BY <1>1, <1>3, <1>5, <1>7, <2>1, <2>2, <2>3
  <2>4. CASE x # g
    BY <1>3, <1>6, <1>7, <2>1, <2>4
  <2> QED
    BY <2>3, <2>4
<1> QED
  BY <1>2, <1>8 DEF AddsUp, StockAddsUp, FormsAddUp, Won

LEMMA StaffAddsUp ==
    ASSUME IInv, AddsUp, NEW g \in Gifts,
           \/ EditOpen(g) \/ Delete(g)
           \/ \E n \in Restocks, a \in BOOLEAN : EditSave(g, n, a)
    PROVE  AddsUp'
<1>1. /\ stock \in [Gifts -> Nat] /\ supplied \in [Gifts -> Nat] /\ catalog \subseteq Gifts
      /\ form \in [Gifts -> Nat \cup {NoOne}] /\ prize \in [Orders -> Gifts \cup {NoOne}]
  BY DEF IInv, TypeOK
<1>2. \A x \in catalog :
         /\ stock[x] + Cardinality(Won(x)) >= supplied[x]
         /\ form[x] # NoOne => form[x] + Cardinality(Won(x)) >= supplied[x]
  BY DEF AddsUp, StockAddsUp, FormsAddUp, Won
<1>3. CASE EditOpen(g)
  <2>1. form' = [form EXCEPT ![g] = stock[g]] /\ UNCHANGED <<stock, prize, catalog, supplied>>
    BY <1>3 DEF EditOpen, orderRows
  <2>2. \A x \in catalog : form'[x] = IF x = g THEN stock[x] ELSE form[x]
    BY <1>1, <2>1
  <2> QED
    BY <1>2, <2>1, <2>2 DEF AddsUp, StockAddsUp, FormsAddUp, Won
<1>4. CASE Delete(g)
  <2>1. /\ catalog' = catalog \ {g} /\ UNCHANGED <<stock, form, supplied>>
        /\ prize' = [o \in Orders |-> IF prize[o] = g THEN NoOne ELSE prize[o]]
    BY <1>4 DEF Delete
  <2>2. \A x \in catalog' : Won(x)' = Won(x)
    BY <1>1, <2>1, GiftSpinAssumption DEF Won
  <2> QED
    BY <1>2, <2>1, <2>2 DEF AddsUp, StockAddsUp, FormsAddUp, Won
<1>5. ASSUME NEW n \in Restocks, NEW a \in BOOLEAN, EditSave(g, n, a) PROVE AddsUp'
  <2>1. /\ form[g] # NoOne /\ g \in catalog /\ n \in Nat
        /\ stock' = [stock EXCEPT ![g] = form[g] + n]
        /\ supplied' = [supplied EXCEPT ![g] = @ + n]
        /\ form' = [form EXCEPT ![g] = NoOne]
        /\ UNCHANGED <<prize, catalog>>
    BY <1>5, GiftSpinAssumption DEF EditSave, orderRows
  <2>2. ASSUME NEW x \in catalog
        PROVE  /\ stock'[x] + Cardinality(Won(x)) >= supplied'[x]
               /\ form'[x] # NoOne => form'[x] + Cardinality(Won(x)) >= supplied'[x]
    <3>1. Cardinality(Won(x)) \in Nat
      BY <1>1, WonIsCounted
    <3>2. CASE x = g
      <4>1. /\ stock'[x] = form[x] + n /\ supplied'[x] = supplied[x] + n /\ form'[x] = NoOne
            /\ form[x] \in Nat /\ supplied[x] \in Nat
        BY <1>1, <2>1, <3>2
      <4>2. form[x] + Cardinality(Won(x)) >= supplied[x]
        BY <1>2, <2>1, <3>2
      <4> QED
        BY <2>1, <3>1, <4>1, <4>2
    <3>3. CASE x # g
      BY <1>1, <1>2, <2>1, <3>3
    <3> QED
      BY <3>2, <3>3
  <2> QED
    BY <2>1, <2>2 DEF AddsUp, StockAddsUp, FormsAddUp, Won
<1> QED
  BY <1>3, <1>4, <1>5

\* Whatever staff and customers do to a gift at the same time, what was put in stock of
\* it is still in stock or was won, as long as it is in the catalog (spin_gift,
\* orders/views.py, and the gift form of the admin).
THEOREM NoGiftVanishes == Spec => []StockAddsUp
<1>1. Init => AddsUp
  <2> SUFFICES ASSUME Init PROVE AddsUp
    OBVIOUS
  <2>1. /\ catalog = Gifts /\ stock = FirstStock /\ supplied = FirstStock
        /\ form = [g \in Gifts |-> NoOne]
    BY DEF Init
  <2>2. \A g \in Gifts : FirstStock[g] \in Nat
    BY GiftSpinAssumption
  <2> QED
    BY <2>1, <2>2, WonIsCounted DEF AddsUp, StockAddsUp, FormsAddUp, Won
<1>2. IInv /\ AddsUp /\ [Next]_vars => AddsUp'
  <2> SUFFICES ASSUME IInv, AddsUp, [Next]_vars PROVE AddsUp'
    OBVIOUS
  <2>1. ASSUME NEW w \in Workers,
               \/ \E o \in Orders : SpinOrder(w, o)
               \/ SpinQuery(w) \/ (\E g \in Gifts : SpinNext(w, g)) \/ SpinLock(w)
               \/ SpinNothing(w) \/ Die(w) \/ BreakCircle(w)
        PROVE  AddsUp'
    BY <2>1, AddsUpStays
       DEF SpinOrder, SpinQuery, SpinNext, SpinLock, SpinNothing, Die, BreakCircle,
           orderRows, giftRows
  <2>2. CASE \E o \in Orders, d \in BOOLEAN : SetDelivered(o, d)
    BY <2>2, AddsUpStays DEF SetDelivered, orderRows, giftRows
  <2>3. CASE UNCHANGED vars
    BY <2>3, AddsUpStays DEF vars
  <2> QED
    BY <2>1, <2>2, <2>3, CommitAddsUp, StaffAddsUp DEF Next, Serve
<1>3. AddsUp => StockAddsUp
  BY DEF AddsUp
<1> QED
  BY <1>1, <1>2, <1>3, Invariance, PTL DEF Spec

-----------------------------------------------------------------------------
(* No spin waits for ever *)

\* The gifts a spin may still come to are not too dear for its order.
SeenFit == \A w \in Workers :
    /\ req[w].seen \subseteq Fits[req[w].order]
    /\ At(w, "wait") => /\ req[w].gift \in Fits[req[w].order]
                        /\ req[w].gift \notin req[w].seen

\* v has the lock of g: it has won g, or was turned away from it, and will not ask again.
HasGift(v, g) ==
    /\ g \in catalog
    /\ req[v].pc \in {"sorted", "wait", "won"}
    /\ g \notin req[v].seen
    /\ \/ req[v].pc = "won" /\ req[v].gift = g
       \/ Spent(g) /\ (req[v].pc # "sorted" => req[v].gift # g)

\* No lock outlives its transaction: the order a request works on is the only one it has.
LocksOwned ==
    /\ \A o \in Orders : orderLock[o] # NoOne =>
          ~At(orderLock[o], "idle") /\ req[orderLock[o]].order = o
    /\ \A g \in Gifts : giftLock[g] # NoOne => HasGift(giftLock[g], g)

OwnedInv == LocksOwned /\ SeenFit

\* One request moves on, within its order, and keeps the locks it has.
LEMMA SpinMovesOn ==
    ASSUME IInv, LocksOwned, NEW w \in Workers, NEW q,
           req' = [req EXCEPT ![w] = q], q.pc # "idle", q.order = req[w].order,
           orderLock' = orderLock, giftRows' = giftRows,
           \A g \in Gifts : giftLock'[g] # giftLock[g] => giftLock'[g] = w,
           \A g \in Gifts : giftLock'[g] = w => HasGift(w, g)'
    PROVE  LocksOwned'
<1>1. req'[w] = q /\ \A v \in Workers \ {w} : req'[v] = req[v]
  BY DEF IInv, TypeOK
<1>2. /\ \A o \in Orders : orderLock[o] # NoOne => orderLock[o] \in Workers
      /\ \A g \in Gifts : giftLock[g] # NoOne => giftLock[g] \in Workers
  BY DEF IInv, TypeOK
<1>3. ASSUME NEW o \in Orders, orderLock'[o] # NoOne
      PROVE  req'[orderLock'[o]].pc # "idle" /\ req'[orderLock'[o]].order = o
  BY <1>1, <1>2, <1>3 DEF LocksOwned, At
<1>4. ASSUME NEW g \in Gifts, giftLock'[g] # NoOne
      PROVE  HasGift(giftLock[g], g)'
  <2>1. PICK v : v = giftLock'[g]
    OBVIOUS
  <2>2. CASE v = w
    BY <2>1, <2>2
  <2>3. CASE v # w
    <3>1. giftLock[g] = v /\ v \in Workers \ {w} /\ HasGift(v, g)
      BY <1>2, <1>4, <2>1, <2>3 DEF LocksOwned
    <3>2. req'[v] = req[v]
      BY <1>1, <3>1
    <3>3. HasGift(v, g)'
      BY <3>1, <3>2 DEF HasGift, Spent, giftRows
    <3> QED
      BY <2>1, <3>3
  <2> QED
    BY <2>2, <2>3
<1> QED
  BY <1>3, <1>4 DEF LocksOwned, At

\* A transaction ends, and frees what it had; only a gift it had may have changed.
LEMMA SpinEnds ==
    ASSUME IInv, LocksOwned, NEW w \in Workers, req' = [req EXCEPT ![w] = NoSpin],
           orderLock' = ReleaseOrder(w), giftLock' = ReleaseGift(w),
           UNCHANGED <<active, catalog>>,
           \A g \in Gifts : stock'[g] # stock[g] => giftLock[g] = w
    PROVE  LocksOwned'
<1>1. \A v \in Workers \ {w} : req'[v] = req[v]
  BY DEF IInv, TypeOK
<1>2. /\ orderLock \in [Orders -> Workers \cup {NoOne}]
      /\ giftLock \in [Gifts -> Workers \cup {NoOne}]
  BY DEF IInv, TypeOK
<1>3. \A o \in Orders : orderLock'[o] # NoOne =>
          orderLock'[o] = orderLock[o] /\ orderLock[o] \in Workers \ {w}
  BY <1>2 DEF ReleaseOrder
<1>4. ASSUME NEW g \in Gifts, giftLock'[g] # NoOne
      PROVE  HasGift(giftLock[g], g)'
  <2>1. PICK v \in Workers \ {w} : v = giftLock[g] /\ v = giftLock'[g]
    BY <1>2, <1>4 DEF ReleaseGift
  <2>2. HasGift(v, g) /\ stock'[g] = stock[g] /\ req'[v] = req[v]
    BY <1>1, <1>2, <1>4, <2>1 DEF LocksOwned, ReleaseGift
  <2>3. HasGift(v, g)'
    BY <2>2 DEF HasGift, Spent
  <2> QED
    BY <2>1, <2>3
<1> QED
  BY <1>1, <1>3, <1>4 DEF LocksOwned, At

\* Staff and riders write no row that is locked.
LEMMA OthersLeaveLocked ==
    ASSUME IInv, LocksOwned, UNCHANGED <<orderLock, giftLock, req>>,
           \A g \in Gifts : giftLock[g] # NoOne =>
               /\ g \in catalog => g \in catalog'
               /\ stock'[g] = stock[g] /\ active'[g] = active[g]
    PROVE  LocksOwned'
<1>1. ASSUME NEW g \in Gifts, giftLock[g] # NoOne PROVE HasGift(giftLock[g], g)'
  <2>1. PICK v : v = giftLock[g]
    OBVIOUS
  <2>2. HasGift(v, g)
    BY <1>1, <2>1 DEF LocksOwned
  <2>3. HasGift(v, g)'
    BY <1>1, <2>2 DEF HasGift, Spent
  <2> QED
    BY <2>1, <2>3
<1> QED
  BY <1>1 DEF LocksOwned, At

LEMMA OwnedStep == ASSUME IInv, OwnedInv, [Next]_vars PROVE LocksOwned'
<1>0. /\ orderLock \in [Orders -> Workers \cup {NoOne}] /\ req \in [Workers -> Spin]
      /\ giftLock \in [Gifts -> Workers \cup {NoOne}] /\ NoOne \notin Workers
      /\ LocksOwned /\ SeenFit
  BY GiftSpinAssumption DEF IInv, TypeOK, OwnedInv
<1>1. ASSUME NEW w \in Workers, NEW o \in Orders, SpinOrder(w, o) PROVE LocksOwned'
  <2>1. /\ req'[w] = [NoSpin EXCEPT !.pc = "query", !.order = o]
        /\ \A v \in Workers \ {w} : req'[v] = req[v]
        /\ orderLock' = [orderLock EXCEPT ![o] = w] /\ giftLock' = giftLock
        /\ req[w].pc = "idle" /\ UNCHANGED <<stock, active, catalog>>
    BY <1>0, <1>1 DEF SpinOrder, At, giftRows
  <2>2. req'[w].pc = "query" /\ req'[w].order = o
    BY <2>1 DEF NoSpin
  <2>3. /\ \A p \in Orders : orderLock[p] # NoOne => orderLock[p] \in Workers \ {w}
        /\ \A g \in Gifts : giftLock[g] # NoOne => giftLock[g] \in Workers \ {w}
    BY <1>0, <2>1 DEF LocksOwned, HasGift, At
  <2>4. ASSUME NEW p \in Orders, orderLock'[p] # NoOne
        PROVE  req'[orderLock'[p]].pc # "idle" /\ req'[orderLock'[p]].order = p
    <3>1. CASE p = o
      BY <1>0, <2>1, <2>2, <3>1
    <3>2. CASE p # o
      BY <1>0, <2>1, <2>3, <2>4, <3>2 DEF LocksOwned, At
    <3> QED
      BY <3>1, <3>2
  <2>5. ASSUME NEW g \in Gifts, giftLock'[g] # NoOne PROVE HasGift(giftLock[g], g)'
    <3>1. PICK v \in Workers \ {w} : v = giftLock[g]
      BY <2>1, <2>3, <2>5
    <3>2. HasGift(v, g) /\ req'[v] = req[v]
      BY <1>0, <2>1, <2>5, <3>1 DEF LocksOwned
    <3>3. HasGift(v, g)'
      BY <2>1, <3>2 DEF HasGift, Spent
    <3> QED
      BY <2>1, <3>1, <3>3
  <2> QED
    BY <2>4, <2>5 DEF LocksOwned, At
<1>2. ASSUME NEW w \in Workers, SpinQuery(w) PROVE LocksOwned'
  <2> DEFINE q == [pc |-> "sorted", order |-> req[w].order, gift |-> NoOne,
                   seen |-> {g \in Gifts : Eligible(g, req[w].order)}]
  <2>1. /\ req' = [req EXCEPT ![w] = q] /\ q.pc # "idle" /\ q.order = req[w].order
        /\ orderLock' = orderLock /\ giftLock' = giftLock /\ giftRows' = giftRows
        /\ req[w].pc = "query"
    BY <1>2 DEF SpinQuery, At, giftRows
  <2>2. \A g \in Gifts : giftLock[g] # w
    BY <1>0, <2>1 DEF LocksOwned, HasGift
  <2> HIDE DEF q
  <2> QED
    BY <1>0, <2>1, <2>2, SpinMovesOn
<1>3. ASSUME NEW w \in Workers, NEW g \in Gifts, SpinNext(w, g) PROVE LocksOwned'
  <2> DEFINE q == [req[w] EXCEPT !.pc = "wait", !.gift = g, !.seen = @ \ {g}]
  <2>1. /\ req' = [req EXCEPT ![w] = q] /\ q.pc = "wait" /\ q.order = req[w].order
        /\ q.gift = g /\ q.seen = req[w].seen \ {g} /\ g \in req[w].seen
        /\ orderLock' = orderLock /\ giftLock' = giftLock /\ giftRows' = giftRows
        /\ req[w].pc = "sorted"
    BY <1>0, <1>3 DEF SpinNext, At, giftRows, Spin
  <2> HIDE DEF q
  <2>2. ASSUME NEW h \in Gifts, giftLock'[h] = w PROVE HasGift(w, h)'
    <3>1. HasGift(w, h)
      BY <1>0, <2>1, <2>2 DEF LocksOwned
    <3>2. req'[w] = q
      BY <1>0, <2>1
    <3> QED
      BY <2>1, <3>1, <3>2 DEF HasGift, Spent, giftRows
  <2> QED
    BY <1>0, <2>1, <2>2, SpinMovesOn
<1>4. ASSUME NEW w \in Workers, SpinLock(w) PROVE LocksOwned'
  <2> DEFINE g == req[w].gift
             q == [req[w] EXCEPT !.pc = IF Eligible(g, req[w].order) THEN "won" ELSE "sorted"]
  <2>1. /\ req[w].pc = "wait" /\ g \in Gifts /\ giftLock[g] = NoOne
        /\ giftLock' = IF g \in catalog THEN [giftLock EXCEPT ![g] = w] ELSE giftLock
        /\ req' = [req EXCEPT ![w] = q]
        /\ orderLock' = orderLock /\ giftRows' = giftRows
    BY <1>0, <1>4 DEF SpinLock, At, giftRows, IInv, GiftChosen
  <2>2. /\ q.pc \in {"won", "sorted"} /\ q.order = req[w].order /\ q.gift = g
        /\ q.seen = req[w].seen
        /\ q.pc = "won" <=> Eligible(g, req[w].order)
    BY <1>0 DEF Spin
  <2>3. /\ req'[w] = q
        /\ \A h \in Gifts : giftLock'[h] = IF h = g /\ g \in catalog THEN w ELSE giftLock[h]
    BY <1>0, <2>1
  <2>4. g \in Fits[req[w].order] /\ g \notin req[w].seen
    BY <1>0, <2>1 DEF SeenFit, At
  <2> HIDE DEF q, g
  <2>5. ASSUME NEW h \in Gifts, giftLock'[h] = w PROVE HasGift(w, h)'
    <3>1. CASE h = g
      <4>1. g \in catalog
        BY <1>0, <2>1, <2>3, <2>5, <3>1
      <4>2. q.pc = "won" \/ Spent(g)
        BY <2>2, <2>4, <4>1 DEF Eligible, Spent
      <4> QED
        BY <2>1, <2>2, <2>3, <2>4, <3>1, <4>1, <4>2 DEF HasGift, Spent, giftRows
    <3>2. CASE h # g
      <4>1. giftLock[h] = w
        BY <2>3, <2>5, <3>2
      <4>2. HasGift(w, h) /\ Spent(h)
        BY <1>0, <2>1, <4>1 DEF LocksOwned, HasGift
      <4> QED
        BY <2>1, <2>2, <2>3, <3>2, <4>2 DEF HasGift, Spent, giftRows
    <3> QED
      BY <3>1, <3>2
  <2>6. \A h \in Gifts : giftLock'[h] # giftLock[h] => giftLock'[h] = w
    BY <2>3
  <2> QED
    BY <1>0, <2>1, <2>2, <2>5, <2>6, SpinMovesOn
<1>5. ASSUME NEW w \in Workers, SpinNothing(w) \/ Die(w) \/ BreakCircle(w) PROVE LocksOwned'
  BY <1>0, <1>5, SpinEnds DEF SpinNothing, Die, BreakCircle, giftRows
<1>6. ASSUME NEW w \in Workers, SpinCommit(w) PROVE LocksOwned'
  <2>1. /\ req[w].gift \in Gifts /\ giftLock[req[w].gift] = w
        /\ stock' = [stock EXCEPT ![req[w].gift] = @ - 1]
    BY <1>6 DEF SpinCommit, IInv, GiftChosen, WinnerHoldsBoth, At
  <2>2. \A g \in Gifts : stock'[g] # stock[g] => giftLock[g] = w
    BY <2>1 DEF IInv, TypeOK
  <2> QED
    BY <1>0, <1>6, <2>2, SpinEnds DEF SpinCommit
<1>7. CASE UNCHANGED vars
  BY <1>0, <1>7, OthersLeaveLocked DEF vars
<1>8. CASE \E o \in Orders, d \in BOOLEAN : SetDelivered(o, d)
  BY <1>0, <1>8, OthersLeaveLocked DEF SetDelivered, giftRows
<1>9. ASSUME NEW g \in Gifts,
             \/ EditOpen(g) \/ Delete(g)
             \/ \E n \in Restocks, a \in BOOLEAN : EditSave(g, n, a)
      PROVE  LocksOwned'
  <2>1. UNCHANGED <<orderLock, giftLock, req>>
    BY <1>9 DEF EditOpen, Delete, EditSave
  <2>2. ASSUME NEW h \in Gifts, giftLock[h] # NoOne
        PROVE  /\ h \in catalog => h \in catalog'
               /\ stock'[h] = stock[h] /\ active'[h] = active[h]
    <3>1. CASE EditOpen(g)
      BY <3>1 DEF EditOpen
    <3>2. CASE Delete(g)
      BY <2>2, <3>2 DEF Delete
    <3>3. CASE \E n \in Restocks, a \in BOOLEAN : EditSave(g, n, a)
      BY <2>2, <3>3 DEF EditSave, IInv, TypeOK
    <3> QED
      BY <1>9, <3>1, <3>2, <3>3
  <2> QED
    BY <1>0, <2>1, <2>2, OthersLeaveLocked
<1> QED
  BY <1>1, <1>2, <1>3, <1>4, <1>5, <1>6, <1>7, <1>8, <1>9 DEF Next, Serve

LEMMA SeenFitStep == ASSUME IInv, SeenFit, [Next]_vars PROVE SeenFit'
<1>0. req \in [Workers -> Spin]
  BY DEF IInv, TypeOK
<1>1. CASE UNCHANGED req
  BY <1>1 DEF SeenFit, At
<1>2. ASSUME NEW w \in Workers, NEW o \in Orders, SpinOrder(w, o) PROVE SeenFit'
  <2>1. req' = [req EXCEPT ![w] = [NoSpin EXCEPT !.pc = "query", !.order = o]]
    BY <1>2 DEF SpinOrder
  <2> QED
    BY <1>0, <2>1 DEF SeenFit, At, NoSpin
<1>3. ASSUME NEW w \in Workers, SpinQuery(w) PROVE SeenFit'
  BY <1>0, <1>3 DEF SpinQuery, SeenFit, At, Eligible
<1>4. ASSUME NEW w \in Workers, NEW g \in Gifts, SpinNext(w, g) PROVE SeenFit'
  BY <1>0, <1>4 DEF SpinNext, SeenFit, At, Spin
<1>5. ASSUME NEW w \in Workers, SpinLock(w) PROVE SeenFit'
  <2>1. PICK pc \in {"won", "sorted"} : req' = [req EXCEPT ![w].pc = pc]
    BY <1>5 DEF SpinLock
  <2>2. /\ req'[w].pc # "wait" /\ req'[w].seen = req[w].seen /\ req'[w].order = req[w].order
        /\ \A v \in Workers \ {w} : req'[v] = req[v]
    BY <1>0, <2>1 DEF Spin
  <2> QED
    BY <2>2 DEF SeenFit, At
<1>6. ASSUME NEW w \in Workers,
             SpinNothing(w) \/ SpinCommit(w) \/ Die(w) \/ BreakCircle(w)
      PROVE  SeenFit'
  <2>1. req' = [req EXCEPT ![w] = NoSpin]
    BY <1>6 DEF SpinNothing, SpinCommit, Die, BreakCircle
  <2> QED
    BY <1>0, <2>1 DEF SeenFit, At, NoSpin
<1> QED
  BY <1>1, <1>2, <1>3, <1>4, <1>5, <1>6
     DEF Next, Serve, vars, SetDelivered, EditOpen, Delete, EditSave

LEMMA OwnedInvariant == Spec => [](IInv /\ LocksOwned)
<1>1. Init => OwnedInv
  BY DEF Init, OwnedInv, LocksOwned, SeenFit, NoSpin, At
<1>2. IInv /\ OwnedInv /\ [Next]_vars => OwnedInv'
  BY OwnedStep, SeenFitStep DEF OwnedInv
<1>3. OwnedInv => LocksOwned
  BY DEF OwnedInv
<1> QED
  BY <1>1, <1>2, <1>3, InitIInv, StepIInv, PTL DEF Spec

\* A gift that can still be won is never what spins block each other over: whom a spin
\* waits for has won that gift, and then waits for nothing, or keeps it though it is
\* spent.  So whoever waits in a circle waits for a spent gift (orders/views.py,
\* spin_gift, under READ COMMITTED).
THEOREM OnlySpentGiftsDeadlock ==
    Spec => /\ [](\A w, v \in Workers : WaitsFor(w, v) =>
                      /\ v # w
                      /\ \/ At(v, "won") /\ req[v].gift = req[w].gift
                         \/ Spent(req[w].gift))
            /\ []CirclesAreSpent
<1> DEFINE Wait == \A w, v \in Workers : WaitsFor(w, v) =>
                      /\ v # w
                      /\ \/ At(v, "won") /\ req[v].gift = req[w].gift
                         \/ Spent(req[w].gift)
<1>1. IInv /\ LocksOwned => Wait
  <2> SUFFICES ASSUME IInv, LocksOwned, NEW w \in Workers, NEW v \in Workers, WaitsFor(w, v)
               PROVE  /\ v # w
                      /\ \/ At(v, "won") /\ req[v].gift = req[w].gift
                         \/ Spent(req[w].gift)
    OBVIOUS
  <2>1. req[w].gift \in Gifts /\ giftLock[req[w].gift] = v /\ req[w].pc = "wait"
    BY DEF WaitsFor, At, IInv, GiftChosen
  <2>2. HasGift(v, req[w].gift)
    BY <2>1, GiftSpinAssumption DEF LocksOwned
  <2> QED
    BY <2>1, <2>2 DEF HasGift, At
<1>2. Wait => CirclesAreSpent
  <2> SUFFICES ASSUME Wait, NEW w \in Workers, InCircle(w) PROVE Spent(req[w].gift)
    BY DEF CirclesAreSpent
  <2>1. PICK v \in Workers, u \in Workers : WaitsFor(w, v) /\ WaitsFor(v, u)
    BY DEF InCircle
  <2>2. ~At(v, "won")
    BY <2>1 DEF WaitsFor, At
  <2> QED
    BY <2>1, <2>2
<1> QED
  BY <1>1, <1>2, OwnedInvariant, PTL

\* How many statements a request may still take: it looks at no gift twice.
StepsLeft(q) == CASE q.pc = "idle"   -> 0
                  [] q.pc = "won"    -> 1
                  [] q.pc = "sorted" -> 2 * Cardinality(q.seen) + 2
                  [] q.pc = "wait"   -> 2 * Cardinality(q.seen) + 3
                  [] q.pc = "query"  -> 2 * Cardinality(Gifts) + 3

LEMMA SeenIsFinite ==
    ASSUME IsFiniteSet(Gifts), NEW s \in SUBSET Gifts
    PROVE  /\ Cardinality(s) \in Nat /\ Cardinality(s) <= Cardinality(Gifts)
           /\ Cardinality(Gifts) \in Nat
           /\ \A g \in s : Cardinality(s \ {g}) = Cardinality(s) - 1
BY FS_Subset, FS_CardinalityType, FS_RemoveElement

LEMMA StepsAreFew ==
    ASSUME IsFiniteSet(Gifts), NEW q \in Spin
    PROVE  StepsLeft(q) \in 0..(2 * Cardinality(Gifts) + 3)
<1>1. /\ Cardinality(q.seen) \in Nat /\ Cardinality(Gifts) \in Nat
      /\ Cardinality(q.seen) <= Cardinality(Gifts)
  BY SeenIsFinite DEF Spin
<1>2. q.pc \in {"idle", "query", "sorted", "wait", "won"}
  BY DEF Spin
<1> QED
  BY <1>1, <1>2 DEF StepsLeft

LEMMA FewerSteps ==
    ASSUME IsFiniteSet(Gifts), IInv, [Next]_vars, NEW w \in Workers, ~At(w, "idle"),
           req'[w] # req[w]
    PROVE  StepsLeft(req'[w]) < StepsLeft(req[w])
<1> DEFINE n == Cardinality(req[w].seen)
           q == req'[w]
           m == Cardinality(q.seen)
<1>1. /\ req[w] \in Spin /\ req \in [Workers -> Spin] /\ n \in Nat
      /\ Cardinality(Gifts) \in Nat /\ req[w].seen \in SUBSET Gifts
  BY SeenIsFinite DEF IInv, TypeOK, Spin
<1>2. PICK v \in Workers :
          \/ \E o \in Orders : SpinOrder(v, o)
          \/ Serve(v) \/ Die(v) \/ BreakCircle(v)
  BY DEF Next, vars, SetDelivered, EditOpen, EditSave, Delete
<1>3. v = w /\ ~\E o \in Orders : SpinOrder(v, o)
  BY <1>1, <1>2 DEF Serve, SpinOrder, SpinQuery, SpinNext, SpinLock, SpinNothing, SpinCommit,
     Die, BreakCircle, At
<1>4. CASE SpinQuery(w)
  <2>1. /\ req[w].pc = "query" /\ q.pc = "sorted"
        /\ q.seen = {g \in Gifts : Eligible(g, req[w].order)}
    BY <1>1, <1>4 DEF SpinQuery, At
  <2>2. q.seen \in SUBSET Gifts
    BY <2>1
  <2>3. m \in Nat /\ m <= Cardinality(Gifts)
    BY <2>2, SeenIsFinite
  <2> HIDE DEF q, m, n
  <2> QED
    BY <1>1, <2>1, <2>3 DEF StepsLeft, m, q
<1>5. CASE \E g \in Gifts : SpinNext(w, g)
  <2>1. PICK g \in req[w].seen :
            req[w].pc = "sorted" /\ q.pc = "wait" /\ q.seen = req[w].seen \ {g}
    BY <1>1, <1>5 DEF SpinNext, At, Spin
  <2>2. m = n - 1
    BY <1>1, <2>1, SeenIsFinite
  <2> HIDE DEF m, n, q
  <2> QED
    BY <1>1, <2>1, <2>2 DEF StepsLeft, m, n, q
<1>6. CASE SpinLock(w)
  <2>1. req[w].pc = "wait" /\ q.pc \in {"won", "sorted"} /\ q.seen = req[w].seen
    BY <1>1, <1>6 DEF SpinLock, At, Spin
  <2> HIDE DEF q
  <2> QED
    BY <1>1, <2>1 DEF StepsLeft, q
<1>7. CASE SpinNothing(w) \/ SpinCommit(w) \/ Die(w) \/ BreakCircle(w)
  <2>1. q.pc = "idle" /\ req[w].pc \in {"query", "sorted", "wait", "won"}
    BY <1>1, <1>7 DEF SpinNothing, SpinCommit, Die, BreakCircle, At, NoSpin, Spin
  <2> HIDE DEF q
  <2> QED
    BY <1>1, <2>1 DEF StepsLeft, q
<1> QED
  BY <1>2, <1>3, <1>4, <1>5, <1>6, <1>7 DEF Serve

\* With SpinsFinish in mind: whatever staff, riders and other spins do, a spin takes at
\* most two statements for each gift and three more, and only its own statements, its
\* death or a deadlock bring it on; the rest is that each is taken some day (fairness,
\* and the deadlock detector of the database).
THEOREM SpinsAreShort ==
    ASSUME IsFiniteSet(Gifts)
    PROVE  Spec => /\ [](\A w \in Workers : StepsLeft(req[w]) \in 0..(2 * Cardinality(Gifts) + 3))
                   /\ [][\A w \in Workers : ~At(w, "idle") /\ req'[w] # req[w] =>
                             StepsLeft(req'[w]) < StepsLeft(req[w])]_vars
<1> DEFINE Few == \A w \in Workers : StepsLeft(req[w]) \in 0..(2 * Cardinality(Gifts) + 3)
           Down == \A w \in Workers : ~At(w, "idle") /\ req'[w] # req[w] =>
                             StepsLeft(req'[w]) < StepsLeft(req[w])
<1>1. IInv => Few
  BY StepsAreFew DEF IInv, TypeOK
<1>2. IInv /\ [Next]_vars => [Down]_vars
  BY FewerSteps
<1> QED
  BY <1>1, <1>2, Invariance, PTL DEF Spec, Few, Down
=============================================================================
