----------------------------- MODULE MCGiftSpin -----------------------------
(***************************************************************************)
(* GiftSpin for TLC.  Every order is large enough for every gift, so that  *)
(* two spins can want the same two gifts, in either order.  Forms saved    *)
(* again and again would add stock without end: MaxSupplied stops it.      *)
(***************************************************************************)
EXTENDS GiftSpin

CONSTANT MaxSupplied   \* bound: of one gift, put in stock

FitAll == [o \in Orders |-> Gifts]
OneOfEach == [g \in Gifts |-> 1]

MCNext == \/ \E w \in Workers : \/ \E o \in Orders : SpinOrder(w, o)
                                \/ Serve(w)
                                \/ Die(w) \/ BreakCircle(w)
          \/ \E o \in Orders, d \in BOOLEAN : SetDelivered(o, d)
          \/ \E g \in Gifts : \/ EditOpen(g)
                              \/ \E n \in Restocks, a \in BOOLEAN :
                                    supplied[g] + n <= MaxSupplied /\ EditSave(g, n, a)
                              \/ Delete(g)

MCSpec == Init /\ [][MCNext]_vars

MCFairSpec == /\ MCSpec
              /\ \A w \in Workers : /\ WF_vars(Serve(w)) /\ SF_vars(SpinLock(w))
                                    /\ WF_vars(BreakCircle(w))
=============================================================================
