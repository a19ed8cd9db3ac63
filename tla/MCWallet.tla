------------------------------ MODULE MCWallet ------------------------------
(***************************************************************************)
(* Wallet for TLC: credits stop once MaxGranted has been credited to an    *)
(* owner, which bounds every balance.  A stale instance saved again and    *)
(* again gives a spent amount back each time, so what an owner spends is   *)
(* bounded as well, by how far the audit trail may fall below zero.        *)
(***************************************************************************)
EXTENDS Wallet, TLC

CONSTANTS MaxGranted,  \* bound: money ever credited to one owner
          MaxOverspent \* bound: what one owner spends beyond what was posted

Room(w, a) == Holds(w) /\ granted[inst[w].owner] + a <= MaxGranted

Covered(w, a) == Holds(w) /\ posted[inst[w].owner] - a >= -MaxOverspent

\* What requests do, without the admin.
MCRequest(w) == \/ \E c \in Customers : Open(w, c)
                \/ \E a \in Amounts : Room(w, a) /\ Credit(w, a)
                \/ \E a \in Amounts : Room(w, a) /\ CreditTx(w, a)
                \/ \E a \in Amounts : Covered(w, a) /\ DebitTx(w, a)
                \/ Log(w)
                \/ Close(w)

MCNext == \E w \in Workers : MCRequest(w) \/ Resave(w) \/ Crash(w)

MCSpec == Init /\ [][MCNext]_wvars

\* Nobody saves a wallet in the admin, and no worker dies.
MCRequestSpec == Init /\ [][\E w \in Workers : MCRequest(w)]_wvars

Symmetry == Permutations(Customers) \cup Permutations(Workers)
=============================================================================
