------------------------------- MODULE SignIn -------------------------------
(***************************************************************************)
(* How one mobile number gets an account (accounts/services.py,            *)
(* accounts/views.py): a code is asked for and sent, typed in, and the     *)
(* account, its wallet and its referrer are written; staff may create the  *)
(* account of a rider on the same number meanwhile (orders/views.py,       *)
(* create_delivery_member).                                                *)
(*                                                                         *)
(* Nothing here runs in a transaction but the creation of the customer and *)
(* his wallet, so an action is one statement.  A request may die after any *)
(* of them, and the broker may refuse a task.  Code i is the code of row i:*)
(* two rows never have the same one.                                       *)
(***************************************************************************)
EXTENDS Integers, Sequences, FiniteSets

CONSTANTS Requests,   \* what the web workers handle at the same time
          Cooldown,   \* OTP_RESEND_COOLDOWN_SECONDS
          Validity,   \* OTP_VALIDITY_MINUTES
          MaxTries,   \* OTP_MAX_VERIFY_ATTEMPTS
          MaxCodes,   \* bound: rows of OTP
          MaxLosses   \* bound: broker failures and deaths of requests

ASSUME SignInAssumption ==
    /\ Cooldown \in Nat \ {0} /\ Validity \in Nat /\ Cooldown <= Validity
    /\ MaxTries \in Nat \ {0} /\ MaxCodes \in Nat /\ MaxLosses \in Nat
    /\ IsFiniteSet(Requests)

VARIABLES otps,     \* the rows of OTP, by created_at
          user,     \* the row of User with this number, and its wallet
          req,      \* req[c]: the request c is handling
          wrong,    \* wrong[i]: wrong codes answered against row i (history)
          shared,   \* rows verified by two requests at once (history)
          invited,  \* the account was created by a request with a referral code (history)
          losses    \* where requests died or failed, one pc for each (history)

history == <<wrong, shared, invited, losses>>
vars == <<otps, user, req, wrong, shared, invited, losses>>

Expired == Validity + 1
NoUser == [exists |-> FALSE, wallet |-> FALSE, verified |-> FALSE, referred |-> FALSE]
NoRequest == [pc |-> "idle", row |-> 0, attempts |-> 0, right |-> FALSE, ref |-> FALSE]

\* An account may be there: UserAdmin creates it unverified, in a transaction.
Init == /\ otps = <<>>
        /\ \E there \in BOOLEAN :
              user = [exists |-> there, wallet |-> there, verified |-> FALSE, referred |-> FALSE]
        /\ req = [c \in Requests |-> NoRequest]
        /\ wrong = <<>> /\ shared = {} /\ invited = FALSE /\ losses = <<>>

At(c, pc) == req[c].pc = pc
Goes(c, pc) == req' = [req EXCEPT ![c] = [NoRequest EXCEPT !.pc = pc]]
Ends(c) == req' = [req EXCEPT ![c] = NoRequest]
Lose(pc) == Len(losses) < MaxLosses /\ losses' = Append(losses, pc)

-----------------------------------------------------------------------------
(* generate_and_send_otp *)

\* Seeded fault: a row whose message is not out yet does not count.
CoolingIfSent == otps # <<>> /\ otps[Len(otps)].sent /\ otps[Len(otps)].age < Cooldown

\* The newest row is too young for another.
Cooling == otps # <<>> /\ otps[Len(otps)].age < Cooldown

\* Seeded fault: a refused request starts the cooldown again.
AskAndRestart(c) ==
    /\ At(c, "idle")
    /\ IF Cooling THEN otps' = [otps EXCEPT ![Len(otps)].age = 0] /\ UNCHANGED req
                  ELSE Goes(c, "create") /\ UNCHANGED otps
    /\ UNCHANGED <<user, history>>

\* A request refused by the cooldown changes nothing.
Ask(c) ==
    /\ At(c, "idle")
    /\ ~Cooling
    /\ Goes(c, "create")
    /\ UNCHANGED <<otps, user, history>>

CreateCode(c) ==
    /\ At(c, "create")
    /\ Len(otps) < MaxCodes
    /\ otps' = Append(otps, [age |-> 0, used |-> FALSE, attempts |-> 0, sent |-> FALSE])
    /\ wrong' = Append(wrong, 0)
    /\ req' = [req EXCEPT ![c] = [NoRequest EXCEPT !.pc = "send", !.row = Len(otps')]]
    /\ UNCHANGED <<user, shared, invited, losses>>

\* delay(): the broker has the task.
Send(c) ==
    /\ At(c, "send")
    /\ otps' = [otps EXCEPT ![req[c].row].sent = TRUE]
    /\ Ends(c)
    /\ UNCHANGED <<user, history>>

\* delay() raises: the row stays.
SendFails(c) ==
    /\ At(c, "send")
    /\ Lose("send")
    /\ Ends(c)
    /\ UNCHANGED <<otps, user, wrong, shared, invited>>

-----------------------------------------------------------------------------
(* verify_otp, and the views that call it *)

LiveCodes == {i \in DOMAIN otps : ~otps[i].used /\ otps[i].age <= Validity}

Others(c) == Requests \ {c}

\* The newest live code is read, unless there is none or it was tried too often:
\* the request then ends and has changed nothing.
ReadCode(c, code, ref) ==
    /\ At(c, "idle")
    /\ \E i \in LiveCodes :
        /\ \A j \in LiveCodes : j <= i
        /\ otps[i].attempts < MaxTries
        /\ req' = [req EXCEPT ![c] = [pc |-> "check", row |-> i, attempts |-> otps[i].attempts,
                                      right |-> code = i, ref |-> ref]]
        /\ shared' = IF \E d \in Others(c) : At(d, "check") /\ req[d].row = i
                     THEN shared \cup {i} ELSE shared
    /\ UNCHANGED <<otps, user, wrong, invited, losses>>

\* Seeded fault: the miss is counted on the row that is the newest by now.
MissOnNewest(c) ==
    /\ At(c, "check") /\ ~req[c].right
    /\ otps' = [otps EXCEPT ![Len(otps)].attempts = req[c].attempts + 1]
    /\ wrong' = [wrong EXCEPT ![req[c].row] = @ + 1]
    /\ Ends(c)
    /\ UNCHANGED <<user, shared, invited, losses>>

\* Seeded fault: the database adds one to attempts.
MissAdds(c) ==
    /\ At(c, "check") /\ ~req[c].right
    /\ otps' = [otps EXCEPT ![req[c].row].attempts = @ + 1]
    /\ wrong' = [wrong EXCEPT ![req[c].row] = @ + 1]
    /\ Ends(c)
    /\ UNCHANGED <<user, shared, invited, losses>>

\* attempts is written back from what was read.
Miss(c) ==
    /\ At(c, "check") /\ ~req[c].right
    /\ otps' = [otps EXCEPT ![req[c].row].attempts = req[c].attempts + 1]
    /\ wrong' = [wrong EXCEPT ![req[c].row] = @ + 1]
    /\ Ends(c)
    /\ UNCHANGED <<user, shared, invited, losses>>

Hit(c) ==
    /\ At(c, "check") /\ req[c].right
    /\ otps' = [otps EXCEPT ![req[c].row].used = TRUE]
    /\ req' = [req EXCEPT ![c] = [NoRequest EXCEPT !.pc = "enter", !.ref = req[c].ref]]
    /\ UNCHANGED <<user, history>>

\* Seeded fault: the referrer is set for an account that was verified only now.
EnterThenVerify(c) ==
    /\ At(c, "enter")
    /\ IF user.exists
       THEN /\ IF ~user.verified THEN Goes(c, "verify")
               ELSE IF req[c].ref THEN Goes(c, "refer") ELSE Ends(c)
            /\ UNCHANGED <<user, invited>>
       ELSE /\ user' = [exists |-> TRUE, wallet |-> TRUE, verified |-> TRUE, referred |-> FALSE]
            /\ invited' = req[c].ref
            /\ Ends(c)
    /\ UNCHANGED <<otps, wrong, shared, losses>>

\* get_or_create of the customer, the wallet of the signal in its transaction.
Enter(c) ==
    /\ At(c, "enter")
    /\ IF user.exists
       THEN /\ IF user.verified THEN Ends(c) ELSE Goes(c, "verify")
            /\ UNCHANGED <<user, invited>>
       ELSE /\ user' = [exists |-> TRUE, wallet |-> TRUE, verified |-> TRUE, referred |-> FALSE]
            /\ invited' = req[c].ref
            /\ IF req[c].ref THEN Goes(c, "refer") ELSE Ends(c)
    /\ UNCHANGED <<otps, wrong, shared, losses>>

MarkVerified(c) ==
    /\ At(c, "verify")
    /\ user' = [user EXCEPT !.verified = TRUE]
    /\ Ends(c)
    /\ UNCHANGED <<otps, history>>

Refer(c) ==
    /\ At(c, "refer")
    /\ user' = [user EXCEPT !.referred = TRUE]
    /\ Ends(c)
    /\ UNCHANGED <<otps, history>>

-----------------------------------------------------------------------------
(* create_delivery_member: the test, the row, and the wallet of the signal *)

AddMember(c) ==
    /\ At(c, "idle")
    /\ ~user.exists
    /\ Goes(c, "insert")
    /\ UNCHANGED <<otps, user, history>>

\* Seeded fault: the wallet is made with the row, for a customer only.
InsertNoWallet(c) ==
    /\ At(c, "insert")
    /\ user' = IF user.exists THEN user ELSE [NoUser EXCEPT !.exists = TRUE, !.verified = TRUE]
    /\ Ends(c)
    /\ UNCHANGED <<otps, history>>

\* The number is unique: the row is refused when somebody was faster.
Insert(c) ==
    /\ At(c, "insert")
    /\ IF user.exists
       THEN Ends(c) /\ UNCHANGED user
       ELSE /\ user' = [NoUser EXCEPT !.exists = TRUE, !.verified = TRUE]
            /\ Goes(c, "wallet")
    /\ UNCHANGED <<otps, history>>

AddWallet(c) ==
    /\ At(c, "wallet")
    /\ user' = [user EXCEPT !.wallet = TRUE]
    /\ Ends(c)
    /\ UNCHANGED <<otps, history>>

-----------------------------------------------------------------------------

\* The process that handles c is killed.
Die(c) ==
    /\ ~At(c, "idle")
    /\ Lose(req[c].pc)
    /\ Ends(c)
    /\ UNCHANGED <<otps, user, wrong, shared, invited>>

\* Rows out of date look alike.
Tick == /\ otps # <<>>
        /\ otps' = [i \in DOMAIN otps |->
                      [otps[i] EXCEPT !.age = IF @ < Expired THEN @ + 1 ELSE @]]
        /\ UNCHANGED <<user, req, history>>

\* What a request does once it is under way.
Proceed(c) == \/ CreateCode(c) \/ Send(c) \/ Miss(c) \/ Hit(c) \/ Enter(c)
              \/ MarkVerified(c) \/ Refer(c) \/ Insert(c) \/ AddWallet(c)

Verify(c) == \E code \in 0..Len(otps), ref \in BOOLEAN : ReadCode(c, code, ref)

Next == \/ Tick
        \/ \E c \in Requests : \/ Ask(c) \/ Verify(c) \/ AddMember(c)
                              \/ Proceed(c) \/ SendFails(c) \/ Die(c)

Spec == Init /\ [][Next]_vars

\* The workers go on, time passes, and whoever wants a code asks again and again.
FairSpec == /\ Spec
            /\ WF_vars(Tick)
            /\ \A c \in Requests : WF_vars(Proceed(c)) /\ SF_vars(Ask(c))

-----------------------------------------------------------------------------
(* Properties *)

PCs == {"idle", "create", "send", "check", "enter", "verify", "refer", "insert", "wallet"}
Row == [age : 0..Expired, used : BOOLEAN, attempts : 0..MaxTries, sent : BOOLEAN]

\* Types: attempts, which every miss writes back from a stale copy, stays within the
\* limit (services.py, verify_otp), and a request under way holds a row that exists.
TypeOK ==
    /\ otps \in Seq(Row) /\ Len(otps) <= MaxCodes
    /\ user \in [exists : BOOLEAN, wallet : BOOLEAN, verified : BOOLEAN, referred : BOOLEAN]
    /\ req \in [Requests -> [pc : PCs, row : 0..MaxCodes, attempts : 0..MaxTries,
                             right : BOOLEAN, ref : BOOLEAN]]
    /\ \A c \in Requests : req[c].pc \in {"send", "check"} => req[c].row \in DOMAIN otps
    /\ wrong \in Seq(Nat) /\ Len(wrong) = Len(otps)
    /\ shared \subseteq DOMAIN otps
    /\ invited \in BOOLEAN
    /\ losses \in Seq(PCs) /\ Len(losses) <= MaxLosses

Lost(pc) == \E k \in DOMAIN losses : losses[k] = pc

\* The cooldown is tested and the row created in two statements (services.py,
\* generate_and_send_otp).  Requests that overlap may each create one, but no more
\* than that: within a cooldown there are at most as many codes as requests are
\* handled at once, however they interleave and whichever of them fail.
CodesBounded == Cardinality({i \in DOMAIN otps : otps[i].age < Cooldown}) <= Cardinality(Requests)

\* Wrong codes are counted exactly, and a code stands at most MaxTries of them, for
\* every row that was never being verified by two requests at the same time
\* (services.py, verify_otp); two at once may be counted as one.
TriesCounted == \A i \in DOMAIN otps \ shared :
    /\ wrong[i] = otps[i].attempts
    /\ wrong[i] <= MaxTries

\* Whoever has an account has a wallet (wallet/signals.py), which every handler that
\* takes request.user.wallet relies on: except while create_delivery_member is between
\* the row and its wallet, or when it ended there.
HasWallet == user.exists /\ ~user.wallet =>
    Lost("wallet") \/ \E c \in Requests : At(c, "wallet")

\* A customer whose account came into being with a referral code has his referrer
\* (accounts/views.py, both views), whoever else signs in or is added meanwhile; only
\* a request that died between its two statements leaves him without.
InvitedIsReferred == invited /\ ~user.referred =>
    Lost("refer") \/ \E c \in Requests : At(c, "refer")

\* A number that keeps asking is sent a code in the end: rows whose message never
\* went out start the cooldown too, but none of them for ever (services.py,
\* generate_and_send_otp), once the broker and the workers stop failing.
CodeArrives == <>(\E i \in DOMAIN otps : otps[i].sent)
=============================================================================
