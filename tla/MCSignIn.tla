------------------------------ MODULE MCSignIn ------------------------------
(***************************************************************************)
(* SignIn for TLC, in three parts: codes are asked for and not typed; they *)
(* are typed, rightly or not, for an account that is there; the account    *)
(* comes into being and every code typed is right.  The last two have at   *)
(* most TwoRows codes; nothing fails while codes are typed.                *)
(***************************************************************************)
EXTENDS SignIn, FiniteSetsExt

VARIABLE part   \* which of the three a behaviour is about

mcvars == <<vars, part>>

MCInit == /\ Init
          /\ part \in {"asking", "typing", "entering"}
          /\ part # "entering" => user.exists

MCVerify(c) ==
    \/ part = "typing" /\ \E code \in 0..Len(otps) : ReadCode(c, code, FALSE)
    \/ part = "entering" /\ LiveCodes # {} /\ \E ref \in BOOLEAN : ReadCode(c, Max(LiveCodes), ref)

TwoRows == 2
Asked == Len(otps) + Cardinality({c \in Requests : At(c, "create")})

MCAsk(c) == (part = "asking" \/ Asked < TwoRows) /\ Ask(c)

MCFail(c) == part # "typing" /\ (SendFails(c) \/ Die(c))

MCNext == /\ \/ Tick
             \/ \E c \in Requests : \/ MCAsk(c) \/ MCVerify(c) \/ AddMember(c)
                                    \/ Proceed(c) \/ MCFail(c)
          /\ UNCHANGED part

MCSpec == /\ MCInit /\ [][MCNext]_mcvars
          /\ WF_mcvars(Tick /\ UNCHANGED part)
          /\ \A c \in Requests : /\ WF_mcvars(Proceed(c) /\ UNCHANGED part)
                                 /\ SF_mcvars(MCAsk(c) /\ UNCHANGED part)
=============================================================================
