---------------------------- MODULE SignInProofs ----------------------------
(***************************************************************************)
(* Proofs about SignIn, for every number of requests, every cooldown,      *)
(* validity and limit, and however many requests fail.                     *)
(*                                                                         *)
(* The inductive invariant IInv adds to the properties what they rest on:  *)
(* rows are as old as they come (Ordered), so a row that cools is followed *)
(* by none that does not; a request between the test of the cooldown and   *)
(* its row counts as the row it will create (CodesCounted); and a row that *)
(* was never shared is as the one request that verifies it has read it     *)
(* (TriesRead).                                                            *)
(*                                                                         *)
(* SendInv is about the messages: a row that was not sent is on the hands  *)
(* of the one request that created it, or a loss was paid for it.          *)
(***************************************************************************)
EXTENDS SignIn, SequenceTheorems, FiniteSetTheorems, TLAPS

\* A row that is being verified has a try left.
TryLeft == \A c \in Requests : At(c, "check") => req[c].attempts < MaxTries

Ordered == \A i, j \in DOMAIN otps : i < j => otps[i].age >= otps[j].age

Young == {i \in DOMAIN otps : otps[i].age < Cooldown}
Creating == {c \in Requests : At(c, "create")}

CodesCounted == Cardinality(Young) + Cardinality(Creating) <= Cardinality(Requests)

Checks(c, i) == At(c, "check") /\ req[c].row = i

TriesRead == \A i \in DOMAIN otps \ shared :
    /\ wrong[i] = otps[i].attempts
    /\ \A c \in Requests : Checks(c, i) => req[c].attempts = otps[i].attempts
    /\ \A c, d \in Requests : Checks(c, i) /\ Checks(d, i) => c = d

InvitedExists == invited => user.exists

IInv == /\ TypeOK /\ TryLeft
        /\ Ordered /\ CodesCounted
        /\ TriesRead
        /\ HasWallet /\ InvitedExists /\ InvitedIsReferred

Request == [pc : PCs, row : 0..MaxCodes, attempts : 0..MaxTries, right : BOOLEAN, ref : BOOLEAN]
User == [exists : BOOLEAN, wallet : BOOLEAN, verified : BOOLEAN, referred : BOOLEAN]

-----------------------------------------------------------------------------
(* Rows *)

\* A row that is written in place leaves the others, and stays a row.
LEMMA RowWritten ==
    ASSUME TypeOK, NEW i \in DOMAIN otps, NEW row \in Row,
           otps' = [otps EXCEPT ![i] = row]
    PROVE  /\ otps' \in Seq(Row) /\ Len(otps') = Len(otps) /\ DOMAIN otps' = DOMAIN otps
           /\ \A j \in DOMAIN otps : otps'[j] = IF j = i THEN row ELSE otps[j]
<1>1. otps \in Seq(Row) /\ i \in 1..Len(otps) /\ DOMAIN otps = 1..Len(otps)
  BY LenProperties DEF TypeOK
<1>2. /\ otps' \in Seq(Row) /\ Len(otps') = Len(otps)
      /\ \A j \in 1..Len(otps) : otps'[j] = IF j = i THEN row ELSE otps[j]
  BY <1>1, ExceptSeq
<1> QED
  BY <1>1, <1>2, LenProperties

\* What the actions that write a row leave in it.
LEMMA RowsAreRows ==
    ASSUME TypeOK, NEW i \in DOMAIN otps
    PROVE  /\ [otps[i] EXCEPT !.sent = TRUE] \in Row
           /\ [otps[i] EXCEPT !.used = TRUE] \in Row
           /\ \A n \in 0..MaxTries : [otps[i] EXCEPT !.attempts = n] \in Row
<1>1. otps[i] \in Row
  BY LenProperties, ElementOfSeq DEF TypeOK
<1> QED
  BY <1>1 DEF Row

LEMMA RowCreated ==
    ASSUME TypeOK, NEW c \in Requests, CreateCode(c)
    PROVE  /\ otps' \in Seq(Row) /\ Len(otps') = Len(otps) + 1
           /\ DOMAIN otps = 1..Len(otps) /\ DOMAIN otps' = 1..Len(otps) + 1
           /\ \A j \in DOMAIN otps : otps'[j] = otps[j]
           /\ otps'[Len(otps) + 1] = [age |-> 0, used |-> FALSE, attempts |-> 0, sent |-> FALSE]
           /\ wrong' \in Seq(Nat) /\ Len(wrong') = Len(wrong) + 1
           /\ \A j \in DOMAIN otps : wrong'[j] = wrong[j]
           /\ wrong'[Len(otps) + 1] = 0
<1> DEFINE row == [age |-> 0, used |-> FALSE, attempts |-> 0, sent |-> FALSE]
<1>1. row \in Row
  BY SignInAssumption DEF Row, Expired
<1>2. otps \in Seq(Row) /\ wrong \in Seq(Nat) /\ Len(wrong) = Len(otps)
  BY DEF TypeOK
<1>3. otps' = Append(otps, row) /\ wrong' = Append(wrong, 0)
  BY DEF CreateCode
<1> HIDE DEF row
<1>4. /\ otps' \in Seq(Row) /\ Len(otps') = Len(otps) + 1
      /\ \A j \in 1..Len(otps) : otps'[j] = otps[j]
      /\ otps'[Len(otps) + 1] = row
  BY <1>1, <1>2, <1>3, AppendProperties
<1>5. /\ wrong' \in Seq(Nat) /\ Len(wrong') = Len(wrong) + 1
      /\ \A j \in 1..Len(wrong) : wrong'[j] = wrong[j]
      /\ wrong'[Len(wrong) + 1] = 0
  BY <1>2, <1>3, AppendProperties
<1>6. DOMAIN otps = 1..Len(otps) /\ DOMAIN otps' = 1..Len(otps) + 1
  BY <1>2, <1>4, LenProperties
<1> QED
  BY <1>2, <1>4, <1>5, <1>6 DEF row

LEMMA RowsAged ==
    ASSUME TypeOK, Tick
    PROVE  /\ otps' \in Seq(Row) /\ Len(otps') = Len(otps) /\ DOMAIN otps' = DOMAIN otps
           /\ \A j \in DOMAIN otps :
                 otps'[j] = [otps[j] EXCEPT !.age = IF @ < Expired THEN @ + 1 ELSE @]
<1>1. otps \in Seq(Row) /\ DOMAIN otps = 1..Len(otps) /\ Len(otps) \in Nat
  BY LenProperties DEF TypeOK
<1>2. \A j \in DOMAIN otps : otps[j] \in Row
  BY <1>1, ElementOfSeq
<1>3. /\ otps' = [i \in DOMAIN otps |->
                     [otps[i] EXCEPT !.age = IF @ < Expired THEN @ + 1 ELSE @]]
  BY DEF Tick
<1>4. ASSUME NEW j \in DOMAIN otps
      PROVE  [otps[j] EXCEPT !.age = IF @ < Expired THEN @ + 1 ELSE @] \in Row
  <2>1. otps[j].age \in 0..Expired /\ Expired \in Nat
    BY <1>2, SignInAssumption DEF Row, Expired
  <2>2. (IF otps[j].age < Expired THEN otps[j].age + 1 ELSE otps[j].age) \in 0..Expired
    BY <2>1
  <2> QED
    BY <1>2, <2>2 DEF Row
<1>5. otps' \in [1..Len(otps) -> Row]
  BY <1>1, <1>3, <1>4
<1>6. otps' \in Seq(Row) /\ Len(otps') = Len(otps)
  BY <1>1, <1>5, LenProperties, SeqDef
<1> QED
  BY <1>1, <1>3, <1>6

-----------------------------------------------------------------------------
(* TypeOK and TryLeft *)

LEMMA LossTyped ==
    ASSUME TypeOK, NEW pc \in PCs, Lose(pc)
    PROVE  losses' \in Seq(PCs) /\ Len(losses') <= MaxLosses
BY AppendProperties, SignInAssumption DEF TypeOK, Lose

\* What a request that moves on needs to be typed and to have a try left.
Sound(q) == /\ q \in Request
            /\ q.pc \in {"send", "check"} => q.row \in DOMAIN otps'
            /\ q.pc = "check" => q.attempts < MaxTries

LEMMA RequestMoved ==
    ASSUME TypeOK, TryLeft, DOMAIN otps \subseteq DOMAIN otps',
           NEW c \in Requests, NEW q, Sound(q), req' = [req EXCEPT ![c] = q]
    PROVE  /\ req' \in [Requests -> Request]
           /\ \A d \in Requests : req'[d].pc \in {"send", "check"} => req'[d].row \in DOMAIN otps'
           /\ TryLeft'
<1>1. req \in [Requests -> Request] /\ req' \in [Requests -> Request]
  BY DEF TypeOK, Request, Sound
<1>2. \A d \in Requests : req'[d] = IF d = c THEN q ELSE req[d]
  BY <1>1
<1>3. \A d \in Requests : req'[d].pc \in {"send", "check"} => req'[d].row \in DOMAIN otps'
  BY <1>2 DEF TypeOK, Sound
<1>4. TryLeft'
  BY <1>2 DEF TryLeft, At, Sound
<1> QED
  BY <1>1, <1>3, <1>4

\* A step that changes the account, and leaves the rows and their histories alone.
LEMMA AccountTyped ==
    ASSUME TypeOK, TryLeft, UNCHANGED <<otps, wrong, shared, losses>>,
           user' \in User, invited' \in BOOLEAN,
           NEW c \in Requests, NEW q \in Request, q.pc \notin {"send", "check"},
           req' = [req EXCEPT ![c] = q]
    PROVE  TypeOK' /\ TryLeft'
<1>1. Sound(q)
  BY DEF Sound
<1> QED
  BY <1>1, RequestMoved DEF TypeOK, Request, User

\* The requests that Ends and Goes leave.
LEMMA RequestsTyped ==
    /\ NoRequest \in Request
    /\ \A pc \in PCs : [NoRequest EXCEPT !.pc = pc] \in Request
    /\ \A pc \in PCs : [NoRequest EXCEPT !.pc = pc].pc = pc
    /\ NoRequest.pc = "idle"
<1>1. 0 \in 0..MaxCodes /\ 0 \in 0..MaxTries /\ "idle" \in PCs
  BY SignInAssumption DEF PCs
<1> QED
  BY <1>1 DEF NoRequest, Request

\* A request that ends, or goes on to a statement without a row, is sound.
LEMMA PlainIsSound ==
    /\ Sound(NoRequest)
    /\ \A pc \in PCs \ {"send", "check"} : Sound([NoRequest EXCEPT !.pc = pc])
BY RequestsTyped DEF Sound

LEMMA TypeStep == ASSUME TypeOK, TryLeft, [Next]_vars PROVE TypeOK' /\ TryLeft'
<1>1. ASSUME NEW c \in Requests, Ask(c) PROVE TypeOK' /\ TryLeft'
  <2>1. UNCHANGED <<otps, user, history>> /\ req' = [req EXCEPT ![c] = [NoRequest EXCEPT !.pc = "create"]]
    BY <1>1 DEF Ask, Goes
  <2>2. "create" \in PCs \ {"send", "check"}
    BY DEF PCs
  <2> QED
    BY <2>1, <2>2, PlainIsSound, RequestMoved DEF TypeOK, Request, history
<1>2. ASSUME NEW c \in Requests, CreateCode(c) PROVE TypeOK' /\ TryLeft'
  <2> DEFINE q == [NoRequest EXCEPT !.pc = "send", !.row = Len(otps')]
  <2>1. /\ req' = [req EXCEPT ![c] = q]
        /\ UNCHANGED <<user, shared, invited, losses>> /\ Len(otps) < MaxCodes
    BY <1>2 DEF CreateCode
  <2>2. Len(otps) \in Nat /\ Len(wrong) = Len(otps)
    BY LenProperties DEF TypeOK
  <2>3. Sound(q)
    <3>1. Len(otps') \in 0..MaxCodes /\ Len(otps') \in DOMAIN otps' /\ "send" \in PCs
      BY <1>2, <2>1, <2>2, RowCreated, SignInAssumption DEF PCs
    <3> QED
      BY <3>1, RequestsTyped DEF Sound, NoRequest, Request
  <2>4. DOMAIN otps \subseteq DOMAIN otps' /\ shared \subseteq DOMAIN otps'
    <3>1. DOMAIN otps = 1..Len(otps) /\ DOMAIN otps' = 1..Len(otps) + 1
      BY <1>2, RowCreated
    <3>2. shared \subseteq DOMAIN otps
      BY DEF TypeOK
    <3> QED
      BY <2>2, <3>1, <3>2
  <2> HIDE DEF q
  <2>5. /\ req' \in [Requests -> Request] /\ TryLeft'
        /\ \A d \in Requests : req'[d].pc \in {"send", "check"} => req'[d].row \in DOMAIN otps'
    BY <2>1, <2>3, <2>4, RequestMoved
  <2>6. otps' \in Seq(Row) /\ Len(otps') <= MaxCodes /\ wrong' \in Seq(Nat) /\ Len(wrong') = Len(otps')
    BY <1>2, <2>1, <2>2, RowCreated, SignInAssumption
  <2> QED
    BY <2>1, <2>4, <2>5, <2>6 DEF TypeOK, Request
<1>3. ASSUME NEW c \in Requests, Send(c) PROVE TypeOK' /\ TryLeft'
  <2>1. req[c].row \in DOMAIN otps
    BY <1>3 DEF TypeOK, Send, At
  <2>2. otps' \in Seq(Row) /\ Len(otps') = Len(otps) /\ DOMAIN otps' = DOMAIN otps
    BY <1>3, <2>1, RowWritten, RowsAreRows DEF Send
  <2>3. req' = [req EXCEPT ![c] = NoRequest] /\ UNCHANGED <<user, history>>
    BY <1>3 DEF Send, Ends
  <2> QED
    BY <2>2, <2>3, PlainIsSound, RequestMoved DEF TypeOK, Request, history
<1>4. ASSUME NEW c \in Requests, SendFails(c) PROVE TypeOK' /\ TryLeft'
  <2>1. /\ req' = [req EXCEPT ![c] = NoRequest] /\ Lose("send")
        /\ UNCHANGED <<otps, user, wrong, shared, invited>>
    BY <1>4 DEF SendFails, Ends
  <2>2. losses' \in Seq(PCs) /\ Len(losses') <= MaxLosses
    BY <2>1, LossTyped DEF PCs
  <2> QED
    BY <2>1, <2>2, PlainIsSound, RequestMoved DEF TypeOK, Request
<1>5. ASSUME NEW c \in Requests, NEW code \in Nat, NEW ref \in BOOLEAN, ReadCode(c, code, ref)
      PROVE  TypeOK' /\ TryLeft'
  <2>1. PICK i \in LiveCodes :
          /\ otps[i].attempts < MaxTries
          /\ req' = [req EXCEPT ![c] = [pc |-> "check", row |-> i, attempts |-> otps[i].attempts,
                                        right |-> code = i, ref |-> ref]]
          /\ shared' = (IF \E d \in Others(c) : At(d, "check") /\ req[d].row = i
                        THEN shared \cup {i} ELSE shared)
    BY <1>5 DEF ReadCode
  <2> DEFINE q == [pc |-> "check", row |-> i, attempts |-> otps[i].attempts,
                   right |-> code = i, ref |-> ref]
  <2>2. UNCHANGED <<otps, user, wrong, invited, losses>>
    BY <1>5 DEF ReadCode
  <2>3. otps[i] \in Row /\ i \in 0..MaxCodes /\ i \in DOMAIN otps
    BY LenProperties, ElementOfSeq, SignInAssumption DEF TypeOK, LiveCodes
  <2>4. Sound(q)
    BY <2>1, <2>2, <2>3 DEF Sound, Request, PCs, Row
  <2> HIDE DEF q
  <2>5. /\ req' \in [Requests -> Request] /\ TryLeft'
        /\ \A d \in Requests : req'[d].pc \in {"send", "check"} => req'[d].row \in DOMAIN otps'
    BY <2>1, <2>2, <2>4, RequestMoved DEF q
  <2>6. shared' \subseteq DOMAIN otps
    BY <2>1, <2>3 DEF TypeOK
  <2> QED
    BY <2>2, <2>5, <2>6 DEF TypeOK, Request
<1>6. ASSUME NEW c \in Requests, Miss(c) PROVE TypeOK' /\ TryLeft'
  <2>1. req[c].row \in DOMAIN otps /\ req[c].attempts + 1 \in 0..MaxTries
    <3>1. At(c, "check")
      BY <1>6 DEF Miss
    <3>2. req[c].row \in DOMAIN otps /\ req[c].attempts \in 0..MaxTries
      BY <3>1 DEF TypeOK, At
    <3>3. req[c].attempts < MaxTries
      BY <3>1 DEF TryLeft
    <3> QED
      BY <3>2, <3>3, SignInAssumption
  <2>2. otps' \in Seq(Row) /\ Len(otps') = Len(otps) /\ DOMAIN otps' = DOMAIN otps
    BY <1>6, <2>1, RowWritten, RowsAreRows DEF Miss
  <2>3. wrong' \in Seq(Nat) /\ Len(wrong') = Len(wrong)
    <3>1. req[c].row \in 1..Len(wrong) /\ wrong[req[c].row] + 1 \in Nat
      BY <2>1, LenProperties, ElementOfSeq DEF TypeOK
    <3> QED
      BY <1>6, <3>1, ExceptSeq DEF TypeOK, Miss
  <2>4. req' = [req EXCEPT ![c] = NoRequest] /\ UNCHANGED <<user, shared, invited, losses>>
    BY <1>6 DEF Miss, Ends
  <2> QED
    BY <2>2, <2>3, <2>4, PlainIsSound, RequestMoved DEF TypeOK, Request
<1>7. ASSUME NEW c \in Requests, Hit(c) PROVE TypeOK' /\ TryLeft'
  <2> DEFINE q == [NoRequest EXCEPT !.pc = "enter", !.ref = req[c].ref]
  <2>1. req[c].row \in DOMAIN otps /\ req[c].ref \in BOOLEAN
    BY <1>7 DEF TypeOK, Hit, At
  <2>2. otps' \in Seq(Row) /\ Len(otps') = Len(otps) /\ DOMAIN otps' = DOMAIN otps
    BY <1>7, <2>1, RowWritten, RowsAreRows DEF Hit
  <2>3. req' = [req EXCEPT ![c] = q] /\ UNCHANGED <<user, history>>
    BY <1>7 DEF Hit
  <2>4. Sound(q)
    BY <2>1, RequestsTyped DEF Sound, NoRequest, Request, PCs
  <2> HIDE DEF q
  <2> QED
    BY <2>2, <2>3, <2>4, RequestMoved DEF TypeOK, Request, history
<1>8. ASSUME NEW c \in Requests, Enter(c) PROVE TypeOK' /\ TryLeft'
  <2>1. user \in User /\ invited \in BOOLEAN /\ req[c].ref \in BOOLEAN
    BY DEF TypeOK, User
  <2>2. user' \in User /\ invited' \in BOOLEAN
    <3>1. CASE user.exists
      BY <1>8, <2>1, <3>1 DEF Enter
    <3>2. CASE ~user.exists
      <4>1. /\ user' = [exists |-> TRUE, wallet |-> TRUE, verified |-> TRUE, referred |-> FALSE]
            /\ invited' = req[c].ref
        BY <1>8, <3>2 DEF Enter
      <4> QED
        BY <2>1, <4>1 DEF User
    <3> QED
      BY <3>1, <3>2
  <2>3. PICK q \in Request : q.pc \notin {"send", "check"} /\ req' = [req EXCEPT ![c] = q]
    <3>1. \/ req' = [req EXCEPT ![c] = NoRequest]
          \/ req' = [req EXCEPT ![c] = [NoRequest EXCEPT !.pc = "verify"]]
          \/ req' = [req EXCEPT ![c] = [NoRequest EXCEPT !.pc = "refer"]]
      BY <1>8 DEF Enter, Goes, Ends
    <3> QED
      BY <3>1, RequestsTyped DEF PCs
  <2> QED
    BY <1>8, <2>2, <2>3, AccountTyped DEF Enter
<1>9. ASSUME NEW c \in Requests, MarkVerified(c) \/ Refer(c) \/ AddWallet(c)
      PROVE  TypeOK' /\ TryLeft'
  <2>1. user \in User /\ invited \in BOOLEAN
    BY DEF TypeOK, User
  <2>2. user' \in User /\ invited' \in BOOLEAN
    BY <1>9, <2>1 DEF MarkVerified, Refer, AddWallet, User, history
  <2>3. req' = [req EXCEPT ![c] = NoRequest] /\ UNCHANGED <<otps, wrong, shared, losses>>
    BY <1>9 DEF MarkVerified, Refer, AddWallet, Ends, history
  <2> QED
    BY <2>2, <2>3, AccountTyped, RequestsTyped DEF NoRequest
<1>10. ASSUME NEW c \in Requests, AddMember(c) \/ Insert(c) PROVE TypeOK' /\ TryLeft'
  <2>1. user \in User /\ invited \in BOOLEAN
    BY DEF TypeOK, User
  <2>2. user' \in User /\ invited' \in BOOLEAN
    BY <1>10, <2>1 DEF AddMember, Insert, NoUser, User, history
  <2>3. PICK q \in Request : q.pc \notin {"send", "check"} /\ req' = [req EXCEPT ![c] = q]
    <3>1. \/ req' = [req EXCEPT ![c] = NoRequest]
          \/ req' = [req EXCEPT ![c] = [NoRequest EXCEPT !.pc = "insert"]]
          \/ req' = [req EXCEPT ![c] = [NoRequest EXCEPT !.pc = "wallet"]]
      BY <1>10 DEF AddMember, Insert, Goes, Ends
    <3> QED
      BY <3>1, RequestsTyped DEF PCs
  <2> QED
    BY <1>10, <2>2, <2>3, AccountTyped DEF AddMember, Insert, history
<1>11. ASSUME NEW c \in Requests, Die(c) PROVE TypeOK' /\ TryLeft'
  <2>1. /\ req' = [req EXCEPT ![c] = NoRequest] /\ Lose(req[c].pc)
        /\ UNCHANGED <<otps, user, wrong, shared, invited>>
    BY <1>11 DEF Die, Ends
  <2>2. losses' \in Seq(PCs) /\ Len(losses') <= MaxLosses
    BY <2>1, LossTyped DEF TypeOK
  <2> QED
    BY <2>1, <2>2, PlainIsSound, RequestMoved DEF TypeOK, Request
<1>12. CASE Tick
  BY <1>12, RowsAged DEF TypeOK, TryLeft, Tick, At, history
<1>13. CASE UNCHANGED vars
  BY <1>13 DEF TypeOK, TryLeft, At, vars, history
<1> QED
  <2>1. \A code \in 0..Len(otps) : code \in Nat
    OBVIOUS
  <2> QED
    BY <1>1, <1>2, <1>3, <1>4, <1>5, <1>6, <1>7, <1>8, <1>9, <1>10, <1>11, <1>12, <1>13, <2>1
       DEF Next, Verify, Proceed
-----------------------------------------------------------------------------
(* Ordered and CodesCounted *)

LEMMA CountsAreNumbers ==
    ASSUME TypeOK
    PROVE  /\ IsFiniteSet(Young) /\ IsFiniteSet(Creating)
           /\ Cardinality(Young) \in Nat /\ Cardinality(Creating) \in Nat
           /\ Cardinality(Requests) \in Nat
<1>1. DOMAIN otps = 1..Len(otps) /\ Len(otps) \in Nat
  BY LenProperties DEF TypeOK
<1>2. IsFiniteSet(DOMAIN otps)
  BY <1>1, FS_Interval
<1>3. Young \in SUBSET DOMAIN otps /\ Creating \in SUBSET Requests
  BY DEF Young, Creating
<1>4. IsFiniteSet(Young) /\ IsFiniteSet(Creating)
  BY <1>2, <1>3, FS_Subset, SignInAssumption
<1> QED
  BY <1>4, FS_CardinalityType, SignInAssumption

\* Neither more rows in their cooldown nor more requests about to create one.
LEMMA NoMoreCodes ==
    ASSUME TypeOK, CodesCounted, Young' \subseteq Young, Creating' \subseteq Creating
    PROVE  CodesCounted'
<1>1. /\ Cardinality(Young') \in Nat /\ Cardinality(Young') <= Cardinality(Young)
      /\ Cardinality(Creating') \in Nat /\ Cardinality(Creating') <= Cardinality(Creating)
  BY CountsAreNumbers, FS_Subset, FS_CardinalityType
<1> QED
  BY <1>1, CountsAreNumbers DEF CodesCounted

LEMMA NotCreating ==
    ASSUME TypeOK, NEW c \in Requests, NEW q, q.pc # "create", req' = [req EXCEPT ![c] = q]
    PROVE  Creating' \subseteq Creating
BY DEF TypeOK, Creating, At

LEMMA CodesStep ==
    ASSUME TypeOK, TypeOK', Ordered, CodesCounted, [Next]_vars
    PROVE  Ordered' /\ CodesCounted'
<1>0. DOMAIN otps = 1..Len(otps) /\ Len(otps) \in Nat /\ \A i \in DOMAIN otps : otps[i] \in Row
  BY LenProperties, ElementOfSeq DEF TypeOK
<1>1. ASSUME NEW c \in Requests, Ask(c) PROVE Ordered' /\ CodesCounted'
  <2>1. UNCHANGED otps
    BY <1>1 DEF Ask
  <2>2. Young = {}
    <3> SUFFICES ASSUME NEW i \in DOMAIN otps, otps[i].age < Cooldown PROVE FALSE
      BY DEF Young
    <3>1. otps # <<>> /\ Len(otps) \in DOMAIN otps
      BY <1>0, EmptySeq DEF TypeOK
    <3>2. otps[Len(otps)].age <= otps[i].age
      BY <1>0, <3>1 DEF Ordered, Row
    <3>3. otps[Len(otps)].age < Cooldown
      BY <1>0, <3>1, <3>2, SignInAssumption DEF Row, Expired
    <3> QED
      BY <1>1, <3>1, <3>3 DEF Ask, Cooling
  <2>3. Young' = {} /\ Creating' \in SUBSET Requests
    BY <2>1, <2>2 DEF Young, Creating
  <2>4. Cardinality(Young') = 0 /\ Cardinality(Creating') <= Cardinality(Requests)
    BY <2>3, FS_EmptySet, FS_Subset, SignInAssumption
  <2> QED
    BY <2>1, <2>4, CountsAreNumbers, FS_CardinalityType, FS_Subset, <2>3, SignInAssumption
       DEF Ordered, CodesCounted
<1>2. ASSUME NEW c \in Requests, CreateCode(c) PROVE Ordered' /\ CodesCounted'
  <2> DEFINE n == Len(otps) + 1
  <2>1. /\ DOMAIN otps' = 1..n /\ otps'[n].age = 0
        /\ \A j \in DOMAIN otps : otps'[j] = otps[j]
    BY <1>2, RowCreated
  <2>2. Ordered'
    BY <1>0, <2>1 DEF Ordered, Row
  <2>3. Young' = Young \cup {n} /\ n \notin Young
    BY <1>0, <2>1, SignInAssumption DEF Young
  <2>4. Creating' = Creating \ {c} /\ c \in Creating
    BY <1>2 DEF CreateCode, Creating, At, NoRequest, TypeOK
  <2>5. /\ Cardinality(Young') = Cardinality(Young) + 1
        /\ Cardinality(Creating') = Cardinality(Creating) - 1
    BY <2>3, <2>4, CountsAreNumbers, FS_AddElement, FS_RemoveElement
  <2> QED
    BY <2>2, <2>5, CountsAreNumbers DEF CodesCounted
<1>3. ASSUME NEW i \in DOMAIN otps, NEW row \in Row, row.age = otps[i].age,
             otps' = [otps EXCEPT ![i] = row], Creating' \subseteq Creating
      PROVE  Ordered' /\ CodesCounted'
  <2>1. DOMAIN otps' = DOMAIN otps /\ \A j \in DOMAIN otps : otps'[j].age = otps[j].age
    BY <1>3, RowWritten
  <2>2. Young' = Young
    BY <2>1 DEF Young
  <2> QED
    BY <1>3, <2>1, <2>2, NoMoreCodes DEF Ordered
<1>4. ASSUME NEW c \in Requests, Send(c) \/ Miss(c) \/ Hit(c) PROVE Ordered' /\ CodesCounted'
  <2>1. Creating' \subseteq Creating
    <3>1. \/ req' = [req EXCEPT ![c] = NoRequest]
          \/ req' = [req EXCEPT ![c] = [NoRequest EXCEPT !.pc = "enter", !.ref = req[c].ref]]
      BY <1>4 DEF Send, Miss, Hit, Ends
    <3>2. NoRequest.pc # "create" /\ [NoRequest EXCEPT !.pc = "enter", !.ref = req[c].ref].pc # "create"
      BY DEF NoRequest
    <3> QED
      BY <3>1, <3>2, NotCreating
  <2>2. req[c].row \in DOMAIN otps
    BY <1>4 DEF TypeOK, Send, Miss, Hit, At
  <2>3. PICK row \in Row : /\ row.age = otps[req[c].row].age
                           /\ otps' = [otps EXCEPT ![req[c].row] = row]
    <3>1. CASE Send(c)
      <4>1. otps' = [otps EXCEPT ![req[c].row] = [otps[req[c].row] EXCEPT !.sent = TRUE]]
        BY <3>1 DEF Send
      <4>2. [otps[req[c].row] EXCEPT !.sent = TRUE].age = otps[req[c].row].age
        BY <1>0, <2>2 DEF Row
      <4> QED
        BY <2>2, <4>1, <4>2, RowsAreRows
    <3>2. CASE Miss(c)
      <4>1. otps'[req[c].row] \in Row
        BY <2>2, <3>2, LenProperties, ElementOfSeq DEF TypeOK, Miss
      <4> QED
        BY <3>2, <2>2, <1>0, <4>1 DEF Miss, Row
    <3>3. CASE Hit(c)
      <4>1. otps' = [otps EXCEPT ![req[c].row] = [otps[req[c].row] EXCEPT !.used = TRUE]]
        BY <3>3 DEF Hit
      <4>2. [otps[req[c].row] EXCEPT !.used = TRUE].age = otps[req[c].row].age
        BY <1>0, <2>2 DEF Row
      <4> QED
        BY <2>2, <4>1, <4>2, RowsAreRows
    <3> QED
      BY <1>4, <3>1, <3>2, <3>3
  <2> QED
    BY <1>3, <2>1, <2>2, <2>3
<1>5. CASE Tick
  <2>1. /\ DOMAIN otps' = DOMAIN otps
        /\ \A j \in DOMAIN otps : otps'[j].age = IF otps[j].age < Expired THEN otps[j].age + 1
                                                                          ELSE otps[j].age
    BY <1>0, <1>5, RowsAged DEF Row
  <2>2. \A j \in DOMAIN otps : otps[j].age \in 0..Expired
    BY <1>0 DEF Row
  <2>3. Ordered'
    BY <1>0, <2>1, <2>2, SignInAssumption DEF Ordered, Expired
  <2>4. Young' \subseteq Young
    BY <2>1, <2>2, SignInAssumption DEF Young, Expired
  <2>5. Creating' = Creating
    BY <1>5 DEF Tick, Creating, At
  <2> QED
    BY <2>3, <2>4, <2>5, NoMoreCodes
<1>6. ASSUME UNCHANGED otps, Creating' \subseteq Creating PROVE Ordered' /\ CodesCounted'
  <2>1. Young' = Young
    BY <1>6 DEF Young
  <2> QED
    BY <1>6, <2>1, NoMoreCodes DEF Ordered
<1>7. ASSUME NEW c \in Requests,
             \/ SendFails(c) \/ Enter(c) \/ MarkVerified(c) \/ Refer(c) \/ AddMember(c)
             \/ Insert(c) \/ AddWallet(c) \/ Die(c) \/ (\E code \in Nat, ref \in BOOLEAN : ReadCode(c, code, ref))
      PROVE  Ordered' /\ CodesCounted'
  <2>1. UNCHANGED otps
    BY <1>7 DEF SendFails, Enter, MarkVerified, Refer, AddMember, Insert, AddWallet, Die, ReadCode
  <2>2. req' = [req EXCEPT ![c] = req'[c]] /\ req'[c].pc # "create"
    <3>1. req \in [Requests -> Request]
      BY DEF TypeOK, Request
    <3> QED
      BY <1>7, <3>1 DEF SendFails, Enter, MarkVerified, Refer, AddMember, Insert, AddWallet, Die,
                        ReadCode, Goes, Ends, NoRequest
  <2>3. Creating' \subseteq Creating
    BY <2>2 DEF Creating, At, TypeOK
  <2> QED
    BY <1>6, <2>1, <2>3
<1>8. CASE UNCHANGED vars
  BY <1>6, <1>8 DEF vars, Creating, At
<1> QED
  BY <1>1, <1>2, <1>4, <1>5, <1>7, <1>8 DEF Next, Verify, Proceed
-----------------------------------------------------------------------------
(* TriesRead *)

\* A row whose two counts are as they were, read by no request that did not before.
LEMMA TriesStay ==
    ASSUME TypeOK, TriesRead, shared' = shared, wrong' = wrong, DOMAIN otps' = DOMAIN otps,
           \A i \in DOMAIN otps : otps'[i].attempts = otps[i].attempts,
           \A d \in Requests : req'[d].pc = "check" => req'[d] = req[d]
    PROVE  TriesRead'
BY DEF TriesRead, Checks, At

\* A request that leaves, or goes on to another statement than "check".
LEMMA NotChecking ==
    ASSUME TypeOK, NEW c \in Requests, NEW q, q.pc # "check", req' = [req EXCEPT ![c] = q]
    PROVE  \A d \in Requests : req'[d].pc = "check" => d # c /\ req'[d] = req[d]
BY DEF TypeOK

LEMMA TriesStep ==
    ASSUME TypeOK, TypeOK', TriesRead, [Next]_vars
    PROVE  TriesRead'
<1>0. DOMAIN otps = 1..Len(otps) /\ DOMAIN wrong = 1..Len(otps) /\ \A i \in DOMAIN otps : otps[i] \in Row
  BY LenProperties, ElementOfSeq DEF TypeOK
<1>1. ASSUME NEW c \in Requests, CreateCode(c) PROVE TriesRead'
  <2>1. /\ DOMAIN otps' = 1..Len(otps) + 1 /\ DOMAIN otps = 1..Len(otps) /\ Len(otps) \in Nat
        /\ \A j \in DOMAIN otps : otps'[j] = otps[j] /\ wrong'[j] = wrong[j]
        /\ otps'[Len(otps) + 1].attempts = 0 /\ wrong'[Len(otps) + 1] = 0
    <3>1. Len(otps) \in Nat
      BY LenProperties DEF TypeOK
    <3>2. /\ DOMAIN otps = 1..Len(otps) /\ DOMAIN otps' = 1..Len(otps) + 1
          /\ \A j \in DOMAIN otps : otps'[j] = otps[j] /\ wrong'[j] = wrong[j]
          /\ otps'[Len(otps) + 1] = [age |-> 0, used |-> FALSE, attempts |-> 0, sent |-> FALSE]
          /\ wrong'[Len(otps) + 1] = 0
      BY <1>1, RowCreated
    <3> QED
      BY <3>1, <3>2
  <2>2. \A d \in Requests : req'[d].pc = "check" => req'[d] = req[d]
    BY <1>1 DEF CreateCode, NoRequest, TypeOK
  <2>3. shared' = shared
    BY <1>1 DEF CreateCode
  <2>4. \A d \in Requests : req'[d].pc = "check" => req'[d].row \in DOMAIN otps
    BY <2>2 DEF TypeOK
  <2>5. ASSUME NEW i \in DOMAIN otps' \ shared'
        PROVE  /\ wrong'[i] = otps'[i].attempts
               /\ \A d \in Requests : Checks(d, i)' => req'[d].attempts = otps'[i].attempts
               /\ \A d, e \in Requests : Checks(d, i)' /\ Checks(e, i)' => d = e
    <3>1. CASE i \in DOMAIN otps
      BY <2>1, <2>2, <2>3, <3>1 DEF TriesRead, Checks, At
    <3>2. CASE i = Len(otps) + 1
      BY <2>1, <2>4, <3>2 DEF Checks, At
    <3> QED
      BY <2>1, <3>1, <3>2
  <2> QED
    BY <2>5 DEF TriesRead
<1>2. ASSUME NEW c \in Requests, NEW code \in Nat, NEW ref \in BOOLEAN, ReadCode(c, code, ref)
      PROVE  TriesRead'
  <2>1. PICK i \in LiveCodes :
          /\ req' = [req EXCEPT ![c] = [pc |-> "check", row |-> i, attempts |-> otps[i].attempts,
                                        right |-> code = i, ref |-> ref]]
          /\ shared' = (IF \E d \in Others(c) : At(d, "check") /\ req[d].row = i
                        THEN shared \cup {i} ELSE shared)
    BY <1>2 DEF ReadCode
  <2>2. UNCHANGED <<otps, wrong>> /\ At(c, "idle")
    BY <1>2 DEF ReadCode
  <2>3. /\ req'[c].row = i /\ req'[c].attempts = otps[i].attempts
        /\ \A d \in Requests \ {c} : req'[d] = req[d]
    BY <2>1 DEF TypeOK
  <2>4. ASSUME NEW k \in DOMAIN otps \ shared'
        PROVE  /\ \A d \in Requests : Checks(d, k)' => req'[d].attempts = otps[k].attempts
               /\ \A d, e \in Requests : Checks(d, k)' /\ Checks(e, k)' => d = e
    <3>1. k \notin shared
      BY <2>1
    <3>2. CASE k = i
      <4>1. \A d \in Requests \ {c} : ~Checks(d, k)
        BY <2>1, <3>2 DEF Others, Checks
      <4> QED
        BY <2>3, <3>2, <4>1 DEF Checks, At
    <3>3. CASE k # i
      BY <2>3, <3>1, <3>3 DEF TriesRead, Checks, At
    <3> QED
      BY <3>2, <3>3
  <2>5. \A k \in DOMAIN otps \ shared' : wrong[k] = otps[k].attempts
    BY <2>1 DEF TriesRead
  <2> QED
    BY <2>2, <2>4, <2>5 DEF TriesRead
<1>3. ASSUME NEW c \in Requests, Miss(c) PROVE TriesRead'
  <2> DEFINE r == req[c].row
  <2>1. /\ At(c, "check") /\ r \in DOMAIN otps /\ shared' = shared
        /\ otps' = [otps EXCEPT ![r].attempts = req[c].attempts + 1]
        /\ wrong' = [wrong EXCEPT ![r] = @ + 1]
        /\ req' = [req EXCEPT ![c] = NoRequest]
    BY <1>3 DEF Miss, Ends, TypeOK, At
  <2>2. \A d \in Requests : req'[d].pc = "check" => d # c /\ req'[d] = req[d]
    BY <2>1, RequestsTyped, NotChecking
  <2>3. /\ DOMAIN otps' = DOMAIN otps /\ DOMAIN wrong = DOMAIN otps
        /\ \A j \in DOMAIN otps : otps'[j].attempts = IF j = r THEN req[c].attempts + 1
                                                               ELSE otps[j].attempts
        /\ \A j \in DOMAIN otps : wrong'[j] = IF j = r THEN wrong[j] + 1 ELSE wrong[j]
    BY <1>0, <2>1 DEF Row
  <2>4. ASSUME NEW i \in DOMAIN otps \ shared
        PROVE  /\ wrong'[i] = otps'[i].attempts
               /\ \A d \in Requests : Checks(d, i)' => req'[d].attempts = otps'[i].attempts
               /\ \A d, e \in Requests : Checks(d, i)' /\ Checks(e, i)' => d = e
    <3>1. CASE i = r
      <4>1. Checks(c, i)
        BY <2>1, <3>1 DEF Checks
      <4>2. \A d \in Requests : ~Checks(d, i)'
        BY <2>2, <4>1 DEF TriesRead, Checks, At
      <4> QED
        BY <2>3, <3>1, <4>1, <4>2 DEF TriesRead
    <3>2. CASE i # r
      BY <2>2, <2>3, <3>2 DEF TriesRead, Checks, At
    <3> QED
      BY <3>1, <3>2
  <2> QED
    BY <2>1, <2>3, <2>4 DEF TriesRead
<1>4. ASSUME NEW c \in Requests, Send(c) \/ Hit(c) PROVE TriesRead'
  <2>1. req[c].row \in DOMAIN otps /\ UNCHANGED <<wrong, shared>>
    BY <1>4 DEF TypeOK, Send, Hit, At, history
  <2>2. DOMAIN otps' = DOMAIN otps /\ \A i \in DOMAIN otps : otps'[i].attempts = otps[i].attempts
    BY <1>0, <1>4, <2>1 DEF Send, Hit, Row
  <2>3. \/ req' = [req EXCEPT ![c] = NoRequest]
        \/ req' = [req EXCEPT ![c] = [NoRequest EXCEPT !.pc = "enter", !.ref = req[c].ref]]
    BY <1>4 DEF Send, Hit, Ends
  <2>4. NoRequest.pc # "check" /\ [NoRequest EXCEPT !.pc = "enter", !.ref = req[c].ref].pc # "check"
    BY DEF NoRequest
  <2> QED
    BY <2>1, <2>2, <2>3, <2>4, NotChecking, TriesStay
<1>5. ASSUME NEW c \in Requests,
             \/ Ask(c) \/ SendFails(c) \/ Enter(c) \/ MarkVerified(c) \/ Refer(c) \/ AddMember(c)
             \/ Insert(c) \/ AddWallet(c) \/ Die(c)
      PROVE  TriesRead'
  <2>1. UNCHANGED <<otps, wrong, shared>>
    BY <1>5
       DEF Ask, SendFails, Enter, MarkVerified, Refer, AddMember, Insert, AddWallet, Die,
           history
  <2>2. req' = [req EXCEPT ![c] = req'[c]] /\ req'[c].pc # "check"
    <3>1. req \in [Requests -> Request]
      BY DEF TypeOK, Request
    <3> QED
      BY <1>5, <3>1 DEF Ask, SendFails, Enter, MarkVerified, Refer, AddMember, Insert, AddWallet,
                        Die, Goes, Ends, NoRequest
  <2> QED
    BY <2>1, <2>2, NotChecking, TriesStay
<1>6. CASE Tick
  <2>1. DOMAIN otps' = DOMAIN otps /\ \A i \in DOMAIN otps : otps'[i].attempts = otps[i].attempts
    BY <1>0, <1>6, RowsAged DEF Row
  <2> QED
    BY <1>6, <2>1, TriesStay DEF Tick, history
<1>7. CASE UNCHANGED vars
  BY <1>7, TriesStay DEF vars, history
<1> QED
  BY <1>1, <1>2, <1>3, <1>4, <1>5, <1>6, <1>7 DEF Next, Verify, Proceed

-----------------------------------------------------------------------------
(* HasWallet, InvitedExists and InvitedIsReferred *)

\* What is still to be written at pc: by a request that is there, or not at all.
Pending(pc) == Lost(pc) \/ \E c \in Requests : At(c, pc)

LEMMA PendingStays ==
    ASSUME TypeOK, losses' = losses, NEW pc, Pending(pc),
           NEW c \in Requests, ~At(c, pc), \A d \in Requests \ {c} : req'[d] = req[d]
    PROVE  Pending(pc)'
BY DEF Pending, Lost, At

LEMMA LossStays ==
    ASSUME TypeOK, NEW pc, Pending(pc), NEW c \in Requests, Lose(req[c].pc),
           \A d \in Requests \ {c} : req'[d] = req[d]
    PROVE  Pending(pc)'
<1>1. /\ losses \in Seq(PCs) /\ losses' = Append(losses, req[c].pc)
      /\ DOMAIN losses = 1..Len(losses) /\ Len(losses) \in Nat
  BY LenProperties DEF TypeOK, Lose
<1>2. req[c].pc \in PCs
  BY DEF TypeOK
<1>3. /\ losses' \in Seq(PCs) /\ Len(losses') = Len(losses) + 1
      /\ \A k \in 1..Len(losses) : losses'[k] = losses[k]
      /\ losses'[Len(losses) + 1] = req[c].pc
  BY <1>1, <1>2, AppendProperties
<1>4. DOMAIN losses' = 1..Len(losses) + 1
  BY <1>3, LenProperties
<1>5. CASE Lost(pc)
  BY <1>1, <1>3, <1>4, <1>5 DEF Pending, Lost
<1>6. CASE At(c, pc)
  BY <1>1, <1>3, <1>4, <1>6 DEF Pending, Lost, At
<1>7. CASE \E d \in Requests \ {c} : At(d, pc)
  BY <1>7 DEF Pending, At
<1> QED
  BY <1>5, <1>6, <1>7 DEF Pending

Account == HasWallet /\ InvitedExists /\ InvitedIsReferred

\* A step that leaves the account, and what is still to be written, as they were.
LEMMA AccountStays ==
    ASSUME Account, UNCHANGED <<user, invited>>,
           Pending("wallet") => Pending("wallet")', Pending("refer") => Pending("refer")'
    PROVE  Account'
BY DEF Account, HasWallet, InvitedExists, InvitedIsReferred, Pending

LEMMA AccountStep ==
    ASSUME TypeOK, Account, [Next]_vars
    PROVE  Account'
<1>0. /\ req \in [Requests -> Request]
      /\ user \in User
  BY DEF TypeOK, Request, User
<1>1. ASSUME NEW c \in Requests,
             \/ Ask(c) \/ CreateCode(c) \/ Send(c) \/ Miss(c) \/ Hit(c) \/ AddMember(c)
             \/ (\E code \in Nat, ref \in BOOLEAN : ReadCode(c, code, ref))
      PROVE  Account'
  <2>1. /\ UNCHANGED <<user, invited, losses>>
        /\ ~At(c, "wallet") /\ ~At(c, "refer")
    BY <1>1 DEF Ask, CreateCode, Send, Miss, Hit, AddMember, ReadCode, At, history
  <2>2. \A d \in Requests \ {c} : req'[d] = req[d]
    BY <1>0, <1>1 DEF Ask, CreateCode, Send, Miss, Hit, AddMember, ReadCode, Goes, Ends
  <2> QED
    BY <2>1, <2>2, PendingStays, AccountStays
<1>2. ASSUME NEW c \in Requests, SendFails(c) \/ Die(c) PROVE Account'
  <2>1. UNCHANGED <<user, invited>> /\ Lose(req[c].pc)
    BY <1>2 DEF SendFails, Die, At
  <2>2. \A d \in Requests \ {c} : req'[d] = req[d]
    BY <1>0, <1>2 DEF SendFails, Die, Ends
  <2> QED
    BY <2>1, <2>2, LossStays, AccountStays
<1>3. ASSUME NEW c \in Requests, Enter(c) PROVE Account'
  <2>1. /\ losses' = losses /\ ~At(c, "wallet") /\ ~At(c, "refer")
        /\ \A d \in Requests \ {c} : req'[d] = req[d]
    BY <1>0, <1>3 DEF Enter, At, Goes, Ends
  <2>2. CASE user.exists
    BY <1>3, <2>1, <2>2, PendingStays, AccountStays DEF Enter
  <2>3. CASE ~user.exists
    <3>1. /\ user' = [exists |-> TRUE, wallet |-> TRUE, verified |-> TRUE, referred |-> FALSE]
          /\ invited' = req[c].ref
          /\ req[c].ref => req'[c].pc = "refer"
      BY <1>0, <1>3, <2>3 DEF Enter, Goes, NoRequest
    <3> QED
      BY <3>1 DEF Account, HasWallet, InvitedExists, InvitedIsReferred, At
  <2> QED
    BY <2>2, <2>3
<1>4. ASSUME NEW c \in Requests, MarkVerified(c) PROVE Account'
  <2>1. /\ UNCHANGED <<losses, invited>> /\ ~At(c, "wallet") /\ ~At(c, "refer")
        /\ \A d \in Requests \ {c} : req'[d] = req[d]
    BY <1>0, <1>4 DEF MarkVerified, At, Ends, history
  <2>2. /\ user'.exists = user.exists /\ user'.wallet = user.wallet
        /\ user'.referred = user.referred
    BY <1>0, <1>4 DEF MarkVerified, User
  <2>3. /\ Pending("wallet") => Pending("wallet")'
        /\ Pending("refer") => Pending("refer")'
    BY <2>1, PendingStays
  <2> QED
    BY <2>1, <2>2, <2>3 DEF Account, HasWallet, InvitedExists, InvitedIsReferred, Pending
<1>5. ASSUME NEW c \in Requests, Refer(c) PROVE Account'
  <2>1. /\ UNCHANGED <<losses, invited>> /\ ~At(c, "wallet")
        /\ \A d \in Requests \ {c} : req'[d] = req[d]
    BY <1>0, <1>5 DEF Refer, At, Ends, history
  <2>2. user'.exists = user.exists /\ user'.wallet = user.wallet /\ user'.referred
    BY <1>0, <1>5 DEF Refer, User
  <2>3. Pending("wallet") => Pending("wallet")'
    BY <2>1, PendingStays
  <2> QED
    BY <2>1, <2>2, <2>3 DEF Account, HasWallet, InvitedExists, InvitedIsReferred, Pending
<1>6. ASSUME NEW c \in Requests, Insert(c) PROVE Account'
  <2>1. /\ UNCHANGED <<losses, invited>> /\ ~At(c, "wallet") /\ ~At(c, "refer")
        /\ \A d \in Requests \ {c} : req'[d] = req[d]
    BY <1>0, <1>6 DEF Insert, At, Goes, Ends, history
  <2>2. CASE user.exists
    BY <1>6, <2>1, <2>2, PendingStays, AccountStays DEF Insert
  <2>3. CASE ~user.exists
    <3>1. user'.exists /\ req'[c].pc = "wallet"
      <4>1. /\ user' = [NoUser EXCEPT !.exists = TRUE, !.verified = TRUE]
            /\ req' = [req EXCEPT ![c] = [NoRequest EXCEPT !.pc = "wallet"]]
        BY <1>6, <2>3 DEF Insert, Goes
      <4> QED
        BY <1>0, <4>1 DEF NoUser, NoRequest
    <3>2. ~invited
      BY <2>3 DEF Account, InvitedExists
    <3> QED
      BY <2>1, <3>1, <3>2 DEF Account, HasWallet, InvitedExists, InvitedIsReferred, At
  <2> QED
    BY <2>2, <2>3
<1>7. ASSUME NEW c \in Requests, AddWallet(c) PROVE Account'
  <2>1. /\ UNCHANGED <<losses, invited>> /\ ~At(c, "refer")
        /\ \A d \in Requests \ {c} : req'[d] = req[d]
    BY <1>0, <1>7 DEF AddWallet, At, Ends, history
  <2>2. user'.exists = user.exists /\ user'.wallet /\ user'.referred = user.referred
    BY <1>0, <1>7 DEF AddWallet, User
  <2>3. Pending("refer") => Pending("refer")'
    BY <2>1, PendingStays
  <2> QED
    BY <2>1, <2>2, <2>3 DEF Account, HasWallet, InvitedExists, InvitedIsReferred, Pending
<1>8. CASE Tick \/ UNCHANGED vars
  <2>1. UNCHANGED <<user, req, invited, losses>>
    BY <1>8 DEF Tick, vars, history
  <2> QED
    BY <2>1, AccountStays DEF Pending, Lost, At
<1> QED
  BY <1>1, <1>2, <1>3, <1>4, <1>5, <1>6, <1>7, <1>8 DEF Next, Verify, Proceed

-----------------------------------------------------------------------------
(* The theorems *)

LEMMA InitIInv == ASSUME Init PROVE IInv
<1>1. /\ otps = <<>> /\ wrong = <<>> /\ losses = <<>> /\ shared = {} /\ invited = FALSE
      /\ (user.exists => user.wallet) /\ user \in User
      /\ (\A c \in Requests : req[c] = NoRequest) /\ req \in [Requests -> Request]
  <2>1. PICK there \in BOOLEAN :
          user = [exists |-> there, wallet |-> there, verified |-> FALSE, referred |-> FALSE]
    BY DEF Init
  <2>2. (user.exists => user.wallet) /\ user \in User
    BY <2>1 DEF User
  <2> QED
    BY <2>2, RequestsTyped DEF Init
<1>2. TypeOK
  <2>1. /\ otps \in Seq(Row) /\ Len(otps) = 0 /\ wrong \in Seq(Nat) /\ Len(wrong) = 0
        /\ losses \in Seq(PCs) /\ Len(losses) = 0 /\ shared \subseteq DOMAIN otps
    BY <1>1
  <2>2. \A c \in Requests : req[c].pc = "idle"
    BY <1>1, RequestsTyped
  <2>3. Len(otps) <= MaxCodes /\ Len(losses) <= MaxLosses
    BY <2>1, SignInAssumption
  <2>4. \A c \in Requests : req[c].pc \in {"send", "check"} => req[c].row \in DOMAIN otps
    BY <2>2
  <2> QED
    BY <1>1, <2>1, <2>3, <2>4 DEF TypeOK, User, Request
<1>3. \A c \in Requests : At(c, "idle")
  BY <1>1, RequestsTyped DEF At
<1>4. DOMAIN otps = {}
  BY <1>1
<1>5. TryLeft /\ Ordered /\ TriesRead
  BY <1>3, <1>4 DEF TryLeft, Ordered, TriesRead, At
<1>6. CodesCounted
  <2>1. Young = {} /\ Creating = {}
    BY <1>3, <1>4 DEF Young, Creating, At
  <2> QED
    BY <1>2, <2>1, CountsAreNumbers, FS_EmptySet DEF CodesCounted
<1>7. HasWallet /\ InvitedExists /\ InvitedIsReferred
  BY <1>1 DEF HasWallet, InvitedExists, InvitedIsReferred
<1> QED
  BY <1>2, <1>5, <1>6, <1>7 DEF IInv

\* The strengthening holds in every state, for all the actions of SignIn.
THEOREM SignInInvariant == Spec => []IInv
<1>1. Init => IInv
  BY InitIInv
<1>2. IInv /\ [Next]_vars => IInv'
  <2> SUFFICES ASSUME IInv, [Next]_vars PROVE IInv'
    OBVIOUS
  <2>1. TypeOK' /\ TryLeft'
    BY TypeStep DEF IInv
  <2>2. Ordered' /\ CodesCounted'
    BY <2>1, CodesStep DEF IInv
  <2>3. TriesRead'
    BY <2>1, TriesStep DEF IInv
  <2>4. Account'
    BY AccountStep DEF IInv, Account
  <2> QED
    BY <2>1, <2>2, <2>3, <2>4 DEF IInv, Account
<1> QED
  BY <1>1, <1>2, PTL DEF Spec

\* However requests interleave, attempts stays within OTP_MAX_VERIFY_ATTEMPTS and a
\* request works on a row that exists (services.py, verify_otp).
THEOREM SignInTyped == Spec => []TypeOK
<1>1. IInv => TypeOK
  BY DEF IInv
<1> QED
  BY <1>1, SignInInvariant, PTL

\* Within one cooldown a number gets at most as many codes as requests are handled at
\* once, whatever the cooldown is (services.py, generate_and_send_otp).
THEOREM CodesAreBounded == Spec => []CodesBounded
<1>1. IInv => CodesBounded
  BY CountsAreNumbers DEF IInv, CodesCounted, CodesBounded, Young
<1> QED
  BY <1>1, SignInInvariant, PTL

\* A row verified by one request at a time counts every wrong code, and stands at most
\* OTP_MAX_VERIFY_ATTEMPTS of them (services.py, verify_otp).
THEOREM TriesAreCounted == Spec => []TriesCounted
<1>1. ASSUME IInv PROVE TriesCounted
  <2>1. otps \in Seq(Row) /\ TriesRead
    BY <1>1 DEF IInv, TypeOK
  <2>2. \A i \in DOMAIN otps : otps[i] \in Row
    BY <2>1, LenProperties, ElementOfSeq
  <2> QED
    BY <2>1, <2>2, SignInAssumption DEF TriesRead, TriesCounted, Row
<1> QED
  BY <1>1, SignInInvariant, PTL

\* Nobody has an account without a wallet but a member whose creation is still under
\* way or ended between its two statements (orders/views.py, create_delivery_member).
THEOREM WalletIsThere == Spec => []HasWallet
<1>1. IInv => HasWallet
  BY DEF IInv
<1> QED
  BY <1>1, SignInInvariant, PTL

\* Whoever was invited has his referrer, unless the request that created the account
\* has not come to it or died before it (accounts/views.py).
THEOREM InvitedStaysReferred == Spec => []InvitedIsReferred
<1>1. IInv => InvitedIsReferred
  BY DEF IInv
<1> QED
  BY <1>1, SignInInvariant, PTL

-----------------------------------------------------------------------------
(* Codes on their way *)

Unsent == {i \in DOMAIN otps : ~otps[i].sent}
Sending == {c \in Requests : At(c, "send")}

\* A request hands its own code to the broker, nobody else's.
SendsOwn == \A c \in Sending :
    /\ ~otps[req[c].row].sent
    /\ \A d \in Sending : req[d].row = req[c].row => d = c

\* Every code that was not handed over is being handed over, or cost a loss.
CodesKept == Cardinality(Unsent) <= Cardinality(Sending) + Len(losses)

SendInv == SendsOwn /\ CodesKept

LEMMA UnsentIsFinite ==
    ASSUME TypeOK
    PROVE  /\ IsFiniteSet(Unsent) /\ IsFiniteSet(Sending)
           /\ Cardinality(Unsent) \in Nat /\ Cardinality(Sending) \in Nat
           /\ Len(losses) \in Nat
           /\ DOMAIN otps = 1..Len(otps) /\ Len(otps) \in Nat
<1>1. DOMAIN otps = 1..Len(otps) /\ Len(otps) \in Nat /\ Len(losses) \in Nat
  BY LenProperties DEF TypeOK
<1>2. IsFiniteSet(DOMAIN otps) /\ Unsent \in SUBSET DOMAIN otps /\ Sending \in SUBSET Requests
  BY <1>1, FS_Interval DEF Unsent, Sending
<1> QED
  BY <1>1, <1>2, FS_Subset, FS_CardinalityType, SignInAssumption

\* A step that hands over no code, and starts no request on one.
LEMMA SendStays ==
    ASSUME TypeOK, SendInv, DOMAIN otps' = DOMAIN otps,
           \A i \in DOMAIN otps : otps'[i].sent = otps[i].sent,
           \A d \in Requests : At(d, "send") \/ At(d, "send")' => req'[d] = req[d],
           losses' = losses
    PROVE  SendInv'
<1>1. Unsent' = Unsent /\ Sending' = Sending
  BY DEF Unsent, Sending, At
<1>2. \A c \in Sending : req[c].row \in DOMAIN otps /\ req'[c] = req[c]
  BY DEF Sending, At, TypeOK
<1>3. SendsOwn'
  BY <1>1, <1>2 DEF SendInv, SendsOwn
<1> QED
  BY <1>1, <1>3 DEF SendInv, CodesKept

\* A request that dies, or that the broker refuses, costs one code at most.
LEMMA SendLost ==
    ASSUME TypeOK, SendInv, NEW c \in Requests, otps' = otps, NEW pc \in PCs, Lose(pc), Ends(c)
    PROVE  SendInv'
<1>1. /\ \A d \in Requests \ {c} : req'[d] = req[d]
      /\ req'[c].pc = "idle"
  BY DEF TypeOK, Ends, NoRequest
<1>2. Unsent' = Unsent /\ Sending' = Sending \ {c}
  BY <1>1 DEF Unsent, Sending, At
<1>3. Len(losses') = Len(losses) + 1
  BY AppendProperties DEF TypeOK, Lose
<1>4. Cardinality(Sending) <= Cardinality(Sending') + 1 /\ Cardinality(Sending') \in Nat
  <2>1. CASE c \in Sending
    <3>1. Cardinality(Sending \ {c}) = Cardinality(Sending) - 1
      BY <2>1, UnsentIsFinite, FS_RemoveElement
    <3>2. Cardinality(Sending \ {c}) \in Nat
      BY UnsentIsFinite, FS_RemoveElement, FS_CardinalityType
    <3> QED
      BY <1>2, <3>1, <3>2, UnsentIsFinite
  <2>2. CASE c \notin Sending
    <3>1. Sending' = Sending
      BY <1>2, <2>2
    <3> QED
      BY <3>1, UnsentIsFinite
  <2> QED
    BY <2>1, <2>2
<1>5. CodesKept'
  BY <1>2, <1>3, <1>4, UnsentIsFinite DEF SendInv, CodesKept
<1>6. \A d \in Sending' : d \in Sending /\ req'[d] = req[d]
  BY <1>1, <1>2 DEF Sending
<1>7. SendsOwn'
  BY <1>6 DEF SendInv, SendsOwn
<1> QED
  BY <1>5, <1>7 DEF SendInv

LEMMA SendCreated ==
    ASSUME TypeOK, SendInv, NEW c \in Requests, CreateCode(c)
    PROVE  SendInv'
<1> DEFINE n == Len(otps) + 1
<1>1. /\ DOMAIN otps = 1..Len(otps) /\ Len(otps) \in Nat /\ DOMAIN otps' = 1..n
      /\ \A j \in DOMAIN otps : otps'[j] = otps[j]
      /\ ~otps'[n].sent
  BY RowCreated, UnsentIsFinite
<1>2. /\ req'[c].pc = "send" /\ req'[c].row = n /\ \A d \in Requests \ {c} : req'[d] = req[d]
      /\ At(c, "create") /\ losses' = losses
  <2>1. Len(otps') = n
    BY RowCreated
  <2> QED
    BY <2>1 DEF CreateCode, NoRequest, TypeOK
<1>3. Unsent' = Unsent \cup {n} /\ n \notin Unsent
  BY <1>1 DEF Unsent
<1>4. Sending' = Sending \cup {c} /\ c \notin Sending
  BY <1>2 DEF Sending, At
<1>5. /\ Cardinality(Unsent') = Cardinality(Unsent) + 1
      /\ Cardinality(Sending') = Cardinality(Sending) + 1
  BY <1>3, <1>4, UnsentIsFinite, FS_AddElement
<1>6. \A d \in Sending : req[d].row \in 1..Len(otps) /\ d # c
  BY <1>1, <1>4 DEF Sending, At, TypeOK
<1>7. ASSUME NEW d \in Sending'
      PROVE  /\ ~otps'[req'[d].row].sent
             /\ \A e \in Sending' : req'[e].row = req'[d].row => e = d
  <2>1. CASE d = c
    <3>1. ASSUME NEW e \in Sending', e # c PROVE req'[e].row \in 1..Len(otps)
      <4>1. e \in Sending /\ req'[e] = req[e]
        BY <1>2, <1>4, <3>1 DEF Sending
      <4> QED
        BY <1>6, <4>1
    <3>2. \A e \in Sending' : req'[e].row = n => e = c
      BY <1>1, <3>1
    <3> QED
      BY <1>1, <1>2, <2>1, <3>2
  <2>2. CASE d # c
    <3>1. d \in Sending /\ req'[d] = req[d] /\ d \in Requests
      BY <1>2, <1>4, <1>7, <2>2 DEF Sending
    <3>2. req[d].row \in 1..Len(otps) /\ ~otps'[req[d].row].sent
      BY <1>1, <1>6, <3>1 DEF SendInv, SendsOwn
    <3>3. ASSUME NEW e \in Sending', req'[e].row = req'[d].row PROVE e = d
      <4>1. e # c
        BY <1>1, <1>2, <3>1, <3>2, <3>3
      <4>2. e \in Sending /\ req'[e] = req[e]
        BY <1>2, <1>4, <3>3, <4>1 DEF Sending
      <4> QED
        BY <3>1, <3>3, <4>2 DEF SendInv, SendsOwn
    <3> QED
      BY <3>1, <3>2, <3>3
  <2> QED
    BY <2>1, <2>2
<1>8. SendsOwn'
  BY <1>7 DEF SendsOwn
<1> QED
  BY <1>2, <1>5, <1>8, UnsentIsFinite DEF SendInv, CodesKept

LEMMA SendSent ==
    ASSUME TypeOK, SendInv, NEW c \in Requests, Send(c)
    PROVE  SendInv'
<1> DEFINE i == req[c].row
<1>1. /\ At(c, "send") /\ i \in DOMAIN otps /\ losses' = losses
      /\ req'[c].pc = "idle" /\ \A d \in Requests \ {c} : req'[d] = req[d]
  BY DEF Send, At, Ends, NoRequest, TypeOK, history
<1>2. /\ DOMAIN otps' = DOMAIN otps /\ otps'[i].sent
      /\ \A j \in DOMAIN otps \ {i} : otps'[j] = otps[j]
  <2>1. /\ [otps[i] EXCEPT !.sent = TRUE] \in Row /\ [otps[i] EXCEPT !.sent = TRUE].sent
        /\ otps' = [otps EXCEPT ![i] = [otps[i] EXCEPT !.sent = TRUE]]
    <3>1. otps[i] \in Row
      BY <1>1, LenProperties, ElementOfSeq DEF TypeOK
    <3>2. otps' = [otps EXCEPT ![i] = [otps[i] EXCEPT !.sent = TRUE]]
      BY DEF Send
    <3> QED
      BY <3>1, <3>2 DEF Row
  <2> QED
    BY <1>1, <2>1, RowWritten
<1>3. c \in Sending /\ ~otps[i].sent /\ \A d \in Sending \ {c} : req[d].row # i
  BY <1>1 DEF Sending, SendInv, SendsOwn
<1>4. Unsent' = Unsent \ {i} /\ i \in Unsent
  BY <1>1, <1>2, <1>3 DEF Unsent
<1>5. Sending' = Sending \ {c}
  BY <1>1 DEF Sending, At
<1>6. /\ Cardinality(Unsent') = Cardinality(Unsent) - 1
      /\ Cardinality(Sending') = Cardinality(Sending) - 1
  <2>1. Cardinality(Unsent \ {i}) = Cardinality(Unsent) - 1
    BY <1>4, UnsentIsFinite, FS_RemoveElement
  <2>2. Cardinality(Sending \ {c}) = Cardinality(Sending) - 1
    BY <1>3, UnsentIsFinite, FS_RemoveElement
  <2> QED
    BY <1>4, <1>5, <2>1, <2>2
<1>7. \A d \in Sending' : /\ d \in Sending /\ req'[d] = req[d]
                          /\ req[d].row \in DOMAIN otps \ {i}
  BY <1>1, <1>3, <1>5 DEF Sending, At, TypeOK
<1>8. SendsOwn'
  <2> SUFFICES ASSUME NEW d \in Sending'
               PROVE  /\ ~otps'[req'[d].row].sent
                      /\ \A e \in Sending' : req'[e].row = req'[d].row => e = d
    BY DEF SendsOwn
  <2> QED
    BY <1>2, <1>7 DEF SendInv, SendsOwn
<1> QED
  BY <1>1, <1>6, <1>8, UnsentIsFinite DEF SendInv, CodesKept

LEMMA SendStep == ASSUME TypeOK, SendInv, [Next]_vars PROVE SendInv'
<1>0. /\ req \in [Requests -> Request] /\ \A i \in DOMAIN otps : otps[i] \in Row
  BY LenProperties, ElementOfSeq DEF TypeOK, Request
<1>1. ASSUME NEW c \in Requests, ~At(c, "send"), req'[c].pc # "send",
             \A d \in Requests \ {c} : req'[d] = req[d],
             DOMAIN otps' = DOMAIN otps, \A i \in DOMAIN otps : otps'[i].sent = otps[i].sent,
             losses' = losses
      PROVE  SendInv'
  <2>1. \A d \in Requests : At(d, "send") \/ At(d, "send")' => req'[d] = req[d]
    BY <1>1 DEF At
  <2> QED
    BY <1>1, <2>1, SendStays
<1>2. ASSUME NEW c \in Requests,
             \/ Ask(c) \/ Enter(c) \/ MarkVerified(c) \/ Refer(c) \/ AddMember(c)
             \/ Insert(c) \/ AddWallet(c) \/ (\E code \in Nat, ref \in BOOLEAN : ReadCode(c, code, ref))
      PROVE  SendInv'
  <2>1. otps' = otps /\ losses' = losses
    BY <1>2 DEF Ask, Enter, MarkVerified, Refer, AddMember, Insert, AddWallet, ReadCode, history
  <2>2. ~At(c, "send") /\ req'[c].pc # "send" /\ \A d \in Requests \ {c} : req'[d] = req[d]
    BY <1>0, <1>2 DEF Ask, Enter, MarkVerified, Refer, AddMember, Insert, AddWallet, ReadCode,
                      Goes, Ends, NoRequest, At
  <2> QED
    BY <1>1, <2>1, <2>2
<1>3. ASSUME NEW c \in Requests, Miss(c) \/ Hit(c) PROVE SendInv'
  <2>1. ~At(c, "send") /\ req'[c].pc # "send" /\ \A d \in Requests \ {c} : req'[d] = req[d]
    <3>1. NoRequest.pc = "idle" /\ [NoRequest EXCEPT !.pc = "enter", !.ref = req[c].ref].pc = "enter"
      BY DEF NoRequest
    <3> QED
      BY <1>0, <1>3, <3>1 DEF Miss, Hit, Ends, At
  <2>2. /\ DOMAIN otps' = DOMAIN otps /\ \A i \in DOMAIN otps : otps'[i].sent = otps[i].sent
        /\ losses' = losses
    BY <1>0, <1>3 DEF Miss, Hit, Row, history
  <2> QED
    BY <1>1, <2>1, <2>2
<1>4. CASE Tick
  <2>1. DOMAIN otps' = DOMAIN otps /\ \A i \in DOMAIN otps : otps'[i].sent = otps[i].sent
    BY <1>0, <1>4, RowsAged DEF Row
  <2> QED
    BY <1>4, <2>1, SendStays DEF Tick, history
<1>5. ASSUME NEW c \in Requests, SendFails(c) \/ Die(c) PROVE SendInv'
  <2>1. PICK pc \in PCs : Lose(pc)
    BY <1>0, <1>5 DEF SendFails, Die, Request, PCs
  <2> QED
    BY <1>5, <2>1, SendLost DEF SendFails, Die
<1>6. CASE UNCHANGED vars
  BY <1>6, SendStays DEF vars, history
<1> QED
  BY <1>2, <1>3, <1>4, <1>5, <1>6, SendCreated, SendSent DEF Next, Verify, Proceed

LEMMA SendInvariant == Spec => [](IInv /\ SendInv)
<1>1. Init => SendInv
  <2> SUFFICES ASSUME Init PROVE SendInv
    OBVIOUS
  <2>1. Unsent = {} /\ Sending = {} /\ Len(losses) = 0
    BY DEF Init, Unsent, Sending, At, NoRequest
  <2> QED
    BY <2>1, FS_EmptySet DEF SendInv, SendsOwn, CodesKept
<1>2. IInv /\ SendInv /\ [Next]_vars => SendInv'
  BY SendStep DEF IInv
<1>3. Spec => []SendInv
  BY <1>1, <1>2, SignInInvariant, PTL DEF Spec
<1> QED
  BY <1>3, SignInInvariant, PTL

\* However requests for codes overlap, each loss (a death, or a refusal of the broker)
\* keeps at most one message back, and every other row is sent or is being sent by the
\* request that created it (services.py, generate_and_send_otp).
THEOREM CodesAreKept == Spec => []CodesKept
<1>1. SendInv => CodesKept
  BY DEF SendInv
<1> QED
  BY <1>1, SendInvariant, PTL

\* What CodeArrives rests on: once more rows were created than there were losses and
\* than are on their way, a message went out.
THEOREM CodesGetThrough ==
    Spec => [](Len(otps) > Len(losses) + Cardinality(Sending) =>
                   \E i \in DOMAIN otps : otps[i].sent)
<1>1. IInv /\ SendInv => (Len(otps) > Len(losses) + Cardinality(Sending) =>
                              \E i \in DOMAIN otps : otps[i].sent)
  <2> SUFFICES ASSUME IInv, SendInv, \A i \in DOMAIN otps : ~otps[i].sent
               PROVE  Len(otps) <= Len(losses) + Cardinality(Sending)
    BY UnsentIsFinite DEF IInv
  <2>1. Unsent = 1..Len(otps) /\ Len(otps) \in Nat
    BY UnsentIsFinite DEF IInv, Unsent
  <2>2. Cardinality(Unsent) = Len(otps)
    BY SMTT(30), <2>1, FS_Interval
  <2> QED
    BY <2>1, <2>2, UnsentIsFinite DEF IInv, SendInv, CodesKept
<1> QED
  BY <1>1, SendInvariant, PTL
=============================================================================
