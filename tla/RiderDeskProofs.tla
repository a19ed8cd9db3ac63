--------------------------- MODULE RiderDeskProofs --------------------------
(***************************************************************************)
(* Proofs about RiderDesk, for every set of riders, orders, workers and    *)
(* places, and every TTL, throttle and lifetime of a request.              *)
(*                                                                         *)
(* That auto_assign saves a rider who was available rests on three clocks  *)
(* that run side by side: a key is not older than the silence of its rider *)
(* (KeysAreFresh), who is on duty now was off it 0 ticks ago (OnDutyNow),  *)
(* and a request's age bounds what its riders may have done since it read  *)
(* them (CandidatesOnDuty, LocatedReported).  That he is the nearest rests *)
(* on what such a request has read being still so until something moves    *)
(* (Unmoved).  The rows of a delivery are counted together with the        *)
(* requests about to write one (RowsAndDue), and a position of an order    *)
(* is never without a row, a ping on its way, or a lost one (Trailed).     *)
(***************************************************************************)
EXTENDS RiderDesk, SumFacts

KeysAreFresh == \A r \in Riders : Live(riderLoc[r]) => silent[r] <= riderLoc[r].age

OnDutyNow == \A r \in Riders : duty[r] => off[r] = 0

CandidatesOnDuty == \A w \in Workers : req[w].pc \in {"listed", "located"} =>
    \A r \in req[w].candidates : off[r] <= req[w].ticks

LocatedReported == \A w \in Workers : At(w, "located") =>
    \A r \in req[w].candidates : silent[r] < TTL + req[w].ticks

IInv == TypeOK /\ KeysAreFresh /\ OnDutyNow /\ CandidatesOnDuty /\ LocatedReported

Key == [at : Places, age : 0..(TTL - 1)] \cup {Gone}
Request == [pc : {"idle", "reported", "due", "toggle", "listed", "located"},
            order : Orders \cup {NoOne}, rider : Riders \cup {NoOne},
            on : BOOLEAN, candidates : SUBSET Riders,
            seen : [Riders -> Places \cup {Nowhere}],
            ticks : 0..Lifetime, moved : BOOLEAN]

\* TypeOK, but for the requests.
WorldOK == /\ riderLoc \in [Riders -> Key]
           /\ orderLoc \in [Orders -> Key]
           /\ rows \in [Orders -> [0..Old -> Nat]]
           /\ duty \in [Riders -> BOOLEAN]
           /\ rider \in [Orders -> Riders \cup {NoOne}]
           /\ silent \in [Riders -> 0..(TTL + Lifetime)]
           /\ off \in [Riders -> 0..(Lifetime + 1)]
           /\ lost \in [Orders -> BOOLEAN]

LEMMA TypeParts == TypeOK <=> WorldOK /\ req \in [Workers -> Request]
BY DEF TypeOK, WorldOK, Request, Key

-----------------------------------------------------------------------------
(* Requests *)

\* What a request and a later state of it have in common while it only may be stirred.
Same(p, q) == /\ p.pc = q.pc /\ p.candidates = q.candidates /\ p.ticks = q.ticks
              /\ p.order = q.order

LEMMA RequestMoves ==
    ASSUME req \in [Workers -> Request], NEW w \in Workers, NEW q \in Request, Goes(w, q)
    PROVE  /\ req' \in [Workers -> Request]
           /\ Same(req'[w], q)
           /\ \A v \in Workers \ {w} : Same(req'[v], req[v])
<1> DEFINE base(v) == IF v = w THEN q ELSE req[v]
           next(v) == IF base(v).pc \in {"listed", "located"} /\ Stirred
                      THEN [base(v) EXCEPT !.moved = TRUE] ELSE base(v)
<1>1. \A v \in Workers : base(v) \in Request
  OBVIOUS
<1>2. \A p \in Request : [p EXCEPT !.moved = TRUE] \in Request /\ Same([p EXCEPT !.moved = TRUE], p)
  BY DEF Request, Same
<1> HIDE DEF base
<1>3. \A v \in Workers : next(v) \in Request /\ Same(next(v), base(v))
  BY <1>1, <1>2 DEF Same
<1>4. req' = [v \in Workers |-> next(v)]
  BY DEF Goes, base
<1> HIDE DEF next
<1> QED
  BY <1>3, <1>4 DEF base

LEMMA Fresh ==
    /\ NoRequest \in Request /\ NoRequest.pc = "idle" /\ NoRequest.ticks = 0
    /\ Gone \in Key /\ \A p \in Places : Here(p) \in Key /\ Here(p).age = 0
    /\ ~Live(Gone) /\ \A k \in Key : Live(k) => k.at \in Places /\ k.age \in 0..(TTL - 1)
BY RiderAssumption DEF NoRequest, Request, Gone, Here, Key, Live

\* A step of requests that are, or go to be, neither listed nor located.
LEMMA OthersStay ==
    ASSUME CandidatesOnDuty, LocatedReported, NEW w \in Workers,
           req'[w].pc \notin {"listed", "located"},
           \A v \in Workers \ {w} : Same(req'[v], req[v]),
           req \in [Workers -> Request],
           \A r \in Riders : off'[r] <= off[r] /\ silent'[r] <= silent[r],
           WorldOK, WorldOK'
    PROVE  CandidatesOnDuty' /\ LocatedReported'
<1>1. ASSUME NEW v \in Workers, req'[v].pc \in {"listed", "located"}
      PROVE  /\ v # w /\ Same(req'[v], req[v]) /\ req[v].ticks \in 0..Lifetime
             /\ req[v].candidates \subseteq Riders
  BY <1>1 DEF Request
<1>2. /\ \A r \in Riders : off[r] \in Nat /\ off'[r] \in Nat
      /\ \A r \in Riders : silent[r] \in Nat /\ silent'[r] \in Nat
  BY RiderAssumption DEF WorldOK
<1>3. CandidatesOnDuty'
  BY <1>1, <1>2 DEF CandidatesOnDuty, Same
<1>4. LocatedReported'
  BY <1>1, <1>2, RiderAssumption DEF LocatedReported, At, Same
<1> QED
  BY <1>3, <1>4

-----------------------------------------------------------------------------
(* The phones *)

LEMMA ReportStep ==
    ASSUME IInv, NEW w \in Workers, NEW r \in Riders, NEW p \in Places,
           Report(w, r, p) \/ \E o \in Orders : PingOpen(w, r, o, p)
    PROVE  IInv'
<1>1. WorldOK /\ req \in [Workers -> Request]
  BY TypeParts DEF IInv
<1>2. /\ SetRider(r, p) /\ silent' = [silent EXCEPT ![r] = 0]
      /\ UNCHANGED <<rows, duty, rider, off, lost>>
  BY DEF Report, PingOpen
<1>3. orderLoc' \in [Orders -> Key]
  BY <1>1, Fresh DEF Report, PingOpen, SetOrder, WorldOK
<1>4. /\ riderLoc' \in [Riders -> Key]
      /\ \A x \in Riders : riderLoc'[x] = riderLoc[x] \/ (x = r /\ riderLoc'[x] = Here(p))
  BY <1>1, <1>2, Fresh DEF SetRider, WorldOK
<1>5. WorldOK'
  <2>1. 0 \in 0..(TTL + Lifetime)
    BY RiderAssumption
  <2>2. silent' \in [Riders -> 0..(TTL + Lifetime)]
    BY <1>1, <1>2, <2>1 DEF WorldOK
  <2> QED
    BY <1>1, <1>2, <1>3, <1>4, <2>2 DEF WorldOK
<1>6. PICK q \in Request : q.pc \notin {"listed", "located"} /\ Goes(w, q)
  <2>1. \A o \in Orders : /\ [NoRequest EXCEPT !.pc = "reported", !.order = o] \in Request
                          /\ [NoRequest EXCEPT !.pc = "reported", !.order = o].pc = "reported"
    BY Fresh DEF Request
  <2> QED
    BY <2>1, Fresh DEF Report, PingOpen
<1>7. /\ req' \in [Workers -> Request] /\ Same(req'[w], q)
      /\ \A v \in Workers \ {w} : Same(req'[v], req[v])
  BY <1>1, <1>6, RequestMoves
<1>8. \A x \in Riders : silent'[x] = IF x = r THEN 0 ELSE silent[x]
  BY <1>1, <1>2 DEF WorldOK
<1>9. KeysAreFresh'
  <2> SUFFICES ASSUME NEW x \in Riders, Live(riderLoc'[x]) PROVE silent'[x] <= riderLoc'[x].age
    BY DEF KeysAreFresh, Live
  <2>1. riderLoc'[x].age \in 0..(TTL - 1)
    BY <1>4, Fresh
  <2>2. CASE x = r
    BY <1>8, <2>1, <2>2, RiderAssumption
  <2>3. CASE x # r
    BY <1>4, <1>8, <2>3 DEF IInv, KeysAreFresh
  <2> QED
    BY <2>2, <2>3
<1>10. OnDutyNow'
  BY <1>2 DEF IInv, OnDutyNow
<1>11. CandidatesOnDuty' /\ LocatedReported'
  <2>1. \A x \in Riders : off'[x] <= off[x] /\ silent'[x] <= silent[x]
    BY <1>1, <1>2, <1>8, RiderAssumption DEF WorldOK
  <2> QED
    BY <1>1, <1>5, <1>6, <1>7, <2>1, OthersStay DEF IInv, Same
<1> QED
  BY <1>5, <1>7, <1>9, <1>10, <1>11 DEF IInv, TypeOK, WorldOK, Request, Key

-----------------------------------------------------------------------------
(* Requests that read, and those that write a row or an order *)

\* Neither positions nor duty change.
LEMMA QuietStep ==
    ASSUME IInv, NEW w \in Workers, NEW q \in Request, q.pc \notin {"listed", "located"},
           Goes(w, q), WorldOK', UNCHANGED <<riderLoc, duty, silent, off>>
    PROVE  IInv'
<1>1. WorldOK /\ req \in [Workers -> Request]
  BY TypeParts DEF IInv
<1>2. /\ req' \in [Workers -> Request] /\ Same(req'[w], q)
      /\ \A v \in Workers \ {w} : Same(req'[v], req[v])
  BY <1>1, RequestMoves
<1>3. KeysAreFresh' /\ OnDutyNow'
  BY DEF IInv, KeysAreFresh, OnDutyNow, Live
<1>4. \A x \in Riders : off'[x] <= off[x] /\ silent'[x] <= silent[x]
  BY <1>1, RiderAssumption DEF WorldOK
<1>5. CandidatesOnDuty' /\ LocatedReported'
  BY <1>1, <1>2, <1>4, OthersStay DEF IInv, Same
<1> QED
  BY <1>2, <1>3, <1>5 DEF IInv, TypeOK, WorldOK, Request, Key

LEMMA NearestIsCandidate ==
    ASSUME IInv, NEW w \in Workers, NEW r \in NearestOf(req[w])
    PROVE  r \in req[w].candidates /\ r \in Riders
BY DEF NearestOf, IInv, TypeOK

LEMMA RequestStep ==
    ASSUME IInv, NEW w \in Workers,
           \/ PingLast(w) \/ PingInsert(w) \/ (\E r \in Riders : ToggleOpen(w, r))
           \/ AssignRefused(w) \/ AssignSave(w) \/ Die(w)
    PROVE  IInv'
<1>1. WorldOK /\ req \in [Workers -> Request] /\ req[w] \in Request
  BY TypeParts DEF IInv
<1>2. UNCHANGED <<riderLoc, orderLoc, duty, silent, off>>
  BY DEF PingLast, PingInsert, ToggleOpen, AssignRefused, AssignSave, Die, keys, history
<1>3. PICK q \in Request : q.pc \notin {"listed", "located"} /\ Goes(w, q)
  <2>1. /\ [req[w] EXCEPT !.pc = "due"] \in Request
        /\ [req[w] EXCEPT !.pc = "due"].pc = "due"
    BY <1>1 DEF Request
  <2>2. ASSUME NEW r \in Riders
        PROVE  /\ [NoRequest EXCEPT !.pc = "toggle", !.rider = r, !.on = ~duty[r]] \in Request
               /\ [NoRequest EXCEPT !.pc = "toggle", !.rider = r, !.on = ~duty[r]].pc = "toggle"
    BY Fresh DEF Request
  <2> QED
    BY <2>1, <2>2, Fresh DEF PingLast, PingInsert, ToggleOpen, AssignRefused, AssignSave, Die
<1>4. WorldOK'
  <2>1. rows' \in [Orders -> [0..Old -> Nat]]
    <3>1. CASE UNCHANGED rows
      BY <1>1, <3>1 DEF WorldOK
    <3>2. CASE PingInsert(w)
      <4> DEFINE o == req[w].order
      <4>1. rows' = [rows EXCEPT ![o] = [rows[o] EXCEPT ![0] = rows[o][0] + 1]]
        BY <3>2 DEF PingInsert
      <4> HIDE DEF o
      <4>2. ASSUME o \in Orders
            PROVE  [rows[o] EXCEPT ![0] = rows[o][0] + 1] \in [0..Old -> Nat]
        <5>1. rows[o] \in [0..Old -> Nat] /\ 0 \in 0..Old /\ rows[o][0] + 1 \in Nat
          BY <1>1, <4>2, RiderAssumption DEF WorldOK, Old
        <5> QED
          BY <5>1
      <4> QED
        BY <1>1, <4>1, <4>2 DEF WorldOK
    <3> QED
      BY <3>1, <3>2 DEF PingLast, ToggleOpen, AssignRefused, AssignSave, Die
  <2>2. rider' \in [Orders -> Riders \cup {NoOne}]
    <3>1. CASE UNCHANGED rider
      BY <1>1, <3>1 DEF WorldOK
    <3>2. CASE AssignSave(w)
      BY <1>1, <3>2, NearestIsCandidate DEF AssignSave, WorldOK
    <3> QED
      BY <3>1, <3>2 DEF PingLast, PingInsert, ToggleOpen, AssignRefused, Die
  <2>3. lost' \in [Orders -> BOOLEAN]
    BY <1>1
       DEF PingLast, PingInsert, ToggleOpen, AssignRefused, AssignSave, Die, history, WorldOK
  <2> QED
    BY <1>1, <1>2, <2>1, <2>2, <2>3 DEF WorldOK
<1> QED
  BY <1>2, <1>3, <1>4, QuietStep

-----------------------------------------------------------------------------
(* toggle_duty, and what auto_assign reads *)

LEMMA ToggleSaveStep == ASSUME IInv, NEW w \in Workers, ToggleSave(w) PROVE IInv'
<1>1. WorldOK /\ req \in [Workers -> Request] /\ req[w] \in Request
  BY TypeParts DEF IInv
<1> DEFINE r == req[w].rider
<1>2. /\ duty' = [duty EXCEPT ![r] = req[w].on]
      /\ off' = [off EXCEPT ![r] = IF req[w].on \/ duty[r] THEN 0 ELSE @]
      /\ UNCHANGED <<riderLoc, orderLoc, rows, rider, silent, lost>> /\ Goes(w, NoRequest)
  BY DEF ToggleSave, keys
<1>3. req[w].on \in BOOLEAN
  BY <1>1 DEF Request
<1> HIDE DEF r
<1>4. \A x \in Riders : off'[x] = off[x] \/ off'[x] = 0
  BY <1>1, <1>2 DEF WorldOK
<1>5. off' \in [Riders -> 0..(Lifetime + 1)]
  <2>1. 0 \in 0..(Lifetime + 1)
    BY RiderAssumption
  <2>2. off' = [off EXCEPT ![r] = 0] \/ off' = [off EXCEPT ![r] = off[r]]
    BY <1>2
  <2>3. CASE off' = [off EXCEPT ![r] = 0]
    BY <1>1, <2>1, <2>3 DEF WorldOK
  <2>4. CASE off' = [off EXCEPT ![r] = off[r]]
    BY <1>1, <2>4 DEF WorldOK
  <2> QED
    BY <2>2, <2>3, <2>4
<1>6. WorldOK'
  BY <1>1, <1>2, <1>3, <1>5 DEF WorldOK
<1>7. /\ req' \in [Workers -> Request] /\ Same(req'[w], NoRequest)
      /\ \A v \in Workers \ {w} : Same(req'[v], req[v])
  BY <1>1, <1>2, Fresh, RequestMoves
<1>8. OnDutyNow'
  BY <1>1, <1>2 DEF IInv, OnDutyNow, WorldOK
<1>9. KeysAreFresh'
  BY <1>2 DEF IInv, KeysAreFresh, Live
<1>10. \A x \in Riders : off'[x] <= off[x] /\ silent'[x] <= silent[x]
  BY <1>1, <1>2, <1>4, RiderAssumption DEF WorldOK
<1>11. CandidatesOnDuty' /\ LocatedReported'
  BY <1>1, <1>6, <1>7, <1>10, Fresh, OthersStay DEF IInv, Same
<1> QED
  BY <1>6, <1>7, <1>8, <1>9, <1>11 DEF IInv, TypeOK, WorldOK, Request, Key

LEMMA AssignOpenStep ==
    ASSUME IInv, NEW w \in Workers, NEW o \in Orders, AssignOpen(w, o) PROVE IInv'
<1>1. WorldOK /\ req \in [Workers -> Request]
  BY TypeParts DEF IInv
<1> DEFINE q == [NoRequest EXCEPT !.pc = "listed", !.order = o, !.candidates = Candidates]
<1>2. UNCHANGED <<riderLoc, orderLoc, rows, duty, rider, silent, off, lost>> /\ Goes(w, q)
  BY DEF AssignOpen, keys, history
<1>3. /\ q \in Request /\ q.pc = "listed" /\ q.ticks = 0
      /\ q.candidates = {r \in Riders : duty[r]}
  BY Fresh DEF Request, Candidates
<1> HIDE DEF q
<1>4. /\ req' \in [Workers -> Request] /\ Same(req'[w], q)
      /\ \A v \in Workers \ {w} : Same(req'[v], req[v])
  BY <1>1, <1>2, <1>3, RequestMoves
<1>5. WorldOK' /\ KeysAreFresh' /\ OnDutyNow'
  BY <1>1, <1>2 DEF IInv, WorldOK, KeysAreFresh, OnDutyNow, Live
<1>6. CandidatesOnDuty'
  BY <1>2, <1>3, <1>4 DEF IInv, CandidatesOnDuty, OnDutyNow, Same
<1>7. LocatedReported'
  BY <1>2, <1>3, <1>4 DEF IInv, LocatedReported, At, Same
<1> QED
  BY <1>4, <1>5, <1>6, <1>7 DEF IInv, TypeOK, WorldOK, Request, Key

LEMMA AssignLocateStep == ASSUME IInv, NEW w \in Workers, AssignLocate(w) PROVE IInv'
<1>1. WorldOK /\ req \in [Workers -> Request] /\ req[w] \in Request
  BY TypeParts DEF IInv
<1> DEFINE located == Located(req[w].candidates)
           seen == [r \in Riders |-> IF r \in located THEN riderLoc[r].at ELSE Nowhere]
           q == [req[w] EXCEPT !.pc = "located", !.candidates = located, !.seen = seen]
<1>2. /\ UNCHANGED <<riderLoc, orderLoc, rows, duty, rider, silent, off, lost>>
      /\ req[w].pc = "listed" /\ Goes(w, q)
  BY DEF AssignLocate, At, keys, history
<1>3. located \subseteq req[w].candidates /\ located \in SUBSET Riders
  BY <1>1 DEF Located, Request
<1>4. \A r \in located : Live(riderLoc[r]) /\ riderLoc[r] \in Key
  BY <1>1, <1>3 DEF Located, WorldOK
<1>5. seen \in [Riders -> Places \cup {Nowhere}]
  BY <1>3, <1>4, Fresh
<1> HIDE DEF seen
<1>6. /\ q \in Request /\ q.pc = "located" /\ q.ticks = req[w].ticks /\ q.candidates = located
  BY <1>1, <1>3, <1>5 DEF Request
<1> HIDE DEF q
<1>7. /\ req' \in [Workers -> Request] /\ Same(req'[w], q)
      /\ \A v \in Workers \ {w} : Same(req'[v], req[v])
  BY <1>1, <1>2, <1>6, RequestMoves
<1>8. WorldOK' /\ KeysAreFresh' /\ OnDutyNow'
  BY <1>1, <1>2 DEF IInv, WorldOK, KeysAreFresh, OnDutyNow, Live
<1>9. CandidatesOnDuty'
  BY <1>2, <1>3, <1>6, <1>7 DEF IInv, CandidatesOnDuty, Same
<1>10. \A r \in located : silent[r] < TTL + req[w].ticks
  <2> SUFFICES ASSUME NEW r \in located PROVE silent[r] < TTL + req[w].ticks
    OBVIOUS
  <2>1. riderLoc[r].age \in 0..(TTL - 1) /\ silent[r] <= riderLoc[r].age
    BY <1>3, <1>4, Fresh DEF IInv, KeysAreFresh
  <2>2. req[w].ticks \in Nat /\ silent[r] \in Nat
    BY <1>1, <1>3, RiderAssumption DEF Request, WorldOK
  <2> QED
    BY <2>1, <2>2, RiderAssumption
<1> HIDE DEF located
<1>11. LocatedReported'
  BY <1>2, <1>6, <1>7, <1>10 DEF IInv, LocatedReported, At, Same
<1> QED
  BY <1>7, <1>8, <1>9, <1>11 DEF IInv, TypeOK, WorldOK, Request, Key

-----------------------------------------------------------------------------
(* Time *)

LEMMA AgedTyped ==
    /\ \A k \in Key : Aged(k) \in Key
    /\ \A k \in Key : Live(Aged(k)) => Live(k) /\ Aged(k).age = k.age + 1
    /\ \A s \in [0..Old -> Nat] : AgedRows(s) \in [0..Old -> Nat]
<1>1. ASSUME NEW k \in Key
      PROVE  Aged(k) \in Key /\ (Live(Aged(k)) => Live(k) /\ Aged(k).age = k.age + 1)
  <2>1. CASE Live(k) /\ k.age + 1 < TTL
    <3>1. k \in [at : Places, age : 0..(TTL - 1)] /\ k.age + 1 \in 0..(TTL - 1)
      BY <2>1, RiderAssumption DEF Key, Live
    <3>2. Aged(k) = [k EXCEPT !.age = k.age + 1]
      BY <2>1 DEF Aged
    <3>3. [k EXCEPT !.age = k.age + 1] \in Key /\ [k EXCEPT !.age = k.age + 1].age = k.age + 1
      BY <3>1 DEF Key
    <3> QED
      BY <2>1, <3>2, <3>3
  <2>2. CASE ~(Live(k) /\ k.age + 1 < TTL)
    BY <2>2, Fresh DEF Aged
  <2> QED
    BY <2>1, <2>2
<1>2. ASSUME NEW s \in [0..Old -> Nat] PROVE AgedRows(s) \in [0..Old -> Nat]
  <2>1. /\ Old \in Nat /\ Old = Throttle + 1 /\ s[Old] + s[Throttle] \in Nat
        /\ AtMost(s[Old] + s[Throttle], 1) \in Nat
    BY RiderAssumption DEF Old, AtMost
  <2>2. \A a \in 0..Old : a # 0 => s[a - 1] \in Nat
    BY <2>1
  <2> QED
    BY <2>1, <2>2 DEF AgedRows
<1> QED
  BY <1>1, <1>2

LEMMA TickStep == ASSUME IInv, Tick PROVE IInv'
<1>1. WorldOK /\ req \in [Workers -> Request]
  BY TypeParts DEF IInv
<1>2. /\ \A r \in Riders : silent[r] \in 0..(TTL + Lifetime) /\ off[r] \in 0..(Lifetime + 1)
      /\ \A r \in Riders : riderLoc[r] \in Key
  BY <1>1 DEF WorldOK
<1>3. \A r \in Riders : /\ silent'[r] = AtMost(silent[r] + 1, TTL + Lifetime)
                        /\ off'[r] = IF duty[r] THEN 0 ELSE AtMost(off[r] + 1, Lifetime + 1)
                        /\ riderLoc'[r] = Aged(riderLoc[r])
  BY DEF Tick
<1>4. WorldOK'
  <2>1. silent' \in [Riders -> 0..(TTL + Lifetime)]
    <3>1. \A r \in Riders : AtMost(silent[r] + 1, TTL + Lifetime) \in 0..(TTL + Lifetime)
      BY <1>2, RiderAssumption DEF AtMost
    <3> QED
      BY <3>1 DEF Tick
  <2>2. off' \in [Riders -> 0..(Lifetime + 1)]
    <3>1. \A r \in Riders : AtMost(off[r] + 1, Lifetime + 1) \in 0..(Lifetime + 1)
      BY <1>2, RiderAssumption DEF AtMost
    <3>2. 0 \in 0..(Lifetime + 1)
      BY RiderAssumption
    <3> QED
      BY <3>1, <3>2 DEF Tick
  <2>3. /\ riderLoc' \in [Riders -> Key] /\ orderLoc' \in [Orders -> Key]
        /\ rows' \in [Orders -> [0..Old -> Nat]]
    BY <1>1, AgedTyped DEF Tick, WorldOK
  <2> QED
    BY <1>1, <2>1, <2>2, <2>3 DEF WorldOK, Tick
<1>5. ASSUME NEW v \in Workers
      PROVE  /\ req'[v] \in Request
             /\ req'[v].pc \in {"listed", "located"} =>
                   /\ req'[v].pc = req[v].pc /\ req'[v].candidates = req[v].candidates
                   /\ req'[v].ticks = req[v].ticks + 1
  <2>1. req[v] \in Request /\ req[v].ticks < Lifetime
    BY <1>1 DEF Tick
  <2>2. CASE At(v, "idle")
    <3>1. req'[v] = req[v]
      BY <2>2 DEF Tick
    <3> QED
      BY <2>1, <2>2, <3>1 DEF At
  <2>3. CASE ~At(v, "idle")
    <3> DEFINE m == req[v].moved \/ (req[v].pc # "reported" /\ Stirred)
    <3>1. req'[v] = [req[v] EXCEPT !.ticks = req[v].ticks + 1, !.moved = m]
      BY <2>3 DEF Tick
    <3>2. m \in BOOLEAN
      OBVIOUS
    <3> HIDE DEF m
    <3>3. req[v].ticks + 1 \in 0..Lifetime
      BY <2>1, RiderAssumption DEF Request
    <3> QED
      BY <2>1, <3>1, <3>2, <3>3 DEF Request
  <2> QED
    BY <2>2, <2>3
<1>6. req' \in [Workers -> Request]
  BY <1>5 DEF Tick
<1>7. KeysAreFresh'
  <2> SUFFICES ASSUME NEW r \in Riders, Live(Aged(riderLoc[r]))
               PROVE  AtMost(silent[r] + 1, TTL + Lifetime) <= Aged(riderLoc[r]).age
    BY <1>3 DEF KeysAreFresh, Live
  <2>1. /\ Aged(riderLoc[r]).age = riderLoc[r].age + 1 /\ Live(riderLoc[r])
        /\ riderLoc[r].age \in 0..(TTL - 1)
    BY <1>2, AgedTyped, Fresh
  <2>2. silent[r] <= riderLoc[r].age
    BY <2>1 DEF IInv, KeysAreFresh
  <2> QED
    BY <1>2, <2>1, <2>2, RiderAssumption DEF AtMost
<1>8. OnDutyNow'
  BY <1>3 DEF OnDutyNow, Tick
<1>9. \A r \in Riders : /\ off'[r] <= off[r] + 1 /\ off'[r] \in Nat
                        /\ silent'[r] <= silent[r] + 1 /\ silent'[r] \in Nat
  BY <1>2, <1>3, RiderAssumption DEF AtMost
<1>10. ASSUME NEW v \in Workers, req'[v].pc \in {"listed", "located"}, NEW r \in req'[v].candidates
       PROVE  /\ off'[r] <= req'[v].ticks
              /\ req'[v].pc = "located" => silent'[r] < TTL + req'[v].ticks
  <2>1. /\ req[v].pc = req'[v].pc /\ r \in req[v].candidates /\ r \in Riders
        /\ req'[v].ticks = req[v].ticks + 1 /\ req[v].ticks \in 0..Lifetime
    BY <1>1, <1>5, <1>10 DEF Request
  <2>2. off[r] <= req[v].ticks
    BY <1>10, <2>1 DEF IInv, CandidatesOnDuty
  <2>3. req[v].pc = "located" => silent[r] < TTL + req[v].ticks
    BY <2>1 DEF IInv, LocatedReported, At
  <2> QED
    BY <1>2, <1>9, <2>1, <2>2, <2>3, RiderAssumption
<1>11. CandidatesOnDuty' /\ LocatedReported'
  BY <1>10 DEF CandidatesOnDuty, LocatedReported, At
<1> QED
  BY <1>4, <1>6, <1>7, <1>8, <1>11 DEF IInv, TypeOK, WorldOK, Request, Key

-----------------------------------------------------------------------------
(* What was read is so until something moves *)

Unmoved == \A w \in Workers : ~req[w].moved =>
    /\ At(w, "listed") => req[w].candidates = Candidates
    /\ At(w, "located") => /\ req[w].candidates = Located(Candidates)
                           /\ \A r \in req[w].candidates : req[w].seen[r] = riderLoc[r].at

\* Without a stir the same riders are on duty, and have a position.
LEMMA NoStir ==
    ASSUME WorldOK, WorldOK', ~Stirred
    PROVE  /\ \A r \in Riders : riderLoc'[r].at = riderLoc[r].at
           /\ Candidates' = Candidates
           /\ Located(Candidates)' = Located(Candidates)
           /\ Located(Candidates) \in SUBSET Riders
<1>1. duty' = duty /\ \A r \in Riders : riderLoc'[r].at = riderLoc[r].at
  BY DEF Stirred
<1>2. \A k \in Key : Live(k) <=> k.at # Nowhere
  BY RiderAssumption DEF Key, Live, Gone
<1>3. \A r \in Riders : Live(riderLoc[r]) <=> Live(riderLoc'[r])
  BY <1>1, <1>2 DEF WorldOK
<1>4. Candidates' = Candidates /\ Candidates \in SUBSET Riders
  BY <1>1 DEF Candidates
<1> QED
  BY <1>1, <1>3, <1>4 DEF Located, Live

LEMMA UnmovedIsUnstirred ==
    ASSUME req \in [Workers -> Request], NEW w \in Workers, NEW q \in Request, Goes(w, q),
           NEW v \in Workers, req'[v].pc \in {"listed", "located"}, ~req'[v].moved
    PROVE  ~Stirred /\ req'[v] = IF v = w THEN q ELSE req[v]
<1> DEFINE base == IF v = w THEN q ELSE req[v]
<1>1. base \in Request
  OBVIOUS
<1> HIDE DEF base
<1>2. req'[v] = IF base.pc \in {"listed", "located"} /\ Stirred
                THEN [base EXCEPT !.moved = TRUE] ELSE base
  BY DEF Goes, base
<1>3. CASE base.pc \in {"listed", "located"} /\ Stirred
  <2>1. req'[v] = [base EXCEPT !.moved = TRUE]
    BY <1>2, <1>3
  <2>2. req'[v].moved = TRUE
    BY <1>1, <2>1 DEF Request
  <2> QED
    BY <2>2
<1>4. CASE ~(base.pc \in {"listed", "located"} /\ Stirred)
  <2>1. req'[v] = base
    BY <1>2, <1>4
  <2> QED
    BY <1>4, <2>1 DEF base
<1> QED
  BY <1>3, <1>4

\* A step of w that leaves the others where they were.
LEMMA UnmovedStays ==
    ASSUME Unmoved, WorldOK, WorldOK', req \in [Workers -> Request],
           NEW w \in Workers, NEW q \in Request, Goes(w, q),
           ~q.moved => /\ q.pc = "listed" => q.candidates = Candidates
                       /\ q.pc = "located" =>
                             /\ q.candidates = Located(Candidates)
                             /\ \A r \in q.candidates : q.seen[r] = riderLoc[r].at
    PROVE  Unmoved'
<1>1. ASSUME NEW v \in Workers, req'[v].pc \in {"listed", "located"}, ~req'[v].moved
      PROVE  /\ req'[v].pc = "listed" => req'[v].candidates = Candidates'
             /\ req'[v].pc = "located" =>
                   /\ req'[v].candidates = Located(Candidates)'
                   /\ \A r \in req'[v].candidates : req'[v].seen[r] = riderLoc'[r].at
  <2>1. ~Stirred /\ req'[v] = IF v = w THEN q ELSE req[v]
    BY <1>1, UnmovedIsUnstirred
  <2>2. /\ \A r \in Riders : riderLoc'[r].at = riderLoc[r].at
        /\ Candidates' = Candidates /\ Located(Candidates)' = Located(Candidates)
        /\ Located(Candidates) \in SUBSET Riders
    BY <2>1, NoStir
  <2> QED
    BY <1>1, <2>1, <2>2 DEF Unmoved, At
<1> QED
  BY <1>1 DEF Unmoved, At

LEMMA UnmovedStep ==
    ASSUME IInv, Unmoved, WorldOK', [Next]_vars
    PROVE  Unmoved'
<1>0. WorldOK /\ req \in [Workers -> Request]
  BY TypeParts DEF IInv
<1>1. ASSUME NEW w \in Workers,
             \/ Pings(w) \/ (\E r \in Riders : ToggleOpen(w, r)) \/ ToggleSave(w)
             \/ AssignRefused(w) \/ AssignSave(w) \/ Die(w)
      PROVE  Unmoved'
  <2>1. PICK q \in Request : q.pc \notin {"listed", "located"} /\ Goes(w, q)
    <3>1. /\ [req[w] EXCEPT !.pc = "due"] \in Request
          /\ [req[w] EXCEPT !.pc = "due"].pc = "due"
      BY <1>0 DEF Request
    <3>2. \A r \in Riders :
            /\ [NoRequest EXCEPT !.pc = "toggle", !.rider = r, !.on = ~duty[r]] \in Request
            /\ [NoRequest EXCEPT !.pc = "toggle", !.rider = r, !.on = ~duty[r]].pc = "toggle"
      BY Fresh DEF Request
    <3>3. \A o \in Orders : /\ [NoRequest EXCEPT !.pc = "reported", !.order = o] \in Request
                            /\ [NoRequest EXCEPT !.pc = "reported", !.order = o].pc = "reported"
      BY Fresh DEF Request
    <3> QED
      BY <1>1, <3>1, <3>2, <3>3, Fresh
         DEF Pings, Report, PingOpen, PingLast, PingInsert, ToggleOpen, ToggleSave,
             AssignRefused, AssignSave, Die
  <2> QED
    BY <1>0, <2>1, UnmovedStays
<1>2. ASSUME NEW w \in Workers, NEW o \in Orders, AssignOpen(w, o) PROVE Unmoved'
  <2> DEFINE q == [NoRequest EXCEPT !.pc = "listed", !.order = o, !.candidates = Candidates]
  <2>1. q \in Request /\ q.pc = "listed" /\ q.candidates = Candidates /\ Goes(w, q)
    BY <1>2, Fresh DEF AssignOpen, Request, Candidates
  <2> HIDE DEF q
  <2> QED
    BY <1>0, <2>1, UnmovedStays
<1>3. ASSUME NEW w \in Workers, AssignLocate(w) PROVE Unmoved'
  <2> DEFINE located == Located(req[w].candidates)
             seen == [r \in Riders |-> IF r \in located THEN riderLoc[r].at ELSE Nowhere]
             q == [req[w] EXCEPT !.pc = "located", !.candidates = located, !.seen = seen]
  <2>1. At(w, "listed") /\ Goes(w, q) /\ req[w] \in Request
    BY <1>0, <1>3 DEF AssignLocate
  <2>2. located \in SUBSET Riders /\ \A r \in located : riderLoc[r].at \in Places
    BY <1>0, <2>1, Fresh DEF Located, Request, WorldOK
  <2>3. /\ seen \in [Riders -> Places \cup {Nowhere}]
        /\ \A r \in located : seen[r] = riderLoc[r].at
    BY <2>2
  <2> HIDE DEF seen
  <2>4. /\ q \in Request /\ q.pc = "located" /\ q.candidates = located /\ q.seen = seen
        /\ q.moved = req[w].moved
    BY <2>1, <2>2, <2>3 DEF Request
  <2> HIDE DEF q
  <2>5. ~req[w].moved => located = Located(Candidates)
    BY <2>1 DEF Unmoved
  <2> HIDE DEF located
  <2> QED
    BY <1>0, <2>1, <2>3, <2>4, <2>5, UnmovedStays
<1>4. CASE Tick
  <2>1. ASSUME NEW v \in Workers, req'[v].pc \in {"listed", "located"}, ~req'[v].moved
        PROVE  /\ ~Stirred /\ ~req[v].moved /\ req'[v].pc = req[v].pc
               /\ req'[v].candidates = req[v].candidates /\ req'[v].seen = req[v].seen
    <3> DEFINE m == req[v].moved \/ (req[v].pc # "reported" /\ Stirred)
    <3>1. CASE At(v, "idle")
      BY <1>4, <2>1, <3>1 DEF Tick, At
    <3>2. CASE ~At(v, "idle")
      <4>1. req[v] \in Request /\ req'[v] = [req[v] EXCEPT !.ticks = @ + 1, !.moved = m]
        BY <1>0, <1>4, <3>2 DEF Tick
      <4> HIDE DEF m
      <4>2. /\ req'[v].moved = m /\ req'[v].pc = req[v].pc
            /\ req'[v].candidates = req[v].candidates /\ req'[v].seen = req[v].seen
        BY <4>1 DEF Request
      <4> QED
        BY <2>1, <4>2 DEF m
    <3> QED
      BY <3>1, <3>2
  <2>2. ASSUME ~Stirred
        PROVE  /\ \A r \in Riders : riderLoc'[r].at = riderLoc[r].at
               /\ Candidates' = Candidates /\ Located(Candidates)' = Located(Candidates)
               /\ Located(Candidates) \in SUBSET Riders
    BY <1>0, <2>2, NoStir
  <2> QED
    BY <2>1, <2>2 DEF Unmoved, At
<1>5. CASE UNCHANGED vars
  BY <1>5 DEF vars, keys, Unmoved, At, Candidates, Located, Live
<1> QED
  BY <1>1, <1>2, <1>3, <1>4, <1>5 DEF Next, Assigns

-----------------------------------------------------------------------------
(* The theorems *)

LEMMA InitIInv == ASSUME Init PROVE IInv /\ Unmoved
<1>1. /\ riderLoc = [r \in Riders |-> Gone] /\ req = [w \in Workers |-> NoRequest]
      /\ duty = [r \in Riders |-> FALSE]
  BY DEF Init
<1>2. WorldOK
  <2>1. /\ TTL + Lifetime \in 0..(TTL + Lifetime) /\ Lifetime + 1 \in 0..(Lifetime + 1)
        /\ NoRows \in [0..Old -> Nat]
    BY RiderAssumption DEF NoRows
  <2> QED
    BY <2>1, Fresh DEF Init, WorldOK
<1>3. req \in [Workers -> Request] /\ \A w \in Workers : req[w].pc = "idle"
  BY <1>1, Fresh
<1>4. KeysAreFresh /\ OnDutyNow
  BY <1>1, Fresh DEF KeysAreFresh, OnDutyNow
<1>5. CandidatesOnDuty /\ LocatedReported /\ Unmoved
  BY <1>3 DEF CandidatesOnDuty, LocatedReported, Unmoved, At
<1> QED
  BY <1>2, <1>3, <1>4, <1>5, TypeParts DEF IInv

LEMMA StepIInv == ASSUME IInv, Unmoved, [Next]_vars PROVE IInv' /\ Unmoved'
<1>1. CASE UNCHANGED vars
  BY <1>1 DEF vars, keys, history, IInv, TypeOK, KeysAreFresh, OnDutyNow, CandidatesOnDuty,
              LocatedReported, Unmoved, At, Live, Candidates, Located
<1>2. ASSUME NEW w \in Workers, Pings(w) \/ Assigns(w) \/ Die(w) PROVE IInv'
  BY <1>2, ReportStep, RequestStep, ToggleSaveStep, AssignOpenStep, AssignLocateStep
     DEF Pings, Assigns
<1>3. IInv'
  BY <1>1, <1>2, TickStep DEF Next
<1>4. WorldOK'
  BY <1>3 DEF IInv, TypeOK, WorldOK, Key
<1> QED
  BY <1>3, <1>4, UnmovedStep

\* The strengthening holds in every state, for all the actions of RiderDesk.
THEOREM RiderInvariant == Spec => [](IInv /\ Unmoved)
BY InitIInv, StepIInv, PTL DEF Spec

\* Types, and with them that no key outlives its time to live (orders/geo_cache.py) and
\* no request its lifetime.
THEOREM RiderTyped == Spec => []TypeOK
<1>1. IInv => TypeOK
  BY DEF IInv
<1> QED
  BY <1>1, RiderInvariant, PTL

\* A step that gives an order another rider is the save of auto_assign.
LEMMA RiderChanges ==
    ASSUME IInv, Next, NEW o \in Orders, rider'[o] # rider[o]
    PROVE  \E w \in Workers : AssignSave(w) /\ req[w].order = o /\ rider'[o] \in NearestOf(req[w])
<1>1. PICK w \in Workers : AssignSave(w)
  BY DEF Next, Pings, Assigns, Tick, Report, PingOpen, PingLast, PingInsert, ToggleOpen,
         ToggleSave, AssignOpen, AssignLocate, AssignRefused, Die
<1>2. PICK r \in NearestOf(req[w]) : rider' = [rider EXCEPT ![req[w].order] = r]
  BY <1>1 DEF AssignSave
<1> QED
  BY <1>1, <1>2 DEF IInv, TypeOK

\* For every TTL and lifetime of a request: whom auto_assign_delivery_member saves was on
\* duty within the life of its request, and had reported less than TTL before it.
THEOREM AvailableIsAssigned == Spec => AssignedWasAvailable
<1> DEFINE Available == \A o \in Orders :
             rider'[o] # rider[o] => /\ off[rider'[o]] <= Lifetime
                                     /\ silent[rider'[o]] < TTL + Lifetime
<1>1. IInv /\ [Next]_vars => [Available]_vars
  <2> SUFFICES ASSUME IInv, Next, NEW o \in Orders, rider'[o] # rider[o]
               PROVE  off[rider'[o]] <= Lifetime /\ silent[rider'[o]] < TTL + Lifetime
    OBVIOUS
  <2>1. PICK w \in Workers : AssignSave(w) /\ rider'[o] \in NearestOf(req[w])
    BY RiderChanges
  <2>2. rider'[o] \in req[w].candidates /\ rider'[o] \in Riders /\ At(w, "located")
    BY <2>1, NearestIsCandidate DEF AssignSave
  <2>3. /\ off[rider'[o]] <= req[w].ticks /\ silent[rider'[o]] < TTL + req[w].ticks
    BY <2>2 DEF IInv, CandidatesOnDuty, LocatedReported, At
  <2>4. /\ req[w].ticks \in 0..Lifetime /\ off[rider'[o]] \in Nat /\ silent[rider'[o]] \in Nat
    BY <2>2, RiderAssumption DEF IInv, TypeOK
  <2> QED
    BY <2>3, <2>4, RiderAssumption
<1> QED
  BY <1>1, RiderInvariant, PTL DEF Spec, AssignedWasAvailable, Available

\* For every set of riders and places: when nobody moved, fell silent or switched duty
\* meanwhile, auto_assign_delivery_member saves the nearest of all who could be sent.
THEOREM NearestIsAssigned == Spec => AssignedIsNearest
<1> DEFINE Nearest == \A w \in Workers :
             (/\ At(w, "located") /\ ~req[w].moved
              /\ rider'[req[w].order] # rider[req[w].order] /\ req'[w] # req[w])
             => \A r \in Riders :
                   (duty[r] /\ Live(riderLoc[r])) =>
                       Distance[req[w].order][riderLoc[rider'[req[w].order]].at]
                           <= Distance[req[w].order][riderLoc[r].at]
<1>1. IInv /\ Unmoved /\ [Next]_vars => [Nearest]_vars
  <2> SUFFICES ASSUME IInv, Unmoved, Next, NEW w \in Workers, At(w, "located"), ~req[w].moved,
                      rider'[req[w].order] # rider[req[w].order], req'[w] # req[w],
                      NEW r \in Riders, duty[r], Live(riderLoc[r])
               PROVE  Distance[req[w].order][riderLoc[rider'[req[w].order]].at]
                          <= Distance[req[w].order][riderLoc[r].at]
    OBVIOUS
  <2>1. PICK v \in Workers : AssignSave(v)
    BY DEF Next, Pings, Assigns, Tick, Report, PingOpen, PingLast, PingInsert, ToggleOpen,
           ToggleSave, AssignOpen, AssignLocate, AssignRefused, Die
  <2>2. ~Stirred
    BY <2>1 DEF AssignSave, Stirred, keys
  <2>3. v = w
    BY <2>1, <2>2 DEF AssignSave, Goes
  <2>4. PICK x \in NearestOf(req[w]) : rider' = [rider EXCEPT ![req[w].order] = x]
    BY <2>1, <2>3 DEF AssignSave
  <2>5. rider'[req[w].order] = x
    BY <2>4 DEF IInv, TypeOK
  <2>6. /\ req[w].candidates = Located(Candidates)
        /\ \A y \in req[w].candidates : req[w].seen[y] = riderLoc[y].at
    BY DEF Unmoved
  <2>7. r \in req[w].candidates /\ x \in req[w].candidates
    BY <2>6 DEF Located, Candidates, NearestOf
  <2> QED
    BY <2>5, <2>6, <2>7 DEF NearestOf
<1> QED
  BY <1>1, RiderInvariant, PTL DEF Spec, AssignedIsNearest, Nearest

-----------------------------------------------------------------------------
(* The rows of a delivery *)

Due(o) == {w \in Workers : req[w].pc = "due" /\ req[w].order = o}
RecentRows(s) == SumFunctionOnSet(s, 0..Throttle)

\* A request writes a row only after it saw none: counted with those about to write
\* there are as many recent rows as workers, at most.
RowsAndDue == \A o \in Orders :
    RecentRows(rows[o]) + Cardinality(Due(o)) <= Cardinality(Workers)

HasRow(o) == \E a \in 0..Old : rows[o][a] > 0
OnTheWay(o) == \E w \in Workers : req[w].order = o /\ req[w].pc \in {"reported", "due"}

\* Where a position came from, a row came too, or is on its way, or got lost.
Trailed == \A o \in Orders : Live(orderLoc[o]) => HasRow(o) \/ OnTheWay(o) \/ lost[o]

TrailInv == RowsAndDue /\ Trailed

LEMMA RecentRowsType ==
    ASSUME NEW s \in [0..Old -> Nat]
    PROVE  RecentRows(s) \in Nat /\ \A a \in 0..Throttle : s[a] \in Nat
<1>1. IsFiniteSet(0..Throttle)
  BY FS_Interval, RiderAssumption
<1>2. \A a \in 0..Throttle : s[a] \in Nat
  BY RiderAssumption DEF Old
<1> DEFINE S == 0..Throttle
<1> HIDE DEF S
<1>3. SumFunctionOnSet(s, S) \in Nat
  BY <1>1, <1>2, SumIsNat DEF S
<1> QED
  BY <1>2, <1>3 DEF RecentRows, S

LEMMA NoRecentRows ==
    ASSUME NEW s \in [0..Old -> Nat], \A a \in 0..Throttle : ~(s[a] > 0)
    PROVE  RecentRows(s) = 0
<1> DEFINE S == 0..Throttle
<1>1. IsFiniteSet(S)
  BY FS_Interval, RiderAssumption
<1>2. \A a \in S : s[a] = 0
  <2>1. \A a \in S : s[a] \in Nat
    BY RecentRowsType
  <2> QED
    BY <2>1
<1> HIDE DEF S
<1>3. SumFunctionOnSet(s, S) = 0
  BY <1>1, <1>2, SumOfZeros
<1> QED
  BY <1>3 DEF RecentRows, S

\* A row that is inserted.
LEMMA RowInserted ==
    ASSUME NEW s \in [0..Old -> Nat], NEW t, t = [s EXCEPT ![0] = s[0] + 1]
    PROVE  RecentRows(t) = RecentRows(s) + 1
<1> DEFINE S == 0..Throttle
           first == 0
           before == s
           after == t
<1>1. IsFiniteSet(S)
  BY FS_Interval, RiderAssumption
<1>2. \A a \in S : before[a] \in Nat
  BY RecentRowsType
<1>3. first \in S
  BY RiderAssumption
<1>4. \A a \in S : after[a] = IF a = first THEN before[a] + 1 ELSE before[a]
  <2>1. S \subseteq 0..Old /\ first \in 0..Old
    BY RiderAssumption DEF Old
  <2> HIDE DEF S
  <2>2. t = [s EXCEPT ![first] = s[first] + 1]
    OBVIOUS
  <2> HIDE DEF first
  <2> QED
    BY <2>1, <2>2
<1> HIDE DEF S, first, before, after
<1>5. SumFunctionOnSet(after, S) = SumFunctionOnSet(before, S) + 1
  BY <1>1, <1>2, <1>3, <1>4, SumRaised
<1> QED
  BY <1>5 DEF RecentRows, S, before, after

\* Rows that age.
LEMMA RowsAged ==
    ASSUME NEW s \in [0..Old -> Nat]
    PROVE  /\ RecentRows(AgedRows(s)) <= RecentRows(s)
           /\ (\E a \in 0..Old : s[a] > 0) => \E a \in 0..Old : AgedRows(s)[a] > 0
<1>1. /\ AgedRows(s)[0] = 0
      /\ \A a \in 1..Throttle : AgedRows(s)[a] = s[a - 1]
      /\ AgedRows(s)[Old] = AtMost(s[Old] + s[Throttle], 1)
  BY RiderAssumption DEF AgedRows, Old
<1>2. RecentRows(AgedRows(s)) <= RecentRows(s)
  <2>1. \A a \in 0..Throttle : s[a] \in Nat
    BY RecentRowsType
  <2> DEFINE n == Throttle
             g == AgedRows(s)
  <2>2. n \in Nat
    BY RiderAssumption
  <2>3. g[0] = 0 /\ \A a \in 1..n : g[a] = s[a - 1]
    BY <1>1
  <2>4. \A a \in 0..n : s[a] \in Nat
    BY <2>1
  <2> HIDE DEF n, g
  <2>5. SumFunctionOnSet(g, 0..n) <= SumFunctionOnSet(s, 0..n)
    BY <2>2, <2>3, <2>4, SumShifted
  <2> QED
    BY <2>5 DEF RecentRows, n, g
<1>3. ASSUME NEW a \in 0..Old, s[a] > 0 PROVE \E b \in 0..Old : AgedRows(s)[b] > 0
  <2>1. s[Old] \in Nat /\ s[Throttle] \in Nat /\ Old \in 0..Old
    BY RiderAssumption DEF Old
  <2>2. CASE a \in 0..(Throttle - 1)
    <3>1. a + 1 \in 1..Throttle /\ a + 1 \in 0..Old /\ (a + 1) - 1 = a
      BY <2>2, RiderAssumption DEF Old
    <3>2. AgedRows(s)[a + 1] = s[a]
      BY <1>1, <3>1
    <3> QED
      BY <1>3, <3>1, <3>2
  <2>3. CASE a \in {Throttle, Old}
    <3>1. AgedRows(s)[Old] > 0
      BY <1>1, <1>3, <2>1, <2>3 DEF AtMost
    <3> QED
      BY <2>1, <3>1
  <2>4. a \in 0..(Throttle - 1) \/ a \in {Throttle, Old}
    BY RiderAssumption DEF Old
  <2> QED
    BY <2>2, <2>3, <2>4
<1> QED
  BY <1>2, <1>3

\* A step of w that writes no row: it is about to only if it saw none, and it does not
\* leave a position behind.
LEMMA TrailStays ==
    ASSUME IInv, TrailInv, NEW w \in Workers, NEW q \in Request, Goes(w, q), rows' = rows,
           q.pc = "due" => \A o \in Orders : q.order = o => RecentRows(rows[o]) = 0,
           \A o \in Orders : Live(orderLoc'[o]) =>
               Live(orderLoc[o]) \/ (q.order = o /\ q.pc \in {"reported", "due"}),
           \A o \in Orders : (req[w].order = o /\ req[w].pc \in {"reported", "due"}) =>
               HasRow(o) \/ lost'[o] \/ (q.order = o /\ q.pc \in {"reported", "due"}),
           \A o \in Orders : lost[o] => lost'[o]
    PROVE  TrailInv'
<1>1. WorldOK /\ req \in [Workers -> Request]
  BY TypeParts DEF IInv
<1>2. Same(req'[w], q) /\ \A v \in Workers \ {w} : Same(req'[v], req[v])
  BY <1>1, RequestMoves
<1>3. RowsAndDue'
  <2> SUFFICES ASSUME NEW o \in Orders
               PROVE  RecentRows(rows[o]) + Cardinality(Due(o)') <= Cardinality(Workers)
    BY DEF RowsAndDue, RecentRows
  <2> DEFINE n == RecentRows(rows[o])
             before == Due(o)
             after == Due(o)'
  <2>1. n \in Nat
    BY <1>1, RecentRowsType DEF WorldOK
  <2>2. n + Cardinality(before) <= Cardinality(Workers)
    BY DEF TrailInv, RowsAndDue
  <2>3. before \subseteq Workers /\ after \subseteq Workers
    BY DEF Due
  <2>4. n = 0 \/ after \subseteq before
    BY <1>2 DEF Due, Same
  <2> HIDE DEF n, before, after
  <2>5. n + Cardinality(after) <= Cardinality(Workers)
    BY <2>1, <2>2, <2>3, <2>4, BoundKept, RiderAssumption
  <2> QED
    BY <2>5 DEF n, after
<1>4. Trailed'
  <2> SUFFICES ASSUME NEW o \in Orders, Live(orderLoc'[o])
               PROVE  HasRow(o) \/ OnTheWay(o)' \/ lost'[o]
    BY DEF Trailed, HasRow, Live, Old, Gone
  <2>1. CASE q.order = o /\ q.pc \in {"reported", "due"}
    BY <1>2, <2>1 DEF OnTheWay, Same
  <2>2. CASE OnTheWay(o)
    <3>1. PICK v \in Workers : req[v].order = o /\ req[v].pc \in {"reported", "due"}
      BY <2>2 DEF OnTheWay
    <3>2. CASE v = w
      BY <2>1, <3>1, <3>2
    <3>3. CASE v # w
      BY <1>2, <3>1, <3>3 DEF OnTheWay, Same
    <3> QED
      BY <3>2, <3>3
  <2> QED
    BY <2>1, <2>2 DEF TrailInv, Trailed
<1> QED
  BY <1>3, <1>4 DEF TrailInv

LEMMA TrailInsert ==
    ASSUME IInv, TrailInv, NEW w \in Workers, PingInsert(w)
    PROVE  TrailInv'
<1>1. WorldOK /\ req \in [Workers -> Request] /\ req[w].pc = "due"
  BY TypeParts DEF IInv, PingInsert, At
<1>2. Goes(w, NoRequest) /\ UNCHANGED <<orderLoc, lost>>
  BY DEF PingInsert, keys, history
<1>3. req'[w].pc = "idle" /\ \A v \in Workers \ {w} : Same(req'[v], req[v])
  BY <1>1, <1>2, Fresh, RequestMoves DEF Same
<1>4. ASSUME NEW o \in Orders, o = req[w].order
      PROVE  /\ rows'[o] = [rows[o] EXCEPT ![0] = rows[o][0] + 1]
             /\ rows[o] \in [0..Old -> Nat] /\ 0 \in 0..Old
  <2>1. rows \in [Orders -> [0..Old -> Nat]]
    BY <1>1 DEF WorldOK
  <2>2. rows' = [rows EXCEPT ![o] = [rows[o] EXCEPT ![0] = rows[o][0] + 1]]
    BY <1>4 DEF PingInsert
  <2>3. rows[o] \in [0..Old -> Nat] /\ 0 \in 0..Old
    BY <2>1, RiderAssumption DEF Old
  <2> DEFINE row == [rows[o] EXCEPT ![0] = rows[o][0] + 1]
  <2> HIDE DEF row
  <2>4. rows' = [rows EXCEPT ![o] = row]
    BY <2>2 DEF row
  <2>5. rows'[o] = row
    BY <2>1, <2>4
  <2> QED
    BY <2>3, <2>5 DEF row
<1>5. ASSUME NEW o \in Orders, o # req[w].order PROVE rows'[o] = rows[o]
  BY <1>1, <1>5 DEF PingInsert, WorldOK
<1>6. RowsAndDue'
  <2> SUFFICES ASSUME NEW o \in Orders
               PROVE  RecentRows(rows'[o]) + Cardinality(Due(o)') <= Cardinality(Workers)
    BY DEF RowsAndDue, RecentRows
  <2> DEFINE n == RecentRows(rows[o])
             m == RecentRows(rows'[o])
             before == Due(o)
             after == Due(o)'
  <2>1. n \in Nat
    BY <1>1, RecentRowsType DEF WorldOK
  <2>2. n + Cardinality(before) <= Cardinality(Workers)
    BY DEF TrailInv, RowsAndDue
  <2>3. before \subseteq Workers /\ after \subseteq Workers
    BY DEF Due
  <2>4. after \subseteq before \ {w}
    BY <1>3 DEF Due, Same
  <2>5. m = n \/ (m = n + 1 /\ w \in before)
    <3>1. CASE o = req[w].order
      <4>1. m = n + 1
        BY <1>4, <3>1, RowInserted
      <4> QED
        BY <1>1, <3>1, <4>1 DEF Due
    <3>2. CASE o # req[w].order
      BY <1>5, <3>2
    <3> QED
      BY <3>1, <3>2
  <2> HIDE DEF n, m, before, after
  <2>6. m + Cardinality(after) <= Cardinality(Workers)
    <3>1. m \in Nat /\ (\/ m <= n /\ after \subseteq before
                        \/ m = n + 1 /\ \E x \in before : after \subseteq before \ {x})
      BY <2>1, <2>4, <2>5
    <3> QED
      BY <2>1, <2>2, <2>3, <3>1, BoundKept, RiderAssumption
  <2> QED
    BY <2>6 DEF m, after
<1>7. Trailed'
  <2> SUFFICES ASSUME NEW o \in Orders, Live(orderLoc'[o])
               PROVE  (\E a \in 0..Old : rows'[o][a] > 0) \/ OnTheWay(o)' \/ lost'[o]
    BY DEF Trailed, HasRow, Live, Old, Gone
  <2>1. HasRow(o) \/ OnTheWay(o) \/ lost[o]
    BY <1>2 DEF TrailInv, Trailed
  <2>2. CASE o = req[w].order
    <3>1. rows[o] \in [0..Old -> Nat] /\ 0 \in 0..Old /\ rows[o][0] \in Nat
      BY <1>4, <2>2
    <3>2. rows'[o][0] = rows[o][0] + 1
      BY <1>4, <2>2
    <3>3. rows'[o][0] > 0
      BY <3>1, <3>2
    <3> QED
      BY <3>1, <3>3
  <2>3. CASE o # req[w].order
    <3>1. OnTheWay(o) => OnTheWay(o)'
      BY <1>3, <2>3 DEF OnTheWay, Same
    <3> QED
      BY <1>2, <1>5, <2>1, <2>3, <3>1 DEF HasRow
  <2> QED
    BY <2>2, <2>3
<1> QED
  BY <1>6, <1>7 DEF TrailInv

LEMMA TrailTick == ASSUME IInv, TrailInv, Tick PROVE TrailInv'
<1>1. WorldOK /\ req \in [Workers -> Request]
  BY TypeParts DEF IInv
<1>2. \A v \in Workers : req'[v].pc = req[v].pc /\ req'[v].order = req[v].order
  <2> TAKE v \in Workers
  <2>1. req[v] \in Request
    BY <1>1
  <2> DEFINE older == req[v].ticks + 1
             stirred == req[v].moved \/ (req[v].pc # "reported" /\ Stirred)
  <2>2. req'[v] \in {req[v], [req[v] EXCEPT !.ticks = older, !.moved = stirred]}
    BY DEF Tick
  <2> HIDE DEF older, stirred
  <2> QED
    BY <2>1, <2>2 DEF Request
<1>3. \A o \in Orders : rows'[o] = AgedRows(rows[o]) /\ rows[o] \in [0..Old -> Nat]
  BY <1>1 DEF Tick, WorldOK
<1>4. RowsAndDue'
  <2> SUFFICES ASSUME NEW o \in Orders
               PROVE  RecentRows(rows'[o]) + Cardinality(Due(o)') <= Cardinality(Workers)
    BY DEF RowsAndDue, RecentRows
  <2> DEFINE n == RecentRows(rows[o])
             m == RecentRows(rows'[o])
             before == Due(o)
             after == Due(o)'
  <2>1. n \in Nat /\ m \in Nat
    <3>1. AgedRows(rows[o]) \in [0..Old -> Nat]
      BY <1>3, AgedTyped
    <3> QED
      BY <1>3, <3>1, RecentRowsType
  <2>2. n + Cardinality(before) <= Cardinality(Workers)
    BY DEF TrailInv, RowsAndDue
  <2>3. before \subseteq Workers /\ after \subseteq before
    BY <1>2 DEF Due
  <2>4. m <= n
    BY <1>3, RowsAged
  <2> HIDE DEF n, m, before, after
  <2>5. after \subseteq Workers
    BY <2>3
  <2>6. m + Cardinality(after) <= Cardinality(Workers)
    BY <2>1, <2>2, <2>3, <2>4, <2>5, BoundKept, RiderAssumption
  <2> QED
    BY <2>6 DEF m, after
<1>5. Trailed'
  <2> SUFFICES ASSUME NEW o \in Orders, Live(orderLoc'[o])
               PROVE  (\E a \in 0..Old : rows'[o][a] > 0) \/ OnTheWay(o)' \/ lost'[o]
    BY DEF Trailed, HasRow, Live, Old, Gone
  <2>1. Live(orderLoc[o]) /\ lost' = lost
    BY <1>1, AgedTyped DEF Tick, WorldOK
  <2>2. HasRow(o) => \E a \in 0..Old : rows'[o][a] > 0
    BY <1>3, RowsAged DEF HasRow
  <2>3. OnTheWay(o) => OnTheWay(o)'
    BY <1>2 DEF OnTheWay
  <2> QED
    BY <2>1, <2>2, <2>3 DEF TrailInv, Trailed
<1> QED
  BY <1>4, <1>5 DEF TrailInv

LEMMA PingOpenTrail ==
    ASSUME IInv, TrailInv, NEW w \in Workers, NEW r \in Riders, NEW o \in Orders,
           NEW p \in Places, PingOpen(w, r, o, p)
    PROVE  TrailInv'
<1> DEFINE q == [NoRequest EXCEPT !.pc = "reported", !.order = o]
<1>1. q \in Request /\ q.pc = "reported" /\ q.order = o
  BY Fresh DEF Request
<1>2. Goes(w, q) /\ SetOrder(o, p) /\ rows' = rows /\ lost' = lost /\ req[w].pc = "idle"
  BY DEF PingOpen, At
<1>3. orderLoc \in [Orders -> Key]
  BY DEF IInv, TypeOK, Key
<1>4. \A x \in Orders : x # o => orderLoc'[x] = orderLoc[x]
  BY <1>2, <1>3 DEF SetOrder
<1> HIDE DEF q
<1> QED
  BY <1>1, <1>2, <1>4, TrailStays

LEMMA PingLastTrail ==
    ASSUME IInv, TrailInv, NEW w \in Workers, PingLast(w)
    PROVE  TrailInv'
<1>1. WorldOK /\ req \in [Workers -> Request] /\ req[w] \in Request
  BY TypeParts DEF IInv
<1>2. UNCHANGED <<orderLoc, rows, lost>> /\ req[w].pc = "reported"
  BY DEF PingLast, At, keys, history
<1>3. CASE Recent(req[w].order)
  <2>1. Goes(w, NoRequest) /\ NoRequest \in Request /\ NoRequest.pc = "idle"
    BY <1>3, Fresh DEF PingLast
  <2>2. \A o \in Orders : req[w].order = o => HasRow(o)
    BY <1>3, RiderAssumption DEF Recent, HasRow, Old
  <2> QED
    BY <1>2, <2>1, <2>2, TrailStays
<1>4. CASE ~Recent(req[w].order)
  <2> DEFINE q == [req[w] EXCEPT !.pc = "due"]
  <2>1. Goes(w, q) /\ q \in Request /\ q.pc = "due" /\ q.order = req[w].order
    BY <1>1, <1>4 DEF PingLast, Request
  <2>2. \A o \in Orders : req[w].order = o => RecentRows(rows[o]) = 0
    BY <1>1, <1>4, NoRecentRows DEF Recent, WorldOK
  <2> HIDE DEF q
  <2> QED
    BY <1>2, <2>1, <2>2, TrailStays
<1> QED
  BY <1>3, <1>4

\* The steps that are no ping's: they leave rows and positions alone, and a ping that dies
\* is lost.
LEMMA OtherTrail ==
    ASSUME IInv, TrailInv, NEW w \in Workers,
           (\E r \in Riders, p \in Places : Report(w, r, p)) \/ Assigns(w) \/ Die(w)
    PROVE  TrailInv'
<1>1. WorldOK /\ req \in [Workers -> Request] /\ req[w] \in Request
  BY TypeParts DEF IInv
<1>2. UNCHANGED <<orderLoc, rows>>
  BY DEF Report, Assigns, ToggleOpen, ToggleSave, AssignOpen, AssignLocate, AssignRefused,
         AssignSave, Die, keys
<1>3. PICK q \in Request : q.pc # "due" /\ Goes(w, q)
  <2>1. CASE \E r \in Riders, p \in Places : Report(w, r, p)
    BY <2>1, Fresh DEF Report
  <2>2. CASE \E r \in Riders : ToggleOpen(w, r)
    <3>1. PICK r \in Riders : ToggleOpen(w, r)
      BY <2>2
    <3> DEFINE p == [NoRequest EXCEPT !.pc = "toggle", !.rider = r, !.on = ~duty[r]]
    <3>2. p \in Request /\ p.pc = "toggle" /\ Goes(w, p)
      BY <3>1, Fresh DEF ToggleOpen, Request
    <3> HIDE DEF p
    <3> QED
      BY <3>2
  <2>3. CASE \E o \in Orders : AssignOpen(w, o)
    <3>1. PICK o \in Orders : AssignOpen(w, o)
      BY <2>3
    <3> DEFINE p == [NoRequest EXCEPT !.pc = "listed", !.order = o, !.candidates = Candidates]
    <3>2. p \in Request /\ p.pc = "listed" /\ Goes(w, p)
      BY <3>1, Fresh DEF AssignOpen, Request, Candidates
    <3> HIDE DEF p
    <3> QED
      BY <3>2
  <2>4. CASE AssignLocate(w)
    <3> DEFINE located == Located(req[w].candidates)
               seen == [r \in Riders |-> IF r \in located THEN riderLoc[r].at ELSE Nowhere]
               p == [req[w] EXCEPT !.pc = "located", !.candidates = located, !.seen = seen]
    <3>1. located \in SUBSET Riders
      BY <1>1 DEF Located, Request
    <3>2. \A r \in located : riderLoc[r].at \in Places
      BY <1>1, <3>1, Fresh DEF Located, WorldOK
    <3>3. seen \in [Riders -> Places \cup {Nowhere}]
      BY <3>2
    <3>4. Goes(w, p)
      BY <2>4 DEF AssignLocate
    <3> HIDE DEF located, seen
    <3>5. p \in Request /\ p.pc = "located"
      BY <1>1, <3>1, <3>3 DEF Request
    <3> HIDE DEF p
    <3> QED
      BY <3>4, <3>5
  <2>5. CASE ToggleSave(w) \/ AssignRefused(w) \/ AssignSave(w) \/ Die(w)
    BY <2>5, Fresh DEF ToggleSave, AssignRefused, AssignSave, Die
  <2> QED
    BY <2>1, <2>2, <2>3, <2>4, <2>5 DEF Assigns
<1>4. \A o \in Orders : lost[o] => lost'[o]
  BY <1>1 DEF Report, Assigns, ToggleOpen, ToggleSave, AssignOpen, AssignLocate, AssignRefused,
              AssignSave, Die, history, WorldOK
<1>5. ASSUME NEW o \in Orders, req[w].order = o, req[w].pc \in {"reported", "due"} PROVE lost'[o]
  <2>1. Die(w)
    BY <1>5 DEF Report, Assigns, ToggleOpen, ToggleSave, AssignOpen, AssignLocate,
                AssignRefused, AssignSave, At
  <2> QED
    BY <1>1, <1>5, <2>1 DEF Die, WorldOK
<1> QED
  BY <1>2, <1>3, <1>4, <1>5, TrailStays

LEMMA StepTrail == ASSUME IInv, TrailInv, [Next]_vars PROVE TrailInv'
<1>1. CASE UNCHANGED vars
  BY <1>1 DEF vars, TrailInv, RowsAndDue, RecentRows, Due, Trailed, HasRow, OnTheWay, Live, Gone,
              Old
<1>2. ASSUME NEW w \in Workers, PingInsert(w) PROVE TrailInv'
  BY <1>2, TrailInsert
<1>3. ASSUME NEW w \in Workers, Pings(w) \/ Assigns(w) \/ Die(w) PROVE TrailInv'
  BY <1>2, <1>3, PingOpenTrail, PingLastTrail, OtherTrail DEF Pings
<1> QED
  BY <1>1, <1>3, TrailTick DEF Next

LEMMA InitTrail == ASSUME Init PROVE TrailInv
<1>1. /\ \A o \in Orders : rows[o] = NoRows /\ orderLoc[o] = Gone
      /\ \A w \in Workers : req[w].pc = "idle"
  BY Fresh DEF Init
<1>2. RecentRows(NoRows) = 0
  <2>1. NoRows \in [0..Old -> Nat] /\ \A a \in 0..Throttle : NoRows[a] = 0
    BY RiderAssumption DEF NoRows, Old
  <2>2. \A a \in 0..Throttle : ~(NoRows[a] > 0)
    BY <2>1
  <2> QED
    BY <2>1, <2>2, NoRecentRows
<1>3. RowsAndDue
  <2>1. \A o \in Orders : Due(o) = {}
    BY <1>1 DEF Due
  <2>2. Cardinality({}) = 0 /\ Cardinality(Workers) \in Nat
    BY FS_EmptySet, FS_CardinalityType, RiderAssumption
  <2> SUFFICES ASSUME NEW o \in Orders
               PROVE  RecentRows(rows[o]) + Cardinality(Due(o)) <= Cardinality(Workers)
    BY DEF RowsAndDue
  <2>3. RecentRows(rows[o]) = 0 /\ Cardinality(Due(o)) = 0
    BY <1>1, <1>2, <2>1, <2>2
  <2> QED
    BY <2>2, <2>3
<1>4. Trailed
  BY <1>1, Fresh DEF Trailed
<1> QED
  BY <1>3, <1>4 DEF TrailInv

THEOREM TrailInvariance == Spec => []TrailInv
<1>1. IInv /\ TrailInv /\ [Next]_vars => TrailInv'
  BY StepTrail
<1> QED
  BY <1>1, InitTrail, RiderInvariant, PTL DEF Spec

\* For every number of workers and every throttle: the test and the insert of
\* ping_location (orders/views.py:584) leave one recent row per worker, at most.
THEOREM TrailIsBounded == Spec => []TrailBounded
<1>1. ASSUME IInv, TrailInv PROVE TrailBounded
  <2> SUFFICES ASSUME NEW o \in Orders PROVE RecentRows(rows[o]) <= Cardinality(Workers)
    BY DEF TrailBounded, RecentRows
  <2>1. RecentRows(rows[o]) \in Nat
    BY <1>1, RecentRowsType DEF IInv, TypeOK
  <2>2. Cardinality(Workers) \in Nat /\ Cardinality(Due(o)) \in Nat
    <3>1. IsFiniteSet(Due(o))
      BY FS_Subset, RiderAssumption DEF Due
    <3> QED
      BY <3>1, FS_CardinalityType, RiderAssumption
  <2>3. RecentRows(rows[o]) + Cardinality(Due(o)) <= Cardinality(Workers)
    BY <1>1 DEF TrailInv, RowsAndDue
  <2> QED
    BY <2>1, <2>2, <2>3
<1> QED
  BY <1>1, RiderInvariant, TrailInvariance, PTL

\* Rows are never deleted.
LEMMA RowsStay ==
    ASSUME IInv, Next, NEW o \in Orders, HasRow(o)
    PROVE  \E a \in 0..Old : rows'[o][a] > 0
<1>1. rows[o] \in [0..Old -> Nat] /\ rows \in [Orders -> [0..Old -> Nat]]
  BY DEF IInv, TypeOK
<1>2. CASE rows' = rows
  BY <1>2 DEF HasRow
<1>3. CASE Tick
  BY <1>1, <1>3, RowsAged DEF Tick, HasRow
<1>4. ASSUME NEW w \in Workers, PingInsert(w) PROVE \E a \in 0..Old : rows'[o][a] > 0
  <2>1. PICK a \in 0..Old : rows[o][a] > 0
    BY DEF HasRow
  <2> DEFINE x == req[w].order
             row == [rows[x] EXCEPT ![0] = rows[x][0] + 1]
  <2>2. rows' = [rows EXCEPT ![x] = row]
    BY <1>4 DEF PingInsert
  <2>3. CASE x = o
    <3>1. row = [rows[o] EXCEPT ![0] = rows[o][0] + 1]
      BY <2>3
    <3> HIDE DEF x, row
    <3>2. rows'[o] = row
      BY <1>1, <2>2, <2>3
    <3>3. row[a] > 0
      <4>1. rows[o][0] \in Nat /\ rows[o][a] \in Nat
        BY <1>1, RiderAssumption DEF Old
      <4>2. row[a] = IF a = 0 THEN rows[o][0] + 1 ELSE rows[o][a]
        BY <1>1, <3>1
      <4> QED
        BY <2>1, <4>1, <4>2
    <3> QED
      BY <3>2, <3>3
  <2>4. CASE x # o
    <3> HIDE DEF x, row
    <3>1. rows'[o] = rows[o]
      BY <1>1, <2>2, <2>4
    <3> QED
      BY <2>1, <3>1
  <2> QED
    BY <2>3, <2>4
<1>5. ASSUME NEW w \in Workers, Pings(w) \/ Assigns(w) \/ Die(w), ~PingInsert(w) PROVE rows' = rows
  BY <1>5 DEF Pings, Assigns, Report, PingOpen, PingLast, ToggleOpen, ToggleSave, AssignOpen,
              AssignLocate, AssignRefused, AssignSave, Die
<1> QED
  BY <1>2, <1>3, <1>4, <1>5 DEF Next

\* For every TTL and throttle: order_tracking_data (orders/views.py:314) does not go dark
\* on a customer unless the ping that set the position is on its way or died.
THEOREM TrackingIsKept == Spec => TrackingStays
<1> DEFINE Stays == \A o \in Orders :
               (Tracked(o) /\ ~Tracked(o)')
               => \/ lost[o]
                  \/ \E w \in Workers : req[w].order = o /\ req[w].pc \in {"reported", "due"}
<1>1. IInv /\ TrailInv /\ [Next]_vars => [Stays]_vars
  <2> SUFFICES ASSUME IInv, TrailInv, Next, NEW o \in Orders, Tracked(o), ~Tracked(o)'
               PROVE  lost[o] \/ OnTheWay(o)
    BY DEF OnTheWay
  <2>1. ~HasRow(o)
    BY RowsStay DEF Tracked, Old
  <2>2. Live(orderLoc[o])
    BY <2>1 DEF Tracked, HasRow
  <2> QED
    BY <2>1, <2>2 DEF TrailInv, Trailed
<1> QED
  BY <1>1, RiderInvariant, TrailInvariance, PTL DEF Spec, TrackingStays, Stays
=============================================================================
