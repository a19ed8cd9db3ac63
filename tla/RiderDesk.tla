----------------------------- MODULE RiderDesk -----------------------------
(***************************************************************************)
(* Where the riders of one area are, and what is decided by it: positions  *)
(* in Redis that expire (orders/geo_cache.py), the rows kept of a delivery *)
(* (orders/views.py, ping_location), the duty switch, and the choice of    *)
(* the nearest rider (locations/utils.py) for an order.                    *)
(*                                                                         *)
(* Redis may be away at any call: a write is then skipped and a read       *)
(* returns nothing.  Time passes in ticks; a tick is what TTL, Throttle and*)
(* Lifetime are counted in.                                                *)
(***************************************************************************)
EXTENDS Integers, FiniteSets, Functions

CONSTANTS Riders, Orders, Workers,
          NoOne,
          Places,
          Nowhere,
          Distance,   \* Distance[o][p]: from the address of order o to place p
          TTL,        \* LOCATION_TTL_SECONDS, 90 s
          Throttle,   \* one row a minute, 60 s
          Lifetime    \* gunicorn --timeout, 120 s: no request is older

ASSUME RiderAssumption ==
    /\ IsFiniteSet(Workers)
    /\ NoOne \notin Riders
    /\ Nowhere \notin Places
    /\ Distance \in [Orders -> [Places -> Nat]]
    /\ TTL \in Nat \ {0} /\ Throttle \in Nat /\ Lifetime \in Nat

VARIABLES riderLoc,   \* riderLoc[r]: the key rider_loc:r of Redis
          orderLoc,   \* orderLoc[o]: the key order_loc:o
          rows,       \* rows[o][a]: rows of DeliveryLocationPing that are a ticks old
          duty,       \* duty[r]: is_on_duty
          rider,      \* rider[o]: delivery_member
          req,        \* req[w]: the request of worker w
          silent,     \* silent[r]: ticks since the phone of r last reported (history)
          off,        \* off[r]: ticks since r was last on duty (history)
          lost        \* lost[o]: a ping for o died before it wrote its row (history)

keys == <<riderLoc, orderLoc>>
history == <<silent, off, lost>>
vars == <<riderLoc, orderLoc, rows, duty, rider, req, silent, off, lost>>

\* A key of Redis: a position, and how long ago it was set.
Gone == [at |-> Nowhere, age |-> 0]
Here(p) == [at |-> p, age |-> 0]
Live(key) == key # Gone

\* Rows older than the throttle look alike; one of them stands for all.
Old == Throttle + 1
NoRows == [a \in 0..Old |-> 0]

NoRequest == [pc |-> "idle", order |-> NoOne, rider |-> NoOne, on |-> FALSE,
              candidates |-> {}, seen |-> [r \in Riders |-> Nowhere],
              ticks |-> 0, moved |-> FALSE]

Init == /\ riderLoc = [r \in Riders |-> Gone]
        /\ orderLoc = [o \in Orders |-> Gone]
        /\ rows = [o \in Orders |-> NoRows]
        /\ duty = [r \in Riders |-> FALSE]
        /\ rider \in [Orders -> Riders \cup {NoOne}]
        /\ req = [w \in Workers |-> NoRequest]
        /\ silent = [r \in Riders |-> TTL + Lifetime]
        /\ off = [r \in Riders |-> Lifetime + 1]
        /\ lost = [o \in Orders |-> FALSE]

At(w, pc) == req[w].pc = pc
AtMost(n, bound) == IF n <= bound THEN n ELSE bound

\* The requests, when w goes on with r; what a choice under way was based on may
\* have moved.
Stirred == \/ \E x \in Riders : riderLoc'[x].at # riderLoc[x].at
           \/ duty' # duty
Goes(w, r) == req' = [v \in Workers |->
    LET q == IF v = w THEN r ELSE req[v]
    IN  IF q.pc \in {"listed", "located"} /\ Stirred THEN [q EXCEPT !.moved = TRUE] ELSE q]

-----------------------------------------------------------------------------
(* Reports of the phones *)

\* setex, unless Redis is away.
SetRider(r, p) == riderLoc' \in {riderLoc, [riderLoc EXCEPT ![r] = Here(p)]}
SetOrder(o, p) == orderLoc' \in {orderLoc, [orderLoc EXCEPT ![o] = Here(p)]}

\* update_my_location, one write.
Report(w, r, p) ==
    /\ At(w, "idle")
    /\ SetRider(r, p)
    /\ silent' = [silent EXCEPT ![r] = 0]
    /\ UNCHANGED <<orderLoc, rows, duty, rider, off, lost>>
    /\ Goes(w, NoRequest)

\* ping_location: the order of this rider, both keys.
PingOpen(w, r, o, p) ==
    /\ At(w, "idle")
    /\ rider[o] = r
    /\ SetOrder(o, p) /\ SetRider(r, p)
    /\ silent' = [silent EXCEPT ![r] = 0]
    /\ UNCHANGED <<rows, duty, rider, off, lost>>
    /\ Goes(w, [NoRequest EXCEPT !.pc = "reported", !.order = o])

\* Seeded faults: the throttle is forgotten, or asks Redis.
NeverRecent(o) == FALSE
RecentInRedis(o) == Live(orderLoc[o])

\* The newest row is not older than the throttle.
Recent(o) == \E a \in 0..Throttle : rows[o][a] > 0

PingLast(w) ==
    /\ At(w, "reported")
    /\ UNCHANGED <<keys, rows, duty, rider, history>>
    /\ Goes(w, IF Recent(req[w].order) THEN NoRequest ELSE [req[w] EXCEPT !.pc = "due"])

PingInsert(w) ==
    /\ At(w, "due")
    /\ rows' = [rows EXCEPT ![req[w].order][0] = @ + 1]
    /\ UNCHANGED <<keys, duty, rider, history>>
    /\ Goes(w, NoRequest)

-----------------------------------------------------------------------------
(* toggle_duty *)

ToggleOpen(w, r) ==
    /\ At(w, "idle")
    /\ UNCHANGED <<keys, rows, duty, rider, history>>
    /\ Goes(w, [NoRequest EXCEPT !.pc = "toggle", !.rider = r, !.on = ~duty[r]])

ToggleSave(w) ==
    /\ At(w, "toggle")
    /\ duty' = [duty EXCEPT ![req[w].rider] = req[w].on]
    /\ off' = [off EXCEPT ![req[w].rider] = IF req[w].on \/ duty[req[w].rider] THEN 0 ELSE @]
    /\ UNCHANGED <<keys, rows, rider, silent, lost>>
    /\ Goes(w, NoRequest)

-----------------------------------------------------------------------------
(* auto_assign_delivery_member, find_nearest_delivery_member *)

\* Seeded fault: whoever reports may be sent.
CandidatesOffDuty == Riders

Candidates == {r \in Riders : duty[r]}

AssignOpen(w, o) ==
    /\ At(w, "idle")
    /\ UNCHANGED <<keys, rows, duty, rider, history>>
    /\ Goes(w, [NoRequest EXCEPT !.pc = "listed", !.order = o, !.candidates = Candidates])

\* get_rider_locations, of those who have a key.
Located(candidates) == {r \in candidates : Live(riderLoc[r])}

AssignLocate(w) ==
    LET located == Located(req[w].candidates) IN
    /\ At(w, "listed")
    /\ located # {}
    /\ UNCHANGED <<keys, rows, duty, rider, history>>
    /\ Goes(w, [req[w] EXCEPT !.pc = "located", !.candidates = located,
                              !.seen = [r \in Riders |-> IF r \in located THEN riderLoc[r].at
                                                                          ELSE Nowhere]])

\* "No on-duty delivery member with a recent location", or Redis is away.
AssignRefused(w) ==
    /\ At(w, "listed")
    /\ UNCHANGED <<keys, rows, duty, rider, history>>
    /\ Goes(w, NoRequest)

\* Seeded fault: the comparison is the wrong way round.
FarthestOf(q) == {r \in q.candidates : \A x \in q.candidates :
                      Distance[q.order][q.seen[x]] <= Distance[q.order][q.seen[r]]}

\* The nearest, one of them if two are as near.
NearestOf(q) == {r \in q.candidates : \A x \in q.candidates :
                      Distance[q.order][q.seen[r]] <= Distance[q.order][q.seen[x]]}

AssignSave(w) ==
    /\ At(w, "located")
    /\ \E r \in NearestOf(req[w]) : rider' = [rider EXCEPT ![req[w].order] = r]
    /\ UNCHANGED <<keys, rows, duty, history>>
    /\ Goes(w, NoRequest)

-----------------------------------------------------------------------------
(* Time, and workers that die *)

\* Seeded fault: a key is set without a time to live.
AgedForever(key) == IF Live(key) THEN [key EXCEPT !.age = @ + 1] ELSE key

\* A key expires when it is TTL old.
Aged(key) == IF Live(key) /\ key.age + 1 < TTL THEN [key EXCEPT !.age = @ + 1] ELSE Gone

AgedRows(s) == [a \in 0..Old |-> IF a = 0 THEN 0
                                 ELSE IF a = Old THEN AtMost(s[Old] + s[Throttle], 1)
                                 ELSE s[a - 1]]

\* Gunicorn kills a request that is Lifetime old before time goes on.
Tick ==
    /\ \A w \in Workers : req[w].ticks < Lifetime
    /\ riderLoc' = [r \in Riders |-> Aged(riderLoc[r])]
    /\ orderLoc' = [o \in Orders |-> Aged(orderLoc[o])]
    /\ rows' = [o \in Orders |-> AgedRows(rows[o])]
    /\ silent' = [r \in Riders |-> AtMost(silent[r] + 1, TTL + Lifetime)]
    /\ off' = [r \in Riders |-> IF duty[r] THEN 0 ELSE AtMost(off[r] + 1, Lifetime + 1)]
    /\ UNCHANGED duty
    /\ req' = [w \in Workers |->
                  IF At(w, "idle") THEN req[w]
                  ELSE [req[w] EXCEPT !.ticks = @ + 1,
                                      !.moved = @ \/ (req[w].pc # "reported" /\ Stirred)]]
    /\ UNCHANGED <<rider, lost>>

Die(w) ==
    /\ ~At(w, "idle")
    /\ lost' = IF req[w].pc \in {"reported", "due"}
               THEN [lost EXCEPT ![req[w].order] = TRUE] ELSE lost
    /\ UNCHANGED <<keys, rows, duty, rider, silent, off>>
    /\ Goes(w, NoRequest)

Pings(w) == \/ \E r \in Riders, p \in Places : Report(w, r, p)
            \/ \E r \in Riders, o \in Orders, p \in Places : PingOpen(w, r, o, p)
            \/ PingLast(w) \/ PingInsert(w)

Assigns(w) == \/ \E r \in Riders : ToggleOpen(w, r)
              \/ ToggleSave(w)
              \/ \E o \in Orders : AssignOpen(w, o)
              \/ AssignLocate(w) \/ AssignRefused(w) \/ AssignSave(w)

Next == Tick \/ \E w \in Workers : Pings(w) \/ Assigns(w) \/ Die(w)

Spec == Init /\ [][Next]_vars

-----------------------------------------------------------------------------
(* Properties *)

\* Keys are younger than their TTL, rows and requests have their types.
TypeOK ==
    LET Key == [at : Places, age : 0..(TTL - 1)] \cup {Gone} IN
    /\ riderLoc \in [Riders -> Key]
    /\ orderLoc \in [Orders -> Key]
    /\ rows \in [Orders -> [0..Old -> Nat]]
    /\ duty \in [Riders -> BOOLEAN]
    /\ rider \in [Orders -> Riders \cup {NoOne}]
    /\ req \in [Workers -> [pc : {"idle", "reported", "due", "toggle", "listed", "located"},
                            order : Orders \cup {NoOne}, rider : Riders \cup {NoOne},
                            on : BOOLEAN, candidates : SUBSET Riders,
                            seen : [Riders -> Places \cup {Nowhere}],
                            ticks : 0..Lifetime, moved : BOOLEAN]]
    /\ silent \in [Riders -> 0..(TTL + Lifetime)]
    /\ off \in [Riders -> 0..(Lifetime + 1)]
    /\ lost \in [Orders -> BOOLEAN]

\* views.py:584 promises a row "at most once a minute"; the test and the insert are
\* two statements, and what is left of the promise is one row per worker: whoever
\* wrote one reads it until it is older than the throttle.
TrailBounded ==
    \A o \in Orders :
        SumFunctionOnSet(rows[o], 0..Throttle) <= Cardinality(Workers)

\* order_tracking_data (views.py:314): the live position, or the last row.
Tracked(o) == Live(orderLoc[o]) \/ \E a \in 0..Old : rows[o][a] > 0

\* Tracking does not go dark: a customer who was shown a position is shown one from
\* then on, unless a ping that set the position is still on its way to its row or
\* died there.  Throttle, TTL and the fallback together give this.
TrackingStays ==
    [][\A o \in Orders :
          (Tracked(o) /\ ~Tracked(o)')
          => \/ lost[o]
             \/ \E w \in Workers : req[w].order = o /\ req[w].pc \in {"reported", "due"}]_vars

\* auto_assign (views.py:407) finds an "on-duty, recently-active" rider: the one it
\* saves was on duty within the life of a request, and had reported less than TTL
\* before that, whoever toggles or falls silent meanwhile.
AssignedWasAvailable ==
    [][\A o \in Orders :
          rider'[o] # rider[o] => /\ off[rider'[o]] <= Lifetime
                                  /\ silent[rider'[o]] < TTL + Lifetime]_vars

\* If nobody moved, fell silent or switched duty while the handler worked, it saves
\* the nearest of all riders on duty that have a position now.
AssignedIsNearest ==
    [][\A w \in Workers :
          (/\ At(w, "located") /\ ~req[w].moved
           /\ rider'[req[w].order] # rider[req[w].order] /\ req'[w] # req[w])
          => \A r \in Riders :
                (duty[r] /\ Live(riderLoc[r])) =>
                    Distance[req[w].order][riderLoc[rider'[req[w].order]].at]
                        <= Distance[req[w].order][riderLoc[r].at]]_vars
=============================================================================
