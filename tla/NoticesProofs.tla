---------------------------- MODULE NoticesProofs ---------------------------
(***************************************************************************)
(* Proofs about Notices, for every number of requests, of processes, of    *)
(* retries and of losses, and for every backend that settings.py names.    *)
(*                                                                         *)
(* The inductive invariant IInv adds to the properties what they rest on:  *)
(* a handler that tells after its save tells of what it saved (SavedIsTold)*)
(* and a task that is not concluded was refused exactly as often as it was *)
(* retried, so that it arrived no more often than that (TasksFit).         *)
(*                                                                         *)
(* TellInv is about who must still be told, while nothing was lost: he is  *)
(* on the list of the request that changed the order, or his task exists.  *)
(* It rests on what a handler knows of the order (Known): a status that is *)
(* saved over itself, or a second "placed", is announced already.          *)
(***************************************************************************)
EXTENDS Notices, SequenceTheorems, FiniteSetTheorems, TLAPS

SavedIsTold == \A r \in Requests : At(r, "told") => req[r].new \in committed

Fit(task) ==
    /\ task.state \in {"waiting", "running"} =>
          task.arrived <= task.retries /\ task.refused = task.retries
    /\ task.arrived <= MaxRetries + 1
    /\ task.state = "given_up" => task.refused = MaxRetries + 1

TasksFit == \A n \in DOMAIN tasks : Fit(tasks[n])

Request == [pc : {"idle", "save", "tx", "told"}, new : Statuses,
            prev : Statuses, left : Seq(People)]
Notice == [kind : {"sms", "whatsapp"}, new : Statuses \cup {"code"}, to : People,
           state : {"waiting", "running", "done", "given_up", "lost"},
           retries : 0..MaxRetries, arrived : Nat, refused : Nat]

\* What TypeOK says of the handlers, and of the tasks.
WebOK == /\ {status} \cup committed \cup undone \subseteq Statuses
         /\ lock \in Requests \cup {Nobody}
         /\ \A r \in Requests : At(r, "tx") <=> lock = r
         /\ req \in [Requests -> Request]
TasksOK == tasks \in Seq(Notice) /\ Cardinality(Running) <= Processes

IInv == WebOK /\ TasksOK /\ losses \in 0..MaxLosses /\ SavedIsTold /\ TasksFit /\ ToldTruth

-----------------------------------------------------------------------------
(* Tasks *)

LEMMA RunningIsFinite ==
    ASSUME TasksOK
    PROVE  /\ IsFiniteSet(Running) /\ Cardinality(Running) \in Nat
           /\ DOMAIN tasks = 1..Len(tasks) /\ Len(tasks) \in Nat
           /\ \A n \in DOMAIN tasks : tasks[n] \in Notice
<1>1. /\ DOMAIN tasks = 1..Len(tasks) /\ Len(tasks) \in Nat
      /\ \A n \in DOMAIN tasks : tasks[n] \in Notice
  BY LenProperties, ElementOfSeq DEF TasksOK
<1>2. IsFiniteSet(1..Len(tasks)) /\ Running \in SUBSET (1..Len(tasks))
  BY <1>1, FS_Interval DEF Running
<1> QED
  BY <1>1, <1>2, FS_Subset, FS_CardinalityType

\* A task that is written in place leaves the others.
LEMMA TaskWritten ==
    ASSUME TasksOK, NEW n \in DOMAIN tasks, NEW task \in Notice,
           tasks' = [tasks EXCEPT ![n] = task]
    PROVE  /\ tasks' \in Seq(Notice) /\ DOMAIN tasks' = DOMAIN tasks
           /\ \A m \in DOMAIN tasks : tasks'[m] = IF m = n THEN task ELSE tasks[m]
<1>1. tasks \in Seq(Notice) /\ n \in 1..Len(tasks) /\ DOMAIN tasks = 1..Len(tasks)
  BY RunningIsFinite DEF TasksOK
<1>2. /\ tasks' \in Seq(Notice) /\ Len(tasks') = Len(tasks)
      /\ \A m \in 1..Len(tasks) : tasks'[m] = IF m = n THEN task ELSE tasks[m]
  BY <1>1, ExceptSeq
<1> QED
  BY <1>1, <1>2, LenProperties

\* A task that ends, or waits again, frees its process.
LEMMA TaskLeaves ==
    ASSUME TasksOK, NEW n \in DOMAIN tasks, NEW task \in Notice, task.state # "running",
           tasks' = [tasks EXCEPT ![n] = task]
    PROVE  TasksOK'
<1>1. Running' \in SUBSET Running
  BY TaskWritten DEF Running
<1>2. Cardinality(Running') <= Cardinality(Running) /\ Cardinality(Running') \in Nat
  BY <1>1, RunningIsFinite, FS_Subset, FS_CardinalityType
<1> QED
  BY <1>2, TaskWritten, RunningIsFinite, NoticesAssumption DEF TasksOK

LEMMA TaskAdded ==
    ASSUME TasksOK, NEW task \in Notice, task.state = "waiting", Enqueue(task)
    PROVE  /\ TasksOK' /\ DOMAIN tasks' = DOMAIN tasks \cup {Len(tasks) + 1}
           /\ \A m \in DOMAIN tasks : tasks'[m] = tasks[m]
           /\ tasks'[Len(tasks) + 1] = task
<1>1. /\ tasks' \in Seq(Notice) /\ Len(tasks') = Len(tasks) + 1
      /\ \A m \in 1..Len(tasks) : tasks'[m] = tasks[m]
      /\ tasks'[Len(tasks) + 1] = task
  BY AppendProperties DEF TasksOK, Enqueue
<1>2. /\ DOMAIN tasks = 1..Len(tasks) /\ Len(tasks) \in Nat
      /\ DOMAIN tasks' = 1..Len(tasks) + 1
  BY <1>1, RunningIsFinite, LenProperties
<1>3. DOMAIN tasks' = DOMAIN tasks \cup {Len(tasks) + 1}
  BY <1>2
<1>4. Running' = Running
  BY <1>1, <1>2, <1>3 DEF Running
<1> QED
  BY <1>1, <1>2, <1>3, <1>4 DEF TasksOK

\* What is enqueued is a task, and fits.
LEMMA TaskIsNotice ==
    ASSUME NEW kind \in {"sms", "whatsapp"}, NEW new \in Statuses \cup {"code"}, NEW to \in People
    PROVE  /\ Task(kind, new, to) \in Notice /\ Fit(Task(kind, new, to))
           /\ Task(kind, new, to).state = "waiting"
           /\ Task(kind, new, to).kind = kind /\ Task(kind, new, to).new = new
BY NoticesAssumption DEF Task, Notice, Fit

Outcome(task, call) ==
    IF call.ok THEN [Arrive(task, call) EXCEPT !.state = "done"] ELSE Retry(Arrive(task, call))

\* Whatever the gateway does, a try leaves a task that fits: one that arrived once more
\* at most, and was refused once more if it is tried again or given up.
LEMMA OutcomeFits ==
    ASSUME NEW task \in Notice, task.state = "running", Fit(task), NEW call
    PROVE  /\ Outcome(task, call) \in Notice /\ Fit(Outcome(task, call))
           /\ Outcome(task, call).state # "running"
           /\ Outcome(task, call).kind = task.kind /\ Outcome(task, call).new = task.new
<1> DEFINE n == task.arrived + IF call.arrives THEN 1 ELSE 0
           t == Arrive(task, call)
<1>1. /\ n \in Nat /\ n <= task.retries + 1
      /\ task.retries \in 0..MaxRetries /\ task.refused = task.retries
  BY NoticesAssumption DEF Notice, Fit
<1>2. /\ t \in Notice /\ t.arrived = n /\ t.retries = task.retries
      /\ t.refused = task.refused /\ t.kind = task.kind /\ t.new = task.new
  BY <1>1 DEF Arrive, Notice
<1> HIDE DEF n, t
<1>3. CASE call.ok
  <2> DEFINE o == [t EXCEPT !.state = "done"]
  <2>1. o = Outcome(task, call)
    BY <1>3 DEF Outcome, t
  <2>2. /\ o \in Notice /\ o.state = "done" /\ o.arrived = n
        /\ o.kind = task.kind /\ o.new = task.new
    BY <1>2 DEF Notice
  <2> HIDE DEF o
  <2>3. Fit(o)
    BY <1>1, <2>2, NoticesAssumption DEF Fit
  <2> QED
    BY <2>1, <2>2, <2>3
<1>4. CASE ~call.ok /\ t.retries < MaxRetries
  <2> DEFINE o == [t EXCEPT !.state = "waiting", !.retries = @ + 1, !.refused = @ + 1]
  <2>1. o = Outcome(task, call)
    BY <1>4 DEF Outcome, Retry, t
  <2>2. t.retries + 1 \in 0..MaxRetries /\ t.refused + 1 \in Nat
    BY <1>1, <1>2, <1>4, NoticesAssumption DEF Notice
  <2>3. /\ o \in Notice /\ o.state = "waiting" /\ o.arrived = n
        /\ o.retries = t.retries + 1 /\ o.refused = t.refused + 1
        /\ o.kind = task.kind /\ o.new = task.new
    BY <1>2, <2>2 DEF Notice
  <2> HIDE DEF o
  <2>4. Fit(o)
    BY <1>1, <1>2, <2>3, NoticesAssumption DEF Fit
  <2> QED
    BY <2>1, <2>3, <2>4
<1>5. CASE ~call.ok /\ ~(t.retries < MaxRetries)
  <2> DEFINE o == [t EXCEPT !.state = "given_up", !.refused = @ + 1]
  <2>1. o = Outcome(task, call)
    BY <1>5 DEF Outcome, Retry, t
  <2>2. t.retries = MaxRetries /\ t.refused + 1 \in Nat
    BY <1>1, <1>2, <1>5, NoticesAssumption DEF Notice
  <2>3. /\ o \in Notice /\ o.state = "given_up" /\ o.arrived = n
        /\ o.refused = t.refused + 1
        /\ o.kind = task.kind /\ o.new = task.new
    BY <1>2, <2>2 DEF Notice
  <2> HIDE DEF o
  <2>4. Fit(o)
    BY <1>1, <1>2, <2>2, <2>3, NoticesAssumption DEF Fit
  <2> QED
    BY <2>1, <2>3, <2>4
<1> QED
  BY <1>3, <1>4, <1>5

-----------------------------------------------------------------------------
(* Handlers *)

LEMMA RequestMoves ==
    ASSUME WebOK, NEW r \in Requests, NEW q \in Request, Goes(r, q)
    PROVE  /\ req' \in [Requests -> Request] /\ req'[r] = q
           /\ \A x \in Requests \ {r} : req'[x] = req[x]
BY DEF WebOK, Goes

LEMMA StartTyped ==
    /\ NoRequest \in Request /\ NoRequest.pc = "idle"
    /\ AtCheckout \in Seq(People) /\ Audience \in Seq(People)
<1>1. NoRequest \in Request /\ NoRequest.pc = "idle"
  BY DEF NoRequest, Request, Statuses
<1>2. \A who \in {AtCheckout, Audience} :
          {who[i] : i \in DOMAIN who} \subseteq People
  BY DEF People
<1>3. \A who \in {AtCheckout, Audience} : who \in Seq(People)
  BY <1>2, NoticesAssumption, LenProperties, ElementOfSeq, SeqDef
<1> QED
  BY <1>1, <1>3

\* A step that leaves the tasks alone: who was told the truth still was, when what the
\* open transaction has told of is still its status, or on record.
LEMMA TruthStays ==
    ASSUME ToldTruth, tasks' = tasks, committed \subseteq committed', undone \subseteq undone',
           lock # Nobody => \/ lock' # Nobody /\ req'[lock'].new = req[lock].new
                            \/ req[lock].new \in (committed \cup undone)'
    PROVE  ToldTruth'
BY DEF ToldTruth

LEMMA TasksStay ==
    ASSUME TasksOK, TasksFit, tasks' = tasks
    PROVE  TasksOK' /\ TasksFit'
BY DEF TasksOK, TasksFit, Running

LEMMA OpenStep ==
    ASSUME IInv, NEW r \in Requests, Checkout(r) \/ Cancel(r)
    PROVE  IInv'
<1>1. PICK q \in Request : q.pc = "tx" /\ Goes(r, q)
  <2>1. CASE Checkout(r)
    BY <2>1, StartTyped DEF Checkout, Request, Statuses
  <2>2. CASE Cancel(r)
    BY <2>2, StartTyped DEF Cancel, Request, Statuses, IInv, WebOK
  <2> QED
    BY <2>1, <2>2
<1>2. /\ At(r, "idle") /\ lock = Nobody /\ lock' = r
      /\ UNCHANGED <<status, tasks, committed, undone, losses>>
  BY DEF Checkout, Cancel
<1>3. WebOK /\ TasksOK /\ TasksFit /\ SavedIsTold /\ ToldTruth /\ losses \in 0..MaxLosses
  BY DEF IInv
<1>4. /\ req' \in [Requests -> Request] /\ req'[r] = q
      /\ \A x \in Requests \ {r} : req'[x] = req[x]
  BY <1>1, <1>3, RequestMoves
<1>5. WebOK'
  BY <1>1, <1>2, <1>3, <1>4, NoticesAssumption DEF WebOK, At
<1>6. SavedIsTold'
  BY <1>1, <1>2, <1>3, <1>4 DEF SavedIsTold, At
<1>7. ToldTruth'
  BY <1>2, <1>3, TruthStays
<1> QED
  BY <1>2, <1>3, <1>5, <1>6, <1>7, TasksStay DEF IInv

LEMMA CommitStep ==
    ASSUME IInv, NEW r \in Requests, Commit(r)
    PROVE  IInv'
<1>1. WebOK /\ TasksOK /\ TasksFit /\ SavedIsTold /\ ToldTruth /\ losses \in 0..MaxLosses
  BY DEF IInv
<1>2. /\ At(r, "tx") /\ Goes(r, NoRequest) /\ lock' = Nobody /\ status' = req[r].new
      /\ committed' = committed \cup {req[r].new} /\ UNCHANGED <<tasks, undone, losses>>
  BY DEF Commit
<1>3. /\ req' \in [Requests -> Request] /\ req'[r] = NoRequest
      /\ \A x \in Requests \ {r} : req'[x] = req[x]
  BY <1>1, <1>2, StartTyped, RequestMoves
<1>4. lock = r /\ req[r].new \in Statuses
  BY <1>1, <1>2 DEF WebOK, Request
<1>5. WebOK'
  BY <1>1, <1>2, <1>3, <1>4, StartTyped, NoticesAssumption DEF WebOK, At
<1>6. SavedIsTold'
  BY <1>1, <1>2, <1>3, StartTyped DEF SavedIsTold, At
<1>7. ToldTruth'
  BY <1>1, <1>2, <1>4, TruthStays
<1> QED
  BY <1>1, <1>2, <1>5, <1>6, <1>7, TasksStay DEF IInv

LEMMA PreSaveStep ==
    ASSUME IInv, NEW r \in Requests, NEW s \in Posts, PreSave(r, s)
    PROVE  IInv'
<1> DEFINE q == [pc |-> "save", new |-> s, prev |-> status, left |-> <<>>]
<1>1. WebOK /\ TasksOK /\ TasksFit /\ SavedIsTold /\ ToldTruth /\ losses \in 0..MaxLosses
  BY DEF IInv
<1>2. /\ At(r, "idle") /\ Goes(r, q)
      /\ UNCHANGED <<status, lock, tasks, committed, undone, losses>>
  BY DEF PreSave
<1>3. q \in Request /\ q.pc = "save"
  BY <1>1 DEF Request, Statuses, WebOK
<1> HIDE DEF q
<1>4. /\ req' \in [Requests -> Request] /\ req'[r] = q
      /\ \A x \in Requests \ {r} : req'[x] = req[x]
  BY <1>1, <1>2, <1>3, RequestMoves
<1>5. lock # r
  BY <1>1, <1>2 DEF WebOK, At
<1>6. WebOK'
  BY <1>1, <1>2, <1>3, <1>4, <1>5 DEF WebOK, At
<1>7. SavedIsTold'
  BY <1>1, <1>2, <1>3, <1>4 DEF SavedIsTold, At
<1>8. ToldTruth'
  BY <1>1, <1>2, <1>4, <1>5, TruthStays DEF WebOK
<1> QED
  BY <1>1, <1>2, <1>6, <1>7, <1>8, TasksStay DEF IInv

LEMMA SaveStep ==
    ASSUME IInv, NEW r \in Requests, Save(r)
    PROVE  IInv'
<1>1. WebOK /\ TasksOK /\ TasksFit /\ SavedIsTold /\ ToldTruth /\ losses \in 0..MaxLosses
  BY DEF IInv
<1>2. /\ At(r, "save") /\ lock = Nobody /\ status' = req[r].new
      /\ committed' = committed \cup {req[r].new} /\ UNCHANGED <<lock, tasks, undone, losses>>
      /\ Goes(r, IF Changed(r) THEN [req[r] EXCEPT !.pc = "told", !.left = Audience]
                               ELSE NoRequest)
  BY DEF Save
<1>3. req[r] \in Request
  BY <1>1 DEF WebOK
<1>4. PICK q \in Request : /\ Goes(r, q)
                           /\ q.pc = "idle" \/ (q.pc = "told" /\ q.new = req[r].new)
  <2>1. [req[r] EXCEPT !.pc = "told", !.left = Audience] \in Request
    BY <1>3, StartTyped DEF Request
  <2>2. /\ [req[r] EXCEPT !.pc = "told", !.left = Audience].pc = "told"
        /\ [req[r] EXCEPT !.pc = "told", !.left = Audience].new = req[r].new
    BY <1>3 DEF Request
  <2> QED
    BY <1>2, <2>1, <2>2, StartTyped
<1>5. /\ req' \in [Requests -> Request] /\ req'[r] = q
      /\ \A x \in Requests \ {r} : req'[x] = req[x]
  BY <1>1, <1>4, RequestMoves
<1>6. WebOK'
  BY <1>1, <1>2, <1>3, <1>4, <1>5, NoticesAssumption DEF WebOK, At, Request
<1>7. SavedIsTold'
  BY <1>1, <1>2, <1>4, <1>5 DEF SavedIsTold, At
<1>8. ToldTruth'
  BY <1>1, <1>2, TruthStays
<1> QED
  BY <1>1, <1>2, <1>6, <1>7, <1>8, TasksStay DEF IInv

LEMMA BreakStep ==
    ASSUME IInv, NEW r \in Requests, Break(r)
    PROVE  IInv'
<1>1. WebOK /\ TasksOK /\ TasksFit /\ SavedIsTold /\ ToldTruth /\ losses \in 0..MaxLosses
  BY DEF IInv
<1>2. /\ Goes(r, NoRequest) /\ UNCHANGED <<status, tasks, committed>>
      /\ losses' \in 0..MaxLosses
      /\ At(r, "tx") => lock' = Nobody /\ undone' = undone \cup {req[r].new}
      /\ ~At(r, "tx") => UNCHANGED <<lock, undone>>
  BY <1>1, NoticesAssumption DEF Break, Loses
<1>3. /\ req' \in [Requests -> Request] /\ req'[r] = NoRequest
      /\ \A x \in Requests \ {r} : req'[x] = req[x]
  BY <1>1, <1>2, StartTyped, RequestMoves
<1>4. At(r, "tx") <=> lock = r
  BY <1>1 DEF WebOK
<1>5. req[r].new \in Statuses
  BY <1>1 DEF WebOK, Request
<1>6. WebOK'
  BY <1>1, <1>2, <1>3, <1>4, <1>5, StartTyped, NoticesAssumption DEF WebOK, At
<1>7. SavedIsTold'
  BY <1>1, <1>2, <1>3, StartTyped DEF SavedIsTold, At
<1>8. ToldTruth'
  BY <1>1, <1>2, <1>3, <1>4, TruthStays DEF WebOK
<1> QED
  BY <1>1, <1>2, <1>6, <1>7, <1>8, TasksStay DEF IInv

LEMMA NotifyStep ==
    ASSUME IInv, NEW r \in Requests, Notify(r)
    PROVE  IInv'
<1> DEFINE task == Task("whatsapp", req[r].new, Head(req[r].left))
<1>1. WebOK /\ TasksOK /\ TasksFit /\ SavedIsTold /\ ToldTruth /\ losses \in 0..MaxLosses
  BY DEF IInv
<1>2. /\ req[r].pc \in {"tx", "told"} /\ req[r].left # <<>> /\ Enqueue(task)
      /\ Goes(r, IF At(r, "told") /\ Len(req[r].left) = 1 THEN NoRequest
                 ELSE [req[r] EXCEPT !.left = Tail(@)])
      /\ UNCHANGED <<status, lock, committed, undone, losses>>
  BY DEF Notify, Telling
<1>3. /\ req[r] \in Request /\ req[r].left \in Seq(People) /\ req[r].new \in Statuses
      /\ Head(req[r].left) \in People /\ Tail(req[r].left) \in Seq(People)
  BY <1>1, <1>2, HeadTailProperties DEF WebOK, Request
<1>4. /\ task \in Notice /\ Fit(task) /\ task.state = "waiting" /\ task.new = req[r].new
  BY <1>3, TaskIsNotice
<1>5. PICK q \in Request : /\ Goes(r, q)
                           /\ \/ q.pc = "idle" /\ At(r, "told")
                              \/ q.pc = req[r].pc /\ q.new = req[r].new
  <2>1. [req[r] EXCEPT !.left = Tail(@)] \in Request
    BY <1>3 DEF Request
  <2>2. /\ [req[r] EXCEPT !.left = Tail(@)].pc = req[r].pc
        /\ [req[r] EXCEPT !.left = Tail(@)].new = req[r].new
    BY <1>3 DEF Request
  <2> QED
    BY <1>2, <2>1, <2>2, StartTyped
<1> HIDE DEF task
<1>6. /\ req' \in [Requests -> Request] /\ req'[r] = q
      /\ \A x \in Requests \ {r} : req'[x] = req[x]
  BY <1>1, <1>5, RequestMoves
<1>7. /\ TasksOK' /\ DOMAIN tasks' = DOMAIN tasks \cup {Len(tasks) + 1}
      /\ \A m \in DOMAIN tasks : tasks'[m] = tasks[m]
      /\ tasks'[Len(tasks) + 1] = task
  BY <1>1, <1>2, <1>4, TaskAdded
<1>8. WebOK'
  BY <1>1, <1>2, <1>5, <1>6 DEF WebOK, At
<1>9. SavedIsTold'
  BY <1>1, <1>2, <1>5, <1>6 DEF SavedIsTold, At
<1>10. TasksFit'
  BY <1>1, <1>4, <1>7 DEF TasksFit
<1>11. lock # Nobody => req'[lock].new = req[lock].new
  BY <1>1, <1>5, <1>6 DEF WebOK, At
<1>12. task.new \in committed \/ (lock # Nobody /\ req[lock].new = task.new)
  BY <1>1, <1>2, <1>4, NoticesAssumption DEF WebOK, SavedIsTold, At
<1>13. ToldTruth'
  BY <1>1, <1>2, <1>7, <1>11, <1>12 DEF ToldTruth
<1> QED
  BY <1>1, <1>2, <1>7, <1>8, <1>9, <1>10, <1>13 DEF IInv

-----------------------------------------------------------------------------
(* The sign-in's SMS, and the worker *)

\* A step of the tasks alone leaves the truth of what the others say.
LEMMA WebStays ==
    ASSUME WebOK, SavedIsTold, UNCHANGED web
    PROVE  WebOK' /\ SavedIsTold'
BY DEF WebOK, SavedIsTold, web, At

LEMMA SendOtpStep == ASSUME IInv, SendOtp PROVE IInv'
<1> DEFINE task == Task("sms", "code", "customer")
<1>1. WebOK /\ TasksOK /\ TasksFit /\ SavedIsTold /\ ToldTruth /\ losses \in 0..MaxLosses
  BY DEF IInv
<1>2. Enqueue(task) /\ UNCHANGED web /\ losses' = losses
  BY DEF SendOtp
<1>3. task \in Notice /\ Fit(task) /\ task.state = "waiting" /\ task.kind = "sms"
  <2>1. "customer" \in People /\ "code" \in Statuses \cup {"code"} /\ "sms" \in {"sms", "whatsapp"}
    BY DEF People
  <2> QED
    BY <2>1, TaskIsNotice
<1> HIDE DEF task
<1>4. /\ TasksOK' /\ DOMAIN tasks' = DOMAIN tasks \cup {Len(tasks) + 1}
      /\ \A m \in DOMAIN tasks : tasks'[m] = tasks[m]
      /\ tasks'[Len(tasks) + 1] = task
  BY <1>1, <1>2, <1>3, TaskAdded
<1>5. TasksFit' /\ ToldTruth'
  BY <1>1, <1>2, <1>3, <1>4 DEF TasksFit, ToldTruth, web
<1> QED
  BY <1>1, <1>2, <1>4, <1>5, WebStays DEF IInv

\* A task written in place, of the same kind and news, that still fits.
LEMMA WorkStep ==
    ASSUME IInv, NEW n \in DOMAIN tasks, NEW task \in Notice, Fit(task), TasksOK',
           task.kind = tasks[n].kind, task.new = tasks[n].new,
           tasks' = [tasks EXCEPT ![n] = task],
           UNCHANGED web, losses' \in 0..MaxLosses
    PROVE  IInv'
<1>1. WebOK /\ TasksOK /\ TasksFit /\ SavedIsTold /\ ToldTruth
  BY DEF IInv
<1>2. /\ DOMAIN tasks' = DOMAIN tasks
      /\ \A m \in DOMAIN tasks : tasks'[m] = IF m = n THEN task ELSE tasks[m]
  BY <1>1, TaskWritten
<1>3. TasksFit'
  BY <1>1, <1>2 DEF TasksFit
<1>4. ToldTruth'
  BY <1>1, <1>2 DEF ToldTruth, web
<1> QED
  BY <1>1, <1>3, <1>4, WebStays DEF IInv

LEMMA TakeStep == ASSUME IInv, NEW n \in DOMAIN tasks, Take(n) PROVE IInv'
<1> DEFINE task == [tasks[n] EXCEPT !.state = "running"]
<1>1. /\ TasksOK /\ TasksFit /\ losses \in 0..MaxLosses /\ tasks[n] \in Notice
  BY RunningIsFinite DEF IInv
<1>2. /\ tasks[n].state = "waiting" /\ Cardinality(Running) < Processes
      /\ tasks' = [tasks EXCEPT ![n] = task]
      /\ UNCHANGED <<web, losses>>
  BY DEF Take
<1>3. /\ task \in Notice /\ task.state = "running" /\ task.arrived = tasks[n].arrived
      /\ task.retries = tasks[n].retries /\ task.refused = tasks[n].refused
      /\ task.kind = tasks[n].kind /\ task.new = tasks[n].new
  BY <1>1 DEF Notice
<1> HIDE DEF task
<1>4. Fit(task)
  BY <1>1, <1>2, <1>3 DEF TasksFit, Fit
<1>5. TasksOK'
  <2>1. /\ tasks' \in Seq(Notice) /\ DOMAIN tasks' = DOMAIN tasks
        /\ \A m \in DOMAIN tasks : tasks'[m] = IF m = n THEN task ELSE tasks[m]
    BY <1>1, <1>2, <1>3, TaskWritten
  <2>2. Running' = Running \cup {n} /\ n \notin Running
    BY <1>2, <1>3, <2>1 DEF Running
  <2>3. Cardinality(Running') = Cardinality(Running) + 1
    BY <1>1, <2>2, RunningIsFinite, FS_AddElement
  <2> QED
    BY <1>1, <1>2, <2>1, <2>3, RunningIsFinite, NoticesAssumption DEF TasksOK
<1> QED
  BY <1>1, <1>2, <1>3, <1>4, <1>5, WorkStep

LEMMA RunStep == ASSUME IInv, NEW n \in DOMAIN tasks, Run(n) PROVE IInv'
<1>1. /\ TasksOK /\ TasksFit /\ losses \in 0..MaxLosses /\ tasks[n] \in Notice
  BY RunningIsFinite DEF IInv
<1>2. tasks[n].state = "running" /\ UNCHANGED <<web, losses>>
  BY DEF Run
<1>3. PICK call \in Call(tasks[n]) : tasks' = [tasks EXCEPT ![n] = Outcome(tasks[n], call)]
  BY DEF Run, Outcome
<1>4. /\ Outcome(tasks[n], call) \in Notice /\ Fit(Outcome(tasks[n], call))
      /\ Outcome(tasks[n], call).state # "running"
      /\ Outcome(tasks[n], call).kind = tasks[n].kind
      /\ Outcome(tasks[n], call).new = tasks[n].new
  BY <1>1, <1>2, OutcomeFits DEF TasksFit
<1>5. TasksOK'
  BY <1>1, <1>3, <1>4, TaskLeaves
<1> QED
  BY <1>1, <1>2, <1>3, <1>4, <1>5, WorkStep

LEMMA KillStep == ASSUME IInv, NEW n \in DOMAIN tasks, Kill(n) PROVE IInv'
<1> DEFINE task == [tasks[n] EXCEPT !.state = "lost"]
<1>1. /\ TasksOK /\ TasksFit /\ losses \in 0..MaxLosses /\ tasks[n] \in Notice
  BY RunningIsFinite DEF IInv
<1>2. /\ tasks' = [tasks EXCEPT ![n] = task] /\ UNCHANGED web
      /\ losses' \in 0..MaxLosses
  BY <1>1, NoticesAssumption DEF Kill, Loses
<1>3. /\ task \in Notice /\ task.state = "lost" /\ task.arrived = tasks[n].arrived
      /\ task.kind = tasks[n].kind /\ task.new = tasks[n].new
  BY <1>1 DEF Notice
<1> HIDE DEF task
<1>4. Fit(task)
  BY <1>1, <1>3 DEF TasksFit, Fit
<1>5. TasksOK'
  BY <1>1, <1>2, <1>3, TaskLeaves
<1> QED
  BY <1>1, <1>2, <1>3, <1>4, <1>5, WorkStep

-----------------------------------------------------------------------------
(* The theorems *)

LEMMA InitIInv == Init => IInv
<1> SUFFICES ASSUME Init PROVE IInv
  OBVIOUS
<1>1. /\ status = "none" /\ lock = Nobody /\ committed = {} /\ undone = {} /\ losses = 0
      /\ req = [r \in Requests |-> NoRequest] /\ tasks = <<>>
  BY DEF Init
<1>2. WebOK /\ SavedIsTold
  BY <1>1, StartTyped, NoticesAssumption DEF WebOK, SavedIsTold, At, Statuses
<1>3. DOMAIN tasks = {}
  BY <1>1
<1>4. TasksOK
  <2>1. tasks \in Seq(Notice) /\ Running = {}
    BY <1>1, <1>3 DEF Running
  <2> QED
    BY <2>1, FS_EmptySet, NoticesAssumption DEF TasksOK
<1>5. TasksFit /\ ToldTruth
  BY <1>3 DEF TasksFit, ToldTruth
<1> QED
  BY <1>1, <1>2, <1>4, <1>5, NoticesAssumption DEF IInv

LEMMA StepIInv == IInv /\ [Next]_vars => IInv'
<1> SUFFICES ASSUME IInv, [Next]_vars PROVE IInv'
  OBVIOUS
<1>1. CASE \E r \in Requests : \/ Checkout(r) \/ Cancel(r) \/ Handle(r) \/ Break(r)
                               \/ \E s \in Posts : PreSave(r, s)
  BY <1>1, OpenStep, CommitStep, PreSaveStep, SaveStep, NotifyStep, BreakStep DEF Handle
<1>2. CASE SendOtp
  BY <1>2, SendOtpStep
<1>3. CASE \E n \in DOMAIN tasks : Work(n) \/ Kill(n)
  BY <1>3, TakeStep, RunStep, KillStep DEF Work
<1>4. CASE UNCHANGED vars
  BY <1>4, TasksStay, WebStays, TruthStays DEF vars, web, IInv
<1> QED
  BY <1>1, <1>2, <1>3, <1>4 DEF Next

\* The strengthening holds in every state, for all the actions of Notices.
THEOREM NoticesInvariant == Spec => []IInv
BY InitIInv, StepIInv, PTL DEF Spec

\* Requests, orders and tasks are what they are meant to be, the order is locked by an
\* open transaction or by none, and no more tasks run than the worker has processes.
THEOREM NoticesTyped == Spec => []TypeOK
<1>1. IInv => TypeOK
  BY DEF IInv, TypeOK, WebOK, TasksOK, Request, Notice
<1> QED
  BY <1>1, NoticesInvariant, PTL

\* For every max_retries: a notice arrives at most once more than it is retried, and is
\* given up only when every try was refused (accounts/tasks.py, task_notifications.py).
THEOREM NoticesAreBounded == Spec => []NoticesBounded
<1>1. IInv => NoticesBounded
  BY DEF IInv, TasksFit, Fit, NoticesBounded
<1> QED
  BY <1>1, NoticesInvariant, PTL

\* However many requests overlap, a message names a status the order has had, or one of
\* a transaction that is open or was rolled back (orders/signals.py, orders/views.py).
THEOREM ToldIsTrue == Spec => []ToldTruth
<1>1. IInv => ToldTruth
  BY DEF IInv
<1> QED
  BY <1>1, NoticesInvariant, PTL

-----------------------------------------------------------------------------
(* Nobody is forgotten *)

\* A message of the status new was handed to Celery for who; who is on the list of r;
\* a request that has saved new still has who on its list.
Noticed(new, who) == \E n \in DOMAIN tasks : tasks[n].new = new /\ tasks[n].to = who
Listed(r, who) == \E i \in DOMAIN req[r].left : req[r].left[i] = who
BeingTold(new, who) ==
    \E r \in Requests : At(r, "told") /\ req[r].new = new /\ Listed(r, who)

\* What a handler may have read of the order is a status it had, after it was placed.
Known == status # "none" => status \in committed /\ "placed" \in committed
KnownBefore == \A r \in Requests :
    /\ At(r, "save") => req[r].prev \in committed /\ "placed" \in committed
    /\ At(r, "tx") => req[r].new = "placed" \/ "placed" \in committed

\* Whoever an open transaction has not told yet is still on its list.
StillTells(r) == At(r, "tx") =>
    \A i \in DOMAIN ToTell(req[r].new) :
        \/ Noticed(req[r].new, ToTell(req[r].new)[i])
        \/ Listed(r, ToTell(req[r].new)[i])
OpenTells == \A r \in Requests : StillTells(r)

\* Whoever is concerned by a status the order has had was sent a message of it, or is
\* about to be.
NobodyForgotten == \A new \in committed : \A i \in DOMAIN ToTell(new) :
    Noticed(new, ToTell(new)[i]) \/ BeingTold(new, ToTell(new)[i])

NoneLost == \A n \in DOMAIN tasks : tasks[n].state # "lost"

Telltale == losses = 0 => OpenTells /\ NobodyForgotten /\ NoneLost
TellInv == Known /\ KnownBefore /\ Telltale

\* What was handed to Celery stays so.
LEMMA NoticesKept ==
    ASSUME IInv, NEW n \in DOMAIN tasks, NEW task \in Notice,
           task.new = tasks[n].new, task.to = tasks[n].to,
           tasks' = [tasks EXCEPT ![n] = task]
    PROVE  /\ \A new, who : Noticed(new, who) => Noticed(new, who)'
           /\ NoneLost /\ task.state # "lost" => NoneLost'
<1>1. /\ DOMAIN tasks' = DOMAIN tasks
      /\ \A m \in DOMAIN tasks : tasks'[m] = IF m = n THEN task ELSE tasks[m]
  BY TaskWritten DEF IInv
<1> QED
  BY <1>1 DEF Noticed, NoneLost

LEMMA OutcomeOfSame ==
    ASSUME NEW task \in Notice, NEW call
    PROVE  /\ Outcome(task, call).new = task.new /\ Outcome(task, call).to = task.to
           /\ Outcome(task, call).state # "lost"
<1> DEFINE t == Arrive(task, call)
<1>1. /\ t.new = task.new /\ t.to = task.to
      /\ DOMAIN t = {"kind", "new", "to", "state", "retries", "arrived", "refused"}
  BY DEF Arrive, Notice
<1> HIDE DEF t
<1>2. /\ [t EXCEPT !.state = "done"].new = t.new
      /\ [t EXCEPT !.state = "done"].to = t.to
      /\ [t EXCEPT !.state = "done"].state = "done"
  BY <1>1
<1>3. /\ Retry(t).new = t.new /\ Retry(t).to = t.to
      /\ Retry(t).state \in {"waiting", "given_up"}
  BY <1>1 DEF Retry
<1> QED
  BY <1>1, <1>2, <1>3 DEF Outcome, t

\* A step of the tasks alone.
LEMMA TellTasks ==
    ASSUME IInv, TellInv, UNCHANGED web, losses' = losses,
           \A new, who : Noticed(new, who) => Noticed(new, who)',
           NoneLost => NoneLost'
    PROVE  TellInv'
<1>1. (Known /\ KnownBefore)'
  BY DEF TellInv, Known, KnownBefore, web, At
<1>2. \A r, who : Listed(r, who)' = Listed(r, who)
  BY DEF Listed, web
<1>3. \A new, who : BeingTold(new, who) => BeingTold(new, who)'
  BY <1>2 DEF BeingTold, web, At
<1>4. OpenTells => OpenTells'
  BY <1>2 DEF OpenTells, StillTells, web, At, ToTell
<1>5. NobodyForgotten => NobodyForgotten'
  BY <1>3 DEF NobodyForgotten, web, ToTell
<1> QED
  BY <1>1, <1>4, <1>5 DEF TellInv, Telltale

LEMMA TellWork ==
    ASSUME IInv, TellInv, NEW n \in DOMAIN tasks, Take(n) \/ Run(n)
    PROVE  TellInv'
<1>1. tasks[n] \in Notice /\ UNCHANGED web /\ losses' = losses
  BY RunningIsFinite DEF IInv, Take, Run
<1>2. CASE Take(n)
  <2> DEFINE task == [tasks[n] EXCEPT !.state = "running"]
  <2>1. /\ task \in Notice /\ task.new = tasks[n].new /\ task.to = tasks[n].to
        /\ task.state = "running" /\ tasks' = [tasks EXCEPT ![n] = task]
    BY <1>1, <1>2 DEF Notice, Take
  <2> HIDE DEF task
  <2> QED
    BY <1>1, <2>1, NoticesKept, TellTasks
<1>3. CASE Run(n)
  <2>1. tasks[n].state = "running" /\ Fit(tasks[n])
    BY <1>3 DEF Run, IInv, TasksFit
  <2>2. PICK call \in Call(tasks[n]) : tasks' = [tasks EXCEPT ![n] = Outcome(tasks[n], call)]
    BY <1>3 DEF Run, Outcome
  <2>3. Outcome(tasks[n], call) \in Notice
    BY <1>1, <2>1, OutcomeFits
  <2> QED
    BY <1>1, <2>2, <2>3, OutcomeOfSame, NoticesKept, TellTasks
<1> QED
  BY <1>2, <1>3

\* A loss excuses what nobody will be told any more.
LEMMA TellLoss ==
    ASSUME IInv, TellInv, Loses, UNCHANGED <<status, committed>>,
           \A r \in Requests : At(r, "idle")' \/ req'[r] = req[r]
    PROVE  TellInv'
<1>1. losses' # 0
  BY DEF Loses, IInv
<1> QED
  BY <1>1 DEF TellInv, Known, KnownBefore, Telltale, At

LEMMA TellBreak ==
    ASSUME IInv, TellInv, NEW r \in Requests, Break(r)
    PROVE  TellInv'
<1>1. /\ req' \in [Requests -> Request] /\ req'[r] = NoRequest
      /\ \A x \in Requests \ {r} : req'[x] = req[x]
  BY StartTyped, RequestMoves DEF Break, IInv
<1>2. \A x \in Requests : At(x, "idle")' \/ req'[x] = req[x]
  BY <1>1, StartTyped DEF At
<1> QED
  BY <1>2, TellLoss DEF Break

LEMMA TellKill ==
    ASSUME IInv, TellInv, NEW n \in DOMAIN tasks, Kill(n)
    PROVE  TellInv'
BY TellLoss DEF Kill, web, At

\* A task more.
LEMMA NoticesAdded ==
    ASSUME IInv, NEW task \in Notice, task.state = "waiting", Enqueue(task)
    PROVE  /\ \A new, who : Noticed(new, who) => Noticed(new, who)'
           /\ Noticed(task.new, task.to)'
           /\ NoneLost => NoneLost'
<1>1. /\ DOMAIN tasks' = DOMAIN tasks \cup {Len(tasks) + 1}
      /\ \A m \in DOMAIN tasks : tasks'[m] = tasks[m]
      /\ tasks'[Len(tasks) + 1] = task
  BY TaskAdded DEF IInv
<1> QED
  BY <1>1 DEF Noticed, NoneLost

LEMMA TellOtp == ASSUME IInv, TellInv, SendOtp PROVE TellInv'
<1> DEFINE task == Task("sms", "code", "customer")
<1>1. Enqueue(task) /\ UNCHANGED web /\ losses' = losses
  BY DEF SendOtp
<1>2. task \in Notice /\ task.state = "waiting"
  <2>1. "customer" \in People /\ "code" \in Statuses \cup {"code"} /\ "sms" \in {"sms", "whatsapp"}
    BY DEF People
  <2> QED
    BY <2>1, TaskIsNotice
<1> HIDE DEF task
<1> QED
  BY <1>1, <1>2, NoticesAdded, TellTasks

\* The other requests' lists, and the messages, when one request moves on.
LEMMA OthersTell ==
    ASSUME IInv, NEW r \in Requests, NEW q \in Request, Goes(r, q)
    PROVE  /\ req'[r] = q /\ \A x \in Requests \ {r} : req'[x] = req[x]
           /\ \A x \in Requests \ {r} : \A who : Listed(x, who)' = Listed(x, who)
           /\ tasks' = tasks => \A new, who : Noticed(new, who)' = Noticed(new, who)
           /\ \A new, who : BeingTold(new, who) =>
                 \/ BeingTold(new, who)'
                 \/ At(r, "told") /\ req[r].new = new /\ Listed(r, who)
           /\ \A new, who : q.pc = "told" /\ q.new = new /\ Listed(r, who)' => BeingTold(new, who)'
<1>1. req'[r] = q /\ \A x \in Requests \ {r} : req'[x] = req[x]
  BY RequestMoves DEF IInv
<1>2. \A x \in Requests \ {r} : \A who : Listed(x, who)' = Listed(x, who)
  BY <1>1 DEF Listed
<1>3. tasks' = tasks => \A new, who : Noticed(new, who)' = Noticed(new, who)
  BY DEF Noticed
<1>4. ASSUME NEW new, NEW who, BeingTold(new, who),
             ~(At(r, "told") /\ req[r].new = new /\ Listed(r, who))
      PROVE  BeingTold(new, who)'
  <2>1. PICK x \in Requests : At(x, "told") /\ req[x].new = new /\ Listed(x, who)
    BY <1>4 DEF BeingTold
  <2>2. x # r /\ req'[x] = req[x] /\ Listed(x, who)'
    BY <1>1, <1>2, <1>4, <2>1
  <2> QED
    BY <2>1, <2>2 DEF BeingTold, At
<1>5. ASSUME NEW new, NEW who, q.pc = "told", q.new = new, Listed(r, who)'
      PROVE  BeingTold(new, who)'
  BY <1>1, <1>5 DEF BeingTold, At
<1> QED
  BY <1>1, <1>2, <1>3, <1>4, <1>5

\* Requests that stay where they are keep what KnownBefore and OpenTells say of them.
LEMMA KnownKept ==
    ASSUME KnownBefore, NEW r \in Requests, committed \subseteq committed',
           \A x \in Requests \ {r} : req'[x] = req[x],
           At(r, "save")' => req'[r].prev \in committed' /\ "placed" \in committed',
           At(r, "tx")' => req'[r].new = "placed" \/ "placed" \in committed'
    PROVE  KnownBefore'
BY DEF KnownBefore, At

LEMMA OpenKept ==
    ASSUME OpenTells, NEW r \in Requests,
           \A x \in Requests \ {r} : req'[x] = req[x],
           \A x \in Requests \ {r} : \A who : Listed(x, who)' = Listed(x, who),
           \A new, who : Noticed(new, who) => Noticed(new, who)',
           StillTells(r)'
    PROVE  OpenTells'
<1> SUFFICES ASSUME NEW x \in Requests, x # r PROVE StillTells(x)'
  BY DEF OpenTells
<1>1. StillTells(x) /\ req'[x] = req[x] /\ \A who : Listed(x, who)' = Listed(x, who)
  BY DEF OpenTells
<1> QED
  BY <1>1 DEF StillTells, At, ToTell

LEMMA TellOpen ==
    ASSUME IInv, TellInv, NEW r \in Requests, Checkout(r) \/ Cancel(r)
    PROVE  TellInv'
<1>1. PICK q \in Request : /\ Goes(r, q) /\ q.pc = "tx" /\ q.left = ToTell(q.new)
                           /\ q.new = "placed" \/ "placed" \in committed
  <2>1. CASE Checkout(r)
    BY <2>1, StartTyped DEF Checkout, Request, Statuses, ToTell
  <2>2. CASE Cancel(r)
    BY <2>2, StartTyped DEF Cancel, Request, Statuses, IInv, WebOK, ToTell, TellInv, Known
  <2> QED
    BY <2>1, <2>2
<1>2. At(r, "idle") /\ UNCHANGED <<status, tasks, committed, losses>>
  BY DEF Checkout, Cancel
<1>3. /\ req'[r] = q /\ \A x \in Requests \ {r} : req'[x] = req[x]
      /\ \A x \in Requests \ {r} : \A who : Listed(x, who)' = Listed(x, who)
      /\ \A new, who : Noticed(new, who)' = Noticed(new, who)
      /\ \A new, who : BeingTold(new, who) => BeingTold(new, who)'
  BY <1>1, <1>2, OthersTell DEF At
<1>4. Known' /\ KnownBefore'
  BY <1>1, <1>2, <1>3, KnownKept DEF TellInv, Known, At
<1>5. OpenTells => OpenTells'
  <2>1. \A i \in DOMAIN ToTell(q.new) : Listed(r, ToTell(q.new)[i])'
    BY <1>1, <1>3 DEF Listed
  <2> QED
    BY <1>1, <1>3, <2>1, OpenKept DEF StillTells, ToTell
<1>6. NobodyForgotten => NobodyForgotten'
  BY <1>2, <1>3 DEF NobodyForgotten, ToTell
<1>7. NoneLost => NoneLost'
  BY <1>2 DEF NoneLost
<1> QED
  BY <1>2, <1>4, <1>5, <1>6, <1>7 DEF TellInv, Telltale

LEMMA TellCommit ==
    ASSUME IInv, TellInv, NEW r \in Requests, Commit(r)
    PROVE  TellInv'
<1>1. /\ At(r, "tx") /\ req[r].left = <<>> /\ Goes(r, NoRequest)
      /\ status' = req[r].new /\ committed' = committed \cup {req[r].new}
      /\ UNCHANGED <<tasks, losses>>
  BY DEF Commit
<1>2. /\ req'[r] = NoRequest /\ \A x \in Requests \ {r} : req'[x] = req[x]
      /\ \A x \in Requests \ {r} : \A who : Listed(x, who)' = Listed(x, who)
      /\ \A new, who : Noticed(new, who)' = Noticed(new, who)
      /\ \A new, who : BeingTold(new, who) => BeingTold(new, who)'
  BY <1>1, StartTyped, OthersTell DEF At
<1>3. \A who : ~Listed(r, who)
  BY <1>1 DEF Listed
<1>4. Known' /\ KnownBefore'
  BY <1>1, <1>2, StartTyped, KnownKept DEF TellInv, Known, KnownBefore, At
<1>5. OpenTells => OpenTells'
  BY <1>2, StartTyped, OpenKept DEF At, StillTells
<1>6. OpenTells /\ NobodyForgotten => NobodyForgotten'
  BY <1>1, <1>2, <1>3 DEF OpenTells, StillTells, NobodyForgotten, ToTell
<1>7. NoneLost => NoneLost'
  BY <1>1 DEF NoneLost
<1> QED
  BY <1>1, <1>4, <1>5, <1>6, <1>7 DEF TellInv, Telltale

LEMMA TellPreSave ==
    ASSUME IInv, TellInv, NEW r \in Requests, NEW s \in Posts, PreSave(r, s)
    PROVE  TellInv'
<1> DEFINE q == [pc |-> "save", new |-> s, prev |-> status, left |-> <<>>]
<1>1. /\ At(r, "idle") /\ Goes(r, q) /\ status # "none"
      /\ UNCHANGED <<status, tasks, committed, losses>>
  BY DEF PreSave
<1>2. q \in Request /\ q.pc = "save" /\ q.prev = status
  BY DEF Request, Statuses, IInv, WebOK
<1> HIDE DEF q
<1>3. /\ req'[r] = q /\ \A x \in Requests \ {r} : req'[x] = req[x]
      /\ \A x \in Requests \ {r} : \A who : Listed(x, who)' = Listed(x, who)
      /\ \A new, who : Noticed(new, who)' = Noticed(new, who)
      /\ \A new, who : BeingTold(new, who) => BeingTold(new, who)'
  BY <1>1, <1>2, OthersTell DEF At
<1>4. Known' /\ KnownBefore'
  BY <1>1, <1>2, <1>3, KnownKept DEF TellInv, Known, At
<1>5. OpenTells => OpenTells'
  BY <1>2, <1>3, OpenKept DEF At, StillTells
<1>6. NobodyForgotten => NobodyForgotten'
  BY <1>1, <1>3 DEF NobodyForgotten, ToTell
<1>7. NoneLost => NoneLost'
  BY <1>1 DEF NoneLost
<1> QED
  BY <1>1, <1>4, <1>5, <1>6, <1>7 DEF TellInv, Telltale

\* A status saved over another is told to the whole audience; one that is saved again
\* was told before, or is being told.
LEMMA TellSave ==
    ASSUME IInv, TellInv, NEW r \in Requests, Save(r)
    PROVE  TellInv'
<1>1. /\ At(r, "save") /\ status' = req[r].new /\ UNCHANGED <<tasks, losses>>
      /\ committed' = committed \cup {req[r].new}
      /\ req[r].prev \in committed /\ "placed" \in committed
  BY DEF Save, TellInv, KnownBefore
<1>2. PICK q \in Request :
          /\ Goes(r, q)
          /\ \/ q.pc = "idle" /\ req[r].new = req[r].prev
             \/ q.pc = "told" /\ q.new = req[r].new /\ q.left = Audience
  <2>1. req[r] \in Request
    BY DEF IInv, WebOK
  <2>2. CASE Changed(r)
    <3>1. Goes(r, [req[r] EXCEPT !.pc = "told", !.left = Audience])
      BY <2>2 DEF Save
    <3>2. /\ [req[r] EXCEPT !.pc = "told", !.left = Audience] \in Request
          /\ [req[r] EXCEPT !.pc = "told", !.left = Audience].pc = "told"
          /\ [req[r] EXCEPT !.pc = "told", !.left = Audience].new = req[r].new
          /\ [req[r] EXCEPT !.pc = "told", !.left = Audience].left = Audience
      BY <2>1, StartTyped DEF Request
    <3> QED
      BY <3>1, <3>2
  <2>3. CASE ~Changed(r)
    BY <2>3, StartTyped DEF Save, Changed
  <2> QED
    BY <2>2, <2>3
<1>3. /\ req'[r] = q /\ \A x \in Requests \ {r} : req'[x] = req[x]
      /\ \A x \in Requests \ {r} : \A who : Listed(x, who)' = Listed(x, who)
      /\ \A new, who : Noticed(new, who)' = Noticed(new, who)
      /\ \A new, who : BeingTold(new, who) => BeingTold(new, who)'
      /\ \A new, who : q.pc = "told" /\ q.new = new /\ Listed(r, who)' => BeingTold(new, who)'
  BY <1>1, <1>2, OthersTell DEF At
<1>4. Known' /\ KnownBefore'
  BY <1>1, <1>2, <1>3, KnownKept DEF TellInv, Known, At
<1>5. OpenTells => OpenTells'
  BY <1>2, <1>3, OpenKept DEF At, StillTells
<1>6. ASSUME NEW new \in committed' \ committed, NEW i \in DOMAIN ToTell(new)
      PROVE  BeingTold(new, ToTell(new)[i])'
  <2>1. new = req[r].new /\ q.pc = "told" /\ q.new = new /\ q.left = Audience
    BY <1>1, <1>2, <1>6
  <2>2. ToTell(new) = q.left
    BY <1>1, <1>6, <2>1 DEF ToTell
  <2>3. Listed(r, ToTell(new)[i])'
    BY <1>3, <2>2 DEF Listed
  <2> QED
    BY <1>3, <2>1, <2>3
<1>7. NobodyForgotten => NobodyForgotten'
  BY <1>3, <1>6 DEF NobodyForgotten, ToTell
<1>8. NoneLost => NoneLost'
  BY <1>1 DEF NoneLost
<1> QED
  BY <1>1, <1>4, <1>5, <1>7, <1>8 DEF TellInv, Telltale

LEMMA TellNotify ==
    ASSUME IInv, TellInv, NEW r \in Requests, Notify(r)
    PROVE  TellInv'
<1>0. PICK news, first, task : /\ news = req[r].new /\ first = Head(req[r].left)
                               /\ task = Task("whatsapp", news, first)
  OBVIOUS
<1>1. /\ req[r].pc \in {"tx", "told"} /\ req[r].left # <<>> /\ Enqueue(task)
      /\ Goes(r, IF At(r, "told") /\ Len(req[r].left) = 1 THEN NoRequest
                 ELSE [req[r] EXCEPT !.left = Tail(@)])
      /\ UNCHANGED <<status, committed, losses>>
  BY <1>0 DEF Notify, Telling
<1>2. /\ req[r] \in Request /\ req[r].left \in Seq(People) /\ news \in Statuses
      /\ first \in People /\ Tail(req[r].left) \in Seq(People)
      /\ DOMAIN req[r].left = 1..Len(req[r].left) /\ Len(req[r].left) \in Nat \ {0}
      /\ req[r].left[1] = first
      /\ DOMAIN Tail(req[r].left) = 1..(Len(req[r].left) - 1)
      /\ \A j \in 1..(Len(req[r].left) - 1) : Tail(req[r].left)[j] = req[r].left[j + 1]
  <2>1. req[r] \in Request /\ req[r].left \in Seq(People) /\ news \in Statuses
    BY <1>0 DEF IInv, WebOK, Request
  <2> QED
    BY <1>0, <1>1, <2>1, HeadTailProperties, LenProperties
<1>3. task \in Notice /\ task.state = "waiting" /\ task.new = news /\ task.to = first
  BY <1>0, <1>2, TaskIsNotice DEF Task
<1>4. PICK q \in Request :
          /\ Goes(r, q)
          /\ \/ q.pc = "idle" /\ At(r, "told") /\ Len(req[r].left) = 1
             \/ q.pc = req[r].pc /\ q.new = req[r].new /\ q.left = Tail(req[r].left)
  <2>1. CASE At(r, "told") /\ Len(req[r].left) = 1
    BY <1>1, <2>1, StartTyped
  <2>2. CASE ~(At(r, "told") /\ Len(req[r].left) = 1)
    <3>1. Goes(r, [req[r] EXCEPT !.left = Tail(@)])
      BY <1>1, <2>2
    <3>2. /\ [req[r] EXCEPT !.left = Tail(@)] \in Request
          /\ [req[r] EXCEPT !.left = Tail(@)].pc = req[r].pc
          /\ [req[r] EXCEPT !.left = Tail(@)].new = req[r].new
          /\ [req[r] EXCEPT !.left = Tail(@)].left = Tail(req[r].left)
      BY <1>2 DEF Request
    <3> QED
      BY <3>1, <3>2
  <2> QED
    BY <2>1, <2>2
<1>5. /\ \A new, who : Noticed(new, who) => Noticed(new, who)'
      /\ Noticed(news, first)'
      /\ NoneLost => NoneLost'
  BY <1>0, <1>1, <1>3, NoticesAdded
<1>6. /\ req'[r] = q /\ \A x \in Requests \ {r} : req'[x] = req[x]
      /\ \A x \in Requests \ {r} : \A who : Listed(x, who)' = Listed(x, who)
      /\ \A new, who : BeingTold(new, who) =>
            \/ BeingTold(new, who)'
            \/ At(r, "told") /\ req[r].new = new /\ Listed(r, who)
      /\ \A new, who : q.pc = "told" /\ q.new = new /\ Listed(r, who)' => BeingTold(new, who)'
  BY <1>4, OthersTell
<1>7. ASSUME NEW who, Listed(r, who), who # first
      PROVE  q.pc = req[r].pc /\ q.new = req[r].new /\ Listed(r, who)'
  <2>1. PICK j \in 1..Len(req[r].left) : req[r].left[j] = who
    BY <1>2, <1>7 DEF Listed
  <2>2. j # 1 /\ Len(req[r].left) # 1 /\ j - 1 \in 1..(Len(req[r].left) - 1)
    BY <1>2, <1>7, <2>1
  <2>3. q.pc = req[r].pc /\ q.new = req[r].new /\ q.left = Tail(req[r].left)
    BY <1>4, <2>2
  <2>4. Tail(req[r].left)[j - 1] = who
    BY <1>2, <2>1, <2>2
  <2> QED
    BY <1>2, <1>6, <2>2, <2>3, <2>4 DEF Listed
<1>8. Known' /\ KnownBefore'
  BY <1>1, <1>4, <1>6, KnownKept DEF TellInv, Known, KnownBefore, At
<1>9. OpenTells => OpenTells'
  <2> SUFFICES ASSUME OpenTells PROVE StillTells(r)'
    BY <1>5, <1>6, OpenKept
  <2>1. At(r, "tx")' => At(r, "tx") /\ req'[r].new = req[r].new
    BY <1>4, <1>6 DEF At
  <2>2. StillTells(r)
    BY DEF OpenTells
  <2>3. \A who : Noticed(news, who) \/ Listed(r, who) =>
            Noticed(news, who)' \/ Listed(r, who)'
    BY <1>5, <1>7
  <2> QED
    BY <1>0, <2>1, <2>2, <2>3 DEF StillTells, ToTell
<1>10. NobodyForgotten => NobodyForgotten'
  <2> SUFFICES ASSUME NobodyForgotten, NEW new \in committed, NEW i \in DOMAIN ToTell(new)
               PROVE  Noticed(new, ToTell(new)[i])' \/ BeingTold(new, ToTell(new)[i])'
    BY <1>1 DEF NobodyForgotten, ToTell
  <2>0. PICK who : who = ToTell(new)[i]
    OBVIOUS
  <2>1. Noticed(new, who) \/ BeingTold(new, who)
    BY <2>0 DEF NobodyForgotten
  <2>2. CASE At(r, "told") /\ req[r].new = new /\ Listed(r, who)
    BY <1>0, <1>5, <1>6, <1>7, <2>0, <2>2 DEF ToTell, At
  <2>3. CASE ~(At(r, "told") /\ req[r].new = new /\ Listed(r, who))
    BY <1>5, <1>6, <2>0, <2>1, <2>3 DEF ToTell
  <2> QED
    BY <2>2, <2>3
<1> QED
  BY <1>1, <1>5, <1>8, <1>9, <1>10 DEF TellInv, Telltale

LEMMA InitTell == Init => TellInv
<1> SUFFICES ASSUME Init PROVE TellInv
  OBVIOUS
<1>1. \A r \in Requests : req[r].pc = "idle"
  BY DEF Init, NoRequest
<1>2. status = "none" /\ committed = {} /\ DOMAIN tasks = {}
  BY DEF Init
<1> QED
  BY <1>1, <1>2 DEF TellInv, Known, KnownBefore, Telltale, OpenTells, NobodyForgotten,
     StillTells, NoneLost, At

LEMMA StepTell == IInv /\ TellInv /\ [Next]_vars => TellInv'
<1> SUFFICES ASSUME IInv, TellInv, [Next]_vars PROVE TellInv'
  OBVIOUS
<1>1. CASE \E r \in Requests : \/ Checkout(r) \/ Cancel(r) \/ Handle(r) \/ Break(r)
                               \/ \E s \in Posts : PreSave(r, s)
  BY <1>1, TellOpen, TellCommit, TellPreSave, TellSave, TellNotify, TellBreak DEF Handle
<1>2. CASE SendOtp
  BY <1>2, TellOtp
<1>3. CASE \E n \in DOMAIN tasks : Work(n) \/ Kill(n)
  BY <1>3, TellWork, TellKill DEF Work
<1>4. CASE UNCHANGED vars
  <2>1. UNCHANGED web /\ tasks' = tasks /\ losses' = losses
    BY <1>4 DEF vars, web
  <2> QED
    BY <2>1, TellTasks DEF Noticed, NoneLost
<1> QED
  BY <1>1, <1>2, <1>3, <1>4 DEF Next

LEMMA TellInvariant == Spec => [](IInv /\ TellInv)
BY InitIInv, StepIInv, InitTell, StepTell, PTL DEF Spec

\* While no process died and the broker did not fail, whoever is concerned by a status
\* the order has had was sent a message of it, or is on the list of the request that
\* saved it: however posts, a checkout and a cancellation overlap, none of them
\* forgets or skips a person (orders/views.py checkout; orders/signals.py,
\* order_status_changed).
THEOREM NobodyIsForgotten == Spec => [](losses = 0 => NobodyForgotten)
<1>1. TellInv => (losses = 0 => NobodyForgotten)
  BY DEF TellInv, Telltale
<1> QED
  BY <1>1, TellInvariant, PTL

Quiet == /\ \A r \in Requests : At(r, "idle")
         /\ \A n \in DOMAIN tasks : tasks[n].state \notin {"waiting", "running"}

\* What Announced promises, where everything has come to rest: then everybody was told
\* of every status the order had, or the worker gave up on it after its last retry.
THEOREM RestIsAnnounced ==
    Spec => [](losses = 0 /\ Quiet => Untold = {} /\ NoneLost)
<1>1. IInv /\ TellInv => (losses = 0 /\ Quiet => Untold = {} /\ NoneLost)
  <2> SUFFICES ASSUME IInv, TellInv, losses = 0, Quiet PROVE Untold = {} /\ NoneLost
    OBVIOUS
  <2>1. NobodyForgotten /\ NoneLost
    BY DEF TellInv, Telltale
  <2>2. \A new, who : ~BeingTold(new, who)
    BY DEF BeingTold, Quiet, At
  <2>3. \A new, who : Noticed(new, who) => Concluded(new, who)
    BY RunningIsFinite DEF IInv, Noticed, Concluded, Quiet, Notice
  <2> QED
    BY <2>1, <2>2, <2>3 DEF NobodyForgotten, Untold
<1> QED
  BY <1>1, TellInvariant, PTL
=============================================================================
