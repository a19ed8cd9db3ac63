------------------------------ MODULE Notices ------------------------------
(***************************************************************************)
(* What people are told: the handlers that change the status of an order   *)
(* hand WhatsApp messages to Celery (orders/signals.py, orders/views.py,   *)
(* orders/notifications.py), a sign-in hands it an SMS, and the worker's   *)
(* processes call the gateways, again and again while they refuse          *)
(* (accounts/tasks.py, task_notifications.py, sms.py, notifications.py).   *)
(*                                                                         *)
(* One order.  Checkout and cancel_order announce inside their transaction,*)
(* the other handlers after their save.  A task is acknowledged when it is *)
(* taken, so it is lost with its process.  Redis hands tasks out in order; *)
(* with several processes and retries nothing rests on that, and any task  *)
(* that waits may be taken.                                                *)
(***************************************************************************)
EXTENDS Integers, Sequences, FiniteSets

CONSTANTS Requests,      \* requests the web workers handle at once
          Nobody,        \* NULL; "unlocked"
          AtCheckout, Audience,   \* who is told of a new order, of a change: sequences
          Posts,         \* statuses that are assigned or posted
          SmsBackend, WhatsAppBackend, WhatsAppEnabled,   \* settings
          Processes,     \* celery --concurrency
          MaxRetries,    \* max_retries of both tasks
          MaxNotices,    \* bound: tasks ever enqueued
          MaxLosses      \* bound: processes killed and broker failures

ASSUME NoticesAssumption ==
    /\ Nobody \notin Requests
    /\ \A who \in {AtCheckout, Audience} : who \in Seq({who[i] : i \in DOMAIN who}) /\ who # <<>>
    /\ Processes \in Nat \ {0} /\ MaxRetries \in Nat
    /\ MaxNotices \in Nat /\ MaxLosses \in Nat
    /\ WhatsAppEnabled \in BOOLEAN

VARIABLES status,     \* the order's status, "none" before it is placed
          lock,       \* the request whose transaction has the order
          req,        \* req[r]: the request r is handling
          tasks,      \* tasks[n]: the n-th task enqueued
          committed,  \* every status the order has had (history)
          undone,     \* statuses whose transaction was rolled back (history)
          losses      \* (history)

web == <<status, lock, req, committed, undone>>
vars == <<status, lock, req, tasks, committed, undone, losses>>

NoRequest == [pc |-> "idle", new |-> "none", prev |-> "none", left |-> <<>>]

Init == /\ status = "none" /\ lock = Nobody
        /\ req = [r \in Requests |-> NoRequest]
        /\ tasks = <<>>
        /\ committed = {} /\ undone = {} /\ losses = 0

At(r, pc) == req[r].pc = pc
Goes(r, q) == req' = [req EXCEPT ![r] = q]
Loses == losses < MaxLosses /\ losses' = losses + 1

\* A task is waiting, running, done, given up after its last retry, or lost.
Task(kind, new, to) == [kind |-> kind, new |-> new, to |-> to, state |-> "waiting",
                        retries |-> 0, arrived |-> 0, refused |-> 0]

Enqueue(task) == Len(tasks) < MaxNotices /\ tasks' = Append(tasks, task)

-----------------------------------------------------------------------------
(* Handlers that announce inside their transaction *)

\* checkout: the customer and the area's admins; no rider yet.
Checkout(r) ==
    /\ At(r, "idle") /\ status = "none" /\ lock = Nobody
    /\ lock' = r
    /\ Goes(r, [pc |-> "tx", new |-> "placed", prev |-> "none", left |-> AtCheckout])
    /\ UNCHANGED <<status, tasks, committed, undone, losses>>

\* cancel_order: the receiver runs in its save, before the commit.
Cancel(r) ==
    /\ At(r, "idle") /\ status \in {"placed", "confirmed"} /\ lock = Nobody
    /\ lock' = r
    /\ Goes(r, [pc |-> "tx", new |-> "cancelled", prev |-> status, left |-> Audience])
    /\ UNCHANGED <<status, tasks, committed, undone, losses>>

Commit(r) ==
    /\ At(r, "tx") /\ req[r].left = <<>>
    /\ status' = req[r].new
    /\ committed' = committed \cup {req[r].new}
    /\ lock' = Nobody
    /\ Goes(r, NoRequest)
    /\ UNCHANGED <<tasks, undone, losses>>

-----------------------------------------------------------------------------
(* Handlers that announce after their save *)

\* assign and update_order_status, up to the status read by cache_order_status.
PreSave(r, s) ==
    /\ At(r, "idle") /\ status # "none"
    /\ Goes(r, [pc |-> "save", new |-> s, prev |-> status, left |-> <<>>])
    /\ UNCHANGED <<status, lock, tasks, committed, undone, losses>>

\* Seeded fault: cache_order_status reads what the save has just written.
ChangedLate(r) == status' # req[r].new

Changed(r) == req[r].prev # req[r].new

\* Seeded fault: the UPDATE leaves a cancelled order alone, the receiver does not.
SaveUnlessCancelled(r) ==
    /\ At(r, "save") /\ lock = Nobody
    /\ status' = IF status = "cancelled" THEN status ELSE req[r].new
    /\ committed' = committed \cup {status'}
    /\ Goes(r, IF Changed(r) THEN [req[r] EXCEPT !.pc = "told", !.left = Audience] ELSE NoRequest)
    /\ UNCHANGED <<lock, tasks, undone, losses>>

\* The UPDATE waits for a transaction; order_status_changed tells of a change only.
Save(r) ==
    /\ At(r, "save") /\ lock = Nobody
    /\ status' = req[r].new
    /\ committed' = committed \cup {req[r].new}
    /\ Goes(r, IF Changed(r) THEN [req[r] EXCEPT !.pc = "told", !.left = Audience] ELSE NoRequest)
    /\ UNCHANGED <<lock, tasks, undone, losses>>

-----------------------------------------------------------------------------
(* notify_customer, notify_area_admin, notify_delivery_member *)

Telling(r) == req[r].pc \in {"tx", "told"} /\ req[r].left # <<>>

Notify(r) ==
    /\ Telling(r)
    /\ Enqueue(Task("whatsapp", req[r].new, Head(req[r].left)))
    /\ Goes(r, IF At(r, "told") /\ Len(req[r].left) = 1 THEN NoRequest
               ELSE [req[r] EXCEPT !.left = Tail(@)])
    /\ UNCHANGED <<status, lock, committed, undone, losses>>

\* generate_and_send_otp, when its row is saved.
SendOtp == Enqueue(Task("sms", "code", "customer")) /\ UNCHANGED <<web, losses>>

\* Seeded fault: the rows of a transaction that broke stay locked.
BreakLocked(r) ==
    /\ ~At(r, "idle")
    /\ Loses
    /\ undone' = IF At(r, "tx") THEN undone \cup {req[r].new} ELSE undone
    /\ Goes(r, NoRequest)
    /\ UNCHANGED <<status, lock, tasks, committed>>

\* delay() raises, or the process that handles r dies; a transaction is rolled back.
Break(r) ==
    /\ ~At(r, "idle")
    /\ Loses
    /\ IF At(r, "tx")
       THEN lock' = Nobody /\ undone' = undone \cup {req[r].new}
       ELSE UNCHANGED <<lock, undone>>
    /\ Goes(r, NoRequest)
    /\ UNCHANGED <<status, tasks, committed>>

-----------------------------------------------------------------------------
(* The worker *)

\* What a call of a gateway can do: the message arrives or not, and the caller is
\* told so or not (a refusal, or a timeout after 8 s that says nothing of either).
Gateway == {[arrives |-> TRUE, ok |-> TRUE], [arrives |-> TRUE, ok |-> FALSE],
            [arrives |-> FALSE, ok |-> FALSE]}
Console == {[arrives |-> FALSE, ok |-> TRUE]}
Raises  == {[arrives |-> FALSE, ok |-> FALSE]}

send_sms ==
    IF SmsBackend = "console" THEN Console
    ELSE IF SmsBackend \in {"fast2sms", "msg91"} THEN Gateway ELSE Raises

send_whatsapp ==
    IF ~WhatsAppEnabled \/ WhatsAppBackend = "console" THEN Console
    ELSE IF WhatsAppBackend = "msg91" THEN Gateway ELSE Raises

Call(task) == IF task.kind = "sms" THEN send_sms ELSE send_whatsapp

Running == {n \in DOMAIN tasks : tasks[n].state = "running"}

Take(n) ==
    /\ tasks[n].state = "waiting"
    /\ Cardinality(Running) < Processes
    /\ tasks' = [tasks EXCEPT ![n].state = "running"]
    /\ UNCHANGED <<web, losses>>

Arrive(task, call) == [task EXCEPT !.arrived = @ + IF call.arrives THEN 1 ELSE 0]

\* Seeded fault: the retry is a task of its own.
RetryAnew(task) == [task EXCEPT !.state = "waiting", !.refused = @ + 1]

\* self.retry: a new message 5 s later, until max_retries.
Retry(task) ==
    IF task.retries < MaxRetries
    THEN [task EXCEPT !.state = "waiting", !.retries = @ + 1, !.refused = @ + 1]
    ELSE [task EXCEPT !.state = "given_up", !.refused = @ + 1]

Run(n) ==
    /\ tasks[n].state = "running"
    /\ \E call \in Call(tasks[n]) :
          LET task == Arrive(tasks[n], call) IN
          tasks' = [tasks EXCEPT ![n] = IF call.ok THEN [task EXCEPT !.state = "done"]
                                                   ELSE Retry(task)]
    /\ UNCHANGED <<web, losses>>

Kill(n) ==
    /\ tasks[n].state = "running"
    /\ Loses
    /\ tasks' = [tasks EXCEPT ![n].state = "lost"]
    /\ UNCHANGED web

Work(n) == n \in DOMAIN tasks /\ (Take(n) \/ Run(n))

Handle(r) == Commit(r) \/ Save(r) \/ Notify(r)

Next == \/ \E r \in Requests : \/ Checkout(r) \/ Cancel(r) \/ \E s \in Posts : PreSave(r, s)
                               \/ Handle(r) \/ Break(r)
        \/ SendOtp
        \/ \E n \in DOMAIN tasks : Work(n) \/ Kill(n)

Spec == Init /\ [][Next]_vars

\* Requests are handled to their end, and the worker is restarted (Restart=always).
FairSpec == /\ Spec
            /\ \A r \in Requests : SF_vars(Handle(r))
            /\ \A n \in 1..MaxNotices : WF_vars(Work(n))

-----------------------------------------------------------------------------
(* Properties *)

People == {"customer"} \cup {AtCheckout[i] : i \in DOMAIN AtCheckout}
                       \cup {Audience[i] : i \in DOMAIN Audience}
Statuses == {"none", "placed", "cancelled"} \cup Posts

\* Types; and the order is locked by a transaction that is open, or by none.
TypeOK ==
    /\ {status} \cup committed \cup undone \subseteq Statuses
    /\ lock \in Requests \cup {Nobody}
    /\ \A r \in Requests : At(r, "tx") <=> lock = r
    /\ req \in [Requests -> [pc : {"idle", "save", "tx", "told"}, new : Statuses,
                             prev : Statuses, left : Seq(People)]]
    /\ tasks \in Seq([kind : {"sms", "whatsapp"}, new : Statuses \cup {"code"}, to : People,
                       state : {"waiting", "running", "done", "given_up", "lost"},
                       retries : 0..MaxRetries, arrived : Nat, refused : Nat])
    /\ Cardinality(Running) <= Processes
    /\ losses \in 0..MaxLosses

\* A gateway that times out after it has sent makes the task send again: one notice
\* may arrive more than once, but not more often than it is tried, and it is given up
\* only when every try was refused (accounts/tasks.py: "Retries up to 3 times").
NoticesBounded == \A n \in DOMAIN tasks :
    /\ tasks[n].arrived <= MaxRetries + 1
    /\ tasks[n].state = "given_up" => tasks[n].refused = MaxRetries + 1

\* Nobody is told of a status the order never had, however posts, a checkout and a
\* cancellation overlap, except by a transaction that is still open or was rolled
\* back after it had told (orders/views.py announces before the commit).
ToldTruth == \A n \in DOMAIN tasks :
    tasks[n].kind = "whatsapp" =>
        \/ tasks[n].new \in committed \cup undone
        \/ lock # Nobody /\ req[lock].new = tasks[n].new

Concluded(new, who) == \E n \in DOMAIN tasks :
    /\ tasks[n].new = new /\ tasks[n].to = who
    /\ tasks[n].state \in {"done", "given_up", "lost"}

ToTell(new) == IF new = "placed" THEN AtCheckout ELSE Audience
Untold == {new \in committed : \E i \in DOMAIN ToTell(new) : ~Concluded(new, ToTell(new)[i])}

\* Once an order has had a status, everyone concerned is told so, or the worker gave
\* up after its retries (checkout, and orders/signals.py, order_status_changed),
\* whoever else changes the order meanwhile; unless a process died or the broker
\* failed on the way.
Announced == Untold # {} ~> Untold = {} \/ losses > 0
=============================================================================
