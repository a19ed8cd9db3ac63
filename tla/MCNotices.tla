----------------------------- MODULE MCNotices -----------------------------
(***************************************************************************)
(* Notices for TLC, in two parts: overlapping requests whose tasks are run *)
(* at once and the first time (no handler looks at a task, so when it runs *)
(* does not matter to them), and a checkout and codes sent, whose tasks    *)
(* are refused, retried, overtaken and lost.                               *)
(***************************************************************************)
EXTENDS Notices

VARIABLE part   \* which of the two a behaviour is about

mcvars == <<vars, part>>

ToCustomer == <<"customer">>
ToBoth == <<"customer", "rider">>

MCInit == Init /\ part \in {"requests", "worker"}

\* A request starts only when MaxNotices leaves room for what it tells.
Room == Len(tasks) + 2 * Cardinality({r \in Requests : ~At(r, "idle")}) + 2 <= MaxNotices

Tried == 3   \* tasks of the second part

MCStart(r) == \/ part = "requests" /\ Room /\ (Checkout(r) \/ Cancel(r)
                                               \/ \E s \in Posts : PreSave(r, s))
              \/ part = "worker" /\ tasks = <<>> /\ Checkout(r)

AllRun == \A n \in DOMAIN tasks : tasks[n].state \notin {"waiting", "running"}

MCRun(n) == \/ part = "worker" /\ Run(n)
            \/ part = "requests" /\ Run(n) /\ tasks'[n].state = "done"

MCWork(n) == /\ n \in DOMAIN tasks
             /\ Take(n) \/ MCRun(n)
             /\ UNCHANGED part

MCHandle(r) == (part = "requests" => AllRun) /\ Handle(r) /\ UNCHANGED part

MCNext == \/ \E r \in Requests : MCHandle(r)
          \/ /\ \/ \E r \in Requests : (part = "requests" => AllRun) /\ (MCStart(r) \/ Break(r))
                \/ part = "worker" /\ Len(tasks) < Tried /\ SendOtp
                \/ part = "worker" /\ \E n \in DOMAIN tasks : Kill(n)
             /\ UNCHANGED part
          \/ \E n \in DOMAIN tasks : MCWork(n)

MCSpec == /\ MCInit /\ [][MCNext]_mcvars
          /\ \A r \in Requests : SF_mcvars(MCHandle(r))
          /\ \A n \in 1..MaxNotices : WF_mcvars(MCWork(n))
=============================================================================
