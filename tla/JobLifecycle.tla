---------------------------- MODULE JobLifecycle ----------------------------
(***************************************************************************)
(* What the job store promises its callers (ports.JobQueue), without       *)
(* columns, clocks and statements: a job is asked for, taken by one        *)
(* worker, settled by that worker or asked for again, and dropped once     *)
(* nothing is stored of it.  JobQueue implements it.                       *)
(***************************************************************************)
CONSTANTS Jobs, Workers, NoWorker, Segs

VARIABLES
  phase,     \* what is to happen with each job
  owner,     \* the worker whose result would count
  stored     \* segments that can be played

lifecycleVars == <<phase, owner, stored>>

Phases == {"none", "wanted", "owned", "done", "failed", "withdrawn"}

\* By a client or by recovery, the first time or again: whoever has it has lost
\* it, and what is stored stays.
Ask(j) ==
  /\ phase' = [phase EXCEPT ![j] = "wanted"]
  /\ owner' = [owner EXCEPT ![j] = NoWorker]
  /\ UNCHANGED stored

Take(j, w) ==
  /\ phase[j] = "wanted"
  /\ phase' = [phase EXCEPT ![j] = "owned"]
  /\ owner' = [owner EXCEPT ![j] = w]
  /\ UNCHANGED stored

Settle(j, w) ==
  /\ phase[j] = "owned" /\ owner[j] = w
  /\ \E result \in {"done", "failed"} :
       phase' = [phase EXCEPT ![j] = result]
  /\ owner' = [owner EXCEPT ![j] = NoWorker]
  /\ UNCHANGED stored

\* From any worker that is or was on the job.
Store(j, s) ==
  /\ phase[j] # "none"
  /\ stored' = [stored EXCEPT ![j] = @ \cup {s}]
  /\ UNCHANGED <<phase, owner>>

Withdraw(j) ==
  /\ phase[j] = "wanted"
  /\ phase' = [phase EXCEPT ![j] = "withdrawn"]
  /\ UNCHANGED <<owner, stored>>

Clear(j) ==
  /\ stored' = [stored EXCEPT ![j] = {}]
  /\ UNCHANGED <<phase, owner>>

Drop(j) ==
  /\ stored[j] = {}
  /\ phase' = [phase EXCEPT ![j] = "none"]
  /\ owner' = [owner EXCEPT ![j] = NoWorker]
  /\ UNCHANGED stored

LifecycleInit == /\ phase = [j \in Jobs |-> "none"]
                 /\ owner = [j \in Jobs |-> NoWorker]
                 /\ stored = [j \in Jobs |-> {}]

LifecycleNext ==
  \E j \in Jobs :
    \/ Ask(j) \/ Withdraw(j) \/ Clear(j) \/ Drop(j)
    \/ \E w \in Workers : Take(j, w) \/ Settle(j, w)
    \/ \E s \in Segs : Store(j, s)

LifecycleSpec == LifecycleInit /\ [][LifecycleNext]_lifecycleVars
=============================================================================
