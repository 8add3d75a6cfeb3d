-------------------------- MODULE DurabilityWorker --------------------------
(***************************************************************************)
(* The task protocol of core/events/durability_worker.py: one asyncio      *)
(* queue of durable writes and whoever drains it - the self-terminating    *)
(* background task, or the caller of flush or aclose that finds that task  *)
(* gone.  DurableState takes it for granted that the queue is FIFO, served *)
(* by one consumer, and drained by a graceful shutdown; here it is the     *)
(* subject, down to the event loop's steps, cancellation, and the threads  *)
(* a cancellation cannot stop.                                             *)
(*                                                                         *)
(* A step is what one task does between two awaits.  A job is a number in  *)
(* the order of enqueueing; END stands for the on_drain_end job.           *)
(***************************************************************************)
EXTENDS Integers, Sequences, FiniteSets

CONSTANTS
  Callers,           \* the tasks that call flush or aclose, once each
  Closers,           \* those that call aclose
  HasEndHook,        \* on_drain_end is set (the history worker's fsync)
  MaxWriteAttempts,  \* max_write_attempts
  MaxJobs, MaxFaults, MaxCancels   \* bounds of the model

ASSUME WorkerAssumption ==
  /\ Closers \subseteq Callers
  /\ HasEndHook \in BOOLEAN
  /\ MaxWriteAttempts \in Nat \ {0}
  /\ MaxJobs \in Nat /\ MaxFaults \in Nat /\ MaxCancels \in Nat

VARIABLES
  queue,       \* the asyncio.Queue
  unfinished,  \* its count of put minus task_done, which join() waits on
  worker,      \* the two places _drain can run in: the background task, a caller
  cancelling,  \* the background task has been cancelled and not yet told
  caller,      \* where each caller is
  target,      \* history: the jobs enqueued before each caller's call
  fut,         \* per job: what its submitter waits for, "none" for a nowait job
  failed,      \* _durability_failed
  landed,      \* history: the jobs whose write reached the disk, in that order
  orphans,     \* writes still in a thread though the await on them was cancelled
  covered,     \* history: the jobs an on_drain_end has run after
  gaveUp,      \* history: the jobs whose last attempt failed
  late,        \* history: the jobs enqueued behind their burst's on_drain_end
  faults, cancels   \* how much of each bound is used

queueVars == <<queue, unfinished>>
boundVars == <<faults, cancels>>
vars == <<queueVars, worker, cancelling, caller, target, fut, failed, landed,
          orphans, covered, gaveUp, late, boundVars>>

----------------------------------------------------------------------------
Job  == 1..MaxJobs
END  == 0
Consumer == {"drainer", "inline"}

issued == Cardinality({j \in Job : fut[j] # "unborn"})

Landed == {landed[i] : i \in DOMAIN landed}

\* A consumer that is not running, one that has not taken its first step, and
\* one at the await of a job; owes: its burst has no end-of-burst job yet.
Off     == [at |-> "off", hand |-> END, attempt |-> 0, owes |-> FALSE]
Started == [at |-> "start", hand |-> END, attempt |-> 0, owes |-> HasEndHook]
Writing(j, owes) == [at |-> "writing", hand |-> j, attempt |-> 0, owes |-> owes]

DrainerAlive   == worker["drainer"].at # "off"
InlineDraining == \E k \in Callers : caller[k] = "inlining"

Init ==
  /\ queue = <<>> /\ unfinished = 0
  /\ worker = [c \in Consumer |-> Off] /\ cancelling = FALSE
  /\ caller = [k \in Callers |-> "new"]
  /\ target = [k \in Callers |-> {}]
  /\ fut = [j \in Job |-> "unborn"] /\ failed = FALSE
  /\ landed = <<>> /\ orphans = {} /\ covered = {} /\ gaveUp = {} /\ late = {}
  /\ faults = 0 /\ cancels = 0

----------------------------------------------------------------------------
(* One turn of _drain's loop, up to its next await. *)

TakeHookLate(q, n, owes) ==                                        \* mutant
  CASE q # <<>> -> [queue |-> Tail(q), unfinished |-> n, run |-> Writing(Head(q), owes)]
    [] q = <<>> /\ owes -> [queue |-> <<>>, unfinished |-> n + 1, run |-> Writing(END, FALSE)]
    [] OTHER -> [queue |-> <<>>, unfinished |-> n, run |-> Off]

\* get_nowait: the next job, and with the job that empties the queue, before it
\* is run, the end-of-burst job (once per burst); an empty queue ends the drain.
Take(q, n, owes) ==
  LET last == owes /\ Len(q) <= 1
      more == IF last THEN Append(q, END) ELSE q
      put  == IF last THEN n + 1 ELSE n
  IN IF more = <<>>
     THEN [queue |-> <<>>, unfinished |-> n, run |-> Off]
     ELSE [queue |-> Tail(more), unfinished |-> put, run |-> Writing(Head(more), owes /\ ~last)]

\* task_done at zero wakes every join().
Released(n) ==
  [k \in Callers |-> IF caller[k] = "joining" /\ n = 0 THEN "drained" ELSE caller[k]]

\* A drain that ended in a caller: flush returns; aclose stops a live drainer.
Drained(k) == IF k \in Closers /\ DrainerAlive THEN "stopping" ELSE "returned"

\* c goes on with the queue, n jobs of which are unfinished.
TakeNext(c, n, owes, awake) ==
  LET next == Take(queue, n, owes) IN
  /\ queue' = next.queue /\ unfinished' = next.unfinished
  /\ worker' = [worker EXCEPT ![c] = next.run]
  /\ caller' = [k \in Callers |->
                  IF c = "inline" /\ next.run = Off /\ awake[k] = "inlining"
                    THEN Drained(k) ELSE awake[k]]

\* What c had in hand is accounted for, and c goes on.
JobDone(c) ==
  TakeNext(c, unfinished - 1, worker[c].owes, Released(unfinished - 1))

Resolve(j, outcome) ==
  fut' = IF j # END /\ fut[j] = "pending" THEN [fut EXCEPT ![j] = outcome] ELSE fut

----------------------------------------------------------------------------
(* submit, submit_nowait, submit_threadsafe. *)

KickAlways ==                                                      \* mutant
  worker' = [worker EXCEPT !["drainer"] = IF DrainerAlive THEN @ ELSE Started]

KickOnlyFirst ==                                                   \* mutant
  worker' = [worker EXCEPT !["drainer"] = IF issued > 0 THEN @ ELSE Started]

\* _kick: a dead drainer is replaced, unless a caller is draining.
Kick ==
  worker' = [worker EXCEPT !["drainer"] =
               IF InlineDraining \/ DrainerAlive THEN @ ELSE Started]

\* The burst that is running has already enqueued its end-of-burst job.
BehindHook == HasEndHook /\ \E c \in Consumer : worker[c].at # "off" /\ ~worker[c].owes

Submit(kind) ==
  /\ issued < MaxJobs
  /\ fut' = [fut EXCEPT ![issued + 1] = kind]
  /\ queue' = Append(queue, issued + 1)
  /\ unfinished' = unfinished + 1
  /\ Kick
  /\ late' = IF BehindHook THEN late \cup {issued + 1} ELSE late
  /\ UNCHANGED <<cancelling, caller, target, failed, landed, orphans, covered,
                 gaveUp, boundVars>>

----------------------------------------------------------------------------
(* _drain, in the background task or in a caller. *)

CanStep(c) == c = "drainer" => ~cancelling

DrainerStarts ==
  /\ worker["drainer"].at = "start" /\ ~cancelling
  /\ TakeNext("drainer", unfinished, HasEndHook, caller)
  /\ UNCHANGED <<cancelling, target, fut, failed, landed, orphans, covered,
                 gaveUp, late, boundVars>>

\* In its thread, the write completes.
WriteLands(c) ==
  /\ worker[c].at = "writing"
  /\ worker' = [worker EXCEPT ![c].at = "written"]
  /\ IF worker[c].hand = END
       THEN covered' = Landed /\ UNCHANGED landed
       ELSE landed' = Append(landed, worker[c].hand) /\ UNCHANGED covered
  /\ UNCHANGED <<queueVars, cancelling, caller, target, fut, failed, orphans,
                 gaveUp, late, boundVars>>

\* In its thread, the write raises: an OSError, or any other exception.
WriteFails(c) ==
  /\ worker[c].at = "writing" /\ faults < MaxFaults
  /\ faults' = faults + 1
  /\ worker' = [worker EXCEPT ![c].at = "raised"]
  /\ UNCHANGED <<queueVars, cancelling, caller, target, fut, failed, landed,
                 orphans, covered, gaveUp, late, cancels>>

Finish(c) ==
  /\ worker[c].at = "written" /\ CanStep(c)
  /\ Resolve(worker[c].hand, "ok")
  /\ JobDone(c)
  /\ UNCHANGED <<cancelling, target, failed, landed, orphans, covered, gaveUp,
                 late, boundVars>>

TriesLeft(c) == worker[c].attempt + 1 < MaxWriteAttempts

\* After an OSError and the backoff; the job stays in hand, those behind it wait.
Retry(c) ==
  /\ worker[c].at = "raised" /\ CanStep(c) /\ TriesLeft(c)
  /\ worker' = [worker EXCEPT ![c].at = "writing", ![c].attempt = @ + 1]
  /\ UNCHANGED <<queueVars, cancelling, caller, target, fut, failed, landed,
                 orphans, covered, gaveUp, late, boundVars>>

SurfaceAsDone(j) == Resolve(j, "ok") /\ UNCHANGED failed            \* mutant

SurfaceToAwaiter(j) == Resolve(j, "error") /\ UNCHANGED failed      \* mutant

\* _on_write_failure: to the submitter, or the latch where there is none.
Surface(j) ==
  /\ Resolve(j, "error")
  /\ failed' = (failed \/ j = END \/ fut[j] = "none")

\* The last try raised, or what was raised is no OSError, which is not retried.
GiveUp(c) ==
  /\ worker[c].at = "raised" /\ CanStep(c)
  /\ Surface(worker[c].hand)
  /\ gaveUp' = gaveUp \cup ({worker[c].hand} \ {END})
  /\ JobDone(c)
  /\ UNCHANGED <<cancelling, target, landed, orphans, covered, late, boundVars>>

----------------------------------------------------------------------------
(* flush and aclose. *)

\* _drain_to_empty: wait for a live drainer or for the caller that is draining;
\* otherwise be the drainer.
MustDrainInline == ~(DrainerAlive /\ ~cancelling) /\ ~InlineDraining

Call(k) ==
  /\ caller[k] = "new"
  /\ target' = [target EXCEPT ![k] = 1..issued]
  /\ IF MustDrainInline
       THEN LET next == Take(queue, unfinished, HasEndHook) IN
            /\ queue' = next.queue /\ unfinished' = next.unfinished
            /\ worker' = [worker EXCEPT !["inline"] = next.run]
            /\ caller' = [caller EXCEPT ![k] =
                 IF next.run = Off THEN Drained(k) ELSE "inlining"]
       ELSE /\ caller' = [caller EXCEPT ![k] = IF unfinished = 0 THEN "drained" ELSE "joining"]
            /\ UNCHANGED <<queueVars, worker>>
  /\ UNCHANGED <<cancelling, fut, failed, landed, orphans, covered, gaveUp, late,
                 boundVars>>

\* join() has returned; aclose cancels a drainer that has found new work.
AfterJoin(k) ==
  /\ caller[k] = "drained"
  /\ caller' = [caller EXCEPT ![k] = Drained(k)]
  /\ cancelling' = (cancelling \/ Drained(k) = "stopping")
  /\ UNCHANGED <<queueVars, worker, target, fut, failed, landed, orphans, covered,
                 gaveUp, late, boundVars>>

----------------------------------------------------------------------------
(* Cancellation: by a hard shutdown, a loop's teardown, or aclose. *)

Held(run) == run.at \notin {"off", "start"}

\* The consumer's await raises: the job in hand is over for the queue and for its
\* submitter, but a thread that has begun to write it goes on.
Abandon(c) ==
  LET run == worker[c]
  IN /\ worker' = [worker EXCEPT ![c] = Off]
     /\ Resolve(run.hand, "cancelled")
     /\ unfinished' = IF Held(run) THEN unfinished - 1 ELSE unfinished
     /\ orphans' \in {orphans} \cup
          (IF run.at = "writing" /\ run.hand # END THEN {orphans \cup {run.hand}} ELSE {})

\* A task that has been cancelled is told at its next step.
DrainerCancelled ==
  /\ cancelling /\ DrainerAlive
  /\ Abandon("drainer")
  /\ cancelling' = FALSE
  /\ caller' = [k \in Callers |->
                  IF caller[k] = "stopping" THEN "stopped" ELSE Released(unfinished')[k]]
  /\ UNCHANGED <<queue, target, failed, landed, covered, gaveUp, late, boundVars>>

CancelDrainer ==
  /\ DrainerAlive /\ ~cancelling /\ cancels < MaxCancels
  /\ cancelling' = TRUE /\ cancels' = cancels + 1
  /\ UNCHANGED <<queueVars, worker, caller, target, fut, failed, landed, orphans,
                 covered, gaveUp, late, faults>>

CancelCaller(k) ==
  /\ caller[k] \in {"joining", "drained", "inlining", "stopping"} /\ cancels < MaxCancels
  /\ cancels' = cancels + 1
  /\ IF caller[k] = "inlining"
       THEN Abandon("inline")
       ELSE UNCHANGED <<worker, fut, unfinished, orphans>>
  /\ caller' = [Released(unfinished') EXCEPT ![k] = "cancelled"]
  /\ UNCHANGED <<queue, cancelling, target, failed, landed, covered, gaveUp, late,
                 faults>>

\* A submitter stops waiting; its job stays where it is.
CancelSubmitter(j) ==
  /\ fut[j] = "pending" /\ cancels < MaxCancels
  /\ fut' = [fut EXCEPT ![j] = "cancelled"]
  /\ cancels' = cancels + 1
  /\ UNCHANGED <<queueVars, worker, cancelling, caller, target, failed, landed,
                 orphans, covered, gaveUp, late, faults>>

OrphanLands(j) ==
  /\ j \in orphans
  /\ orphans' = orphans \ {j}
  /\ landed' = Append(landed, j)
  /\ UNCHANGED <<queueVars, worker, cancelling, caller, target, fut, failed,
                 covered, gaveUp, late, boundVars>>

----------------------------------------------------------------------------
\* What the loop and its threads do on their own.
Progress ==
  \/ DrainerStarts \/ DrainerCancelled
  \/ \E c \in Consumer : WriteLands(c) \/ Finish(c) \/ Retry(c) \/ GiveUp(c)
  \/ \E k \in Callers : AfterJoin(k)
  \/ \E j \in orphans : OrphanLands(j)

Next ==
  \/ \E kind \in {"pending", "none"} : Submit(kind)
  \/ \E k \in Callers : Call(k) \/ CancelCaller(k)
  \/ \E c \in Consumer : WriteFails(c)
  \/ CancelDrainer \/ \E j \in Job : CancelSubmitter(j)
  \/ Progress

Spec == Init /\ [][Next]_vars

\* A ready task is run and a thread ends.
FairSpec == Spec /\ WF_vars(Progress)

----------------------------------------------------------------------------
(* Correctness. *)

\* The variables hold what the code can hold.
TypeOK ==
  /\ queue \in Seq(Job \cup {END}) /\ unfinished \in Nat
  /\ worker \in [Consumer -> [at : {"off", "start", "writing", "written", "raised"},
                              hand : Job \cup {END}, attempt : 0..(MaxWriteAttempts - 1),
                              owes : BOOLEAN]]
  /\ cancelling \in BOOLEAN /\ (cancelling => DrainerAlive)
  /\ caller \in [Callers -> {"new", "joining", "drained", "inlining", "stopping",
                             "returned", "stopped", "cancelled"}]
  /\ target \in [Callers -> SUBSET Job]
  /\ fut \in [Job -> {"unborn", "none", "pending", "ok", "error", "cancelled"}]
  /\ failed \in BOOLEAN /\ landed \in Seq(Job)
  /\ orphans \subseteq Job /\ covered \subseteq Job /\ gaveUp \subseteq Job
  /\ late \subseteq Job
  /\ faults \in 0..MaxFaults /\ cancels \in 0..MaxCancels

\* Whoever cancels what, a job lands at most once, and a submitter that is told
\* "written" has its write on disk.
FuturesAreHonest ==
  /\ Len(landed) = Cardinality(Landed)
  /\ \A j \in Job : fut[j] = "ok" => j \in Landed
  /\ \A j \in Job : fut[j] = "error" => j \in gaveUp

\* An aclose that finds new work after its drain cancels the drainer too.
Cancelled == cancels > 0 \/ \E k \in Callers : caller[k] \in {"stopping", "stopped"}

Back(k) == caller[k] \in {"returned", "stopped"}

\* FIFO order is durability order, with flushes draining in between, retries and
\* abandoned jobs - as long as nothing that drains is cancelled (aclose itself
\* cancels a drainer with new work).
LandsInOrder ==
  ~Cancelled => /\ \A i, j \in DOMAIN landed : i < j => landed[i] < landed[j]
                /\ Cardinality({c \in Consumer : worker[c].at # "off"}) <= 1

\* flush and aclose are barriers: when one returns, every job enqueued before the
\* call is on disk, or its failure was surfaced.
FlushIsBarrier ==
  ~Cancelled =>
    \A k \in Callers : Back(k) =>
      \A j \in target[k] : j \in Landed \/ (j \in gaveUp /\ (failed \/ fut[j] = "error"))

\* They are barriers for on_drain_end too: it has run after every such job, but for
\* those enqueued behind the end-of-burst job of the burst that wrote them.
HookIsBehindBarrier ==
  (HasEndHook /\ ~Cancelled /\ ~failed) =>
    \A k \in Callers : Back(k) =>
      target[k] \cap Landed \subseteq covered \cup late

\* No flush, aclose or submitter waits for ever, unless something was cancelled.
EveryoneIsAnswered ==
  /\ \A k \in Callers : (caller[k] # "new") ~> (Back(k) \/ Cancelled)
  /\ \A j \in Job : (fut[j] = "pending") ~> (fut[j] # "pending" \/ Cancelled)
=============================================================================
