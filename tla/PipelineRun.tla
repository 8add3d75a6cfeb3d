----------------------------- MODULE PipelineRun -----------------------------
(***************************************************************************)
(* One run of a pipeline, from the work order on disk to the terminal      *)
(* marker: PipelineExecutor (core/pipeline/executor.py), the generations   *)
(* it records (core/events/pipeline_recovery.py), the files of the run     *)
(* (core/pipeline/work_order.py), PipelineExecutorDriver, and the scan     *)
(* that wakes unfinished runs when the process starts.                     *)
(*                                                                         *)
(* A plan has three kinds of step.  "tool" has one effect and is recorded  *)
(* before the run goes on; "transform" has none and is recorded behind its *)
(* back; "each" runs an item per member of Items side by side, an item     *)
(* being a tool of its own (Inner = 0) or a call of Inner tools one after  *)
(* the other.  Agents behave as tools, parallel as each without a limit,   *)
(* and match as the call it selects; what steps compute, and the on_error  *)
(* of a tool that stands alone, are left out.  The handle that promises    *)
(* the result to its requester is in TaskHandles.                          *)
(***************************************************************************)
EXTENDS Integers, Sequences, FiniteSets

CONSTANTS
  Plan,         \* the top-level steps
  Items,        \* what an "each" step runs over
  Inner,        \* the tools of one item's call; 0: the item is one tool
  MaxParallel,  \* max_parallel
  Retries,      \* the n of on_error: retry(n)
  Launches,     \* how a run may be launched
  MaxResume,    \* MAX_RESUME_ATTEMPTS
  MaxCrashes,   \* bound: how often the process dies
  FREE          \* nobody holds the record lock

ASSUME PipelineAssumption ==
  /\ Plan \in Seq({"tool", "transform", "each"})
  /\ IsFiniteSet(Items) /\ Items # {} /\ {FREE, "collect"} \cap Items = {}
  /\ Inner \in Nat /\ MaxParallel \in Nat \ {0} /\ Retries \in Nat
  /\ MaxResume \in Nat /\ MaxCrashes \in Nat
  /\ Launches \subseteq [attached : BOOLEAN,
                         onError  : {"abort", "continue", "retry"},
                         onSettle : {"deliver", "drop", "pipeline"}]

VARIABLES
  launch,       \* invocation.json, and whether the launching turn is attached
  gen,          \* on disk: the latest generation
  attempts,     \* on disk: attempts.json
  marker,       \* on disk: result.json
  mail,         \* on disk: nudges in the driver-session's inbox
  answered,     \* on disk: the result is in the reply session's inbox
  queue,        \* the durability worker's pending jobs, first in first out
  phase,        \* where the driver is
  nudges,       \* the driver-session's inbox
  notify,       \* _notify_reply
  cancel,       \* _cancel_requested
  step,         \* the top-level step the executor is at
  box,          \* completed_step_results: the keys it holds
  at,           \* per item: where its task is
  tries,        \* per item: failed attempts
  finished,     \* the items that returned, in that order, not yet recorded
  worked,       \* the items whose record must be awaited (any_durable)
  lock,         \* who holds _FanOutRecordBox.lock
  verdict,      \* the status _finish was called with
  fired,        \* history: how often each effect was had
  recorded,     \* history: the keys that were ever on disk
  dropped,      \* history: the items recorded as dropped
  told,         \* history: the result was posted, or nobody is there
  reader,       \* the attached caller is still there
  runs,         \* history: how often the executor was started
  crashes       \* how often the process died

diskVars    == <<gen, attempts, marker, mail, answered>>
fanVars     == <<at, tries, finished, worked, lock>>
execVars    == <<step, box, fanVars>>
driverVars  == <<nudges, notify, cancel, verdict>>
historyVars == <<fired, recorded, dropped, told, reader, runs, crashes>>

vars == <<launch, diskVars, queue, phase, driverVars, execVars, historyVars>>

----------------------------------------------------------------------------
(* Keys of completed_step_results: "i", "i.for_each.x", the sub-steps of an *)
(* item's call, and "i.for_each.collect".                                   *)

Step(i)    == <<i>>
Item(i, x) == <<i, x>>
Sub(i, x, j) == <<i, x, j>>
Collect(i) == <<i, "collect">>

EffectsOfItem(i, x) == IF Inner = 0 THEN {Item(i, x)} ELSE {Sub(i, x, j) : j \in 1..Inner}

EffectsOf(i) == CASE Plan[i] = "tool"      -> {Step(i)}
                  [] Plan[i] = "each"      -> UNION {EffectsOfItem(i, x) : x \in Items}
                  [] Plan[i] = "transform" -> {}

Effects == UNION {EffectsOf(i) : i \in DOMAIN Plan}

Keys == {Step(i) : i \in DOMAIN Plan} \cup {Collect(i) : i \in DOMAIN Plan}
        \cup {Item(i, x) : i \in DOMAIN Plan, x \in Items}
        \cup {Sub(i, x, j) : i \in DOMAIN Plan, x \in Items, j \in 1..Inner}

\* A generation: how many steps are done, and every key there is.
Generation(done, keys) == [step |-> done, done |-> keys]
NoGeneration == Generation(0, {})
NoMarker     == [status |-> "none", delivered |-> FALSE]

Write(done, keys, by) == [job |-> "gen", gen |-> Generation(done, keys), by |-> by]
Simple(job)           == [job |-> job, gen |-> NoGeneration, by |-> "nobody"]

\* submit_durable returns when the job has landed.
Landed(by) == \A k \in DOMAIN queue : queue[k].by # by

NoTasks ==
  /\ at' = [x \in Items |-> "off"] /\ tries' = [x \in Items |-> 0]
  /\ finished' = <<>> /\ worked' = {} /\ lock' = FREE

\* The work order is on disk and the first nudge has been put.
Init ==
  /\ launch \in Launches
  /\ gen = NoGeneration /\ attempts = 0 /\ marker = NoMarker
  /\ mail = 0 /\ answered = FALSE
  /\ queue = <<Simple("put")>> /\ phase = "idle" /\ nudges = 1
  /\ notify = ~launch.attached /\ cancel = FALSE
  /\ step = 1 /\ box = {}
  /\ at = [x \in Items |-> "off"] /\ tries = [x \in Items |-> 0]
  /\ finished = <<>> /\ worked = {} /\ lock = FREE
  /\ verdict = "none"
  /\ fired = [e \in Effects |-> 0] /\ recorded = {} /\ dropped = {}
  /\ told = "no" /\ reader = launch.attached
  /\ runs = 0 /\ crashes = 0

----------------------------------------------------------------------------
(* The durability worker.  A generation is keyed by the durable log's head,  *)
(* which never goes back, so the last to land is the latest.                *)

\* From posting the result to the marker nothing is awaited.
Land ==
  /\ queue # <<>> /\ phase # "posted"
  /\ LET job == Head(queue) IN
       /\ gen' = IF job.job = "gen" THEN job.gen ELSE gen
       /\ recorded' = recorded \cup gen'.done
       /\ mail' = mail + (IF job.job = "put" THEN 1 ELSE IF job.job = "take" THEN -1 ELSE 0)
       /\ answered' = (answered \/ job.job = "reply")
  /\ queue' = Tail(queue)
  /\ UNCHANGED <<launch, attempts, marker, phase, driverVars, execVars,
                 fired, dropped, told, reader, runs, crashes>>

----------------------------------------------------------------------------
(* run_turn.                                                                *)

Take ==
  /\ phase = "idle" /\ nudges > 0
  /\ nudges' = nudges - 1
  /\ queue' = Append(queue, Simple("take"))

\* Already terminal: a nudge too many.
IgnoreNudge ==
  /\ Take /\ marker # NoMarker
  /\ UNCHANGED <<launch, diskVars, phase, notify, cancel, verdict, execVars, historyVars>>

\* The poison cap.
Exhausted == attempts > MaxResume

GiveUp ==
  /\ Take /\ marker = NoMarker /\ Exhausted
  /\ phase' = "finishing" /\ verdict' = "failed"
  /\ UNCHANGED <<launch, diskVars, notify, cancel, execVars, historyVars>>

\* run, or resume from the latest generation.
StartRunAgain ==                                                      \* mutant
  /\ Take /\ ~Exhausted
  /\ step' = gen.step + 1 /\ box' = gen.done /\ NoTasks
  /\ phase' = "boundary" /\ runs' = runs + 1
  /\ UNCHANGED <<launch, diskVars, notify, cancel, verdict,
                 fired, recorded, dropped, told, reader, crashes>>

StartRun ==
  /\ Take /\ marker = NoMarker /\ ~Exhausted
  /\ step' = gen.step + 1 /\ box' = gen.done /\ NoTasks
  /\ phase' = "boundary" /\ runs' = runs + 1
  /\ UNCHANGED <<launch, diskVars, notify, cancel, verdict,
                 fired, recorded, dropped, told, reader, crashes>>

----------------------------------------------------------------------------
(* _run_from: the loop over the top-level steps.                            *)

Finish(status) ==
  /\ phase' = "finishing" /\ verdict' = status
  /\ NoTasks
  /\ UNCHANGED <<launch, diskVars, queue, nudges, notify, cancel, step, box, historyVars>>

StopAtBoundary ==
  /\ phase = "boundary" /\ step <= Len(Plan) /\ cancel
  /\ Finish("cancelled")

AllDone ==
  /\ phase = "boundary" /\ step > Len(Plan)
  /\ Finish("ok")

AtStep(kind) == phase = "boundary" /\ step <= Len(Plan) /\ ~cancel /\ Plan[step] = kind

\* The step's result joins the box, and the generation after it is recorded,
\* awaited or not, behind the writes given.
EndStep(before, keys, durable) ==
  LET done == keys \cup {Step(step)} IN
  /\ box' = done
  /\ queue' = queue \o before
              \o <<Write(step, done, IF durable THEN "step" ELSE "nobody")>>
  /\ IF durable
     THEN phase' = "recording" /\ UNCHANGED step
     ELSE phase' = "boundary" /\ step' = step + 1

Transform ==
  /\ AtStep("transform")
  /\ EndStep(<<>>, box, FALSE)
  /\ UNCHANGED <<launch, diskVars, driverVars, fanVars, historyVars>>

CallTool ==
  /\ AtStep("tool")
  /\ phase' = "calling"
  /\ UNCHANGED <<launch, diskVars, queue, driverVars, execVars, historyVars>>

Had(e) == fired' = [fired EXCEPT ![e] = @ + 1]

ToolActs ==
  /\ phase = "calling"
  /\ Had(Step(step))
  /\ phase' = "returned"
  /\ UNCHANGED <<launch, diskVars, queue, driverVars, execVars,
                 recorded, dropped, told, reader, runs, crashes>>

ToolEnds ==
  /\ phase = "returned"
  /\ EndStep(<<>>, box, TRUE)
  /\ UNCHANGED <<launch, diskVars, driverVars, fanVars, historyVars>>

\* Any other exception leaves run_turn, and the run loop, with no marker.
ToolRaises ==
  /\ phase \in {"calling", "returned"}
  /\ phase' = "stalled"
  /\ UNCHANGED <<launch, diskVars, queue, driverVars, execVars, historyVars>>

StepRecorded ==
  /\ phase = "recording" /\ Landed("step")
  /\ phase' = "boundary" /\ step' = step + 1
  /\ UNCHANGED <<launch, diskVars, queue, driverVars, box, fanVars, historyVars>>

----------------------------------------------------------------------------
(* _run_for_each_step.  Items whose key is there do not run.                *)

StartEach ==
  /\ AtStep("each") /\ Collect(step) \notin box
  /\ phase' = "each"
  /\ at' = [x \in Items |-> IF Item(step, x) \in box THEN "settled" ELSE "waiting"]
  /\ UNCHANGED <<launch, diskVars, queue, driverVars, step, box,
                 tries, finished, worked, lock, historyVars>>

\* collect had run: its result is replayed.
ReplayEach ==
  /\ AtStep("each") /\ Collect(step) \in box
  /\ EndStep(<<>>, box, FALSE)
  /\ UNCHANGED <<launch, diskVars, driverVars, fanVars, historyVars>>

Busy == {x \in Items : at[x] \in {"ready", "acted", "writing"}}

\* The semaphore.
StartItem(x) ==
  /\ at[x] = "waiting" /\ Cardinality(Busy) < MaxParallel
  /\ at' = [at EXCEPT ![x] = "ready"]
  /\ UNCHANGED <<launch, diskVars, queue, phase, driverVars, step, box,
                 tries, finished, worked, lock, historyVars>>

\* _run_scope replays the sub-steps that have a key.
Left(x) == {j \in 1..Inner : Sub(step, x, j) \notin box}

\* The effect that comes next in its task: one, or none.
Upcoming(x) ==
  IF Inner = 0 THEN {Item(step, x)}
  ELSE {Sub(step, x, j) : j \in {i \in Left(x) : \A k \in Left(x) : i <= k}}

Returns(x, how) ==
  /\ at' = [at EXCEPT ![x] = how]
  /\ finished' = Append(finished, x)

ItemActs(x) ==
  /\ at[x] = "ready"
  /\ \E e \in Upcoming(x) : Had(e)
  /\ worked' = worked \cup {x}
  /\ IF Inner = 0
     THEN Returns(x, "good")
     ELSE at' = [at EXCEPT ![x] = "acted"] /\ UNCHANGED finished
  /\ UNCHANGED <<launch, diskVars, queue, phase, driverVars, step, box, tries, lock,
                 recorded, dropped, told, reader, runs, crashes>>

\* The recorder of an item's sub-steps, under the lock.  The mutant writes
\* what the item itself has seen since it started.
MergedAlone(x, key) ==                                                \* mutant
  {k \in box : Len(k) = 3 => k[2] = x} \cup {key}

Merged(x, key) == box \cup {key}

Record(x) ==
  /\ at[x] = "acted" /\ lock = FREE
  /\ \E e \in Upcoming(x) :
       /\ box' = Merged(x, e)
       /\ queue' = Append(queue, Write(step - 1, box', x))
  /\ lock' = x /\ at' = [at EXCEPT ![x] = "writing"]
  /\ UNCHANGED <<launch, diskVars, phase, driverVars, step, tries, finished, worked,
                 historyVars>>

RecordedKeepsLock(x) ==                                               \* mutant
  /\ at[x] = "writing" /\ Landed(x)
  /\ at' = [at EXCEPT ![x] = "ready"]
  /\ UNCHANGED <<launch, diskVars, queue, phase, driverVars, step, box,
                 tries, finished, worked, lock, historyVars>>

Recorded(x) ==
  /\ at[x] = "writing" /\ Landed(x)
  /\ lock' = FREE /\ at' = [at EXCEPT ![x] = "ready"]
  /\ UNCHANGED <<launch, diskVars, queue, phase, driverVars, step, box,
                 tries, finished, worked, historyVars>>

ItemReturns(x) ==
  /\ at[x] = "ready" /\ Upcoming(x) = {}
  /\ Returns(x, "good")
  /\ UNCHANGED <<launch, diskVars, queue, phase, driverVars, step, box,
                 tries, worked, lock, historyVars>>

\* An item fails, before or after its effect; retry(n) runs it again in its
\* task.
ItemFails(x) ==
  /\ at[x] = "ready"
  /\ \E e \in Upcoming(x) : UNCHANGED fired \/ Had(e)
  /\ IF launch.onError = "retry" /\ tries[x] < Retries
     THEN tries' = [tries EXCEPT ![x] = @ + 1] /\ UNCHANGED <<at, finished>>
     ELSE Returns(x, "bad") /\ UNCHANGED tries
  /\ UNCHANGED <<launch, diskVars, queue, phase, driverVars, step, box, worked, lock,
                 recorded, dropped, told, reader, runs, crashes>>

\* The coordinator, one item after the other: a result, or the mark of a
\* dropped item, is recorded under the lock.
First == Head(finished)

Save ==
  /\ phase = "each" /\ finished # <<>> /\ lock = FREE
  /\ at[First] = "good" \/ launch.onError = "continue"
  /\ LET x       == First
         keys    == box \cup {Item(step, x)}
         durable == x \in worked \/ at[x] = "bad" IN
       /\ box' = keys
       /\ queue' = Append(queue, Write(step - 1, keys, IF durable THEN x ELSE "nobody"))
       /\ at' = [at EXCEPT ![x] = IF durable THEN "saving" ELSE "settled"]
       /\ lock' = IF durable THEN x ELSE FREE
       /\ worked' = IF durable THEN worked \cup {x} ELSE worked
       /\ dropped' = IF at[x] = "bad" THEN dropped \cup {Item(step, x)} ELSE dropped
  /\ finished' = Tail(finished)
  /\ UNCHANGED <<launch, diskVars, phase, driverVars, step, tries,
                 fired, recorded, told, reader, runs, crashes>>

Saved(x) ==
  /\ at[x] = "saving" /\ Landed(x)
  /\ lock' = FREE /\ at' = [at EXCEPT ![x] = "settled"]
  /\ UNCHANGED <<launch, diskVars, queue, phase, driverVars, step, box,
                 tries, finished, worked, historyVars>>

\* abort, also after retry(n): the other tasks are cancelled.
Abort ==
  /\ phase = "each" /\ finished # <<>>
  /\ \A x \in Items : at[x] # "saving"
  /\ at[First] = "bad" /\ launch.onError # "continue"
  /\ Finish("failed")

\* Every item has its key: collect runs once, and the step ends.
AnySettled == \E x \in Items : at[x] = "settled"                      \* mutant

AllSettled == \A x \in Items : at[x] = "settled"

EndEach ==
  /\ phase = "each" /\ AllSettled
  /\ LET keys == box \cup {Collect(step)} IN
       EndStep(<<Write(step - 1, keys, "nobody")>>, keys, worked # {})
  /\ NoTasks
  /\ UNCHANGED <<launch, diskVars, driverVars, historyVars>>

\* A PipelineExecutionError ends the run: a tool's, also one raised over its
\* result, an expression's, or collect's.
StepFails ==
  /\ phase \in {"calling", "returned"} \/ AtStep("transform")
     \/ (phase = "each" /\ AllSettled)
  /\ Finish("failed")

----------------------------------------------------------------------------
(* _finish: deliver, then the marker.                                       *)

\* settle posts the result, or by on_settle does not.
Deliver ==
  /\ phase = "finishing" /\ notify /\ launch.onSettle # "pipeline"
  /\ phase' = "posted"
  /\ IF launch.onSettle = "deliver"
     THEN queue' = Append(queue, Simple("reply")) /\ told' = "posted"
     ELSE UNCHANGED <<queue, told>>
  /\ UNCHANGED <<launch, diskVars, driverVars, execVars,
                 fired, recorded, dropped, reader, runs, crashes>>

\* A pipeline's name is accepted by run_pipeline; settle raises.
SettleRaises ==
  /\ phase = "finishing" /\ notify /\ launch.onSettle = "pipeline"
  /\ phase' = "stalled"
  /\ UNCHANGED <<launch, diskVars, queue, driverVars, execVars, historyVars>>

\* The reply session is gone, or the caller is attached.
NoDelivery(nobody) ==
  /\ phase = "finishing"
  /\ IF nobody THEN notify /\ told' = "nobody" ELSE ~notify /\ UNCHANGED told
  /\ phase' = "unposted"
  /\ UNCHANGED <<launch, diskVars, queue, driverVars, execVars,
                 fired, recorded, dropped, reader, runs, crashes>>

WriteMarker ==
  /\ phase \in {"posted", "unposted"}
  /\ marker' = [status |-> verdict, delivered |-> phase = "posted"]
  /\ phase' = "idle"
  /\ UNCHANGED <<launch, gen, attempts, mail, answered, queue, driverVars, execVars,
                 historyVars>>

----------------------------------------------------------------------------
(* Cancellation, crashes, recovery.                                         *)

\* cancel_task on the handle of a detached run; a handle that a restart has
\* restored can no longer cancel.
RequestCancel ==
  /\ ~launch.attached /\ crashes = 0 /\ ~cancel /\ phase \notin {"posted", "stalled"}
  /\ marker = NoMarker
  /\ cancel' = TRUE
  /\ UNCHANGED <<launch, diskVars, queue, phase, nudges, notify, verdict, execVars, historyVars>>

\* Ctrl-C on the attached caller cancels the caller's turn, which is waiting
\* for the driver's: that is cancelled with it, wherever it waits, before the
\* forwarded request is ever polled.
Interrupt ==
  /\ reader /\ phase \in {"calling", "returned", "recording", "each"}
  /\ cancel' = TRUE /\ reader' = FALSE /\ phase' = "stalled"
  /\ NoTasks
  /\ UNCHANGED <<launch, diskVars, queue, nudges, notify, verdict, step, box,
                 fired, recorded, dropped, told, runs, crashes>>

Crash ==
  /\ phase # "down" /\ crashes < MaxCrashes
  /\ crashes' = crashes + 1
  /\ phase' = "down" /\ queue' = <<>> /\ nudges' = 0 /\ cancel' = FALSE /\ reader' = FALSE
  /\ step' = 1 /\ box' = {} /\ verdict' = "none" /\ NoTasks
  /\ UNCHANGED <<launch, diskVars, notify, fired, recorded, dropped, told, runs>>

\* _rewake_pipeline_runs: a run without a marker is counted, then woken.
Scan ==
  /\ phase = "down"
  /\ IF marker = NoMarker
     THEN attempts' = attempts + 1 /\ phase' = "woken"
     ELSE UNCHANGED attempts /\ phase' = "idle"
  /\ UNCHANGED <<launch, gen, marker, mail, answered, queue, driverVars, execVars, historyVars>>

\* A new driver, always with notify_reply; the nudges that were never taken
\* are still in the restored inbox.
WakeAsLaunched ==                                                     \* mutant
  /\ phase = "woken"
  /\ notify' = ~launch.attached
  /\ nudges' = mail + 1 /\ queue' = Append(queue, Simple("put"))
  /\ phase' = "idle"
  /\ UNCHANGED <<launch, diskVars, cancel, verdict, execVars, historyVars>>

Wake ==
  /\ phase = "woken"
  /\ notify' = TRUE
  /\ nudges' = mail + 1 /\ queue' = Append(queue, Simple("put"))
  /\ phase' = "idle"
  /\ UNCHANGED <<launch, diskVars, cancel, verdict, execVars, historyVars>>

----------------------------------------------------------------------------
Driver ==
  \/ IgnoreNudge \/ GiveUp \/ StartRun
  \/ StopAtBoundary \/ AllDone \/ Transform \/ CallTool \/ ToolActs \/ ToolEnds
  \/ StepRecorded \/ StartEach \/ ReplayEach \/ Save \/ Abort \/ EndEach
  \/ Deliver \/ SettleRaises \/ NoDelivery(FALSE) \/ WriteMarker
  \/ Scan \/ Wake

ItemStep(x) ==
  StartItem(x) \/ ItemActs(x) \/ Record(x) \/ Recorded(x) \/ ItemReturns(x) \/ Saved(x)

Next ==
  \/ Land \/ Driver
  \/ StepFails \/ ToolRaises \/ NoDelivery(TRUE)
  \/ RequestCancel \/ Interrupt \/ Crash
  \/ \E x \in Items : ItemStep(x) \/ ItemFails(x)

Spec == Init /\ [][Next]_vars

\* The worker lands what is queued, the driver's turn and each item's task
\* move on, and a process that died is started again.  Nothing has to fail,
\* to be cancelled or to die.
FairSpec ==
  /\ Spec
  /\ WF_vars(Land) /\ WF_vars(Driver)
  /\ \A x \in Items : WF_vars(ItemStep(x))

----------------------------------------------------------------------------
(* Properties.                                                              *)

\* Every variable has its type.
TypeOK ==
  /\ launch \in Launches
  /\ gen \in [step : 0..Len(Plan), done : SUBSET Keys]
  /\ attempts \in Nat /\ mail \in Nat /\ nudges \in Nat
  /\ marker \in [status : {"none", "ok", "failed", "cancelled"}, delivered : BOOLEAN]
  /\ answered \in BOOLEAN /\ notify \in BOOLEAN /\ cancel \in BOOLEAN /\ reader \in BOOLEAN
  /\ phase \in {"idle", "boundary", "calling", "returned", "recording", "each",
                "finishing", "posted", "unposted", "stalled", "down", "woken"}
  /\ step \in 1..(Len(Plan) + 1) /\ box \subseteq Keys
  /\ at \in [Items -> {"off", "waiting", "ready", "acted", "writing", "good", "bad",
                       "saving", "settled"}]
  /\ tries \in [Items -> 0..Retries] /\ finished \in Seq(Items) /\ worked \subseteq Items
  /\ lock \in Items \cup {FREE} /\ verdict \in {"none", "ok", "failed", "cancelled"}
  /\ fired \in [Effects -> Nat] /\ recorded \subseteq Keys /\ dropped \subseteq Keys
  /\ told \in {"no", "posted", "nobody"} /\ runs \in Nat /\ crashes \in Nat

\* An effect whose record ever reached the disk is not had again: not after
\* any number of crashes in any process, not because a sibling item recorded
\* its own progress meanwhile, not because an item is retried.
RecordedNeverFires ==
  [][\A e \in recorded : e \in Effects => fired'[e] = fired[e]]_vars

\* A marker ends the run: no nudge, woken driver or restart that comes later
\* has an effect, posts again, counts an attempt or changes the marker.
TerminalIsFinal ==
  [][marker # NoMarker =>
       marker' = marker /\ fired' = fired /\ told' = told /\ attempts' = attempts]_vars

\* "ok" means every effect was had, unless its item was recorded as dropped;
\* "cancelled" that no step was left half done.
Skipped(i, e) == \E x \in Items : Item(i, x) \in dropped /\ e \in EffectsOfItem(i, x)

MarkerIsHonest ==
  /\ marker.status = "ok" =>
       \A i \in DOMAIN Plan : \A e \in EffectsOf(i) : fired[e] > 0 \/ Skipped(i, e)
  /\ marker.status = "cancelled" =>
       \A i \in DOMAIN Plan :
         (\E e \in EffectsOf(i) : fired[e] > 0) => Step(i) \in gen.done

\* Whoever launched the run hears of its end when the marker is written: the
\* result was posted, or the attached caller is there to read the marker -
\* and is not expected there by the driver of a later process.
SomeoneIsTold ==
  [][marker' # marker =>
       told # "no" \/ reader \/ launch.onSettle = "drop"]_vars

\* However often the process dies, steps are run by the launch and by
\* MAX_RESUME_ATTEMPTS resumes, no more.
WakesAreBounded == runs <= MaxResume + 1

\* A run that has a work order gets its marker, unless it was cut off by an
\* exception or an interrupted caller and waits for the next restart.
RunIsDecided == <>(marker # NoMarker \/ phase = "stalled")

----------------------------------------------------------------------------
(* What the documentation says and the code does not do.                    *)

\* core/pipeline/work_order.py: terminal means "result delivered"; a crash
\* leaves no marker unless the result was posted.
DeliveredIsKept ==
  (marker.delivered /\ launch.onSettle = "deliver") =>
    answered \/ \E k \in DOMAIN queue : queue[k].job = "reply"

\* docs/concepts/runtime/pipelines.md: Ctrl-C on the attached caller stops the
\* run at the next step boundary rather than killing it in the middle of one.
InterruptIsClean ==
  (launch.attached /\ cancel) ~> (marker.status = "cancelled" \/ crashes > 0)
=============================================================================
