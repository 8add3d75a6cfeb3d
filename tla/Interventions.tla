---------------------------- MODULE Interventions ----------------------------
(***************************************************************************)
(* The questions a session has open for its user: InterventionRegistry,    *)
(* InterventionCoordinator and InterventionHandler, the session's entry    *)
(* points around them, the records they leave in the journal, and the      *)
(* grace window of the AG-UI surface.                                      *)
(*                                                                         *)
(* A question is asked on a bus that was resolved while somebody listened; *)
(* by the time it is delivered nobody may.  Whoever asked waits for the    *)
(* question's future.  Besides the asker a background task, a courier,     *)
(* may carry the question: after a claim, or after a restart.              *)
(*                                                                         *)
(* Nothing between two awaits suspends, so each action runs from one to    *)
(* the next.  No production caller gives a question a run_id, so the       *)
(* buffer of answers by run_id stays empty and is left out.                *)
(***************************************************************************)
EXTENDS Integers, FiniteSets, Sequences, SequencesExt

CONSTANTS
  Questions,    \* the questions that may come up, each once
  Mixes,        \* who may ask which
  MaxLag,       \* bound: the outside acts while fewer snapshots are not durable
  MaxResets     \* bound: restarts and rewinds together

\* A tool call of the session's own turn; a bridged child session or a chain's
\* watchdog; an MCP server or a hook, whose questions are not pinned.
Origins == {"turn", "child", "server"}

ASSUME QuestionAssumption ==
  /\ Mixes \subseteq [Questions -> Origins]
  /\ MaxLag \in Nat /\ MaxResets \in Nat

VARIABLES
  origin,       \* per question: who asks it
  surface,      \* what the user sits at: the inline chat, or AG-UI clients
  listening,    \* a listener is registered (all surfaces share one channel id)
  graceOver,    \* AG-UI: no fail-close driver runs
  asker,        \* per question: where the code that asks it is
  couriers,     \* per question: the tasks that carry it
  future,       \* per question: iv.future
  order,        \* _order (and _active)
  stalled,      \* _stalled
  snap,         \* the journal's snapshot: outstanding_interventions
  recoverable,  \* the snapshots a crash could bring back
  shown,        \* the questions the user's surface displays or can read
  dropped,      \* history: claimed questions whose courier never ran
  crossed,      \* history: restored questions an older asker resolved
  resets        \* how many restarts and rewinds there were

vars == <<origin, surface, listening, graceOver, asker, couriers, future, order, stalled,
          snap, recoverable, shown, dropped, crossed, resets>>

fixedVars   == <<origin, surface>>
surfaceVars == <<fixedVars, listening, graceOver>>
taskVars    == <<asker, couriers>>
queueVars   == <<order, stalled>>
journalVars == <<snap, recoverable>>
historyVars == <<dropped, crossed, resets>>

Init ==
  /\ origin \in Mixes
  /\ surface \in {"inline", "agui"} /\ listening = FALSE /\ graceOver = TRUE
  /\ asker = [q \in Questions |-> "new"] /\ couriers = [q \in Questions |-> {}]
  /\ future = [q \in Questions |-> "pending"]
  /\ order = <<>> /\ stalled = {}
  /\ snap = {} /\ recoverable = {{}}
  /\ shown = {} /\ dropped = {} /\ crossed = {} /\ resets = 0

----------------------------------------------------------------------------
(* The journal, the queue and what the user sees.                           *)

Journal(s) ==
  /\ snap' = s
  /\ recoverable' = recoverable \cup {s}

\* Two records, between which the process may die.
JournalBoth(one, two) ==
  /\ snap' = two
  /\ recoverable' = recoverable \cup {one, two}

KeepsUp == Cardinality(recoverable) <= MaxLag

Persist ==
  /\ recoverable # {snap}
  /\ recoverable' = {snap}
  /\ UNCHANGED <<surfaceVars, taskVars, future, queueVars, snap, shown, historyVars>>

TurnAsks == {q \in Questions : origin[q] = "turn"}
Pinned   == {q \in Questions : origin[q] # "server"}

IsPending(q) == future[q] = "pending"

Without(q) == RemoveFirst(order, q)

\* What is put to the outbox while nobody listens is dropped.
Display(qs) == shown' = IF listening THEN shown \cup qs ELSE shown

\* registry.dispatch: announced if it became the only one.
Enqueue(q) ==
  /\ order' = Append(order, q)
  /\ Display(IF order = <<>> THEN {q} ELSE {})

\* The finally clause of registry.dispatch: _maybe_announce_next.
LeaveQuietly(q) == order' = Without(q) /\ UNCHANGED shown             \* mutant

Leave(q) ==
  /\ order' = Without(q)
  /\ LET next == IF order' = <<>> THEN {} ELSE {order'[1]}
     IN  Display({p \in next : IsPending(p)})

\* record_intervention_resolved, in a finally clause.
StrikeOffIfAnswered(q) ==                                             \* mutant
  IF future[q] = "answered" THEN Journal(snap \ {q}) ELSE UNCHANGED journalVars

StrikeOff(q) == Journal(snap \ {q})

ParkOnce(q) ==                                                        \* mutant
  stalled' = IF asker[q] = "parked" THEN stalled ELSE stalled \cup {q}

Park(q) == stalled' = stalled \cup {q}

----------------------------------------------------------------------------
(* Surfaces.                                                                *)

\* registry.head evicts what is answered in front of the first pending one.
Evicted ==
  LET i == SelectInSeq(order, IsPending)
  IN  IF i = 0 THEN <<>> ELSE SubSeq(order, i, Len(order))

\* attach announces what is pending; AG-UI's STATE_SNAPSHOT reads the head.  An
\* AG-UI attach starts the driver of the grace window.
Attach ==
  /\ ~listening
  /\ listening' = TRUE
  /\ IF surface = "inline"
     THEN shown' = {q \in ToSet(order) : IsPending(q)} /\ UNCHANGED <<graceOver, order>>
     ELSE /\ graceOver' = FALSE /\ order' = Evicted
          /\ shown' = IF order' = <<>> THEN {} ELSE {order'[1]}
  /\ UNCHANGED <<fixedVars, taskVars, future, stalled, journalVars, historyVars>>

Detach ==
  /\ listening
  /\ listening' = FALSE /\ shown' = {}
  /\ UNCHANGED <<fixedVars, graceOver, taskVars, future, queueVars, journalVars, historyVars>>

\* The driver after a whole grace window: fail_close_interventions refuses
\* what is in the queue, and the driver ends.
FailCloseHead ==                                                      \* mutant
  /\ surface = "agui" /\ ~listening /\ ~graceOver
  /\ graceOver' = TRUE
  /\ future' = [q \in Questions |->
                  IF order # <<>> /\ q = order[1] /\ IsPending(q)
                  THEN "refused" ELSE future[q]]
  /\ UNCHANGED <<fixedVars, listening, taskVars, queueVars, journalVars, shown, historyVars>>

FailClose ==
  /\ surface = "agui" /\ ~listening /\ ~graceOver
  /\ graceOver' = TRUE
  /\ future' = [q \in Questions |->
                  IF q \in ToSet(order) /\ IsPending(q) THEN "refused" ELSE future[q]]
  /\ UNCHANGED <<fixedVars, listening, taskVars, queueVars, journalVars, shown, historyVars>>

\* The status line reads the head.
LookAtHead ==
  /\ Evicted # order
  /\ order' = Evicted
  /\ UNCHANGED <<surfaceVars, taskVars, future, stalled, journalVars, shown, historyVars>>

\* answer_intervention_by_id: the question leaves the queue here, and the
\* next one is announced only when the asker wakes.
Answer(q) ==
  /\ listening /\ q \in ToSet(order) /\ IsPending(q)
  /\ future' = [future EXCEPT ![q] = "answered"]
  /\ order' = Without(q)
  /\ UNCHANGED <<surfaceVars, taskVars, stalled, journalVars, shown, historyVars>>

----------------------------------------------------------------------------
(* Asking.                                                                  *)

\* The bus is resolved: with no listener the answer is a refusal at once.
Open(q) ==
  /\ asker[q] = "new" /\ KeepsUp
  /\ asker' = [asker EXCEPT ![q] = IF listening THEN "bus" ELSE "ended"]
  /\ UNCHANGED <<surfaceVars, couriers, future, queueVars, journalVars, shown, historyVars>>

\* InterventionCoordinator.dispatch.  A pinned question whose channel has gone
\* is parked, with no record; any other is recorded, and enqueued or - with no
\* listener - refused and struck off again.
Deliver(q) ==
  /\ asker[q] = "bus"
  /\ \/ /\ q \in Pinned /\ ~listening
        /\ Park(q)
        /\ asker' = [asker EXCEPT ![q] = "parked"]
        /\ UNCHANGED <<order, journalVars, shown>>
     \/ /\ q \notin Pinned /\ ~listening
        /\ asker' = [asker EXCEPT ![q] = "ended"]
        /\ JournalBoth(snap \cup {q}, snap \ {q})
        /\ UNCHANGED <<queueVars, shown>>
     \/ /\ listening
        /\ Journal(snap \cup {q})
        /\ Enqueue(q)
        /\ asker' = [asker EXCEPT ![q] = "queued"]
        /\ UNCHANGED stalled
  /\ UNCHANGED <<surfaceVars, couriers, future, historyVars>>

\* The future is done: both finally clauses run, and the question is struck off.
Wake(q) ==
  /\ asker[q] = "queued" /\ ~IsPending(q)
  /\ asker' = [asker EXCEPT ![q] = "ended"]
  /\ Leave(q)
  /\ StrikeOff(q)
  /\ UNCHANGED <<surfaceVars, couriers, future, stalled, historyVars>>

WakeParked(q) ==
  /\ asker[q] = "parked" /\ ~IsPending(q)
  /\ asker' = [asker EXCEPT ![q] = "ended"]
  /\ UNCHANGED <<surfaceVars, couriers, future, queueVars, journalVars, shown, historyVars>>

\* Cancelling a task cancels the future it awaits.
Cancelled(qs) ==
  [q \in Questions |-> IF q \in qs /\ IsPending(q) THEN "cancelled" ELSE future[q]]

Waits(q) == asker[q] \in {"queued", "parked"}

Cancel(qs) ==
  /\ future' = Cancelled({q \in qs : Waits(q)})
  /\ asker' = [q \in Questions |->
                 IF q \in qs /\ asker[q] = "bus" THEN "ended" ELSE asker[q]]
  /\ UNCHANGED <<surfaceVars, couriers, queueVars, journalVars, shown, historyVars>>

\* cancel_inflight aborts the turn and the tool calls in it.
CancelTurn == (\E q \in TurnAsks : asker[q] = "bus" \/ Waits(q)) /\ Cancel(TurnAsks)

\* A child session is cancelled, or asking takes too long.
CancelAsker(q) == q \notin TurnAsks /\ (asker[q] = "bus" \/ Waits(q)) /\ Cancel({q})

----------------------------------------------------------------------------
(* Stalled questions.                                                       *)

\* /pending discard: an empty answer.
Discard(q) ==
  /\ listening /\ q \in stalled
  /\ stalled' = stalled \ {q}
  /\ future' = [future EXCEPT ![q] = IF @ = "pending" THEN "refused" ELSE @]
  /\ UNCHANGED <<surfaceVars, taskVars, order, journalVars, shown, historyVars>>

\* /pending claim: a courier is scheduled.
Claim(q) ==
  /\ listening /\ q \in stalled
  /\ stalled' = stalled \ {q}
  /\ couriers' = [couriers EXCEPT ![q] = @ \cup {"scheduled"}]
  /\ UNCHANGED <<surfaceVars, asker, future, order, journalVars, shown, historyVars>>

Becomes(q, from, to) == couriers' = [couriers EXCEPT ![q] = (@ \ {from}) \cup to]

\* It delivers like an asker; a question that is over by now is recorded,
\* announced if first, and struck off again.
CourierStarts(q) ==
  /\ "scheduled" \in couriers[q]
  /\ \/ /\ ~listening
        /\ Park(q)
        /\ Becomes(q, "scheduled", IF IsPending(q) THEN {"parked"} ELSE {})
        /\ UNCHANGED <<order, journalVars, shown>>
     \/ /\ listening /\ IsPending(q)
        /\ Journal(snap \cup {q})
        /\ Enqueue(q)
        /\ Becomes(q, "scheduled", {"queued"})
        /\ UNCHANGED stalled
     \/ /\ listening /\ ~IsPending(q)
        /\ JournalBoth(snap \cup {q}, snap \ {q})
        /\ Display(IF order = <<>> THEN {q} ELSE {p \in {order[1]} : IsPending(p)})
        /\ Becomes(q, "scheduled", {})
        /\ UNCHANGED queueVars
  /\ UNCHANGED <<surfaceVars, asker, future, historyVars>>

CourierWakes(q) ==
  /\ ~IsPending(q)
  /\ \/ /\ "queued" \in couriers[q]
        /\ Becomes(q, "queued", {})
        /\ Leave(q)
        /\ StrikeOff(q)
     \/ /\ "parked" \in couriers[q]
        /\ Becomes(q, "parked", {})
        /\ UNCHANGED <<order, journalVars, shown>>
  /\ UNCHANGED <<surfaceVars, asker, future, stalled, historyVars>>

\* await_quiescent with the turn idle cancels the couriers of claims, one that
\* has not started included: that one's question is nowhere from then on.
TurnIsIdle == \A q \in TurnAsks : asker[q] \in {"new", "ended"}

Claimed(q) == couriers[q] \cap {"scheduled", "queued", "parked"} # {}

Quiesce ==
  /\ TurnIsIdle /\ \E q \in Questions : Claimed(q)
  /\ future' = Cancelled({q \in Questions : couriers[q] \cap {"queued", "parked"} # {}})
  /\ couriers' = [q \in Questions |-> couriers[q] \ {"scheduled"}]
  /\ dropped' = dropped \cup {q \in Questions : "scheduled" \in couriers[q]}
  /\ UNCHANGED <<surfaceVars, asker, queueVars, journalVars, shown, crossed, resets>>

----------------------------------------------------------------------------
(* Restart and rewind.                                                      *)

\* _restore_one.  With no listener yet the question is refused and struck off.
RestoreStarts(q) ==
  /\ "restoring" \in couriers[q]
  /\ \/ /\ ~listening
        /\ Becomes(q, "restoring", {})
        /\ StrikeOff(q)
        /\ UNCHANGED <<order, shown>>
     \/ /\ listening
        /\ Becomes(q, "restoring", {"restored"})
        /\ Enqueue(q)
        /\ UNCHANGED journalVars
  /\ UNCHANGED <<surfaceVars, asker, future, stalled, historyVars>>

RestoredWakes(q) ==
  /\ "restored" \in couriers[q] /\ ~IsPending(q)
  /\ Becomes(q, "restored", {})
  /\ Leave(q)
  /\ StrikeOff(q)
  /\ UNCHANGED <<surfaceVars, asker, future, stalled, historyVars>>

\* restore_state: a courier and a new future per outstanding question.
Install(s, futures) ==
  /\ couriers' = [q \in Questions |-> IF q \in s THEN {"restoring"} ELSE {}]
  /\ future' = [q \in Questions |-> IF q \in s THEN "pending" ELSE futures[q]]
  /\ order' = <<>> /\ stalled' = {} /\ shown' = {}
  /\ resets < MaxResets /\ resets' = resets + 1

Restart(s) ==
  /\ s \in recoverable
  /\ listening' = FALSE /\ graceOver' = TRUE
  /\ asker' = [q \in Questions |-> IF asker[q] = "new" THEN "new" ELSE "ended"]
  /\ Install(s, future)
  /\ snap' = s /\ recoverable' = {s}
  /\ dropped' = {} /\ crossed' = {}
  /\ UNCHANGED fixedVars

\* reset_for_rewind cancels the futures of the queue and of what is stalled.
\* Whoever waits for one (not the turn: it is idle) wakes when the new
\* snapshot is installed, and strikes its question off that.
Rewind(s) ==
  /\ s \in recoverable \cup {{}}
  /\ TurnIsIdle /\ \A q \in Questions : ~Claimed(q)
  /\ LET inQueue == {q \in Questions : asker[q] = "queued"}
         parked  == {q \in Questions : asker[q] = "parked" /\ (q \in stalled \/ ~IsPending(q))}
     IN  /\ Install(s, Cancelled(inQueue \cup parked))
         /\ asker' = [q \in Questions |->
                        IF q \in inQueue \cup parked THEN "ended" ELSE asker[q]]
         /\ snap' = s \ inQueue
         /\ recoverable' = {s \ struck : struck \in SUBSET inQueue}
         /\ crossed' = s \cap inQueue
  /\ UNCHANGED <<surfaceVars, dropped>>

Reset == \E s \in recoverable \cup {{}} : Restart(s) \/ Rewind(s)

----------------------------------------------------------------------------
Next ==
  \/ Attach \/ Detach \/ FailClose \/ LookAtHead
  \/ CancelTurn \/ Quiesce \/ Persist \/ Reset
  \/ \E q \in Questions :
       \/ Open(q) \/ Deliver(q) \/ Answer(q) \/ Wake(q) \/ WakeParked(q)
       \/ CancelAsker(q) \/ Discard(q) \/ Claim(q)
       \/ CourierStarts(q) \/ CourierWakes(q) \/ RestoreStarts(q) \/ RestoredWakes(q)

Spec == Init /\ [][Next]_vars

\* The event loop runs what is ready, and the driver's clock runs.  Nobody has
\* to answer, attach, claim or discard.
LoopStep(q) ==
  \/ Deliver(q) \/ Wake(q) \/ WakeParked(q) \/ CourierStarts(q) \/ CourierWakes(q)
  \/ RestoreStarts(q) \/ RestoredWakes(q)

FairSpec ==
  /\ Spec
  /\ \A q \in Questions : WF_vars(LoopStep(q))
  /\ WF_vars(FailClose)

----------------------------------------------------------------------------
(* Properties.                                                              *)

\* Every variable has its type, and the queue holds no question twice.
TypeOK ==
  /\ origin \in [Questions -> Origins]
  /\ surface \in {"inline", "agui"} /\ listening \in BOOLEAN /\ graceOver \in BOOLEAN
  /\ asker \in [Questions -> {"new", "bus", "queued", "parked", "ended"}]
  /\ couriers \in [Questions ->
                     SUBSET {"scheduled", "queued", "parked", "restoring", "restored"}]
  /\ future \in [Questions -> {"pending", "answered", "refused", "cancelled"}]
  /\ order \in Seq(Questions) /\ IsInjective(order) /\ stalled \subseteq Questions
  /\ snap \subseteq Questions /\ recoverable \subseteq SUBSET Questions
  /\ shown \subseteq Questions /\ dropped \subseteq Questions
  /\ crossed \subseteq Questions /\ resets \in Nat

\* The journal has a question as long as some task stands in the queue for it,
\* whichever way it got there or leaves - except those an older asker struck
\* off after a rewind.
Carried(q) == couriers[q] \cap {"queued", "restoring", "restored"} # {}

JournalIsQueue ==
  \A q \in Questions \ crossed : q \in snap <=> (asker[q] = "queued" \/ Carried(q))

\* Whoever listens sees the question that is next, or somebody is about to
\* wake and announce it: no answer, refusal, cancellation, eviction or restart
\* leaves a prompt waiting that nobody was shown.
Leaving(q) ==
  ~IsPending(q) /\ (asker[q] = "queued" \/ couriers[q] \cap {"queued", "restored"} # {})

HeadIsShown ==
  listening =>
    LET i == SelectInSeq(order, IsPending)
    IN  i # 0 => order[i] \in shown \/ \E q \in Questions : Leaving(q)

\* Code that waits for an answer can get one: its question is in the queue, or
\* stalled where it can be claimed or discarded, or on its way from there -
\* except one whose claim was cancelled before it ran.
NoQuestionIsLost ==
  \A q \in Questions \ dropped :
    Waits(q) /\ IsPending(q) => q \in ToSet(order) \cup stalled \/ "scheduled" \in couriers[q]

\* When the AG-UI clients are gone, every question in the queue ends, or one
\* of them comes back.
QueueIsRefused ==
  \A q \in Questions :
    (surface = "agui" /\ asker[q] = "queued") ~> (asker[q] = "ended" \/ listening)
=============================================================================
