---------------------------- MODULE SessionInbox ----------------------------
(***************************************************************************)
(* The inbox of one session, from the put of a message to the turn or the  *)
(* prompt that takes it: Session._put_inbox, cancel_queued,                *)
(* run_one_iteration, restore_state and reset_for_rewind                   *)
(* (runtime/session.py), InboxArbiter (runtime/inbox_arbiter.py), the      *)
(* inbox half of SnapshotJournal, MessageBus.request (message_bus.py) and  *)
(* the mid-turn injection seam of RouterLoop.                              *)
(*                                                                         *)
(* The journal's calls never suspend, and asyncio.Queue.get suspends only  *)
(* on an empty queue, so each action below runs between two suspensions of *)
(* its task.  How a record becomes durable is DurableState's subject: here *)
(* records reach the disk in order, and a crash loses any suffix of those  *)
(* still under way.                                                        *)
(***************************************************************************)
EXTENDS Integers, Sequences, FiniteSets, SequencesExt

CONSTANTS
  Msgs,         \* what may be said to the session, each at most once
  RideAlongs,   \* the messages put with wake = false
  Injectable,   \* those of a kind that may enter a running turn
  Text,         \* those whose turn applies the staged context
  SHUTDOWN,     \* the sentinel of Session.shutdown
  NONE,         \* no turn
  Drivers,      \* who pumps the session: its own loop, or MessageBus.request
  MaxLag,       \* bound: messages and cancels arrive while fewer records wait
  MaxResets     \* bound: restarts and rewinds together

ASSUME InboxAssumption ==
  /\ RideAlongs \subseteq Msgs /\ Injectable \subseteq Msgs
  /\ Text \subseteq Msgs \ RideAlongs
  /\ SHUTDOWN \notin Msgs /\ NONE \notin Msgs
  /\ Drivers \subseteq {"loop", "request"}
  /\ MaxLag \in Nat /\ MaxResets \in Nat

VARIABLES
  driver,      \* who pumps this session
  pc,          \* where run_one_iteration is
  turn,        \* the message whose turn it is
  queue,       \* the asyncio.Queue
  buffer,      \* pending_inbox_items: read by a peek, not consumed yet
  cancelled,   \* cancelled_msg_ids
  context,     \* next_turn_context: staged for the next text turn
  snap,        \* the journal's in-memory snapshot: [inbox, context]
  log,         \* records that are not durable yet
  disk,        \* what a restart would recover
  bus,         \* a MessageBus.request is in progress
  arrived,     \* history: the messages said so far
  revoked,     \* history: the messages whose cancel was acknowledged
  taken,       \* history: how often each message reached a turn or a prompt
  restarts, rewinds          \* history: how many of each there were

vars == <<driver, pc, turn, queue, buffer, cancelled, context, snap, log, disk,
          bus, arrived, revoked, taken, restarts, rewinds>>

journalVars == <<snap, log, disk>>
historyVars == <<arrived, revoked, taken>>
boundVars   == <<driver, restarts, rewinds>>

Empty == [inbox |-> <<>>, context |-> <<>>]

\* Where the session is between two iterations: its own loop is already in
\* the next drain, a pumped session waits for the bus.
Idle == IF driver = "loop" THEN "draining" ELSE "parked"

Init ==
  /\ driver \in Drivers
  /\ pc = Idle /\ turn = NONE
  /\ queue = <<>> /\ buffer = <<>> /\ cancelled = {} /\ context = <<>>
  /\ snap = Empty /\ log = <<>> /\ disk = Empty
  /\ bus = "idle"
  /\ arrived = {} /\ revoked = {} /\ taken = [m \in Msgs |-> 0]
  /\ restarts = 0 /\ rewinds = 0

----------------------------------------------------------------------------
(* The journal: its records, and what replaying one does to a snapshot.     *)

\* s without the entries in gone, and with no others than those in some.
Except(s, gone) ==
  LET kept[n \in 0..Len(s)] ==
        IF n = 0 THEN <<>>
        ELSE IF s[n] \in gone THEN kept[n - 1] ELSE Append(kept[n - 1], s[n])
  IN kept[Len(s)]

Only(s, some) == Except(s, Range(s) \ some)

PutRecord(m)   == [op |-> "put", msg |-> m]
Consumed(m)    == [op |-> "prune", msg |-> m]    \* inbox_consume
Tombstone(m)   == [op |-> "prune", msg |-> m]    \* inbox_cancel, same effect
Staged(m)      == [op |-> "stage", msg |-> m]
Cleared        == [op |-> "clear", msg |-> NONE]

Replay(s, r) ==
  CASE r.op = "put"   -> [s EXCEPT !.inbox = Append(@, r.msg)]
    [] r.op = "prune" -> [s EXCEPT !.inbox = Except(@, {r.msg})]
    [] r.op = "stage" -> [s EXCEPT !.context = Append(@, r.msg)]
    [] r.op = "clear" -> [s EXCEPT !.context = <<>>]

ReplayAll(s, records) ==
  LET after[n \in 0..Len(records)] ==
        IF n = 0 THEN s ELSE Replay(after[n - 1], records[n])
  IN after[Len(records)]

\* A call of the journal: its records, and what it does to its snapshot.
Journal(records, after) ==
  /\ log' = log \o records
  /\ snap' = after
  /\ UNCHANGED disk

\* The durability worker catches up.
Persist ==
  /\ log # <<>>
  /\ disk' = ReplayAll(disk, log)
  /\ log' = <<>>
  /\ UNCHANGED <<driver, pc, turn, queue, buffer, cancelled, context, snap, bus,
                 arrived, revoked, taken, restarts, rewinds>>

----------------------------------------------------------------------------
(* Producers, on tasks of their own.                                        *)

Enqueue(m) ==
  /\ m \notin arrived /\ Len(log) < MaxLag
  /\ arrived' = arrived \cup {m}
  /\ Journal(<<PutRecord(m)>>, [snap EXCEPT !.inbox = Append(@, m)])
  /\ queue' = Append(queue, m)

\* _put_inbox.
Put(m) ==
  /\ Enqueue(m)
  /\ UNCHANGED <<pc, turn, buffer, cancelled, context, bus, revoked, taken,
                 boundVars>>

\* The head of MessageBus.request: it puts its message, then pumps.
Request(m) ==
  /\ driver = "request" /\ bus = "idle" /\ pc = "parked"
  /\ m \notin RideAlongs
  /\ Enqueue(m)
  /\ bus' = "pumping"
  /\ UNCHANGED <<pc, turn, buffer, cancelled, context, revoked, taken, boundVars>>

\* A wake = false hook push to its own session stages past the inbox.
HookStage(m) ==
  /\ m \in RideAlongs \ arrived /\ Len(log) < MaxLag
  /\ arrived' = arrived \cup {m}
  /\ context' = Append(context, m)
  /\ Journal(<<Staged(m)>>, [snap EXCEPT !.context = Append(@, m)])
  /\ UNCHANGED <<pc, turn, queue, buffer, cancelled, bus, revoked, taken, boundVars>>

\* cancel_queued: only what the journal still holds can be cancelled; the
\* entry of the asyncio.Queue cannot be removed, so it is marked.
Cancel(m) ==
  /\ m \in Range(snap.inbox) /\ Len(log) < MaxLag
  /\ Journal(<<Tombstone(m)>>, [snap EXCEPT !.inbox = Except(@, {m})])
  /\ cancelled' = cancelled \cup {m}
  /\ revoked' = revoked \cup {m}
  /\ UNCHANGED <<pc, turn, queue, buffer, context, bus, arrived, taken, boundVars>>

\* Session.shutdown: the sentinel is not journalled.
Shutdown ==
  /\ pc # "stopped" /\ SHUTDOWN \notin Range(buffer \o queue)
  /\ queue' = Append(queue, SHUTDOWN)
  /\ UNCHANGED <<pc, turn, buffer, cancelled, context, bus, journalVars,
                 historyVars, boundVars>>

----------------------------------------------------------------------------
(* run_one_iteration.                                                       *)

\* The order in which items are consumed.
PendingQueueFirst == queue \o buffer                                  \* mutant
PendingQueueOnly  == queue                                            \* mutant

Pending == buffer \o queue

\* drain_to_wake reads up to the first sentinel or waking message that was
\* not cancelled, or everything there is.
SkipsNothing == {}                                                    \* mutant

Skipped == cancelled

StopsDrain(m) == m = SHUTDOWN \/ m \notin RideAlongs \cup Skipped

ReadSize ==
  IF \E i \in DOMAIN Pending : StopsDrain(Pending[i])
  THEN SelectInSeq(Pending, StopsDrain)
  ELSE Len(Pending)

\* What one consumed message writes: its consume, and a ride-along its stage.
DrainRecords(m) ==
  IF m \in RideAlongs THEN <<Consumed(m), Staged(m)>> ELSE <<Consumed(m)>>

Read == SubSeq(Pending, 1, ReadSize)

\* (\E over one value where LET would do: TLC then computes it once.)
Drain ==
  /\ pc = "draining" /\ Pending # <<>>
  /\ \E msgs \in {Except(Read, Skipped \cup {SHUTDOWN})} :
     \E rides \in {Only(msgs, RideAlongs)} :
       /\ Journal(FlattenSeq([i \in DOMAIN msgs |-> DrainRecords(msgs[i])]),
                  [inbox |-> Except(snap.inbox, Range(msgs)), context |-> snap.context \o rides])
       /\ context' = context \o rides
  /\ buffer' = SubSeq(buffer, ReadSize + 1, Len(buffer))
  /\ queue' = IF ReadSize <= Len(buffer) THEN queue
              ELSE SubSeq(queue, ReadSize - Len(buffer) + 1, Len(queue))
  /\ cancelled' = cancelled \ Range(Read)
  /\ LET last == Pending[ReadSize] IN
     IF last = SHUTDOWN
     THEN pc' = "stopped" /\ UNCHANGED <<turn, taken>>
     ELSE IF StopsDrain(last)
     THEN pc' = "dispatched" /\ turn' = last /\ taken' = [taken EXCEPT ![last] = @ + 1]
     ELSE UNCHANGED <<pc, turn, taken>>        \* back to the blocking get
  /\ UNCHANGED <<bus, arrived, revoked, boundVars>>

\* The turn_start hooks were awaited; the session becomes busy.
StartTurn ==
  /\ pc = "dispatched"
  /\ pc' = "turn"
  /\ UNCHANGED <<turn, queue, buffer, cancelled, context, bus, journalVars,
                 historyVars, boundVars>>

\* _run_turn_body up to the router: a text turn applies the staged context.
FlushKeepsContext ==                                                  \* mutant
  /\ Journal(<<Cleared>>, [snap EXCEPT !.context = <<>>])
  /\ taken' = [m \in Msgs |-> taken[m] + IF m \in Range(context) THEN 1 ELSE 0]
  /\ UNCHANGED context

FlushContext ==
  /\ Journal(<<Cleared>>, [snap EXCEPT !.context = <<>>])
  /\ taken' = [m \in Msgs |-> taken[m] + IF m \in Range(context) THEN 1 ELSE 0]
  /\ context' = <<>>

RunBody ==
  /\ pc = "turn"
  /\ pc' = "router"
  /\ IF turn \in Text /\ context # <<>>
     THEN FlushContext
     ELSE UNCHANGED <<context, taken, journalVars>>
  /\ UNCHANGED <<turn, queue, buffer, cancelled, bus, arrived, revoked, boundVars>>

\* The seam of the router loop: everything queued moves to the buffer, the
\* eligible messages are spliced into the prompt and committed.
Held == Except(Pending, Skipped \cup Injectable)

Peek ==
  /\ pc = "router" /\ Pending # <<>>
  /\ buffer' = Held
  /\ queue' = <<>>
  /\ cancelled' = {}
  /\ \E injected \in {Only(Pending, Injectable \ Skipped)} :
       /\ Journal([i \in DOMAIN injected |-> Consumed(injected[i])],
                  [snap EXCEPT !.inbox = Except(@, Range(injected))])
       /\ taken' = [m \in Msgs |-> taken[m] + IF m \in Range(injected) THEN 1 ELSE 0]
  /\ UNCHANGED <<pc, turn, context, bus, arrived, revoked, boundVars>>

\* The turn ends: a command or an answer that needs no router, the router's
\* reply, an exception, or cancel_inflight.
EndTurn ==
  /\ pc \in {"turn", "router"}
  /\ pc' = Idle /\ turn' = NONE
  /\ UNCHANGED <<queue, buffer, cancelled, context, bus, journalVars, historyVars,
                 boundVars>>

----------------------------------------------------------------------------
(* MessageBus.request.                                                      *)

\* It looks at the asyncio.Queue only.
Pump ==
  /\ bus = "pumping" /\ pc = "parked" /\ queue # <<>>
  /\ pc' = "draining"
  /\ UNCHANGED <<turn, queue, buffer, cancelled, context, bus, journalVars,
                 historyVars, boundVars>>

\* Quiescent, or past the deadline; looked at between two iterations only.
BusReturn ==
  /\ bus = "pumping" /\ pc \in {"parked", "stopped"}
  /\ bus' = "idle"
  /\ UNCHANGED <<pc, turn, queue, buffer, cancelled, context, journalVars,
                 historyVars, boundVars>>

----------------------------------------------------------------------------
(* Restart and rewind.                                                      *)

\* restore_state: the queue and the staged context come from the snapshot.
Install(s) ==
  /\ snap' = s /\ queue' = s.inbox /\ context' = s.context
  /\ log' = <<>>

\* The process dies and restore_all runs.  A session with nothing in its
\* inbox is not restored (nor are its chains and interventions, which are
\* not modelled here): it starts empty, and the first save of that empty
\* snapshot replaces the file.
Restored(recovered) == IF recovered.inbox = <<>> THEN Empty ELSE recovered

Restart(landed) ==
  LET recovered == ReplayAll(disk, SubSeq(log, 1, landed)) IN
  /\ restarts + rewinds < MaxResets
  /\ restarts' = restarts + 1
  /\ Install(Restored(recovered)) /\ disk' = Restored(recovered)
  /\ buffer' = <<>> /\ cancelled' = {}
  /\ pc' = Idle /\ turn' = NONE /\ bus' = "idle"
  /\ revoked' = revoked \ Range(recovered.inbox)
  /\ UNCHANGED <<driver, arrived, taken, rewinds>>

\* _materialize_rewind for this session, once await_quiescent saw no turn:
\* reset_for_rewind, then restore_state on the reconstructed snapshot.
RewoundKeepsBuffer(target) ==                                         \* mutant
  /\ restarts + rewinds < MaxResets /\ pc \in {"parked", "draining", "dispatched", "stopped"}
  /\ rewinds' = rewinds + 1
  /\ Install(target) /\ disk' = target
  /\ cancelled' = {}
  /\ revoked' = revoked \ (Range(target.inbox) \cup Range(target.context))
  /\ UNCHANGED <<driver, pc, turn, buffer, bus, arrived, taken, restarts>>

Rewound(target) ==
  /\ restarts + rewinds < MaxResets /\ pc \in {"parked", "draining", "dispatched", "stopped"}
  /\ rewinds' = rewinds + 1
  /\ Install(target) /\ disk' = target
  /\ buffer' = <<>> /\ cancelled' = {}
  /\ revoked' = revoked \ (Range(target.inbox) \cup Range(target.context))
  /\ UNCHANGED <<driver, pc, turn, bus, arrived, taken, restarts>>

----------------------------------------------------------------------------
Next ==
  \/ \E m \in Msgs : Put(m) \/ Request(m) \/ HookStage(m) \/ Cancel(m)
  \/ Shutdown \/ Pump \/ Drain \/ StartTurn \/ RunBody \/ Peek \/ EndTurn
  \/ BusReturn \/ Persist
  \/ \E landed \in 0..Len(log) : Restart(landed)
  \/ \E target \in {Empty, disk} : Rewound(target)

Spec == Init /\ [][Next]_vars

\* The task that drives the session runs whenever it can: turn_start hooks
\* have a timeout, and a turn is bounded by its round cap and the timeouts of
\* its calls.  Nothing obliges a turn to peek.
DriverStep ==
  Drain \/ StartTurn \/ RunBody \/ EndTurn \/ Pump \/ BusReturn

FairSpec == Spec /\ WF_vars(DriverStep)

----------------------------------------------------------------------------
(* Properties.                                                              *)

Snapshots == [inbox : Seq(Msgs), context : Seq(Msgs)]

\* Every variable has its type.
TypeOK ==
  /\ driver \in Drivers /\ bus \in {"idle", "pumping"}
  /\ pc \in {"parked", "draining", "dispatched", "turn", "router", "stopped"}
  /\ turn \in Msgs \cup {NONE}
  /\ (turn = NONE) = (pc \in {"parked", "draining", "stopped"})
  /\ queue \in Seq(Msgs \cup {SHUTDOWN}) /\ buffer \in Seq(Msgs \cup {SHUTDOWN})
  /\ context \in Seq(Msgs)
  /\ snap \in Snapshots /\ disk \in Snapshots
  /\ arrived \subseteq Msgs /\ revoked \subseteq Msgs /\ cancelled \subseteq Msgs
  /\ taken \in [Msgs -> Nat]

\* The copies of the inbox agree: what the records rebuild is the journal's
\* snapshot, that is, in order, what the buffer and the queue hold and nobody
\* cancelled, and a mark of a cancelled message is there only while its entry is.
QueueIsJournal ==
  /\ ReplayAll(disk, log) = snap
  /\ snap.inbox = Except(buffer \o queue, cancelled \cup {SHUTDOWN})
  /\ snap.context = context
  /\ cancelled \subseteq Range(buffer \o queue)

\* Injection may look past a message, but turns start in arrival order: the
\* message a turn starts with is the first waking one the journal holds, and
\* the ride-alongs said before it are staged (#5647).
TurnsStartInArrivalOrder ==
  [][ pc = "draining" /\ pc' = "dispatched" =>
        \E i \in DOMAIN snap.inbox :
          /\ snap.inbox[i] = turn'
          /\ Range(SubSeq(snap.inbox, 1, i - 1)) \subseteq RideAlongs \cap Range(context')
    ]_vars

\* A message whose cancel was acknowledged never reaches the model, unless
\* a restart or a rewind goes back to before the cancel.
RevokedIsFinal == [][\A m \in revoked : taken'[m] = taken[m]]_vars

\* A message no restart can bring back.
Gone(m) ==
  /\ m \in arrived
  /\ m \notin Range(disk.inbox) \cup Range(disk.context)
  /\ \A i \in DOMAIN log : log[i] \notin {PutRecord(m), Staged(m)}

\* At least once, and not again: a message is taken a second time only while
\* the disk still holds it.
NotTwiceOnceDurable == [][\A m \in Msgs : Gone(m) => taken'[m] = taken[m]]_vars

\* A session with a loop of its own gets to every message, whatever is
\* peeked, looked past, cancelled or restored meanwhile.
EveryMessageIsHandled ==
  \A m \in Msgs :
    (driver = "loop" /\ m \in Range(snap.inbox))
      ~> (m \notin Range(snap.inbox) \/ pc = "stopped")

----------------------------------------------------------------------------
(* What the source says and the code does not do.                           *)

\* snapshot_journal.py:464: a staged ride-along "survives a crash while the
\* session waits for the trigger message".  (Nothing is in the WAL only.)
StagedSurvivesRestart ==
  [][restarts' > restarts /\ log = <<>> => Range(disk.context) \subseteq Range(context')]_vars
=============================================================================
