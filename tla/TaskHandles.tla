----------------------------- MODULE TaskHandles -----------------------------
(***************************************************************************)
(* The background tasks of one session and the handles that promise their  *)
(* outcome: ChainManager (runtime/services/chain_manager.py), the timeout  *)
(* glue, the agent_response path of InterAgentMessaging, and the three     *)
(* producers - run_prompt(async), which asks a peer session and arms a     *)
(* watchdog, run_exec(async) and run_pipeline(async), which do not.        *)
(*                                                                         *)
(* Calls of the journal do not suspend, so an action runs between two      *)
(* suspensions of its task.  Deadlines are not numbers: an armed watchdog  *)
(* may wake at any time, so arm_at is left out.  What replaying a log      *)
(* gives is the subject of DurableState and SessionInbox; here a crash     *)
(* brings back any of the snapshots the journal has had since the          *)
(* durability worker last caught up.                                       *)
(***************************************************************************)
EXTENDS TaskPromises, Integers, FiniteSets

CONSTANTS
  Mixes,        \* which kinds of task they may be
  NOTASK,
  MaxLag,       \* bound: the outside acts while fewer snapshots are not durable
  MaxResets     \* bound: restarts and rewinds together

\* A peer session's turn, a sandboxed process, a run of a driver-session.
Kinds == {"prompt", "exec", "pipeline"}

ASSUME TaskAssumption ==
  /\ Mixes \subseteq [Tasks -> Kinds]
  /\ NOTASK \notin Tasks
  /\ MaxLag \in Nat /\ MaxResets \in Nat

VARIABLES
  mode,         \* safety.on_limit.mode
  kind,         \* per task: _PendingChain.kind
  recoverable,  \* the snapshots a crash could bring back
  running,      \* the session's run loop is up
  resets        \* how many restarts and rewinds there were

vars == <<mode, kind, handles, watch, snapshot, recoverable, running, stage, turn,
          worker, told, forgotten, resets>>

fixedVars   == <<mode, kind>>
journalVars == <<snapshot, recoverable>>
loopVars    == <<running, stage, turn>>
historyVars == <<forgotten, resets>>

Message   == [task : Tasks, kind : {"reply", "result", "error"}]
Snapshots == [handles : SUBSET Tasks, inbox : SUBSET Message]

Nothing == [task |-> NOTASK, kind |-> "none"]
Work    == [task |-> NOTASK, kind |-> "work"]

AReply(t)  == [task |-> t, kind |-> "reply"]
AResult(t) == [task |-> t, kind |-> "result"]
AnError(t) == [task |-> t, kind |-> "error"]

Empty == [handles |-> {}, inbox |-> {}]

Unwatched == [t \in Tasks |-> "off"]

Init ==
  /\ mode \in {"unattended", "interactive"} /\ kind \in Mixes
  /\ handles = {} /\ watch = Unwatched
  /\ snapshot = Empty /\ recoverable = {Empty}
  /\ running = TRUE /\ stage = "idle" /\ turn = Nothing
  /\ worker = [t \in Tasks |-> "new"]
  /\ told = {}
  /\ forgotten = {} /\ resets = 0

----------------------------------------------------------------------------
(* The journal's calls, and what each leaves in its snapshot.               *)

Put(s, m)      == [s EXCEPT !.inbox = @ \cup {m}]       \* append_inbox
Consumed(s, m) == [s EXCEPT !.inbox = @ \ {m}]          \* consume_inbox
Pending(s, t)  == [s EXCEPT !.handles = @ \cup {t}]     \* record_chain_register
Resolved(s, t) == [s EXCEPT !.handles = @ \ {t}]        \* _resolve, _timeout_fired

Journal(s) ==
  /\ snapshot' = s
  /\ recoverable' = recoverable \cup {s}

\* Two records, between which the process may die.
JournalBoth(first, second) ==
  /\ snapshot' = second
  /\ recoverable' = recoverable \cup {first, second}

Persist ==
  /\ recoverable # {snapshot}
  /\ recoverable' = {snapshot}
  /\ UNCHANGED <<fixedVars, handles, watch, snapshot, loopVars, worker, told, historyVars>>

KeepsUp == Cardinality(recoverable) <= MaxLag

----------------------------------------------------------------------------
(* The run loop.  That it takes messages in order is SessionInbox's subject. *)

InTurn == stage \in {"body", "settling"}

\* A turn that is not about a task: a user's message, a hook, ...
StartWork ==
  /\ running /\ stage = "idle" /\ KeepsUp
  /\ \E t \in Tasks : worker[t] = "new"
  /\ stage' = "body" /\ turn' = Work
  /\ UNCHANGED <<fixedVars, handles, watch, journalVars, running, worker, told, historyVars>>

\* Consumed; the turn_start hooks are awaited before the turn begins.
Take(m) ==
  /\ running /\ stage = "idle" /\ m \in snapshot.inbox
  /\ Journal(Consumed(snapshot, m))
  /\ stage' = "hooks" /\ turn' = m
  /\ UNCHANGED <<fixedVars, handles, watch, running, worker, told, historyVars>>

BeginDropsUnknown ==                                                  \* mutant
  /\ stage = "hooks"
  /\ told' = IF turn.kind = "result" \/ turn.task \in handles
             THEN told \cup {turn.task} ELSE told
  /\ stage' = IF turn.kind \in {"reply", "error"} /\ turn.task \in handles
              THEN "settling" ELSE "body"
  /\ UNCHANGED <<fixedVars, handles, watch, journalVars, running, turn, worker, historyVars>>

\* handle_agent_response looks whether the task is pending: if so it settles
\* it, and the history entry and the router's turn are the delivery; if not,
\* or for a pipeline_result, they are a turn like any other.
Begin ==
  /\ stage = "hooks"
  /\ told' = told \cup {turn.task}
  /\ stage' = IF turn.kind \in {"reply", "error"} /\ turn.task \in handles
              THEN "settling" ELSE "body"
  /\ UNCHANGED <<fixedVars, handles, watch, journalVars, running, turn, worker, historyVars>>

\* ChainManager.settle after the delivery: pop, cancel the watchdog, record.
Settle(t) ==
  /\ handles' = handles \ {t}
  /\ watch' = [watch EXCEPT ![t] = "off"]
  /\ Journal(Resolved(snapshot, t))

EndTurn ==
  /\ InTurn /\ \A t \in Tasks : worker[t] # "unsent"
  /\ IF stage = "settling"
     THEN Settle(turn.task)
     ELSE UNCHANGED <<handles, watch, journalVars>>
  /\ stage' = "idle" /\ turn' = Nothing
  /\ UNCHANGED <<fixedVars, running, worker, told, historyVars>>

\* A request under way when its turn is aborted is never sent.
Abandoned == [t \in Tasks |-> IF worker[t] = "unsent" THEN "gone" ELSE worker[t]]

\* cancel_inflight aborts the turn; run_one_iteration then awaits
\* await_quiescent, which cancels and joins the watchdogs of all tasks.
CancelTurn ==
  /\ InTurn
  /\ watch' = Unwatched
  /\ stage' = "idle" /\ turn' = Nothing
  /\ worker' = Abandoned
  /\ UNCHANGED <<fixedVars, handles, journalVars, running, told, historyVars>>

\* An exception of the router leaves settle, the turn and run(), whose
\* finally clause shuts the ChainManager down.
RouterFails ==
  /\ stage = "settling" /\ \A t \in Tasks : worker[t] # "unsent"
  /\ watch' = Unwatched
  /\ running' = FALSE /\ stage' = "idle" /\ turn' = Nothing
  /\ UNCHANGED <<fixedVars, handles, journalVars, worker, told, historyVars>>

\* A checkout that times out on another session has quiesced this one.
AbortedCheckout ==
  /\ stage \in {"idle", "hooks"} /\ watch # Unwatched
  /\ watch' = Unwatched
  /\ UNCHANGED <<fixedVars, handles, journalVars, loopVars, worker, told, historyVars>>

----------------------------------------------------------------------------
(* The producers.                                                           *)

\* A tool call of any turn registers the handle; a prompt's is armed.
Register(t) ==
  /\ InTurn /\ worker[t] = "new" /\ KeepsUp
  /\ handles' = handles \cup {t}
  /\ Journal(Pending(snapshot, t))
  /\ IF kind[t] = "prompt"
     THEN watch' = [watch EXCEPT ![t] = "armed"] /\ worker' = [worker EXCEPT ![t] = "unsent"]
     ELSE worker' = [worker EXCEPT ![t] = "working"] /\ UNCHANGED watch
  /\ UNCHANGED <<fixedVars, loopVars, told, historyVars>>

\* send_to_agent: sent, or refused (depth, self, unknown or not permitted),
\* which reports to the outbox and leaves the handle.
Send(t) ==
  /\ InTurn /\ worker[t] = "unsent"
  /\ \E fate \in {"working", "gone"} : worker' = [worker EXCEPT ![t] = fate]
  /\ UNCHANGED <<fixedVars, handles, watch, journalVars, loopVars, told, historyVars>>

\* The peer replies; ensure_running starts a run loop that had ended.
Answer(t) ==
  /\ kind[t] = "prompt" /\ worker[t] = "working" /\ KeepsUp
  /\ worker' = [worker EXCEPT ![t] = "done"]
  /\ Journal(Put(snapshot, AReply(t)))
  /\ running' = TRUE
  /\ UNCHANGED <<fixedVars, handles, watch, stage, turn, told, historyVars>>

\* The process of an exec ends: the handle is settled, with "drop" ...
ExecEnds(t) ==
  /\ kind[t] = "exec" /\ worker[t] = "working" /\ KeepsUp
  /\ worker' = [worker EXCEPT ![t] = "settled"]
  /\ Settle(t)
  /\ UNCHANGED <<fixedVars, loopVars, told, historyVars>>

\* ... and behind that task_settled is dispatched, which tells the requester.
Announce(t) ==
  /\ worker[t] = "settled"
  /\ worker' = [worker EXCEPT ![t] = "done"]
  /\ told' = told \cup {t}
  /\ UNCHANGED <<fixedVars, handles, watch, journalVars, loopVars, historyVars>>

\* The driver of a pipeline posts its result and settles, without suspending.
PostResult(t) ==
  /\ kind[t] = "pipeline" /\ worker[t] = "working" /\ KeepsUp
  /\ worker' = [worker EXCEPT ![t] = "done"]
  /\ handles' = handles \ {t} /\ watch' = [watch EXCEPT ![t] = "off"]
  /\ LET posted == Put(snapshot, AResult(t)) IN JournalBoth(posted, Resolved(posted, t))
  /\ running' = TRUE
  /\ UNCHANGED <<fixedVars, stage, turn, told, historyVars>>

----------------------------------------------------------------------------
(* The watchdog.                                                            *)

\* It wakes, and in a mode other than unattended asks first.
Ask(t) ==
  /\ mode = "interactive" /\ watch[t] = "armed" /\ t \in handles
  /\ watch' = [watch EXCEPT ![t] = "asking"]
  /\ UNCHANGED <<fixedVars, handles, journalVars, loopVars, worker, told, historyVars>>

\* "Wait longer": arm_timeout replaces the watchdog.
Extend(t) ==
  /\ watch[t] = "asking"
  /\ watch' = [watch EXCEPT ![t] = "armed"]
  /\ UNCHANGED <<fixedVars, handles, journalVars, loopVars, worker, told, historyVars>>

\* fire_timeout, then the error goes to the requester: this session's inbox.
Fire(t) ==
  /\ watch[t] = (IF mode = "unattended" THEN "armed" ELSE "asking") /\ t \in handles
  /\ handles' = handles \ {t}
  /\ watch' = [watch EXCEPT ![t] = "off"]
  /\ LET fired == Resolved(snapshot, t) IN JournalBoth(fired, Put(fired, AnError(t)))
  /\ running' = TRUE
  /\ UNCHANGED <<fixedVars, stage, turn, worker, told, historyVars>>

----------------------------------------------------------------------------
(* Restart and rewind.                                                      *)

\* ChainManager.restore on the snapshot: every handle gets a watchdog, also
\* those of the tasks that never had one.
Install(s) ==
  /\ handles' = s.handles
  /\ watch' = [t \in Tasks |-> IF t \in s.handles THEN "armed" ELSE "off"]
  /\ snapshot' = s /\ recoverable' = {s}

\* How the other sessions come back is not modelled: a peer or a driver may
\* go on, or do again what is not in the recovered inbox, or be lost.
Afterwards(s, again, execs) ==
  /\ again \subseteq {t \in Tasks :
                        kind[t] # "exec" /\ worker[t] \in {"working", "done"}
                        /\ {AReply(t), AResult(t)} \cap s.inbox = {}}
  /\ worker' = [t \in Tasks |->
                  IF t \in again THEN "working"
                  ELSE IF worker[t] \in {"new", "done"} THEN worker[t]
                  ELSE IF kind[t] = "exec" THEN execs[t] ELSE "gone"]
  /\ forgotten' = {t \in Tasks : worker[t] # "new" /\ t \notin told /\ ~Knows(s, t)}
  /\ resets < MaxResets /\ resets' = resets + 1

\* restore_all hands a session its snapshot if there is anything in it that
\* waits: messages, pending chains (interventions are not modelled).
RestoredIfInbox(s) == IF s.inbox = {} THEN Empty ELSE s               \* mutant

Restored(s) == IF s.inbox = {} /\ s.handles = {} THEN Empty ELSE s

Restart(s, again) ==
  /\ s \in recoverable
  /\ Install(Restored(s))
  /\ Afterwards(s, again, [t \in Tasks |-> "gone"])
  /\ running' = TRUE /\ stage' = "idle" /\ turn' = Nothing
  /\ UNCHANGED <<fixedVars, told>>

\* _materialize_rewind for this session: await_quiescent saw no turn, then
\* reset_for_rewind and restore_state.
RewindWithoutReset(s, again) ==                                       \* mutant
  /\ s \in recoverable \cup {Empty}
  /\ stage \in {"idle", "hooks"}
  /\ handles' = handles \cup s.handles
  /\ watch' = [t \in Tasks |-> IF t \in s.handles THEN "armed" ELSE watch[t]]
  /\ snapshot' = s /\ recoverable' = {s}
  /\ Afterwards(s, again, worker)
  /\ UNCHANGED <<fixedVars, loopVars, told>>

Rewind(s, again) ==
  /\ s \in recoverable \cup {Empty}
  /\ stage \in {"idle", "hooks"}
  /\ Install(s)
  /\ Afterwards(s, again, worker)
  /\ UNCHANGED <<fixedVars, loopVars, told>>

----------------------------------------------------------------------------
Reset ==
  \E s \in recoverable \cup {Empty}, again \in SUBSET Tasks :
    Restart(s, again) \/ Rewind(s, again)

Next ==
  \/ StartWork \/ Begin \/ EndTurn \/ CancelTurn \/ RouterFails
  \/ AbortedCheckout \/ Persist \/ Reset
  \/ \E m \in Message : Take(m)
  \/ \E t \in Tasks :
       \/ Register(t) \/ Send(t) \/ Answer(t) \/ PostResult(t)
       \/ ExecEnds(t) \/ Announce(t)
       \/ Ask(t) \/ Extend(t) \/ Fire(t)

Spec == Init /\ [][Next]_vars

\* The run loop moves on, a request is sent or refused, deadlines pass, an exec
\* that was settled is announced.  The inbox is first in, first out, so no task's
\* messages are passed over for ever (strong fairness).  No peer has to answer, no
\* user has to decide.
LoopStep  == Begin \/ EndTurn \/ \E t \in Tasks : Send(t)
Deadline  == mode = "unattended" /\ \E t \in Tasks : Fire(t)
Turn(t)   == \E m \in Message : m.task = t /\ Take(m)

FairSpec ==
  /\ Spec
  /\ WF_vars(LoopStep) /\ WF_vars(Deadline)
  /\ \A t \in Tasks : WF_vars(Announce(t)) /\ SF_vars(Turn(t))

----------------------------------------------------------------------------
(* Properties, besides those of TaskPromises.                               *)

\* Every variable has its type.
TypeOK ==
  /\ mode \in {"unattended", "interactive"} /\ kind \in [Tasks -> Kinds]
  /\ handles \subseteq Tasks
  /\ watch \in [Tasks -> {"off", "armed", "asking"}]
  /\ snapshot \in Snapshots /\ recoverable \subseteq Snapshots
  /\ running \in BOOLEAN
  /\ stage \in {"idle", "hooks", "body", "settling"}
  /\ turn \in Message \cup {Nothing, Work}
  /\ stage \in {"hooks", "settling"} => turn \in Message
  /\ worker \in [Tasks -> {"new", "unsent", "working", "settled", "done", "gone"}]
  /\ told \subseteq Tasks /\ forgotten \subseteq Tasks /\ resets \in Nat

\* With nobody to ask, a task with a watchdog comes to an end the requester
\* hears of - unless the watchdog is taken from it or the run loop ends.
WatchedTaskIsTold ==
  \A t \in Tasks :
    (mode = "unattended" /\ watch[t] # "off")
      ~> \/ t \in told \/ t \in forgotten \/ ~running
         \/ t \in handles /\ watch[t] = "off"

----------------------------------------------------------------------------
(* What the documentation says and the code does not do.                    *)

\* docs/reference/config/multi-agent.md: with a watchdog budget a pending
\* chain does not hang; a refused request "resolves as a timeout error".
PendingTaskEnds ==
  \A t \in Tasks :
    (mode = "unattended" /\ kind[t] = "prompt" /\ t \in handles) ~> (t \notin handles \/ ~running)
=============================================================================
