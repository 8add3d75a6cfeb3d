---------------------------- MODULE TaskPromises ----------------------------
(***************************************************************************)
(* What a session promises whoever starts background tasks in it, in terms *)
(* of ChainManager's map, the journal's snapshot and the turn of the run   *)
(* loop.  TaskHandles is how the code goes about it.                       *)
(***************************************************************************)

CONSTANT Tasks   \* the tasks the session may start, each once

VARIABLES
  handles,      \* ChainManager._chains
  watch,        \* per task: its watchdog sleeps, or asks whether to wait on
  snapshot,     \* the journal's snapshot: pending_chains and the inbox
  stage,        \* where the run loop is
  turn,         \* what the current turn is about
  worker,       \* per task: who carries it out
  told,         \* history: the tasks whose outcome the requester was told
  forgotten     \* history: tasks a restart or a rewind knows nothing of

\* The manager's own map and the journal's pending_chains, written by
\* different calls and rebuilt by different paths, never part.
MemoryIsJournal == handles = snapshot.handles

\* No watchdog outlives what it watches: whoever ends a task - a reply, a
\* result, an exit, a timeout, a rewind - takes its watchdog along, also one
\* that is asking the user.
WatchIsForPending == \A t \in Tasks : watch[t] # "off" => t \in handles

\* A snapshot knows of a task: it is pending there, or a message about it waits.
Knows(s, t) == t \in s.handles \/ \E m \in s.inbox : m.task = t

\* The turn that is to tell has been taken, or a settled exec is about to tell.
Delivering(t) ==
  \/ stage = "hooks" /\ turn.task = t
  \/ worker[t] = "settled"

\* A task that was started is pending, or its outcome is on its way to the
\* requester or was told: neither a cancelled delivery, nor a failing router,
\* nor a refused request, nor a restart whose snapshot knows the task loses it.
NeverForgotten ==
  \A t \in Tasks :
    worker[t] # "new" =>
      \/ t \in handles \/ Knows(snapshot, t) \/ Delivering(t)
      \/ t \in told \/ t \in forgotten
=============================================================================
