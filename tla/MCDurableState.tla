--------------------------- MODULE MCDurableState ---------------------------
(* DurableState on small instances, and its refinement of RecoverableLog.   *)
EXTENDS DurableState

\* The live view while the process runs; what a restart would find otherwise.
Found(log) == UNION {ReplayedFrom(s, log).content : s \in Sessions}
Live       == UNION {mem[s] : s \in Sessions}

Promise == INSTANCE RecoverableLog
             WITH accepted <- IF up THEN Live ELSE Found(wal),
                  hardened <- Found(wal \ unsynced)

\* The write path keeps RecoverableLog's promise: through the queue, retries,
\* gated snapshots, crashes and repeated restarts, what comes back is a first
\* part, across all sessions at once, of what was accepted.
KeepsPromise == Promise!Spec
=============================================================================
