----------------------------- MODULE Lifecycle -----------------------------
(***************************************************************************)
(* What exists: the agents, their archived markers and spawned sessions,   *)
(* the topologies and the configuration registries, as the operations of   *)
(* AgentRegistry (runtime/registry.py) and ConfigGenerationStore           *)
(* (core/events/config_generations.py) change them, and as checkout and    *)
(* recovery rebuild them from the records those operations leave.          *)
(*                                                                         *)
(* Every operation changes its files first and has its record durable      *)
(* later, so a death loses a suffix of the records and no file.  What a    *)
(* session holds is Rewind's subject and what a reset record abandons is   *)
(* Branches'.  One process at a time; a checkout has stopped the sessions, *)
(* so that nothing but an archive sweep's records lands while it runs.     *)
(***************************************************************************)
EXTENDS Integers, Sequences, SequencesExt

CONSTANTS
  Agents,        \* agent names, the default agent left out
  Spawned,       \* <<agent, session id>> pairs of spawned sessions
  Topologies, Registries,
  GLOBAL_SCOPE,
  NamesOnce,     \* is no agent or session made, or agent archived, twice?
  MaxHead, MaxQueued, MaxCrashes, MaxChanges   \* bounds of the model

ASSUME LifecycleAssumption ==
  /\ \A s \in Spawned : s[1] \in Agents
  /\ GLOBAL_SCOPE \notin Spawned
  /\ Topologies \cap (Registries \cup Agents \cup Spawned) = {}
  /\ IsFiniteSet(Agents) /\ IsFiniteSet(Spawned) /\ IsFiniteSet(Topologies)
  /\ NamesOnce \in BOOLEAN
  /\ MaxCrashes \in Nat /\ MaxHead \in Nat \ {0}
  /\ MaxQueued \in Nat \ {0} /\ MaxChanges \in Nat \ {0}

VARIABLES
  log,         \* every entry ever appended, by number
  durable,     \* the numbers up to here are on disk; later ones may be
  floor,       \* entries below are gone, reset records excepted
  floorDue,    \* the floor of a rewrite still queued, or 0
  agents,      \* the directories with a profile
  archived,    \* per agent, the number in its .archived marker, or NoMarker
  sessions,    \* the spawned sessions there are
  topologies,  \* per topology, its members; nobody when it does not exist
  config,      \* per registry, which change its yaml holds, or Absent
  gens,        \* the config generations on disk
  owed,        \* records a removal has still to append
  mat,         \* the materialisation in progress
  recorded,    \* history: every config generation, pruned or not
  adrift,      \* history: names whose files changed and whose record was lost
  collected,   \* history: agents the archive sweep removed
  torn,        \* history: has a materialisation failed half way, and is it not made
               \* good since - which it cannot be once its records are truncated?
  swept,       \* history: the floor of the truncation, or 0
  crashes, changes

wal   == <<log, durable, floor, floorDue>>
files == <<agents, archived, sessions, topologies, config, gens>>
ghost == <<recorded, adrift, collected, torn, swept>>
vars  == <<wal, files, owed, mat, ghost, crashes, changes>>

B == INSTANCE Branches WITH wal <- log, Sessions <- Spawned

NoMarker == -1
Absent   == 0

Larger(m, n) == IF m > n THEN m ELSE n

Of(x)    == {s \in Spawned : s[1] = x}
Owner(s) == s[1]

Record(kind, who)     == [kind |-> kind, who |-> who]
Drawn(t, members)     == [kind |-> "topology", who |-> t, members |-> members]
Gen(r, seq, content)  == [reg |-> r, seq |-> seq, content |-> content]

NotRewinding  == [step |-> "none", scope |-> GLOBAL_SCOPE, todo |-> {}, purges |-> {}]
Decided(scope) == [NotRewinding EXCEPT !.step = "decided", !.scope = scope]

\* Some registries may have been set before anything else was recorded: change 1.
Init ==
  /\ log = <<>> /\ durable = 0 /\ floor = 1 /\ floorDue = 0
  /\ agents = {} /\ sessions = {}
  /\ archived = [x \in Agents |-> NoMarker]
  /\ topologies = [t \in Topologies |-> {}]
  /\ \E set \in SUBSET Registries :
       /\ config = [r \in Registries |-> IF r \in set THEN 1 ELSE Absent]
       /\ gens = {Gen(r, 0, 1) : r \in set}
  /\ recorded = gens /\ changes = 1
  /\ owed = <<>> /\ mat = NotRewinding
  /\ adrift = {} /\ collected = {} /\ torn = FALSE
  /\ swept = 0 /\ crashes = 0

----------------------------------------------------------------------------
(* One scan of the WAL: the maps and predicates materialisation works from. *)

IsRewind(n) == log[n].kind = "rewind"
Kept(n)     == n >= floor \/ IsRewind(n)
InWal(kind, who) ==
  {n \in DOMAIN log : Kept(n) /\ log[n].kind = kind /\ log[n].who = who}

Latest(numbers) == IF numbers = {} THEN 0
                 ELSE CHOOSE n \in numbers : \A k \in numbers : k <= n

Active(n, scope) == B!IsActive(log, scope, n)

\* _created_at_map, _agent_lifecycle, _session_vanished_map: the last one wins.
CreatedAt(x)  == Latest(InWal("created", x))
ArchivedAt(x) == Latest(InWal("archived", x))
Purged(x)     == InWal("purged", x) # {}
SpawnedAt(s)  == Latest(InWal("spawned", s))
VanishedAt(s) == Latest(InWal("vanished", s))

HasDir(x) == x \in agents \/ Of(x) \cap sessions # {}

\* Created on the active branch, never purged, not there: made again.
Revived == {x \in Agents : /\ CreatedAt(x) # 0 /\ Active(CreatedAt(x), GLOBAL_SCOPE)
                           /\ ~Purged(x) /\ ~HasDir(x)}

DoomedIfPurged(x) == Purged(x)                                        \* mutant

DoomedUnlessRecorded(x) ==                                            \* mutant
  Purged(x) \/ CreatedAt(x) = 0 \/ ~Active(CreatedAt(x), GLOBAL_SCOPE)

\* Purged, or created on an abandoned branch: torn down.
Doomed(x) ==
  Purged(x) \/ (CreatedAt(x) # 0 /\ ~Active(CreatedAt(x), GLOBAL_SCOPE))

\* Asked with the session's own scope.
Gone(s) ==
  \/ SpawnedAt(s) # 0 /\ ~Active(SpawnedAt(s), s)
  \/ VanishedAt(s) # 0 /\ Active(VanishedAt(s), s)

MarkerNow(x) ==
  IF ArchivedAt(x) = 0 THEN archived[x]
  ELSE IF Active(ArchivedAt(x), GLOBAL_SCOPE) THEN ArchivedAt(x) ELSE NoMarker

MembersLast(t) ==                                                     \* mutant
  LET events == InWal("topology", t)
  IN IF events = {} THEN topologies[t] ELSE log[Latest(events)].members

MembersUnlessNone(t) ==                                               \* mutant
  LET active == {n \in InWal("topology", t) : Active(n, GLOBAL_SCOPE)}
  IN IF active = {} THEN topologies[t] ELSE log[Latest(active)].members

MembersNow(t) ==
  LET events == InWal("topology", t)
      active == {n \in events : Active(n, GLOBAL_SCOPE)}
  IN IF events = {} THEN topologies[t]
     ELSE IF active = {} THEN {} ELSE log[Latest(active)].members

\* latest_active.
ConfigNow(r) ==
  LET there  == {g \in gens : g.reg = r}
      active == {g \in there : Active(g.seq, GLOBAL_SCOPE)}
  IN IF there = {} THEN config[r]
     ELSE IF active = {} THEN Absent
     ELSE (CHOOSE g \in active : \A f \in active : f.seq <= g.seq).content

----------------------------------------------------------------------------
(* The operations: files first, the record behind them. *)

\* The archive sweep has nothing to wait for: nobody else's turn on the loop.
Sweeping == owed # <<>> /\ Head(owed).kind \in {"sweep", "cascade"}

OnLoop    == ~Sweeping
Working   == OnLoop /\ mat.step = "none"
CanAppend == floorDue = 0 /\ Len(log) < MaxHead

NeverYet(kind, who) ==
  NamesOnce => who \notin adrift /\ \A n \in DOMAIN log : log[n] # Record(kind, who)

\* At most MaxQueued records wait for the worker when the next one is appended.
Append1(entry, waited) ==
  /\ CanAppend
  /\ log' = Append(log, entry)
  /\ durable' = Larger(waited, Len(log') - MaxQueued)
  /\ UNCHANGED <<floor, floorDue>>

\* create_agent, which does not wait for its record.
CreateAgent(x) ==
  /\ Working /\ x \notin agents /\ NeverYet("created", x)
  /\ agents' = agents \cup {x}
  /\ Append1(Record("created", x), durable)
  /\ UNCHANGED <<archived, sessions, topologies, config, gens, owed, mat,
                 ghost, crashes, changes>>

\* archive_agent: the marker carries the last durable number, not the record's own.
ArchiveAgent(x) ==
  /\ Working /\ x \in agents /\ NeverYet("archived", x)
  /\ \E known \in durable..Len(log) :
       /\ archived' = [archived EXCEPT ![x] = known]
       /\ Append1(Record("archived", x), known)
  /\ UNCHANGED <<agents, sessions, topologies, config, gens, owed, mat, ghost,
                 crashes, changes>>

InOrder(records) == SetToSeq(records)

Vanishing(x) == InOrder({Record("vanished", s) : s \in Of(x) \cap sessions})

RemoveDirectory(x) ==
  /\ agents' = agents \ {x} /\ sessions' = sessions \ Of(x)
  /\ archived' = [archived EXCEPT ![x] = NoMarker]

\* _cascade_agent_removal: a topology shrinks or, losing its leader or last member, goes.
Cascade(x, before, after) ==
  LET hit == {t \in Topologies : x \in topologies[t]}
  IN \E led \in SUBSET hit :
       /\ topologies' = [t \in Topologies |->
                           IF t \in led THEN {} ELSE topologies[t] \ {x}]
       /\ owed' = before \o InOrder({Drawn(t, topologies'[t]) : t \in hit}) \o after

\* archive_agent(purge=True), up to its first await.
PurgeAgent(x) ==
  /\ Working /\ x \in agents /\ owed = <<>>
  /\ RemoveDirectory(x)
  /\ Cascade(x, Vanishing(x), <<>>)
  /\ Append1(Record("purged", x), durable)
  /\ UNCHANGED <<config, gens, mat, ghost, crashes, changes>>

\* _purge_archived_below, one agent: what left the window goes without a record of its own.
SweepAgent ==
  /\ owed # <<>> /\ Head(owed).kind = "sweep"
  /\ LET x == Head(owed).who
     IN IF archived[x] # NoMarker /\ archived[x] < swept
        THEN /\ RemoveDirectory(x)
             /\ collected' = collected \cup {x}
             /\ owed' = Vanishing(x) \o <<Record("cascade", x)>> \o Tail(owed)
        ELSE owed' = Tail(owed) /\ UNCHANGED <<agents, sessions, archived, collected>>
  /\ UNCHANGED <<wal, topologies, config, gens, mat, recorded, adrift, torn, swept,
                 crashes, changes>>

SweepTopologies ==
  /\ owed # <<>> /\ Head(owed).kind = "cascade"
  /\ Cascade(Head(owed).who, <<>>, Tail(owed))
  /\ UNCHANGED <<wal, agents, archived, sessions, config, gens, mat, ghost, crashes,
                 changes>>

\* One after the other, each once the one before is durable.
PayOwed ==
  /\ OnLoop /\ owed # <<>>
  /\ Append1(Head(owed), Len(log))
  /\ owed' = Tail(owed)
  /\ UNCHANGED <<files, mat, ghost, crashes, changes>>

\* spawn_session_recorded.
SpawnSession(s) ==
  /\ Working /\ s \notin sessions /\ NeverYet("spawned", s)
  /\ Owner(s) \in agents /\ archived[Owner(s)] = NoMarker
  /\ sessions' = sessions \cup {s}
  /\ Append1(Record("spawned", s), durable)
  /\ UNCHANGED <<agents, archived, topologies, config, gens, owed, mat,
                 ghost, crashes, changes>>

\* remove_session with its record: an ephemeral session is done.
RemoveSession(s) ==
  /\ Working /\ s \in sessions
  /\ sessions' = sessions \ {s}
  /\ Append1(Record("vanished", s), durable)
  /\ UNCHANGED <<agents, archived, topologies, config, gens, owed, mat,
                 ghost, crashes, changes>>

IsOwed(t) == \E r \in Range(owed) : r.who = t

\* Every record of a topology is its whole state: a new one heals a lost one,
\* unless an older one is still to come, or it names members that are gone or that a
\* materialisation which failed half way has yet to remove.
DrawTopology(t, members) ==
  /\ Working
  /\ topologies' = [topologies EXCEPT ![t] = members]
  /\ adrift' = IF IsOwed(t) \/ torn THEN adrift \cup {t}
               ELSE IF members \subseteq agents THEN adrift \ {t} ELSE adrift
  /\ Append1(Drawn(t, members), durable)
  /\ UNCHANGED <<agents, archived, sessions, config, gens, owed, mat,
                 recorded, collected, torn, swept, crashes, changes>>

\* create_topology and add_topology_member ask whether the new members exist;
\* remove_topology_member and delete_topology do not.  (A network whose last member
\* leaves is taken for a deleted one.)
ChangeTopology(t) ==
  \/ /\ topologies[t] = {}
     /\ \E members \in SUBSET agents \ {{}} : DrawTopology(t, members)
  \/ /\ topologies[t] # {}
     /\ \/ \E x \in agents \ topologies[t] : DrawTopology(t, topologies[t] \cup {x})
        \/ \E x \in topologies[t] :
             topologies[t] # {x} /\ DrawTopology(t, topologies[t] \ {x})
        \/ DrawTopology(t, {})

Overwritten(store, g) == {f \in store : f.reg # g.reg \/ f.seq # g.seq} \cup {g}

\* A config tool: the yaml, then record_config_generation under the last durable
\* number, with nothing awaited between.
ChangeConfig(r) ==
  /\ Working /\ changes < MaxChanges
  /\ changes' = changes + 1
  /\ config' = [config EXCEPT ![r] = changes']
  /\ durable' \in durable..Len(log)
  /\ gens' = Overwritten(gens, Gen(r, durable', changes'))
  /\ recorded' = Overwritten(recorded, Gen(r, durable', changes'))
  /\ UNCHANGED <<log, floor, floorDue, agents, archived, sessions, topologies, owed,
                 mat, adrift, collected, torn, swept, crashes>>

----------------------------------------------------------------------------
(* Truncation. *)

PrunedAllBelow(f) == {g \in gens : g.seq >= f}                        \* mutant

\* prune_below: of each registry the highest generation below the floor stays.
Pruned(f) ==
  {g \in gens : g.seq >= f \/ \A h \in gens :
                                h.reg = g.reg /\ h.seq < f => h.seq <= g.seq}

OnceTruncated == swept = 0                  \* bound: one truncation in a behaviour

\* truncate_wal_if_eligible: the rewrite is queued; the prune and the archive
\* sweep do not wait for it.  The floor is one past some session's watermark.
Truncate(f) ==
  /\ Working /\ owed = <<>> /\ floorDue = 0 /\ OnceTruncated
  /\ swept' = f
  /\ f \in 2..Len(log) /\ durable' = Larger(durable, f)
  /\ floorDue' = f
  /\ gens' = Pruned(f)
  /\ owed' = InOrder({Record("sweep", x) : x \in {a \in agents : archived[a] # NoMarker}})
  /\ UNCHANGED <<log, floor, agents, archived, sessions, topologies, config, mat,
                 recorded, adrift, collected, torn, crashes, changes>>

RewriteWal ==
  /\ floorDue > 0
  /\ floor' = Larger(floor, floorDue) /\ floorDue' = 0
  /\ durable' = Len(log)
  /\ UNCHANGED <<log, files, owed, mat, ghost, crashes, changes>>

----------------------------------------------------------------------------
(* checkout and recovery. *)

\* checkout, once the retention guard let it pass and the sessions have stopped:
\* the reset record is durable before anything is rebuilt.
Checkout(n, scope) ==
  /\ Working
  /\ \E k \in 1..n : Kept(k)
  /\ scope # GLOBAL_SCOPE => scope \in sessions
  /\ Append1(B!Rewound(n, scope), Len(log) + 1)
  /\ mat' = Decided(scope)
  /\ adrift' = adrift \cup {t \in Topologies : IsOwed(t)}
  /\ UNCHANGED <<files, owed, recorded, collected, torn, swept, crashes, changes>>

\* _materialize_rewind of everything, up to its loop.
Rematerialise ==
  /\ OnLoop /\ mat.step = "decided" /\ mat.scope = GLOBAL_SCOPE
  /\ agents' = agents \cup Revived
  /\ mat' = [mat EXCEPT !.step = "agents", !.todo = agents']
  /\ UNCHANGED <<wal, archived, sessions, topologies, config, gens, owed, ghost,
                 crashes, changes>>

\* _rematerialise_agent raises: the agents made before that one stay.
RevivingRaises ==
  /\ OnLoop /\ mat.step = "decided" /\ mat.scope = GLOBAL_SCOPE
  /\ \E made \in SUBSET Revived : made # Revived /\ agents' = agents \cup made
  /\ mat' = NotRewinding /\ torn' = TRUE
  /\ UNCHANGED <<wal, archived, sessions, topologies, config, gens, owed, recorded,
                 adrift, collected, swept, crashes, changes>>

\* One agent: torn down with its sessions, or kept, the sessions to go noted only.
MaterialiseAgent(x) ==
  /\ OnLoop /\ x \in mat.todo
  /\ IF Doomed(x)
     THEN /\ agents' = agents \ {x} /\ sessions' = sessions \ Of(x)
          /\ archived' = [archived EXCEPT ![x] = NoMarker]
          /\ mat' = [mat EXCEPT !.todo = @ \ {x}]
     ELSE /\ mat' = [mat EXCEPT !.todo = @ \ {x},
                                !.purges = @ \cup {s \in Of(x) \cap sessions : Gone(s)}]
          /\ UNCHANGED <<agents, sessions, archived>>
  /\ UNCHANGED <<wal, topologies, config, gens, owed, ghost, crashes, changes>>

\* Behind the loop: markers, topologies, registries, and the noted directories.
MaterialiseRest ==
  /\ OnLoop /\ mat.step = "agents" /\ mat.todo = {}
  /\ archived' = [x \in Agents |-> IF x \in agents THEN MarkerNow(x) ELSE archived[x]]
  /\ topologies' = [t \in Topologies |-> MembersNow(t)]
  /\ config' = [r \in Registries |-> ConfigNow(r)]
  /\ sessions' = sessions \ mat.purges
  /\ mat' = NotRewinding
  /\ torn' = (torn /\ swept > 0)
  /\ UNCHANGED <<wal, agents, gens, owed, recorded, adrift, collected, swept,
                 crashes, changes>>

\* _materialize_rewind of one session, and nothing else.
MaterialiseSession ==
  /\ OnLoop /\ mat.step = "decided" /\ mat.scope # GLOBAL_SCOPE
  /\ sessions' = IF Gone(mat.scope) THEN sessions \ {mat.scope}
                                    ELSE sessions \cup {mat.scope}
  /\ mat' = NotRewinding
  /\ UNCHANGED <<wal, agents, archived, topologies, config, gens, owed, ghost,
                 crashes, changes>>

\* A reconstruct or a save raises: what was done stays done.
MaterialisingRaises ==
  /\ OnLoop
  /\ \/ mat.step = "decided" /\ mat.scope # GLOBAL_SCOPE
     \/ \E x \in mat.todo : ~Doomed(x)
  /\ mat' = NotRewinding /\ torn' = TRUE
  /\ UNCHANGED <<wal, files, owed, recorded, adrift, collected, swept, crashes, changes>>

Unpaid == {r \in Range(owed) : r.kind \in {"vanished", "topology"}}

\* The sweep has removed a member's directory and not got to the topology.
CutOff(t) == \E r \in Range(owed) : r.kind = "cascade" /\ r.who \in topologies[t]

\* recover_rewind_if_needed: the latest reset record, in the scope it was written for.
Recovering(records) ==
  LET resets == {n \in DOMAIN records : records[n].kind = "rewind"}
  IN IF resets = {} THEN NotRewinding ELSE Decided(records[Latest(resets)].scope)

\* Death, and a new process: a suffix of the records is lost, session directories never
\* written are, and a registry's yaml may be ahead of its generation.
Crash ==
  /\ crashes < MaxCrashes /\ crashes' = crashes + 1
  /\ durable' \in durable..Len(log)
  /\ log' = SubSeq(log, 1, durable')
  /\ sessions' \in SUBSET sessions
  /\ \E saved \in {{}} \cup {{r} : r \in Registries} :
       /\ saved # {} => Working /\ changes < MaxChanges
       /\ config' = [r \in Registries |-> IF r \in saved THEN changes + 1 ELSE config[r]]
       /\ adrift' = adrift \cup saved \cup {log[n].who : n \in durable' + 1..Len(log)}
                           \cup {r.who : r \in Unpaid} \cup {t \in Topologies : CutOff(t)}
  /\ floorDue' = 0 /\ owed' = <<>> /\ mat' = Recovering(log')
  /\ UNCHANGED <<floor, agents, archived, topologies, gens, recorded, collected, torn,
                 swept, changes>>

----------------------------------------------------------------------------
Next ==
  \/ \E x \in Agents :
       CreateAgent(x) \/ ArchiveAgent(x) \/ PurgeAgent(x) \/ MaterialiseAgent(x)
  \/ \E s \in Spawned : SpawnSession(s) \/ RemoveSession(s)
  \/ \E t \in Topologies : ChangeTopology(t)
  \/ \E r \in Registries : ChangeConfig(r)
  \/ \E n \in DOMAIN log, scope \in B!Scopes : Checkout(n, scope)
  \/ \E f \in 2..Len(log) : Truncate(f)
  \/ SweepAgent \/ SweepTopologies \/ PayOwed \/ RewriteWal
  \/ Rematerialise \/ RevivingRaises \/ MaterialiseRest \/ MaterialiseSession
  \/ MaterialisingRaises \/ Crash

Spec == Init /\ [][Next]_vars

----------------------------------------------------------------------------
(* Correctness. *)

TypeOK ==
  /\ torn \in BOOLEAN
  /\ Len(log) <= MaxHead /\ durable \in 0..Len(log)
  /\ floor \in 1..MaxHead /\ floorDue \in 0..MaxHead
  /\ agents \subseteq Agents /\ collected \subseteq Agents /\ sessions \subseteq Spawned
  /\ archived \in [Agents -> {NoMarker} \cup 0..MaxHead]
  /\ topologies \in [Topologies -> SUBSET Agents]
  /\ config \in [Registries -> 0..MaxChanges]
  /\ gens \subseteq recorded
  /\ mat.scope \in B!Scopes /\ mat.todo \subseteq Agents /\ mat.purges \subseteq Spawned

Settled == mat.step = "none" /\ ~torn

\* The numbers on the way back from the head, as the scope sees it; this does not
\* use the intervals the code computes.
Now(scope) == B!Lineage(log, scope)[Len(log)]

Those(kind, who, numbers) == {n \in numbers : log[n].kind = kind /\ log[n].who = who}

\* Which one a purge removed: the last made on its branch or, if a checkout that failed
\* half way left one there that is not of the branch, the last made at all.
PurgedBy(x, p) ==
  LET made == Those("created", x, B!Lineage(log, GLOBAL_SCOPE)[p])
  IN Latest(IF made # {} THEN made ELSE Those("created", x, 1..p))

\* Made on this branch, and not the one that some purge, on whatever branch, removed.
AgentIsDue(x) ==
  \E n \in Those("created", x, Now(GLOBAL_SCOPE)) :
    \A p \in Those("purged", x, DOMAIN log) : n # PurgedBy(x, p)

ArchivalIsDue(x) ==
  LET now == Now(GLOBAL_SCOPE)
  IN Latest(Those("archived", x, now)) > Latest(Those("created", x, now))

SessionIsDue(s) == Latest(Those("spawned", s, Now(s))) > Latest(Those("vanished", s, Now(s)))

\* A reset of this session alone raised and its owner was purged since: the next
\* recovery carries out the reset, and makes the session's directory again, which no
\* checkout sees: it looks through the sessions of agents with a profile.
RemadeWithoutOwner(s) ==
  \E p \in Those("purged", Owner(s), DOMAIN log) :
    \E r \in 1..p : IsRewind(r) /\ log[r].scope = s

\* checkout, recover_rewind_if_needed: with names used once and nothing truncated, the
\* agents and archivals are those of the branch, and a session that is there belongs
\* to it and to one of its agents, through deaths at any step.  (A dropped session does not
\* come back.)
RosterFollowsLineage ==
  Settled /\ swept = 0 =>
    /\ \A x \in Agents \ adrift :
         /\ x \in agents <=> AgentIsDue(x)
         /\ x \in agents => (archived[x] # NoMarker <=> ArchivalIsDue(x))
    /\ \A s \in sessions \ adrift :
         Owner(s) \notin adrift =>
           (SessionIsDue(s) /\ Owner(s) \in agents) \/ RemadeWithoutOwner(s)

\* _reconcile_topologies_as_of_cut: a topology is what its last record on the branch says.
TopologiesFollowLineage ==
  Settled /\ swept = 0 =>
    \A t \in Topologies : t \notin adrift /\ ~IsOwed(t) =>
      topologies[t] = LET n == Latest(Those("topology", t, Now(GLOBAL_SCOPE)))
                      IN IF n = 0 THEN {} ELSE log[n].members

\* What no rebuild brings back: removed by the sweep, purged on some branch, or made on
\* one that a checkout left, with the record of it truncated.
RemovedForGood(x) ==
  \/ x \in collected
  \/ Those("purged", x, DOMAIN log) # {}
  \/ \E n \in Those("created", x, DOMAIN log), r \in DOMAIN log :
       ~Kept(n) /\ IsRewind(r) /\ n \notin B!Lineage(log, GLOBAL_SCOPE)[r]

\* A record of t on the branch names x although x, when it was written, was no agent of
\* that branch: left there by a checkout that failed half way, or owed since before one.
WrittenAskew(t, x) ==
  \E n \in Those("topology", t, Now(GLOBAL_SCOPE)), b \in Those("created", x, DOMAIN log) :
    x \in log[n].members /\ b < n /\ b \notin B!Lineage(log, GLOBAL_SCOPE)[n]

\* create_topology, add_topology_member: the members exist - also after a removal, after
\* a checkout took agents and topologies back each by its own records, and after a death
\* between those records - unless a checkout went back behind their removal for good, or
\* to a record that was never right.
NobodyDangles ==
  Settled =>
    \A t \in Topologies \ adrift : \A x \in topologies[t] \ adrift : ~CutOff(t) =>
      \/ x \in agents
      \/ RemovedForGood(x) /\ \E n \in DOMAIN log : IsRewind(n)
      \/ WrittenAskew(t, x)

\* prune_below: "that base must survive".  A registry holds what its last generation on
\* the branch says, pruned or not, provided no generation below the floor was abandoned.
ConfigSurvivesTruncation ==
  Settled =>
    \A r \in Registries \ adrift :
      LET there == {g \in recorded : g.reg = r}
          due   == {g \in there : g.seq \in Now(GLOBAL_SCOPE) \cup {0}}
      IN (\A g \in there \ due : g.seq >= swept) =>
           config[r] = IF due = {} THEN Absent
                       ELSE (CHOOSE g \in due : \A f \in due : f.seq <= g.seq).content

\* Whatever was truncated: a checkout or a restart removes no agent that was made on
\* the branch and not purged, and no session that was spawned on it and is not done.  (An
\* archive sweep has its turns in between, and removes what it is there to remove.)
NothingLivingIsDeleted ==
  [][mat.step # "none" /\ OnLoop =>
       /\ \A x \in agents \ agents' : ~AgentIsDue(x)
       /\ \A s \in sessions \ sessions' :
            crashes' = crashes => ~SessionIsDue(s) \/ Owner(s) \notin agents']_vars
=============================================================================
