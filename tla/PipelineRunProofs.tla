------------------------- MODULE PipelineRunProofs -------------------------
(***************************************************************************)
(* What a run of a pipeline keeps through any number of crashes, for every *)
(* plan, every set of items and every way to launch it: its end is final,  *)
(* its resumes are bounded, somebody is told, and what is recorded never   *)
(* happens again.                                                          *)
(***************************************************************************)
EXTENDS PipelineRun, WellFoundedInduction, TLAPS

USE DEF vars, diskVars, fanVars, execVars, driverVars, historyVars

----------------------------------------------------------------------------
(* The fate of a run.  A marker leaves the driver nothing but nudges to     *)
(* ignore; the executor is started at most once per counted attempt; an     *)
(* attached caller is waited for by nobody but the driver it started.       *)

InEnd   == phase \in {"finishing", "posted", "unposted"}
Between == phase \in {"idle", "woken"} /\ marker = NoMarker

ItemsRest == phase # "each" => \A x \in Items : at[x] = "off"

MarkerRests == /\ marker # NoMarker => phase \in {"idle", "down"}
               /\ InEnd => verdict # "none"

RunsAreCounted ==
  /\ attempts \in Nat /\ runs \in Nat
  /\ runs <= attempts + 1 /\ runs <= MaxResume + 1
  /\ Between => runs <= attempts

CallerIsThere ==
  /\ phase \notin {"down", "woken", "stalled"} /\ marker = NoMarker /\ ~notify => reader
  /\ phase = "posted" => told = "posted" \/ launch.onSettle = "drop"
  /\ phase = "unposted" => told = "nobody" \/ reader

Places == {"off", "waiting", "ready", "acted", "writing", "good", "bad", "saving", "settled"}

PlainTypes ==
  /\ launch \in Launches /\ at \in [Items -> Places]
  /\ notify \in BOOLEAN /\ reader \in BOOLEAN

FateInv == PlainTypes /\ ItemsRest /\ MarkerRests /\ RunsAreCounted /\ CallerIsThere

LEMMA Bound == MaxResume \in Nat
  BY PipelineAssumption

LEMMA Dispositions ==
  ASSUME NEW l \in Launches PROVE l.onSettle \in {"deliver", "drop", "pipeline"}
  BY PipelineAssumption

LEMMA FateInit == Init => FateInv
<1> SUFFICES ASSUME Init PROVE FateInv
  OBVIOUS
<1>1. PlainTypes /\ ItemsRest
  BY PipelineAssumption DEF Init, PlainTypes, Places, ItemsRest
<1>2. MarkerRests
  BY DEF Init, MarkerRests, InEnd
<1>3. RunsAreCounted
  BY Bound DEF Init, RunsAreCounted, Between
<1>4. CallerIsThere
  BY DEF Init, CallerIsThere
<1> QED
  BY <1>1, <1>2, <1>3, <1>4 DEF FateInv

LEMMA TypesStep == FateInv /\ [Next]_vars => PlainTypes'
<1> SUFFICES ASSUME FateInv, [Next]_vars PROVE PlainTypes'
  OBVIOUS
<1>1. CASE Land
  BY <1>1 DEF FateInv, PlainTypes, Places, Land
<1>2. CASE IgnoreNudge
  BY <1>2 DEF FateInv, PlainTypes, Places, IgnoreNudge, Take
<1>3. CASE GiveUp
  BY <1>3 DEF FateInv, PlainTypes, Places, GiveUp, Take
<1>4. CASE StartRun
  BY <1>4 DEF FateInv, PlainTypes, Places, StartRun, Take, NoTasks, Exhausted
<1>5. CASE StopAtBoundary \/ AllDone \/ Abort \/ StepFails
  BY <1>5 DEF FateInv, PlainTypes, Places, StopAtBoundary, AllDone, Abort, StepFails, AtStep, Finish, NoTasks
<1>6. CASE Transform \/ CallTool \/ ToolActs \/ ToolEnds \/ StepRecorded \/ ReplayEach
  BY <1>6 DEF FateInv, PlainTypes, Places, Transform, CallTool, ToolActs, ToolEnds, StepRecorded, ReplayEach, EndStep, AtStep
<1>7. CASE StartEach \/ Save
  BY <1>7 DEF FateInv, PlainTypes, Places, StartEach, Save, AtStep, First
<1>8. CASE EndEach
  BY <1>8 DEF FateInv, PlainTypes, Places, EndEach, EndStep, NoTasks
<1>9. CASE Deliver \/ SettleRaises \/ NoDelivery(FALSE) \/ NoDelivery(TRUE)
  BY <1>9 DEF FateInv, PlainTypes, Places, Deliver, SettleRaises, NoDelivery
<1>10. CASE WriteMarker
  BY <1>10 DEF FateInv, PlainTypes, Places, WriteMarker
<1>11. CASE Scan \/ Wake
  BY <1>11 DEF FateInv, PlainTypes, Places, Scan, Wake
<1>12. CASE ToolRaises \/ RequestCancel \/ Interrupt \/ Crash
  BY <1>12 DEF FateInv, PlainTypes, Places, ToolRaises, RequestCancel, Interrupt, Crash, NoTasks
<1>13. CASE \E x \in Items : ItemStep(x) \/ ItemFails(x)
  BY <1>13 DEF FateInv, PlainTypes, Places, ItemStep, ItemFails, StartItem, ItemActs, Record, Recorded, ItemReturns, Saved, Returns
<1>14. CASE UNCHANGED vars
  BY <1>14 DEF FateInv, PlainTypes, Places
<1> QED
  BY <1>1, <1>2, <1>3, <1>4, <1>5, <1>6, <1>7, <1>8, <1>9, <1>10, <1>11, <1>12, <1>13, <1>14 DEF Next, Driver

LEMMA RestStep == FateInv /\ [Next]_vars => ItemsRest'
<1> SUFFICES ASSUME FateInv, [Next]_vars PROVE ItemsRest'
  OBVIOUS
<1>1. CASE Land
  BY <1>1 DEF FateInv, ItemsRest, Land
<1>2. CASE IgnoreNudge
  BY <1>2 DEF FateInv, ItemsRest, IgnoreNudge, Take
<1>3. CASE GiveUp
  BY <1>3 DEF FateInv, ItemsRest, GiveUp, Take
<1>4. CASE StartRun
  BY <1>4 DEF FateInv, ItemsRest, StartRun, Take, NoTasks, Exhausted
<1>5. CASE StopAtBoundary \/ AllDone \/ Abort \/ StepFails
  BY <1>5 DEF FateInv, ItemsRest, StopAtBoundary, AllDone, Abort, StepFails, AtStep, Finish, NoTasks
<1>6. CASE Transform \/ CallTool \/ ToolActs \/ ToolEnds \/ StepRecorded \/ ReplayEach
  BY <1>6 DEF FateInv, ItemsRest, Transform, CallTool, ToolActs, ToolEnds, StepRecorded, ReplayEach, EndStep, AtStep
<1>7. CASE StartEach \/ Save
  BY <1>7 DEF FateInv, ItemsRest, StartEach, Save, AtStep, First
<1>8. CASE EndEach
  BY <1>8 DEF FateInv, ItemsRest, EndEach, EndStep, NoTasks
<1>9. CASE Deliver \/ SettleRaises \/ NoDelivery(FALSE) \/ NoDelivery(TRUE)
  BY <1>9 DEF FateInv, ItemsRest, Deliver, SettleRaises, NoDelivery
<1>10. CASE WriteMarker
  BY <1>10 DEF FateInv, ItemsRest, WriteMarker
<1>11. CASE Scan \/ Wake
  BY <1>11 DEF FateInv, ItemsRest, Scan, Wake
<1>12. CASE ToolRaises \/ RequestCancel \/ Interrupt \/ Crash
  BY <1>12 DEF FateInv, ItemsRest, ToolRaises, RequestCancel, Interrupt, Crash, NoTasks
<1>13. CASE \E x \in Items : ItemStep(x) \/ ItemFails(x)
  BY <1>13 DEF FateInv, ItemsRest, ItemStep, ItemFails, StartItem, ItemActs, Record, Recorded, ItemReturns, Saved, Returns
<1>14. CASE UNCHANGED vars
  BY <1>14 DEF FateInv, ItemsRest
<1> QED
  BY <1>1, <1>2, <1>3, <1>4, <1>5, <1>6, <1>7, <1>8, <1>9, <1>10, <1>11, <1>12, <1>13, <1>14 DEF Next, Driver

LEMMA MarkerStep == FateInv /\ [Next]_vars => MarkerRests'
<1> SUFFICES ASSUME FateInv, [Next]_vars PROVE MarkerRests'
  OBVIOUS
<1>1. CASE Land
  BY <1>1 DEF FateInv, MarkerRests, InEnd, Land
<1>2. CASE IgnoreNudge
  BY <1>2 DEF FateInv, MarkerRests, InEnd, IgnoreNudge, Take
<1>3. CASE GiveUp
  BY <1>3 DEF FateInv, MarkerRests, InEnd, GiveUp, Take
<1>4. CASE StartRun
  BY <1>4 DEF FateInv, MarkerRests, InEnd, StartRun, Take, NoTasks, Exhausted
<1>5. CASE StopAtBoundary \/ AllDone \/ Abort \/ StepFails
  BY <1>5 DEF FateInv, MarkerRests, InEnd, StopAtBoundary, AllDone, Abort, StepFails, AtStep, Finish, NoTasks
<1>6. CASE Transform \/ CallTool \/ ToolActs \/ ToolEnds \/ StepRecorded \/ ReplayEach
  BY <1>6 DEF FateInv, MarkerRests, InEnd, Transform, CallTool, ToolActs, ToolEnds, StepRecorded, ReplayEach, EndStep, AtStep
<1>7. CASE StartEach \/ Save
  BY <1>7 DEF FateInv, MarkerRests, InEnd, StartEach, Save, AtStep, First
<1>8. CASE EndEach
  BY <1>8 DEF FateInv, MarkerRests, InEnd, EndEach, EndStep, NoTasks
<1>9. CASE Deliver \/ SettleRaises \/ NoDelivery(FALSE) \/ NoDelivery(TRUE)
  BY <1>9 DEF FateInv, MarkerRests, InEnd, Deliver, SettleRaises, NoDelivery
<1>10. CASE WriteMarker
  BY <1>10 DEF FateInv, MarkerRests, InEnd, WriteMarker, NoMarker
<1>11. CASE Scan \/ Wake
  BY <1>11 DEF FateInv, MarkerRests, InEnd, Scan, Wake
<1>12. CASE ToolRaises \/ RequestCancel \/ Interrupt \/ Crash
  BY <1>12 DEF FateInv, MarkerRests, InEnd, ToolRaises, RequestCancel, Interrupt, Crash, NoTasks
<1>13. CASE \E x \in Items : ItemStep(x) \/ ItemFails(x)
  BY <1>13 DEF FateInv, MarkerRests, InEnd, ItemStep, ItemFails, StartItem, ItemActs, Record, Recorded, ItemReturns, Saved, Returns
<1>14. CASE UNCHANGED vars
  BY <1>14 DEF FateInv, MarkerRests, InEnd
<1> QED
  BY <1>1, <1>2, <1>3, <1>4, <1>5, <1>6, <1>7, <1>8, <1>9, <1>10, <1>11, <1>12, <1>13, <1>14 DEF Next, Driver

LEMMA RunsStep == FateInv /\ [Next]_vars => RunsAreCounted'
<1> SUFFICES ASSUME FateInv, [Next]_vars PROVE RunsAreCounted'
  OBVIOUS
<1>1. CASE Land
  BY <1>1, Bound DEF FateInv, RunsAreCounted, Between, Land
<1>2. CASE IgnoreNudge
  BY <1>2, Bound DEF FateInv, RunsAreCounted, Between, IgnoreNudge, Take
<1>3. CASE GiveUp
  BY <1>3, Bound DEF FateInv, RunsAreCounted, Between, GiveUp, Take
<1>4. CASE StartRun
  BY <1>4, Bound DEF FateInv, RunsAreCounted, Between, StartRun, Take, NoTasks, Exhausted
<1>5. CASE StopAtBoundary \/ AllDone \/ Abort \/ StepFails
  BY <1>5, Bound DEF FateInv, RunsAreCounted, Between, StopAtBoundary, AllDone, Abort, StepFails, AtStep, Finish, NoTasks
<1>6. CASE Transform \/ CallTool \/ ToolActs \/ ToolEnds \/ StepRecorded \/ ReplayEach
  BY <1>6, Bound DEF FateInv, RunsAreCounted, Between, Transform, CallTool, ToolActs, ToolEnds, StepRecorded, ReplayEach, EndStep, AtStep
<1>7. CASE StartEach \/ Save
  BY <1>7, Bound DEF FateInv, RunsAreCounted, Between, StartEach, Save, AtStep, First
<1>8. CASE EndEach
  BY <1>8, Bound DEF FateInv, RunsAreCounted, Between, EndEach, EndStep, NoTasks
<1>9. CASE Deliver \/ SettleRaises \/ NoDelivery(FALSE) \/ NoDelivery(TRUE)
  BY <1>9, Bound DEF FateInv, RunsAreCounted, Between, Deliver, SettleRaises, NoDelivery
<1>10. CASE WriteMarker
  BY <1>10, Bound DEF FateInv, RunsAreCounted, Between, WriteMarker, NoMarker, MarkerRests, InEnd
<1>11. CASE Scan \/ Wake
  BY <1>11, Bound DEF FateInv, RunsAreCounted, Between, Scan, Wake
<1>12. CASE ToolRaises \/ RequestCancel \/ Interrupt \/ Crash
  BY <1>12, Bound DEF FateInv, RunsAreCounted, Between, ToolRaises, RequestCancel, Interrupt, Crash, NoTasks
<1>13. CASE \E x \in Items : ItemStep(x) \/ ItemFails(x)
  BY <1>13, Bound DEF FateInv, RunsAreCounted, Between, ItemStep, ItemFails, StartItem, ItemActs, Record, Recorded, ItemReturns, Saved, Returns
<1>14. CASE UNCHANGED vars
  BY <1>14, Bound DEF FateInv, RunsAreCounted, Between
<1> QED
  BY <1>1, <1>2, <1>3, <1>4, <1>5, <1>6, <1>7, <1>8, <1>9, <1>10, <1>11, <1>12, <1>13, <1>14 DEF Next, Driver

LEMMA CallerStep == FateInv /\ [Next]_vars => CallerIsThere'
<1> SUFFICES ASSUME FateInv, [Next]_vars PROVE CallerIsThere'
  OBVIOUS
<1>1. CASE Land
  BY <1>1 DEF FateInv, PlainTypes, CallerIsThere, Land
<1>2. CASE IgnoreNudge
  BY <1>2 DEF FateInv, PlainTypes, CallerIsThere, IgnoreNudge, Take
<1>3. CASE GiveUp
  BY <1>3 DEF FateInv, PlainTypes, CallerIsThere, GiveUp, Take
<1>4. CASE StartRun
  BY <1>4 DEF FateInv, PlainTypes, CallerIsThere, StartRun, Take, NoTasks, Exhausted
<1>5. CASE StopAtBoundary \/ AllDone \/ Abort \/ StepFails
  BY <1>5 DEF FateInv, PlainTypes, CallerIsThere, StopAtBoundary, AllDone, Abort, StepFails, AtStep, Finish, NoTasks
<1>6. CASE Transform \/ CallTool \/ ToolActs \/ ToolEnds \/ StepRecorded \/ ReplayEach
  BY <1>6 DEF FateInv, PlainTypes, CallerIsThere, Transform, CallTool, ToolActs, ToolEnds, StepRecorded, ReplayEach, EndStep, AtStep
<1>7. CASE StartEach \/ Save
  BY <1>7 DEF FateInv, PlainTypes, CallerIsThere, StartEach, Save, AtStep, First
<1>8. CASE EndEach
  BY <1>8 DEF FateInv, PlainTypes, CallerIsThere, EndEach, EndStep, NoTasks
<1>9. CASE Deliver \/ SettleRaises \/ NoDelivery(FALSE) \/ NoDelivery(TRUE)
  BY <1>9, Dispositions DEF FateInv, PlainTypes, MarkerRests, CallerIsThere, Deliver, SettleRaises, NoDelivery
<1>10. CASE WriteMarker
  BY <1>10 DEF FateInv, PlainTypes, CallerIsThere, WriteMarker, NoMarker, MarkerRests, InEnd
<1>11. CASE Scan \/ Wake
  BY <1>11 DEF FateInv, PlainTypes, CallerIsThere, Scan, Wake
<1>12. CASE ToolRaises \/ RequestCancel \/ Interrupt \/ Crash
  BY <1>12 DEF FateInv, PlainTypes, CallerIsThere, ToolRaises, RequestCancel, Interrupt, Crash, NoTasks
<1>13. CASE \E x \in Items : ItemStep(x) \/ ItemFails(x)
  BY <1>13 DEF FateInv, PlainTypes, CallerIsThere, ItemStep, ItemFails, StartItem, ItemActs, Record, Recorded, ItemReturns, Saved, Returns
<1>14. CASE UNCHANGED vars
  BY <1>14 DEF FateInv, PlainTypes, CallerIsThere
<1> QED
  BY <1>1, <1>2, <1>3, <1>4, <1>5, <1>6, <1>7, <1>8, <1>9, <1>10, <1>11, <1>12, <1>13, <1>14 DEF Next, Driver

LEMMA FateStep == FateInv /\ [Next]_vars => FateInv'
BY TypesStep, RestStep, MarkerStep, RunsStep, CallerStep DEF FateInv

LEMMA FateAlways == Spec => []FateInv
BY FateInit, FateStep, PTL DEF Spec

\* TerminalIsFinal: once the marker is there no nudge, woken driver or restart
\* has an effect, posts, counts an attempt or changes it.
THEOREM MarkerEndsTheRun == Spec => TerminalIsFinal
<1> DEFINE Final == marker # NoMarker =>
             marker' = marker /\ fired' = fired /\ told' = told /\ attempts' = attempts
<1>1. ASSUME FateInv, [Next]_vars PROVE [Final]_vars
  <2> SUFFICES ASSUME Next, marker # NoMarker
               PROVE  marker' = marker /\ fired' = fired /\ told' = told /\ attempts' = attempts
    BY <1>1
  <2>1. phase \in {"idle", "down"} /\ \A x \in Items : at[x] = "off"
    BY <1>1 DEF FateInv, MarkerRests, ItemsRest
  <2>2. CASE Land \/ IgnoreNudge \/ Scan \/ Crash
    BY <2>2 DEF Land, IgnoreNudge, Take, Scan, Crash
  <2>3. ~(GiveUp \/ StartRun \/ StopAtBoundary \/ AllDone \/ Transform \/ CallTool \/ ToolActs)
    BY <2>1 DEF GiveUp, StartRun, StopAtBoundary, AllDone, Transform, CallTool, ToolActs, AtStep
  <2>4. ~(ToolEnds \/ StepRecorded \/ StartEach \/ ReplayEach \/ Save \/ Abort \/ EndEach \/ StepFails)
    BY <2>1 DEF ToolEnds, StepRecorded, StartEach, ReplayEach, Save, Abort, EndEach, StepFails, AtStep
  <2>5. ~(Deliver \/ SettleRaises \/ NoDelivery(FALSE) \/ NoDelivery(TRUE) \/ WriteMarker
          \/ Wake \/ ToolRaises \/ RequestCancel \/ Interrupt)
    BY <2>1 DEF Deliver, SettleRaises, NoDelivery, WriteMarker, Wake, ToolRaises, RequestCancel, Interrupt
  <2>6. ASSUME NEW x \in Items PROVE ~(ItemStep(x) \/ ItemFails(x))
    BY <2>1 DEF ItemStep, ItemFails, StartItem, ItemActs, Record, Recorded, ItemReturns, Saved
  <2> QED
    BY <2>2, <2>3, <2>4, <2>5, <2>6 DEF Next, Driver
<1> QED
  BY <1>1, FateAlways, PTL DEF Spec, TerminalIsFinal

\* WakesAreBounded: the launch and MAX_RESUME_ATTEMPTS resumes, no more, for
\* any number of crashes.
THEOREM ResumesAreBounded == Spec => []WakesAreBounded
<1>1. FateInv => WakesAreBounded
  BY DEF FateInv, RunsAreCounted, WakesAreBounded
<1> QED
  BY <1>1, FateAlways, PTL

\* SomeoneIsTold: a marker is written once the result is posted, or its
\* receiver is gone, or the attached caller is there to read it.
THEOREM TheLauncherIsTold == Spec => SomeoneIsTold
<1> DEFINE Told == marker' # marker => told # "no" \/ reader \/ launch.onSettle = "drop"
<1>1. ASSUME FateInv, [Next]_vars PROVE [Told]_vars
  <2> SUFFICES ASSUME Next, marker' # marker
               PROVE  told # "no" \/ reader \/ launch.onSettle = "drop"
    BY <1>1
  <2>1. WriteMarker
    <3>1. ~(Land \/ IgnoreNudge \/ GiveUp \/ StartRun \/ StopAtBoundary \/ AllDone \/ Abort \/ StepFails)
      BY DEF Land, IgnoreNudge, GiveUp, StartRun, Take, StopAtBoundary, AllDone, Abort, StepFails, Finish
    <3>2. ~(Transform \/ CallTool \/ ToolActs \/ ToolEnds \/ StepRecorded \/ StartEach \/ ReplayEach \/ Save \/ EndEach)
      BY DEF Transform, CallTool, ToolActs, ToolEnds, StepRecorded, StartEach, ReplayEach, Save, EndEach
    <3>3. ~(Deliver \/ SettleRaises \/ NoDelivery(FALSE) \/ NoDelivery(TRUE) \/ Scan \/ Wake
            \/ ToolRaises \/ RequestCancel \/ Interrupt \/ Crash)
      BY DEF Deliver, SettleRaises, NoDelivery, Scan, Wake, ToolRaises, RequestCancel, Interrupt, Crash
    <3>4. ASSUME NEW x \in Items PROVE ~(ItemStep(x) \/ ItemFails(x))
      BY DEF ItemStep, ItemFails, StartItem, ItemActs, Record, Recorded, ItemReturns, Saved
    <3> QED
      BY <3>1, <3>2, <3>3, <3>4 DEF Next, Driver
  <2> QED
    BY <1>1, <2>1 DEF FateInv, CallerIsThere, WriteMarker
<1> QED
  BY <1>1, FateAlways, PTL DEF Spec, SomeoneIsTold

----------------------------------------------------------------------------
(* RecordedNeverFires, for every plan, every set of items, any number of   *)
(* inner tools, retries and crashes.                                       *)
(*                                                                         *)
(* The argument: what is on disk, what is queued and what the executor     *)
(* holds are ever larger sets of keys, in that order; the executor starts  *)
(* from what is on disk when nothing older is queued; and it has an effect *)
(* only if the key of that effect is not among those it holds.             *)

----------------------------------------------------------------------------
(* Keys, generations and jobs.                                              *)

AnyKeys == {Step(i) : i \in Nat} \cup {Collect(i) : i \in Nat}
           \cup {Item(i, x) : i \in Nat, x \in Items}
           \cup {Sub(i, x, j) : i \in Nat, x \in Items, j \in Nat}

Generations == [step : Nat, done : SUBSET AnyKeys]

Jobs == [job : {"gen", "put", "take", "reply"}, gen : Generations,
         by : Items \cup {"step", "nobody"}]

\* No step is kept that the generation does not count as done.
Below(g) == \A i \in Nat : Step(i) \in g.done => i <= g.step

\* The generations in q grow, from low up to high.
Ordered(q, low, high) ==
  /\ q \in Seq(Jobs)
  /\ \A k \in 1..Len(q) : q[k].job = "gen" =>
       low \subseteq q[k].gen.done /\ q[k].gen.done \subseteq high /\ Below(q[k].gen)
  /\ \A k, l \in 1..Len(q) : k < l /\ q[k].job = "gen" /\ q[l].job = "gen" =>
       q[k].gen.done \subseteq q[l].gen.done

NoGenerations(q) == \A k \in 1..Len(q) : q[k].job # "gen"

\* Keys of different kinds differ; keys of one kind differ with what they name.
LEMMA KeysDiffer ==
  ASSUME NEW i, NEW s, NEW x, NEW y, NEW j
  PROVE  /\ Step(i) = Step(s) => i = s
         /\ Item(s, x) = Item(s, y) => x = y
         /\ Step(i) # Item(s, x) /\ Step(i) # Sub(s, x, j) /\ Step(i) # Collect(s)
         /\ Item(s, y) # Sub(s, x, j)
<1>1. Len(Step(i)) = 1 /\ Len(Item(s, x)) = 2 /\ Len(Sub(s, x, j)) = 3 /\ Len(Collect(s)) = 2
      /\ Len(Item(s, y)) = 2
  BY DEF Step, Item, Sub, Collect
<1>2. Step(i)[1] = i /\ Step(s)[1] = s /\ Item(s, x)[2] = x /\ Item(s, y)[2] = y
  BY DEF Step, Item
<1> QED
  BY <1>1, <1>2

LEMMA SimpleJobs == \A j \in {"put", "take", "reply"} : Simple(j) \in Jobs /\ Simple(j).job # "gen"
  BY DEF Simple, Jobs, Generations, NoGeneration, Generation

LEMMA GenerationJobs ==
  ASSUME NEW n \in Nat, NEW keys \in SUBSET AnyKeys, NEW by \in Items \cup {"step", "nobody"}
  PROVE  /\ Write(n, keys, by) \in Jobs /\ Write(n, keys, by).job = "gen"
         /\ Write(n, keys, by).gen.done = keys /\ Write(n, keys, by).gen.step = n
  BY DEF Write, Jobs, Generations, Generation

LEMMA OrderedPlain ==
  ASSUME NEW q, NEW low, NEW high, Ordered(q, low, high), NEW j \in Jobs, j.job # "gen"
  PROVE  Ordered(Append(q, j), low, high) /\ (NoGenerations(q) => NoGenerations(Append(q, j)))
<1>1. /\ Append(q, j) \in Seq(Jobs) /\ Len(Append(q, j)) = Len(q) + 1 /\ Len(q) \in Nat
      /\ \A k \in 1..Len(q) : Append(q, j)[k] = q[k]
      /\ Append(q, j)[Len(q) + 1] = j
  BY DEF Ordered
<1> QED
  BY <1>1 DEF Ordered, NoGenerations

LEMMA OrderedWrite ==
  ASSUME NEW q, NEW low, NEW high, Ordered(q, low, high), low \subseteq high,
         NEW n \in Nat, NEW keys \in SUBSET AnyKeys, NEW by \in Items \cup {"step", "nobody"},
         high \subseteq keys, \A i \in Nat : Step(i) \in keys => i <= n
  PROVE  Ordered(Append(q, Write(n, keys, by)), low, keys)
<1> DEFINE w == Write(n, keys, by)
<1>1. w \in Jobs /\ w.job = "gen" /\ w.gen.done = keys /\ Below(w.gen)
  BY GenerationJobs DEF Below
<1> HIDE DEF w
<1>2. /\ Append(q, w) \in Seq(Jobs) /\ Len(Append(q, w)) = Len(q) + 1 /\ Len(q) \in Nat
      /\ \A k \in 1..Len(q) : Append(q, w)[k] = q[k]
      /\ Append(q, w)[Len(q) + 1] = w
  BY <1>1 DEF Ordered
<1>3. ASSUME NEW k \in 1..Len(Append(q, w)), Append(q, w)[k].job = "gen"
      PROVE  /\ low \subseteq Append(q, w)[k].gen.done /\ Append(q, w)[k].gen.done \subseteq keys
             /\ Below(Append(q, w)[k].gen)
  BY <1>1, <1>2, <1>3 DEF Ordered
<1>4. ASSUME NEW k \in 1..Len(Append(q, w)), NEW l \in 1..Len(Append(q, w)), k < l,
             Append(q, w)[k].job = "gen", Append(q, w)[l].job = "gen"
      PROVE  Append(q, w)[k].gen.done \subseteq Append(q, w)[l].gen.done
  <2>1. k \in 1..Len(q) /\ Append(q, w)[k] = q[k]
    BY <1>2, <1>4
  <2>2. CASE l = Len(q) + 1
    BY <1>1, <1>2, <1>4, <2>1, <2>2 DEF Ordered
  <2>3. CASE l \in 1..Len(q)
    BY <1>2, <1>4, <2>1, <2>3 DEF Ordered
  <2> QED
    BY <1>2, <2>2, <2>3
<1> QED
  BY <1>2, <1>3, <1>4 DEF Ordered, w

LEMMA OrderedTail ==
  ASSUME NEW q, NEW low, NEW high, Ordered(q, low, high), q # <<>>
  PROVE  /\ Head(q) \in Jobs
         /\ Head(q).job = "gen" =>
              /\ low \subseteq Head(q).gen.done /\ Head(q).gen.done \subseteq high
              /\ Below(Head(q).gen) /\ Ordered(Tail(q), Head(q).gen.done, high)
         /\ Head(q).job # "gen" => Ordered(Tail(q), low, high)
         /\ NoGenerations(q) => Head(q).job # "gen" /\ NoGenerations(Tail(q))
<1>1. /\ Len(q) \in Nat \ {0} /\ 1 \in 1..Len(q) /\ Head(q) = q[1] /\ Head(q) \in Jobs
      /\ Tail(q) \in Seq(Jobs) /\ Len(Tail(q)) = Len(q) - 1
      /\ \A k \in 1..Len(Tail(q)) : k + 1 \in 1..Len(q) /\ Tail(q)[k] = q[k + 1] /\ 1 < k + 1
  BY DEF Ordered
<1>2. NoGenerations(q) => Head(q).job # "gen" /\ NoGenerations(Tail(q))
  BY <1>1 DEF NoGenerations
<1>3. \A k, l \in 1..Len(Tail(q)) : k < l => k + 1 < l + 1
  BY <1>1
<1>4. Head(q).job # "gen" => Ordered(Tail(q), low, high)
  BY <1>1, <1>3 DEF Ordered
<1>5. Head(q).job = "gen" =>
        /\ low \subseteq Head(q).gen.done /\ Head(q).gen.done \subseteq high
        /\ Below(Head(q).gen) /\ Ordered(Tail(q), Head(q).gen.done, high)
  BY <1>1, <1>3 DEF Ordered
<1> QED
  BY <1>1, <1>2, <1>4, <1>5

----------------------------------------------------------------------------
(* The invariant.                                                           *)

InRun == phase \in {"boundary", "calling", "returned", "recording", "each"}

DiskIsBehind ==
  /\ gen \in Generations /\ gen.done = recorded /\ Below(gen)
  /\ Ordered(queue, gen.done, box)

\* A run starts from the disk only when no older run has a generation queued.
NothingQueued ==
  phase \in {"idle", "down", "woken"} /\ marker = NoMarker => NoGenerations(queue)

BoxIsAhead == InRun => gen.done \subseteq box

BoxIsAtStep ==
  /\ step \in Nat \ {0} /\ box \in SUBSET AnyKeys
  /\ phase \in {"boundary", "calling", "returned", "each"} =>
       \A i \in Nat : Step(i) \in box => i < step
  /\ phase = "recording" => \A i \in Nat : Step(i) \in box => i <= step

\* An item that is not settled has no key.
ItemsUnkept ==
  \A x \in Items :
    /\ at[x] \in {"waiting", "ready", "acted", "writing", "good", "bad"} =>
         phase = "each" /\ Item(step, x) \notin box
    /\ at[x] = "acted" => Inner # 0

RecordInv ==
  /\ FateInv /\ fired \in [Effects -> Nat] /\ finished \in Seq(Items)
  /\ DiskIsBehind /\ NothingQueued /\ BoxIsAhead /\ BoxIsAtStep /\ ItemsUnkept

LEMMA RecordInit == Init => RecordInv
<1> SUFFICES ASSUME Init PROVE RecordInv
  OBVIOUS
<1>1. queue = <<Simple("put")>> /\ gen = NoGeneration /\ recorded = {} /\ box = {} /\ step = 1
      /\ phase = "idle" /\ fired = [e \in Effects |-> 0] /\ finished = <<>>
  BY DEF Init
<1>2. /\ queue \in Seq(Jobs) /\ Len(queue) = 1 /\ queue[1] = Simple("put")
      /\ Simple("put").job # "gen"
  BY <1>1, SimpleJobs
<1>3. NoGenerations(queue) /\ Ordered(queue, gen.done, box)
  BY <1>2 DEF NoGenerations, Ordered
<1>4. gen \in Generations /\ gen.done = recorded /\ Below(gen)
  BY <1>1 DEF Generations, NoGeneration, Generation, Below
<1>5. ItemsUnkept
  BY DEF Init, ItemsUnkept
<1> QED
  BY <1>1, <1>3, <1>4, <1>5, FateInit
     DEF RecordInv, DiskIsBehind, NothingQueued, BoxIsAhead, BoxIsAtStep, InRun

\* The steps that queue nothing, record nothing and hold on to the box.
QuietStep ==
  \/ StopAtBoundary \/ AllDone \/ Abort \/ StepFails
  \/ CallTool \/ ToolActs \/ StepRecorded \/ StartEach
  \/ SettleRaises \/ NoDelivery(FALSE) \/ NoDelivery(TRUE) \/ WriteMarker \/ Scan
  \/ ToolRaises \/ RequestCancel \/ Interrupt

QuietItemStep(x) ==
  StartItem(x) \/ ItemActs(x) \/ Recorded(x) \/ ItemReturns(x) \/ Saved(x) \/ ItemFails(x)

EndingStep == Transform \/ ToolEnds \/ ReplayEach \/ EndEach

LEMMA KindsOfSteps ==
  ASSUME Next
  PROVE  \/ Land \/ IgnoreNudge \/ GiveUp \/ StartRun \/ QuietStep \/ EndingStep
         \/ Save \/ Deliver \/ Wake \/ Crash
         \/ \E x \in Items : QuietItemStep(x) \/ Record(x)
  BY DEF Next, Driver, ItemStep, QuietStep, QuietItemStep, EndingStep

LEMMA QuietFrame == QuietStep => UNCHANGED <<queue, gen, recorded, box>>
  BY DEF QuietStep, StopAtBoundary, AllDone, Abort, StepFails, Finish, CallTool, ToolActs,
         StepRecorded, StartEach, SettleRaises, NoDelivery, WriteMarker, Scan, ToolRaises,
         RequestCancel, Interrupt

LEMMA QuietItemFrame ==
  ASSUME NEW x, QuietItemStep(x)
  PROVE  UNCHANGED <<queue, gen, recorded, box, step, phase, marker>>
  BY DEF QuietItemStep, StartItem, ItemActs, Recorded, ItemReturns, Saved, ItemFails, Returns

\* What a step leaves behind when it ends: one generation, or, behind a
\* for_each, one more before it.
LEMMA EndStepKeeps ==
  ASSUME DiskIsBehind, BoxIsAtStep, BoxIsAhead, InRun,
         NEW keys \in SUBSET AnyKeys, box \subseteq keys,
         \A i \in Nat : Step(i) \in keys => i < step,
         NEW before, before = <<>> \/ before = <<Write(step - 1, keys, "nobody")>>,
         NEW durable \in BOOLEAN, EndStep(before, keys, durable), UNCHANGED <<gen, recorded>>
  PROVE  DiskIsBehind' /\ BoxIsAtStep' /\ box \subseteq box'
<1> DEFINE done == keys \cup {Step(step)}
           by   == IF durable THEN "step" ELSE "nobody"
           last == Write(step, done, by)
<1>1. /\ step \in Nat \ {0} /\ step - 1 \in Nat /\ gen.done \subseteq box
      /\ by \in Items \cup {"step", "nobody"}
  BY DEF BoxIsAtStep, BoxIsAhead
<1>2. /\ done \in SUBSET AnyKeys /\ keys \subseteq done
      /\ \A i \in Nat : Step(i) \in done => i <= step
  <2>1. Step(step) \in AnyKeys
    BY <1>1 DEF AnyKeys
  <2>2. \A i \in Nat : Step(i) = Step(step) => i = step
    BY KeysDiffer
  <2> QED
    BY <1>1, <2>1, <2>2
<1>3. box' = done /\ queue' = queue \o before \o <<last>>
  BY DEF EndStep
<1>4. queue \in Seq(Jobs) /\ Ordered(queue, gen.done, box)
  BY DEF DiskIsBehind, Ordered
<1>5. last \in Jobs /\ Write(step - 1, keys, "nobody") \in Jobs
  BY <1>1, <1>2, GenerationJobs
<1>6. Ordered(queue', gen.done, done)
  <2>1. CASE before = <<>>
    <3>1. queue' = Append(queue, last)
      BY <1>3, <1>4, <1>5, <2>1
    <3> QED
      BY <1>1, <1>2, <1>4, <3>1, OrderedWrite
  <2>2. CASE before = <<Write(step - 1, keys, "nobody")>>
    <3> DEFINE first == Write(step - 1, keys, "nobody")
    <3>1. queue' = Append(Append(queue, first), last)
      BY <1>3, <1>4, <1>5, <2>2
    <3>2. \A i \in Nat : Step(i) \in keys => i <= step - 1
      BY <1>1
    <3>3. Ordered(Append(queue, first), gen.done, keys)
      BY <1>1, <1>4, <3>2, OrderedWrite
    <3>4. gen.done \subseteq keys
      BY <1>1
    <3> HIDE DEF first
    <3> QED
      BY <1>1, <1>2, <3>1, <3>3, <3>4, OrderedWrite
  <2> QED
    BY <2>1, <2>2
<1>7. DiskIsBehind'
  BY <1>3, <1>6 DEF DiskIsBehind, Below
<1>8. BoxIsAtStep'
  <2>1. CASE durable
    BY <1>1, <1>2, <1>3, <2>1 DEF EndStep, BoxIsAtStep
  <2>2. CASE ~durable
    BY <1>1, <1>2, <1>3, <2>2 DEF EndStep, BoxIsAtStep
  <2> QED
    BY <2>1, <2>2
<1> QED
  BY <1>2, <1>3, <1>7, <1>8

\* The four kinds of steps that write.
LEMMA EndingKeeps ==
  ASSUME RecordInv, EndingStep
  PROVE  DiskIsBehind' /\ BoxIsAtStep' /\ BoxIsAhead'
<1>1. /\ DiskIsBehind /\ BoxIsAtStep /\ BoxIsAhead
      /\ InRun /\ UNCHANGED <<gen, recorded>>
  BY DEF RecordInv, InRun, EndingStep, Transform, ToolEnds, ReplayEach, EndEach, AtStep
<1>2. /\ box \in SUBSET AnyKeys /\ gen.done \subseteq box
      /\ \A i \in Nat : Step(i) \in box => i < step
  BY <1>1 DEF BoxIsAtStep, BoxIsAhead, EndingStep, Transform, ToolEnds, ReplayEach, EndEach, AtStep
<1>3. ASSUME NEW durable \in BOOLEAN, EndStep(<<>>, box, durable)
      PROVE  DiskIsBehind' /\ BoxIsAtStep' /\ box \subseteq box'
  BY <1>1, <1>2, <1>3, EndStepKeeps
<1>4. CASE Transform \/ ToolEnds \/ ReplayEach
  <2>1. \E durable \in BOOLEAN : EndStep(<<>>, box, durable)
    BY <1>4 DEF Transform, ToolEnds, ReplayEach
  <2> QED
    BY <1>1, <1>2, <1>3, <2>1 DEF BoxIsAhead
<1>5. CASE EndEach
  <2> DEFINE keys == box \cup {Collect(step)}
             before == <<Write(step - 1, keys, "nobody")>>
  <2>1. EndStep(before, keys, worked # {}) /\ (worked # {}) \in BOOLEAN
    BY <1>5 DEF EndEach
  <2>2. Collect(step) \in AnyKeys
    BY <1>1 DEF AnyKeys, BoxIsAtStep
  <2>3. \A i \in Nat : Step(i) # Collect(step)
    BY KeysDiffer
  <2>4. keys \in SUBSET AnyKeys /\ box \subseteq keys /\ \A i \in Nat : Step(i) \in keys => i < step
    BY <1>2, <2>2, <2>3
  <2> HIDE DEF keys
  <2>5. DiskIsBehind' /\ BoxIsAtStep' /\ box \subseteq box'
    BY <1>1, <2>1, <2>4, EndStepKeeps
  <2> QED
    BY <1>1, <1>2, <2>5 DEF BoxIsAhead
<1> QED
  BY <1>4, <1>5 DEF EndingStep

\* A write in the middle of a for_each: one more key, of an item or of one
\* of its sub-steps.
LEMMA ItemWriteKeeps ==
  ASSUME RecordInv, phase = "each", phase' = "each", UNCHANGED <<gen, recorded, step>>,
         NEW key \in AnyKeys, \A i \in Nat : Step(i) # key, box' = box \cup {key},
         NEW by \in Items \cup {"step", "nobody"}, queue' = Append(queue, Write(step - 1, box', by))
  PROVE  DiskIsBehind' /\ BoxIsAtStep' /\ BoxIsAhead'
<1>1. /\ step \in Nat \ {0} /\ step - 1 \in Nat /\ gen.done \subseteq box
      /\ box' \in SUBSET AnyKeys /\ box \subseteq box'
      /\ \A i \in Nat : Step(i) \in box' => i < step
  BY DEF RecordInv, BoxIsAtStep, BoxIsAhead, InRun
<1>2. \A i \in Nat : Step(i) \in box' => i <= step - 1
  BY <1>1
<1>3. Ordered(queue, gen.done, box)
  BY DEF RecordInv, DiskIsBehind
<1>4. Ordered(queue', gen.done, box')
  BY <1>1, <1>2, <1>3, OrderedWrite
<1>5. DiskIsBehind'
  BY <1>4 DEF RecordInv, DiskIsBehind, Below
<1> QED
  BY <1>1, <1>5 DEF BoxIsAtStep, BoxIsAhead

LEMMA RecordKeeps ==
  ASSUME RecordInv, NEW x \in Items, Record(x)
  PROVE  DiskIsBehind' /\ BoxIsAtStep' /\ BoxIsAhead' /\ phase' = "each"
<1>1. phase = "each" /\ phase' = "each" /\ UNCHANGED <<gen, recorded, step>> /\ step \in Nat
  BY DEF RecordInv, ItemsUnkept, BoxIsAtStep, Record
<1>2. PICK e \in Upcoming(x) :
        box' = box \cup {e} /\ queue' = Append(queue, Write(step - 1, box', x))
  BY DEF Record, Merged
<1>3. e = Item(step, x) \/ \E j \in Nat : e = Sub(step, x, j)
  BY PipelineAssumption DEF Upcoming, Left
<1>4. e \in AnyKeys
  BY <1>1, <1>3 DEF AnyKeys
<1>5. \A i \in Nat : Step(i) # e
  BY <1>3, KeysDiffer
<1> QED
  BY <1>1, <1>2, <1>4, <1>5, ItemWriteKeeps

LEMMA SaveKeeps ==
  ASSUME RecordInv, Save
  PROVE  DiskIsBehind' /\ BoxIsAtStep' /\ BoxIsAhead'
<1>1. phase = "each" /\ phase' = "each" /\ UNCHANGED <<gen, recorded, step>>
      /\ step \in Nat /\ First \in Items
  BY DEF RecordInv, BoxIsAtStep, Save, First
<1>2. PICK by \in Items \cup {"step", "nobody"} :
        queue' = Append(queue, Write(step - 1, box', by)) /\ box' = box \cup {Item(step, First)}
  BY <1>1 DEF Save
<1>3. Item(step, First) \in AnyKeys
  BY <1>1 DEF AnyKeys
<1>4. \A i \in Nat : Step(i) # Item(step, First)
  BY KeysDiffer
<1> QED
  BY <1>1, <1>2, <1>3, <1>4, ItemWriteKeeps

----------------------------------------------------------------------------
(* Every step keeps the invariant.                                          *)

\* Who has effects, and who changes the list of items that returned.
LEMMA WhoFires ==
  ASSUME Next
  PROVE  \/ fired' = fired
         \/ ToolActs /\ Had(Step(step))
         \/ \E x \in Items : at[x] = "ready" /\ \E e \in Upcoming(x) : Had(e)
<1>1. CASE Land \/ IgnoreNudge \/ GiveUp \/ StartRun \/ Save \/ Deliver \/ Wake \/ Crash
  BY <1>1 DEF Land, IgnoreNudge, GiveUp, StartRun, Take, Save, Deliver, Wake, Crash
<1>2. CASE QuietStep
  BY <1>2 DEF QuietStep, StopAtBoundary, AllDone, Abort, StepFails, Finish,
       CallTool, ToolActs, StepRecorded, StartEach, SettleRaises, NoDelivery, WriteMarker,
       Scan, ToolRaises, RequestCancel, Interrupt
<1>3. CASE EndingStep
  BY <1>3 DEF EndingStep, Transform, ToolEnds, ReplayEach, EndEach
<1>4. ASSUME NEW x \in Items, QuietItemStep(x) \/ Record(x)
      PROVE  fired' = fired \/ (at[x] = "ready" /\ \E e \in Upcoming(x) : Had(e))
  <2>1. CASE ItemActs(x) \/ ItemFails(x)
    BY <2>1 DEF ItemActs, ItemFails
  <2>2. CASE StartItem(x) \/ Record(x) \/ Recorded(x) \/ ItemReturns(x) \/ Saved(x)
    BY <2>2 DEF StartItem, Record, Recorded, ItemReturns, Saved
  <2> QED
    BY <1>4, <2>1, <2>2 DEF QuietItemStep
<1> QED
  BY <1>1, <1>2, <1>3, <1>4, KindsOfSteps

LEMMA WhoReturns ==
  ASSUME Next
  PROVE  \/ finished' \in {finished, <<>>} \/ Save
         \/ \E x \in Items : finished' = Append(finished, x)
<1>1. CASE Land \/ IgnoreNudge \/ GiveUp \/ StartRun \/ Deliver \/ Wake \/ Crash
  BY <1>1 DEF Land, IgnoreNudge, GiveUp, StartRun, Take, NoTasks, Deliver, Wake, Crash
<1>2. CASE QuietStep
  BY <1>2 DEF QuietStep, StopAtBoundary, AllDone, Abort, StepFails, Finish, NoTasks,
       CallTool, ToolActs, StepRecorded, StartEach, SettleRaises, NoDelivery, WriteMarker,
       Scan, ToolRaises, RequestCancel, Interrupt
<1>3. CASE EndingStep
  BY <1>3 DEF EndingStep, Transform, ToolEnds, ReplayEach, EndEach, NoTasks
<1>4. ASSUME NEW x \in Items, QuietItemStep(x) \/ Record(x)
      PROVE  finished' = finished \/ finished' = Append(finished, x)
  <2>1. CASE ItemActs(x) \/ ItemFails(x) \/ ItemReturns(x)
    BY <2>1 DEF ItemActs, ItemFails, ItemReturns, Returns
  <2>2. CASE StartItem(x) \/ Record(x) \/ Recorded(x) \/ Saved(x)
    BY <2>2 DEF StartItem, Record, Recorded, Saved
  <2> QED
    BY <1>4, <2>1, <2>2 DEF QuietItemStep
<1> QED
  BY <1>1, <1>2, <1>3, <1>4, KindsOfSteps

LEMMA TypesKept ==
  ASSUME RecordInv, [Next]_vars
  PROVE  fired' \in [Effects -> Nat] /\ finished' \in Seq(Items)
<1>0. fired \in [Effects -> Nat] /\ finished \in Seq(Items)
  BY DEF RecordInv
<1>1. CASE UNCHANGED vars
  BY <1>0, <1>1
<1>2. CASE Next
  <2>1. ASSUME NEW e, Had(e) PROVE fired' \in [Effects -> Nat]
    <3>1. CASE e \in Effects
      <4>1. fired[e] + 1 \in Nat
        BY <1>0, <3>1
      <4> QED
        BY <1>0, <2>1, <4>1 DEF Had
    <3>2. CASE e \notin Effects
      BY <1>0, <2>1, <3>2, Zenon DEF Had
    <3> QED
      BY <3>1, <3>2
  <2>2. fired' \in [Effects -> Nat]
    BY <1>0, <1>2, <2>1, WhoFires
  <2>3. Save => finished' \in Seq(Items)
    BY <1>0 DEF Save
  <2>4. <<>> \in Seq(Items) /\ \A x \in Items : Append(finished, x) \in Seq(Items)
    BY <1>0
  <2>5. finished' \in Seq(Items)
    BY <1>0, <1>2, <2>3, <2>4, WhoReturns
  <2> QED
    BY <2>2, <2>5
<1> QED
  BY <1>1, <1>2

LEMMA DiskKept == RecordInv /\ [Next]_vars => DiskIsBehind'
<1> SUFFICES ASSUME RecordInv, [Next]_vars PROVE DiskIsBehind'
  OBVIOUS
<1> USE DEF RecordInv, DiskIsBehind
<1>1. CASE Land
  <2>1. Ordered(queue, gen.done, box) /\ queue # <<>>
    BY <1>1 DEF Land
  <2>2. CASE Head(queue).job = "gen"
    <3>1. gen' = Head(queue).gen /\ recorded' = recorded \cup gen'.done /\ queue' = Tail(queue) /\ box' = box
      BY <1>1, <2>2 DEF Land
    <3>2. Head(queue) \in Jobs /\ gen.done \subseteq Head(queue).gen.done
          /\ Below(Head(queue).gen) /\ Ordered(Tail(queue), Head(queue).gen.done, box)
      BY <2>1, <2>2, OrderedTail
    <3> QED
      BY <3>1, <3>2 DEF Below, Jobs
  <2>3. CASE Head(queue).job # "gen"
    <3>1. gen' = gen /\ recorded' = recorded \cup gen'.done /\ queue' = Tail(queue) /\ box' = box
      BY <1>1, <2>3 DEF Land
    <3>2. Ordered(Tail(queue), gen.done, box)
      BY <2>1, <2>3, OrderedTail
    <3> QED
      BY <3>1, <3>2 DEF Below
  <2> QED
    BY <2>2, <2>3
<1>2. CASE IgnoreNudge \/ GiveUp \/ Deliver \/ Wake
  <2>1. UNCHANGED <<gen, recorded, box>>
    BY <1>2 DEF IgnoreNudge, GiveUp, Take, Deliver, Wake
  <2>2. queue' = queue \/ \E j \in {"put", "take", "reply"} : queue' = Append(queue, Simple(j))
    BY <1>2 DEF IgnoreNudge, GiveUp, Take, Deliver, Wake
  <2>3. Ordered(queue', gen.done, box)
    BY <2>2, SimpleJobs, OrderedPlain
  <2> QED
    BY <2>1, <2>3 DEF Below
<1>3. CASE StartRun
  <2>1. UNCHANGED <<gen, recorded>> /\ box' = gen.done /\ queue' = Append(queue, Simple("take"))
        /\ NoGenerations(queue)
    BY <1>3 DEF StartRun, Take, NothingQueued
  <2>2. Simple("take") \in Jobs /\ Simple("take").job # "gen"
    BY SimpleJobs
  <2>3. Ordered(queue', gen.done, box) /\ NoGenerations(queue')
    BY <2>1, <2>2, OrderedPlain
  <2>4. Ordered(queue', gen.done, gen.done)
    BY <2>3 DEF Ordered, NoGenerations
  <2> QED
    BY <2>1, <2>4 DEF Below
<1>4. CASE Crash
  <2>1. UNCHANGED <<gen, recorded>> /\ queue' = <<>>
    BY <1>4 DEF Crash
  <2>2. Ordered(queue', gen.done, box')
    BY <2>1 DEF Ordered
  <2> QED
    BY <2>1, <2>2 DEF Below
<1>5. CASE QuietStep
  BY <1>5, QuietFrame DEF Below
<1>6. ASSUME NEW x \in Items, QuietItemStep(x) PROVE DiskIsBehind'
  BY <1>6, QuietItemFrame DEF Below
<1>7. CASE UNCHANGED vars
  BY <1>7 DEF Below
<1> QED
  BY <1>1, <1>2, <1>3, <1>4, <1>5, <1>6, <1>7, KindsOfSteps, EndingKeeps, SaveKeeps, RecordKeeps

LEMMA NothingQueuedKept == RecordInv /\ [Next]_vars => NothingQueued'
<1> SUFFICES ASSUME RecordInv, [Next]_vars, phase' \in {"idle", "down", "woken"}, marker' = NoMarker
             PROVE  NoGenerations(queue')
  BY DEF NothingQueued
<1> USE DEF NothingQueued
<1>0. FateInv /\ NothingQueued /\ Ordered(queue, gen.done, box)
  BY DEF RecordInv, DiskIsBehind
<1>1. CASE Land
  <2>1. queue # <<>> /\ queue' = Tail(queue) /\ UNCHANGED <<phase, marker>>
    BY <1>1 DEF Land
  <2> QED
    BY <1>0, <2>1, OrderedTail
<1>2. CASE IgnoreNudge \/ Wake
  <2>1. NoGenerations(queue)
    BY <1>0, <1>2 DEF IgnoreNudge, Take, Wake
  <2>2. \E j \in {"put", "take", "reply"} : queue' = Append(queue, Simple(j))
    BY <1>2 DEF IgnoreNudge, Take, Wake
  <2> QED
    BY <1>0, <2>1, <2>2, SimpleJobs, OrderedPlain
<1>3. CASE Crash
  BY <1>3 DEF Crash, NoGenerations
<1>4. CASE Scan \/ RequestCancel
  BY <1>0, <1>4 DEF Scan, RequestCancel
<1>5. CASE WriteMarker
  <2>1. marker' # NoMarker
    BY <1>0, <1>5 DEF WriteMarker, NoMarker, FateInv, MarkerRests, InEnd
  <2> QED
    BY <2>1
<1>6. ~(GiveUp \/ StartRun \/ Save \/ Deliver)
  BY <1>0 DEF GiveUp, StartRun, Save, Deliver
<1>7. CASE QuietStep
  <2>1. ~(StopAtBoundary \/ AllDone \/ Abort \/ StepFails \/ CallTool \/ ToolActs \/ StepRecorded
          \/ StartEach \/ SettleRaises \/ NoDelivery(FALSE) \/ NoDelivery(TRUE) \/ ToolRaises \/ Interrupt)
    BY DEF StopAtBoundary, AllDone, Abort, StepFails, Finish, CallTool, ToolActs, StepRecorded,
           StartEach, SettleRaises, NoDelivery, ToolRaises, Interrupt
  <2> QED
    BY <1>4, <1>5, <1>7, <2>1 DEF QuietStep
<1>8. ~EndingStep
  BY DEF EndingStep, Transform, ToolEnds, ReplayEach, EndEach, EndStep
<1>9. ASSUME NEW x \in Items, QuietItemStep(x) PROVE NoGenerations(queue')
  BY <1>0, <1>9, QuietItemFrame
<1>10. ASSUME NEW x \in Items PROVE ~Record(x)
  BY RecordKeeps
<1>11. CASE UNCHANGED vars
  BY <1>0, <1>11
<1> QED
  BY <1>1, <1>2, <1>3, <1>5, <1>6, <1>7, <1>8, <1>9, <1>10, <1>11, KindsOfSteps

LEMMA BoxKept ==
  ASSUME RecordInv, [Next]_vars
  PROVE  BoxIsAhead' /\ BoxIsAtStep'
<1>0. DiskIsBehind /\ BoxIsAhead /\ BoxIsAtStep
  BY DEF RecordInv
<1> USE DEF BoxIsAhead, BoxIsAtStep, InRun
<1>1. CASE Land
  <2>1. queue # <<>> /\ UNCHANGED <<phase, step, box>>
        /\ gen' = IF Head(queue).job = "gen" THEN Head(queue).gen ELSE gen
    BY <1>1 DEF Land
  <2>2. Head(queue).job = "gen" => Head(queue).gen.done \subseteq box
    BY <1>0, <2>1, OrderedTail DEF DiskIsBehind
  <2> QED
    BY <1>0, <2>1, <2>2
<1>2. CASE IgnoreNudge \/ GiveUp \/ Deliver \/ Wake
  BY <1>0, <1>2 DEF IgnoreNudge, GiveUp, Take, Deliver, Wake
<1>3. CASE StartRun
  <2>1. step' = gen.step + 1 /\ box' = gen.done /\ phase' = "boundary" /\ gen' = gen
    BY <1>3 DEF StartRun
  <2>2. gen.step \in Nat /\ gen.done \in SUBSET AnyKeys /\ Below(gen)
    BY <1>0 DEF DiskIsBehind, Generations
  <2> QED
    BY <2>1, <2>2 DEF Below
<1>4. CASE Crash
  BY <1>4 DEF Crash
<1>5. CASE StopAtBoundary \/ AllDone \/ Abort \/ StepFails
  BY <1>0, <1>5 DEF StopAtBoundary, AllDone, Abort, StepFails, Finish
<1>6. CASE CallTool \/ ToolActs \/ StartEach
  BY <1>0, <1>6 DEF CallTool, ToolActs, StartEach, AtStep
<1>7. CASE StepRecorded
  <2>1. phase = "recording" /\ phase' = "boundary" /\ step' = step + 1 /\ UNCHANGED <<box, gen>>
    BY <1>7 DEF StepRecorded
  <2> QED
    BY <1>0, <2>1
<1>8. CASE SettleRaises \/ NoDelivery(FALSE) \/ NoDelivery(TRUE) \/ WriteMarker \/ Scan
  BY <1>0, <1>8 DEF SettleRaises, NoDelivery, WriteMarker, Scan
<1>9. CASE ToolRaises \/ RequestCancel \/ Interrupt
  BY <1>0, <1>9 DEF ToolRaises, RequestCancel, Interrupt
<1>10. ASSUME NEW x \in Items, QuietItemStep(x) PROVE BoxIsAhead' /\ BoxIsAtStep'
  BY <1>0, <1>10, QuietItemFrame
<1>11. CASE UNCHANGED vars
  BY <1>0, <1>11
<1>12. QuietStep => BoxIsAhead' /\ BoxIsAtStep'
  BY <1>5, <1>6, <1>7, <1>8, <1>9 DEF QuietStep
<1> QED
  BY <1>1, <1>2, <1>3, <1>4, <1>10, <1>11, <1>12, KindsOfSteps, EndingKeeps, SaveKeeps, RecordKeeps

LEMMA ItemsKept == RecordInv /\ [Next]_vars => ItemsUnkept'
<1> SUFFICES ASSUME RecordInv, [Next]_vars PROVE ItemsUnkept'
  OBVIOUS
<1>0. ItemsUnkept /\ at \in [Items -> Places]
  BY DEF RecordInv, FateInv, PlainTypes
<1> USE DEF ItemsUnkept
<1>1. CASE Land \/ IgnoreNudge
  BY <1>0, <1>1 DEF Land, IgnoreNudge, Take
<1>2. CASE GiveUp \/ Deliver \/ Wake \/ SettleRaises \/ NoDelivery(FALSE) \/ NoDelivery(TRUE) \/ WriteMarker
           \/ Scan \/ CallTool \/ ToolActs \/ StepRecorded \/ ToolRaises \/ Transform \/ ToolEnds
  <2>1. UNCHANGED at /\ phase # "each"
    BY <1>2 DEF GiveUp, Take, Deliver, Wake, SettleRaises, NoDelivery, WriteMarker, Scan, CallTool,
         ToolActs, StepRecorded, ToolRaises, Transform, ToolEnds, AtStep
  <2> QED
    BY <1>0, <2>1
<1>3. CASE StartRun \/ Crash \/ Interrupt \/ EndEach \/ StopAtBoundary \/ AllDone \/ Abort \/ StepFails
  BY <1>3 DEF StartRun, Crash, Interrupt, EndEach, StopAtBoundary, AllDone, Abort, StepFails, Finish, NoTasks
<1>4. CASE RequestCancel
  BY <1>0, <1>4 DEF RequestCancel
<1>5. CASE StartEach
  BY <1>5 DEF StartEach
<1>6. CASE ReplayEach
  <2>1. UNCHANGED at /\ phase # "each"
    BY <1>6 DEF ReplayEach, AtStep
  <2> QED
    BY <1>0, <2>1
<1>7. CASE Save
  <2>1. /\ phase' = phase /\ step' = step /\ box' = box \cup {Item(step, First)}
        /\ at' = [at EXCEPT ![First] = "saving"] \/ at' = [at EXCEPT ![First] = "settled"]
    BY <1>7 DEF Save
  <2>2. ASSUME NEW y \in Items, y # First
        PROVE  at'[y] = at[y] /\ (Item(step, y) \in box' => Item(step, y) \in box)
    <3>1. at'[y] = at[y]
      BY <1>0, <2>1, <2>2
    <3>2. Item(step, y) # Item(step, First)
      BY <2>2, KeysDiffer
    <3> QED
      BY <2>1, <3>1, <3>2
  <2>3. ASSUME NEW y \in Items, y = First PROVE at'[y] \in {"saving", "settled"}
    BY <1>0, <2>1, <2>3
  <2> QED
    BY <1>0, <2>1, <2>2, <2>3
<1>8. ASSUME NEW x \in Items, Record(x) PROVE ItemsUnkept'
  <2>1. at[x] = "acted" /\ at' = [at EXCEPT ![x] = "writing"] /\ UNCHANGED <<step, phase>>
    BY <1>8 DEF Record
  <2>2. PICK e \in Upcoming(x) : box' = box \cup {e}
    BY <1>8 DEF Record, Merged
  <2>3. \E j : e = Sub(step, x, j)
    BY <1>0, <2>1, <2>2 DEF Upcoming
  <2>4. \A y \in Items : Item(step, y) # e
    BY <2>3, KeysDiffer
  <2>5. \A y \in Items : at'[y] = IF y = x THEN "writing" ELSE at[y]
    BY <1>0, <2>1
  <2> QED
    BY <1>0, <2>1, <2>2, <2>4, <2>5
<1>9. ASSUME NEW x \in Items, QuietItemStep(x) PROVE ItemsUnkept'
  <2>1. UNCHANGED <<box, step, phase>>
    BY <1>9, QuietItemFrame
  <2>2. CASE at' = at
    BY <1>0, <2>1, <2>2
  <2>3. ASSUME NEW p, at' = [at EXCEPT ![x] = p],
               at[x] \in {"waiting", "ready", "writing"} \/ p = "settled",
               p = "acted" => Inner # 0
        PROVE  ItemsUnkept'
    <3>1. \A y \in Items : at'[y] = IF y = x THEN p ELSE at[y]
      BY <1>0, <2>3
    <3> QED
      BY <1>0, <2>1, <2>3, <3>1
  <2>4. CASE StartItem(x) \/ Recorded(x)
    BY <2>3, <2>4 DEF StartItem, Recorded
  <2>5. CASE ItemActs(x)
    BY <2>3, <2>5 DEF ItemActs, Returns
  <2>6. CASE ItemReturns(x) \/ Saved(x)
    BY <2>3, <2>6 DEF ItemReturns, Returns, Saved
  <2>7. CASE ItemFails(x)
    BY <2>2, <2>3, <2>7 DEF ItemFails, Returns
  <2> QED
    BY <1>9, <2>4, <2>5, <2>6, <2>7 DEF QuietItemStep
<1>10. CASE UNCHANGED vars
  BY <1>0, <1>10
<1> QED
  BY <1>1, <1>2, <1>3, <1>4, <1>5, <1>6, <1>7, <1>8, <1>9, <1>10, KindsOfSteps DEF QuietStep, EndingStep

LEMMA RecordAlways == Spec => []RecordInv
<1>1. RecordInv /\ [Next]_vars => RecordInv'
  BY FateStep, TypesKept, DiskKept, NothingQueuedKept, BoxKept, ItemsKept DEF RecordInv
<1> QED
  BY <1>1, RecordInit, PTL DEF Spec

\* RecordedNeverFires: no crash, resume, retry or sibling's record makes an
\* effect happen again once its key has been on disk.
THEOREM RecordedStaysDone == Spec => RecordedNeverFires
<1> DEFINE Still == \A e \in recorded : e \in Effects => fired'[e] = fired[e]
<1>1. ASSUME RecordInv, [Next]_vars PROVE [Still]_vars
  <2> SUFFICES ASSUME Next, NEW e \in recorded, e \in Effects PROVE fired'[e] = fired[e]
    BY <1>1
  <2>0. /\ fired \in [Effects -> Nat] /\ gen.done = recorded /\ BoxIsAhead /\ BoxIsAtStep
        /\ ItemsUnkept
    BY <1>1 DEF RecordInv, DiskIsBehind
  <2>1. ASSUME NEW f, f \notin box, InRun, Had(f) PROVE fired'[e] = fired[e]
    <3>1. e \in box
      BY <2>0, <2>1 DEF BoxIsAhead
    <3> QED
      BY <2>0, <2>1, <3>1 DEF Had
  <2>2. CASE ToolActs /\ Had(Step(step))
    <3>1. phase = "calling"
      BY <2>2 DEF ToolActs
    <3>2. Step(step) \notin box
      BY <2>0, <3>1 DEF BoxIsAtStep
    <3> QED
      BY <2>1, <2>2, <3>1, <3>2 DEF InRun
  <2>3. ASSUME NEW x \in Items, at[x] = "ready", NEW f \in Upcoming(x), Had(f)
        PROVE  fired'[e] = fired[e]
    <3>1. phase = "each" /\ Item(step, x) \notin box
      BY <2>0, <2>3 DEF ItemsUnkept
    <3>2. f \notin box
      BY <2>3, <3>1 DEF Upcoming, Left
    <3> QED
      BY <2>1, <2>3, <3>1, <3>2 DEF InRun
  <2>4. CASE fired' = fired
    BY <2>4
  <2> QED
    BY <2>2, <2>3, <2>4, WhoFires
<1> QED
  BY <1>1, RecordAlways, PTL DEF Spec, RecordedNeverFires

----------------------------------------------------------------------------
(* MarkerIsHonest, for every plan and every history.                       *)
(*                                                                         *)
(* The argument: a key is kept only for what was had or recorded as        *)
(* dropped, so a run that has all its steps' keys had it all; and a run is *)
(* cancelled only in the process that launched it, where a step that had   *)
(* an effect is always recorded, and awaited, before the next boundary.    *)

----------------------------------------------------------------------------
(* Honest keys.                                                             *)

SkippedIn(d, i, e) == \E x \in Items : Item(i, x) \in d /\ e \in EffectsOfItem(i, x)

\* All effects of step i were had (f), or their item was dropped (d).
StepDone(f, d, i) == \A e \in EffectsOf(i) : f[e] > 0 \/ SkippedIn(d, i, e)

ItemDone(f, d, i, x) == Item(i, x) \in d \/ \A e \in EffectsOfItem(i, x) : f[e] > 0

Honest(f, d, keys) ==
  \A i \in DOMAIN Plan :
    /\ Step(i) \in keys => StepDone(f, d, i)
    /\ Plan[i] = "each" =>
         /\ Collect(i) \in keys => StepDone(f, d, i)
         /\ \A x \in Items :
              /\ Item(i, x) \in keys => ItemDone(f, d, i, x)
              /\ \A j \in 1..Inner : Sub(i, x, j) \in keys => f[Sub(i, x, j)] > 0

\* The first n steps have their keys.
Complete(n, keys) == \A i \in DOMAIN Plan : i <= n => Step(i) \in keys

Good(f, d, g)    == Honest(f, d, g.done) /\ Complete(g.step, g.done)
AllGood(f, d, q) == \A k \in 1..Len(q) : q[k].job = "gen" => Good(f, d, q[k].gen)

LEMMA PlanType ==
  /\ Len(Plan) \in Nat /\ DOMAIN Plan = 1..Len(Plan) /\ DOMAIN Plan \subseteq Nat
  /\ \A i \in DOMAIN Plan : Plan[i] \in {"tool", "transform", "each"}
BY PipelineAssumption

\* Keys name what they are for.
LEMMA KeysName ==
  /\ \A i, s : Step(i) = Step(s) => i = s
  /\ \A i, s : Collect(i) = Collect(s) => i = s
  /\ \A i, s : \A x, y \in Items : Item(i, x) = Item(s, y) => i = s /\ x = y
  /\ \A i, s : \A x, y \in Items : \A j, k :
       Sub(i, x, j) = Sub(s, y, k) => i = s /\ x = y /\ j = k
  /\ \A i, s : Step(i) # Collect(s)
  /\ \A i, s : \A y \in Items : Item(s, y) # Step(i) /\ Item(s, y) # Collect(i)
  /\ \A i, s : \A y \in Items : \A k : Sub(s, y, k) # Step(i) /\ Sub(s, y, k) # Collect(i)
  /\ \A i, s : \A x, y \in Items : \A k : Item(i, x) # Sub(s, y, k)
<1>1. /\ \A i : Len(Step(i)) = 1 /\ Step(i)[1] = i
      /\ \A i : Len(Collect(i)) = 2 /\ Collect(i)[1] = i /\ Collect(i)[2] = "collect"
  BY DEF Step, Collect
<1>2. \A i, x : Len(Item(i, x)) = 2 /\ Item(i, x)[1] = i /\ Item(i, x)[2] = x
  BY DEF Item
<1>3. \A i, x, j : /\ Len(Sub(i, x, j)) = 3
                   /\ Sub(i, x, j)[1] = i /\ Sub(i, x, j)[2] = x /\ Sub(i, x, j)[3] = j
  BY DEF Sub
<1>4. "collect" \notin Items
  BY PipelineAssumption
<1> HIDE DEF Step, Item, Sub, Collect
<1>5. \A i, s : /\ Step(i) = Step(s) => i = s
                /\ Collect(i) = Collect(s) => i = s
                /\ Step(i) # Collect(s)
  BY <1>1
<1>6. ASSUME NEW i, NEW s, NEW x \in Items, NEW y \in Items, Item(i, x) = Item(s, y)
      PROVE  i = s /\ x = y
  <2>1. /\ Item(i, x)[1] = i /\ Item(i, x)[2] = x
        /\ Item(s, y)[1] = s /\ Item(s, y)[2] = y
    BY <1>2
  <2> QED
    BY <1>6, <2>1
<1>7. ASSUME NEW i, NEW s, NEW x \in Items, NEW y \in Items, NEW j, NEW k,
             Sub(i, x, j) = Sub(s, y, k)
      PROVE  i = s /\ x = y /\ j = k
  <2>1. /\ Sub(i, x, j)[1] = i /\ Sub(i, x, j)[2] = x /\ Sub(i, x, j)[3] = j
        /\ Sub(s, y, k)[1] = s /\ Sub(s, y, k)[2] = y /\ Sub(s, y, k)[3] = k
    BY <1>3
  <2> QED
    BY <1>7, <2>1
<1>8. \A i, s : \A y \in Items : Item(s, y) # Step(i) /\ Item(s, y) # Collect(i)
  BY <1>1, <1>2, <1>4
<1>9. \A i, s : \A y \in Items : \A k : Sub(s, y, k) # Step(i) /\ Sub(s, y, k) # Collect(i)
  BY <1>1, <1>3
<1>10. \A i, s : \A x, y \in Items : \A k : Item(i, x) # Sub(s, y, k)
  BY <1>2, <1>3
<1> QED
  BY <1>5, <1>6, <1>7, <1>8, <1>9, <1>10, Zenon

LEMMA EffectsAre ==
  ASSUME NEW i \in DOMAIN Plan
  PROVE  /\ EffectsOf(i) \subseteq Effects
         /\ Plan[i] = "tool" => EffectsOf(i) = {Step(i)}
         /\ Plan[i] = "transform" => EffectsOf(i) = {}
         /\ Plan[i] = "each" =>
              /\ \A x \in Items : EffectsOfItem(i, x) \subseteq EffectsOf(i)
              /\ \A e \in EffectsOf(i) : \E x \in Items : e \in EffectsOfItem(i, x)
              /\ \A x \in Items, j \in 1..Inner : Inner # 0 /\ Sub(i, x, j) \in Effects
<1>1. EffectsOf(i) \subseteq Effects
  BY DEF Effects
<1>2. Plan[i] = "tool" => EffectsOf(i) = {Step(i)}
  BY DEF EffectsOf
<1>3. Plan[i] = "transform" => EffectsOf(i) = {}
  BY DEF EffectsOf
<1>4. ASSUME Plan[i] = "each"
      PROVE  /\ \A x \in Items : EffectsOfItem(i, x) \subseteq EffectsOf(i)
             /\ \A e \in EffectsOf(i) : \E x \in Items : e \in EffectsOfItem(i, x)
  <2>1. EffectsOf(i) = UNION {EffectsOfItem(i, x) : x \in Items}
    BY <1>4 DEF EffectsOf
  <2> QED
    BY <2>1, Zenon
<1>5. ASSUME Plan[i] = "each", NEW x \in Items, NEW j \in 1..Inner
      PROVE  Inner # 0 /\ Sub(i, x, j) \in Effects
  <2>1. Inner # 0
    BY PipelineAssumption
  <2>2. Sub(i, x, j) \in EffectsOfItem(i, x)
    BY <2>1 DEF EffectsOfItem
  <2> QED
    BY <1>1, <1>4, <1>5, <2>1, <2>2
<1> QED
  BY <1>1, <1>2, <1>3, <1>4, <1>5

\* More effects and more dropped items leave what was done done.
LEMMA HonestGrows ==
  ASSUME NEW f, NEW f2, NEW d, NEW d2, d \subseteq d2,
         \A e \in Effects : f[e] > 0 => f2[e] > 0
  PROVE  /\ \A i \in DOMAIN Plan : StepDone(f, d, i) => StepDone(f2, d2, i)
         /\ \A keys : Honest(f, d, keys) => Honest(f2, d2, keys)
         /\ \A g : Good(f, d, g) => Good(f2, d2, g)
<1>1. \A i \in DOMAIN Plan : StepDone(f, d, i) => StepDone(f2, d2, i)
  BY EffectsAre DEF StepDone, SkippedIn
<1>2. ASSUME NEW i \in DOMAIN Plan, Plan[i] = "each", NEW x \in Items, ItemDone(f, d, i, x)
      PROVE  ItemDone(f2, d2, i, x)
  <2>1. EffectsOfItem(i, x) \subseteq Effects
    BY <1>2, EffectsAre
  <2> QED
    BY <1>2, <2>1 DEF ItemDone
<1>3. ASSUME NEW keys, Honest(f, d, keys) PROVE Honest(f2, d2, keys)
  <2> SUFFICES ASSUME NEW i \in DOMAIN Plan, Plan[i] = "each", NEW x \in Items, NEW j \in 1..Inner,
                      Sub(i, x, j) \in keys
               PROVE  f2[Sub(i, x, j)] > 0
    BY <1>1, <1>2, <1>3, Zenon DEF Honest
  <2>1. Sub(i, x, j) \in Effects
    BY EffectsAre
  <2>2. f[Sub(i, x, j)] > 0
    BY <1>3, Zenon DEF Honest
  <2> QED
    BY <2>1, <2>2, Zenon
<1> QED
  BY <1>1, <1>3, Zenon DEF Good

LEMMA HonestWith ==
  ASSUME NEW f, NEW d, NEW keys, Honest(f, d, keys), NEW key,
         \A i \in DOMAIN Plan :
           /\ key = Step(i) \/ key = Collect(i) => StepDone(f, d, i)
           /\ \A x \in Items :
                /\ key = Item(i, x) => ItemDone(f, d, i, x)
                /\ \A j \in 1..Inner : key = Sub(i, x, j) => f[Sub(i, x, j)] > 0
  PROVE  Honest(f, d, keys \cup {key})
<1> SUFFICES ASSUME NEW i \in DOMAIN Plan
             PROVE  /\ Step(i) \in keys \cup {key} => StepDone(f, d, i)
                    /\ Plan[i] = "each" =>
                         /\ Collect(i) \in keys \cup {key} => StepDone(f, d, i)
                         /\ \A x \in Items :
                              /\ Item(i, x) \in keys \cup {key} => ItemDone(f, d, i, x)
                              /\ \A j \in 1..Inner : Sub(i, x, j) \in keys \cup {key}
                                                       => f[Sub(i, x, j)] > 0
  BY DEF Honest
<1>1. Step(i) \in keys \cup {key} => StepDone(f, d, i)
  BY Zenon DEF Honest
<1>2. ASSUME Plan[i] = "each", Collect(i) \in keys \cup {key} PROVE StepDone(f, d, i)
  BY <1>2, Zenon DEF Honest
<1>3. ASSUME Plan[i] = "each", NEW x \in Items, Item(i, x) \in keys \cup {key}
      PROVE  ItemDone(f, d, i, x)
  BY <1>3, Zenon DEF Honest
<1>4. ASSUME Plan[i] = "each", NEW x \in Items, NEW j \in 1..Inner, Sub(i, x, j) \in keys \cup {key}
      PROVE  f[Sub(i, x, j)] > 0
  BY <1>4, Zenon DEF Honest
<1> QED
  BY <1>1, <1>2, <1>3, <1>4

\* One more key, for what was done.
LEMMA HonestAdds ==
  ASSUME NEW f, NEW d, NEW keys, Honest(f, d, keys), NEW s
  PROVE  /\ StepDone(f, d, s) => Honest(f, d, keys \cup {Step(s)})
         /\ StepDone(f, d, s) => Honest(f, d, keys \cup {Collect(s)})
         /\ \A x \in Items : ItemDone(f, d, s, x) => Honest(f, d, keys \cup {Item(s, x)})
         /\ \A x \in Items, j \in 1..Inner :
              f[Sub(s, x, j)] > 0 => Honest(f, d, keys \cup {Sub(s, x, j)})
<1> HIDE DEF Step, Item, Sub, Collect, StepDone, ItemDone, Honest
<1>1. ASSUME StepDone(f, d, s) PROVE Honest(f, d, keys \cup {Step(s)})
  <2>1. \A i : /\ Step(s) = Step(i) => i = s
               /\ Step(s) # Collect(i)
               /\ \A x \in Items : \A j : Step(s) # Item(i, x) /\ Step(s) # Sub(i, x, j)
    BY KeysName
  <2> QED
    BY <1>1, <2>1, HonestWith
<1>2. ASSUME StepDone(f, d, s) PROVE Honest(f, d, keys \cup {Collect(s)})
  <2>1. \A i : /\ Collect(s) = Collect(i) => i = s
               /\ Collect(s) # Step(i)
               /\ \A x \in Items : \A j : Collect(s) # Item(i, x) /\ Collect(s) # Sub(i, x, j)
    BY KeysName
  <2> QED
    BY <1>2, <2>1, HonestWith
<1>3. ASSUME NEW x \in Items, ItemDone(f, d, s, x) PROVE Honest(f, d, keys \cup {Item(s, x)})
  <2>1. \A i : /\ Item(s, x) # Step(i) /\ Item(s, x) # Collect(i)
               /\ \A y \in Items : \A j : /\ Item(s, x) = Item(i, y) => i = s /\ y = x
                                      /\ Item(s, x) # Sub(i, y, j)
    BY KeysName
  <2> DEFINE key == Item(s, x)
  <2>2. \A i \in DOMAIN Plan :
          /\ key = Step(i) \/ key = Collect(i) => StepDone(f, d, i)
          /\ \A y \in Items :
               /\ key = Item(i, y) => ItemDone(f, d, i, y)
               /\ \A j \in 1..Inner : key = Sub(i, y, j) => f[Sub(i, y, j)] > 0
    BY <1>3, <2>1
  <2> HIDE DEF key
  <2>3. Honest(f, d, keys \cup {key})
    BY <2>2, HonestWith
  <2> QED
    BY <2>3 DEF key
<1>4. ASSUME NEW x \in Items, NEW j \in 1..Inner, f[Sub(s, x, j)] > 0
      PROVE  Honest(f, d, keys \cup {Sub(s, x, j)})
  <2>1. \A i : /\ Sub(s, x, j) # Step(i) /\ Sub(s, x, j) # Collect(i)
               /\ \A y \in Items : \A k : /\ Sub(s, x, j) = Sub(i, y, k) => i = s /\ y = x /\ k = j
                                      /\ Sub(s, x, j) # Item(i, y)
    BY KeysName
  <2> QED
    BY <1>4, <2>1, HonestWith
<1> QED
  BY <1>1, <1>2, <1>3, <1>4

----------------------------------------------------------------------------
(* What an item of a for_each does next.                                    *)

LEMMA UpcomingIs ==
  ASSUME NEW x \in Items
  PROVE  /\ Inner = 0 => Upcoming(x) = {Item(step, x)} /\ EffectsOfItem(step, x) = Upcoming(x)
         /\ Inner # 0 => \A e \in Upcoming(x) : \E j \in 1..Inner :
                           e = Sub(step, x, j) /\ j \in Left(x) /\ Upcoming(x) = {e}
         /\ Upcoming(x) = {} => Inner # 0 /\ Left(x) = {}
<1>1. Inner = 0 => Upcoming(x) = {Item(step, x)} /\ EffectsOfItem(step, x) = Upcoming(x)
  BY DEF Upcoming, EffectsOfItem
<1>2. Left(x) \in SUBSET Nat /\ Left(x) \subseteq 1..Inner
  BY PipelineAssumption DEF Left
<1>3. ASSUME Inner # 0, NEW e \in Upcoming(x)
      PROVE  \E j \in 1..Inner : e = Sub(step, x, j) /\ j \in Left(x) /\ Upcoming(x) = {e}
  <2> DEFINE least == {i \in Left(x) : \A k \in Left(x) : i <= k}
  <2>1. Upcoming(x) = {Sub(step, x, j) : j \in least}
    BY <1>3 DEF Upcoming
  <2>2. PICK j \in least : e = Sub(step, x, j)
    BY <1>3, <2>1
  <2>3. \A k \in least : k = j
    BY <1>2
  <2> QED
    BY <1>2, <2>1, <2>2, <2>3
<1>4. ASSUME Upcoming(x) = {} PROVE Inner # 0 /\ Left(x) = {}
  <2>1. Inner # 0
    BY <1>1, <1>4
  <2> SUFFICES ASSUME Left(x) # {} PROVE FALSE
    BY <2>1
  <2>2. PICK i \in Left(x) : \A k \in Left(x) : <<k, i>> \notin OpToRel(<, Nat)
    BY <1>2, WFMin, NatLessThanWellFounded, Zenon
  <2>a. Left(x) \subseteq Nat
    BY <1>2
  <2>b. \A k \in Left(x) : ~(k < i)
    BY <2>a, <2>2 DEF OpToRel
  <2>3. \A k \in Left(x) : i <= k
    BY <2>a, <2>b
  <2>4. Sub(step, x, i) \in Upcoming(x)
    BY <2>1, <2>3 DEF Upcoming
  <2> QED
    BY <1>4, <2>4
<1> QED
  BY <1>1, <1>3, <1>4

----------------------------------------------------------------------------
(* The invariant.                                                           *)

GensHonest == Good(fired, dropped, gen) /\ AllGood(fired, dropped, queue)

BoxHonest ==
  InRun => /\ Honest(fired, dropped, box) /\ Complete(step - 1, box)
           /\ phase = "recording" => Step(step) \in box

AtPlan ==
  /\ phase \in {"calling", "returned"} => step \in DOMAIN Plan /\ Plan[step] = "tool"
  /\ phase = "returned" => fired[Step(step)] > 0
  /\ phase = "each" => step \in DOMAIN Plan /\ Plan[step] = "each"

\* An item that acted, returned or has its key did what it was for.
ItemHonest(x) ==
  /\ at[x] = "acted" => \A e \in Upcoming(x) : fired[e] > 0
  /\ at[x] = "good" => \A e \in EffectsOfItem(step, x) : fired[e] > 0
  /\ at[x] \in {"saving", "settled"} => Item(step, x) \in box

ItemsHonest == phase = "each" => \A x \in Items : ItemHonest(x)

FinishedOnce ==
  /\ \A k \in 1..Len(finished) : at[finished[k]] \in {"good", "bad"}
  /\ \A k, l \in 1..Len(finished) : finished[k] = finished[l] => k = l

OkIsEarned ==
  (InEnd /\ verdict = "ok") \/ marker.status = "ok" =>
    \A i \in DOMAIN Plan : StepDone(fired, dropped, i)

HonestInv ==
  GensHonest /\ BoxHonest /\ AtPlan /\ ItemsHonest /\ FinishedOnce /\ OkIsEarned

LEMMA RecordStep == RecordInv /\ [Next]_vars => RecordInv'
  BY FateStep, TypesKept, DiskKept, NothingQueuedKept, BoxKept, ItemsKept DEF RecordInv

\* Every step of the actions by what it does to what was had and dropped.
LEMMA HadGrows ==
  ASSUME RecordInv, [Next]_vars
  PROVE  \A e \in Effects : fired[e] > 0 => fired'[e] > 0
<1>0. fired \in [Effects -> Nat]
  BY DEF RecordInv
<1>1. ASSUME NEW g, Had(g) PROVE \A e \in Effects : fired[e] > 0 => fired'[e] > 0
  BY <1>0, <1>1 DEF Had
<1> QED
  BY <1>1, WhoFires

LEMMA WhoDrops ==
  ASSUME Next
  PROVE  dropped' = dropped \/ (Save /\ dropped \subseteq dropped')
<1>1. CASE Land \/ IgnoreNudge \/ GiveUp \/ StartRun \/ Deliver \/ Wake \/ Crash
  BY <1>1 DEF Land, IgnoreNudge, GiveUp, StartRun, Take, Deliver, Wake, Crash
<1>2. CASE QuietStep
  BY <1>2 DEF QuietStep, StopAtBoundary, AllDone, Abort, StepFails, Finish,
       CallTool, ToolActs, StepRecorded, StartEach, SettleRaises, NoDelivery, WriteMarker,
       Scan, ToolRaises, RequestCancel, Interrupt
<1>3. CASE EndingStep
  BY <1>3 DEF EndingStep, Transform, ToolEnds, ReplayEach, EndEach
<1>4. ASSUME NEW x \in Items, QuietItemStep(x) \/ Record(x) PROVE dropped' = dropped
  BY <1>4 DEF QuietItemStep, ItemActs, ItemFails, StartItem, Record, Recorded, ItemReturns, Saved
<1>5. CASE Save
  BY <1>5 DEF Save
<1> QED
  BY <1>1, <1>2, <1>3, <1>4, <1>5, KindsOfSteps

LEMMA MoreIsDone ==
  ASSUME RecordInv, [Next]_vars
  PROVE  /\ \A i \in DOMAIN Plan : StepDone(fired, dropped, i) => StepDone(fired', dropped', i)
         /\ \A keys : Honest(fired, dropped, keys) => Honest(fired', dropped', keys)
         /\ \A g : Good(fired, dropped, g) => Good(fired', dropped', g)
<1>1. dropped \subseteq dropped'
  BY WhoDrops
<1>2. \A e \in Effects : fired[e] > 0 => fired'[e] > 0
  BY HadGrows
<1> QED
  BY <1>1, <1>2, HonestGrows

LEMMA AllGoodAppends ==
  ASSUME NEW f, NEW d, NEW q \in Seq(Jobs), AllGood(f, d, q), NEW j \in Jobs,
         j.job = "gen" => Good(f, d, j.gen)
  PROVE  AllGood(f, d, Append(q, j)) /\ Append(q, j) \in Seq(Jobs)
<1>1. /\ Append(q, j) \in Seq(Jobs) /\ Len(Append(q, j)) = Len(q) + 1 /\ Len(q) \in Nat
      /\ \A k \in 1..Len(q) : Append(q, j)[k] = q[k]
      /\ Append(q, j)[Len(q) + 1] = j
  OBVIOUS
<1> QED
  BY <1>1 DEF AllGood

LEMMA AllGoodTail ==
  ASSUME NEW f, NEW d, NEW q \in Seq(Jobs), AllGood(f, d, q), q # <<>>
  PROVE  /\ AllGood(f, d, Tail(q)) /\ Tail(q) \in Seq(Jobs)
         /\ Head(q).job = "gen" => Good(f, d, Head(q).gen)
<1>1. /\ Len(q) \in Nat \ {0} /\ 1 \in 1..Len(q) /\ Head(q) = q[1]
      /\ Tail(q) \in Seq(Jobs) /\ Len(Tail(q)) = Len(q) - 1
      /\ \A k \in 1..Len(Tail(q)) : k + 1 \in 1..Len(q) /\ Tail(q)[k] = q[k + 1]
  OBVIOUS
<1> QED
  BY <1>1 DEF AllGood

----------------------------------------------------------------------------
(* The steps that write.                                                    *)

\* What is appended to the queue and what the executor holds after it are honest.
WritesHonestly ==
  /\ Honest(fired', dropped', box') /\ AllGood(fired', dropped', queue')

LEMMA EndStepHonest ==
  ASSUME RecordInv, HonestInv, [Next]_vars, step \in DOMAIN Plan, InRun,
         NEW keys \in SUBSET AnyKeys, box \subseteq keys, Honest(fired, dropped, keys),
         StepDone(fired, dropped, step),
         NEW before, before = <<>> \/ before = <<Write(step - 1, keys, "nobody")>>,
         NEW durable \in BOOLEAN, EndStep(before, keys, durable)
  PROVE  WritesHonestly /\ Complete(step, box') /\ Step(step) \in box'
<1> DEFINE done == keys \cup {Step(step)}
           by   == IF durable THEN "step" ELSE "nobody"
           last == Write(step, done, by)
           first == Write(step - 1, keys, "nobody")
<1>1. step \in Nat \ {0} /\ step - 1 \in Nat /\ by \in Items \cup {"step", "nobody"}
  BY DEF RecordInv, BoxIsAtStep
<1>2. done \in SUBSET AnyKeys
  BY <1>1 DEF AnyKeys
<1>3. box' = done /\ queue' = queue \o before \o <<last>>
  BY DEF EndStep
<1>4. queue \in Seq(Jobs)
  BY DEF RecordInv, DiskIsBehind, Ordered
<1>5. Honest(fired, dropped, done)
  BY HonestAdds
<1>6. Complete(step - 1, keys) /\ Complete(step, done)
  <2>1. Complete(step - 1, box)
    BY DEF HonestInv, BoxHonest
  <2>2. Complete(step - 1, keys)
    BY <2>1 DEF Complete
  <2>3. ASSUME NEW i \in DOMAIN Plan, i <= step PROVE Step(i) \in done
    BY <1>1, <2>2, <2>3, PlanType DEF Complete
  <2> QED
    BY <2>2, <2>3 DEF Complete
<1>7. /\ last \in Jobs /\ Good(fired, dropped, last.gen)
      /\ first \in Jobs /\ Good(fired, dropped, first.gen)
  <2>1. last \in Jobs /\ last.gen.done = done /\ last.gen.step = step
    BY <1>1, <1>2, GenerationJobs
  <2>2. first \in Jobs /\ first.gen.done = keys /\ first.gen.step = step - 1
    BY <1>1, GenerationJobs
  <2> HIDE DEF last, first, done
  <2> QED
    BY <1>5, <1>6, <2>1, <2>2 DEF Good
<1> HIDE DEF last, first, done
<1>8. AllGood(fired, dropped, queue) /\ queue \in Seq(Jobs)
  BY <1>4 DEF HonestInv, GensHonest
<1>9. AllGood(fired, dropped, queue')
  <2>1. CASE before = <<>>
    <3>1. queue' = Append(queue, last)
      BY <1>3, <1>4, <1>7, <2>1
    <3> QED
      BY <1>7, <1>8, <3>1, AllGoodAppends
  <2>2. CASE before = <<first>>
    <3>1. queue' = Append(Append(queue, first), last)
      BY <1>3, <1>4, <1>7, <2>2
    <3>2. AllGood(fired, dropped, Append(queue, first)) /\ Append(queue, first) \in Seq(Jobs)
      BY <1>7, <1>8, AllGoodAppends
    <3> QED
      BY <1>7, <3>1, <3>2, AllGoodAppends
  <2> QED
    BY <2>1, <2>2 DEF first
<1>10. AllGood(fired', dropped', queue') /\ Honest(fired', dropped', box')
  BY <1>3, <1>5, <1>9, MoreIsDone, Zenon DEF AllGood
<1> QED
  BY <1>3, <1>6, <1>10 DEF WritesHonestly, done

LEMMA EndingHonest ==
  ASSUME RecordInv, HonestInv, [Next]_vars, EndingStep
  PROVE  WritesHonestly /\ Complete(step, box') /\ Step(step) \in box'
<1>1. /\ step \in DOMAIN Plan /\ InRun /\ box \in SUBSET AnyKeys
      /\ Honest(fired, dropped, box)
  <2>1. InRun
    BY DEF InRun, EndingStep, Transform, ToolEnds, ReplayEach, EndEach, AtStep
  <2>2. step \in DOMAIN Plan
    <3>1. step \in Nat \ {0} /\ AtPlan
      BY DEF RecordInv, BoxIsAtStep, HonestInv
    <3>2. CASE step <= Len(Plan)
      BY <3>1, <3>2, PlanType
    <3>3. CASE phase \in {"returned", "each"}
      BY <3>1, <3>3 DEF AtPlan
    <3>4. step <= Len(Plan) \/ phase \in {"returned", "each"}
      BY DEF EndingStep, Transform, ToolEnds, ReplayEach, EndEach, AtStep
    <3> QED
      BY <3>2, <3>3, <3>4
  <2> QED
    BY <2>1, <2>2 DEF RecordInv, BoxIsAtStep, HonestInv, BoxHonest
<1>2. ASSUME StepDone(fired, dropped, step), NEW durable \in BOOLEAN, EndStep(<<>>, box, durable)
      PROVE  WritesHonestly /\ Complete(step, box') /\ Step(step) \in box'
  BY <1>1, <1>2, EndStepHonest
<1>3. CASE Transform
  <2>1. Plan[step] = "transform" /\ EndStep(<<>>, box, FALSE)
    BY <1>3 DEF Transform, AtStep
  <2>2. StepDone(fired, dropped, step)
    BY <1>1, <2>1, EffectsAre DEF StepDone
  <2> QED
    BY <1>2, <2>1, <2>2
<1>4. CASE ToolEnds
  <2>1. phase = "returned" /\ EndStep(<<>>, box, TRUE)
    BY <1>4 DEF ToolEnds
  <2>2. Plan[step] = "tool" /\ fired[Step(step)] > 0
    BY <2>1 DEF HonestInv, AtPlan
  <2>3. StepDone(fired, dropped, step)
    BY <1>1, <2>2, EffectsAre DEF StepDone
  <2> QED
    BY <1>2, <2>1, <2>3
<1>5. CASE ReplayEach
  <2>1. Plan[step] = "each" /\ Collect(step) \in box /\ EndStep(<<>>, box, FALSE)
    BY <1>5 DEF ReplayEach, AtStep
  <2>2. StepDone(fired, dropped, step)
    BY <1>1, <2>1, Zenon DEF Honest
  <2> QED
    BY <1>2, <2>1, <2>2
<1>6. CASE EndEach
  <2> DEFINE keys == box \cup {Collect(step)}
             before == <<Write(step - 1, keys, "nobody")>>
  <2>1. EndStep(before, keys, worked # {}) /\ (worked # {}) \in BOOLEAN
        /\ phase = "each" /\ \A x \in Items : at[x] = "settled"
    BY <1>6 DEF EndEach, AllSettled
  <2>2. Plan[step] = "each" /\ \A x \in Items : Item(step, x) \in box
    BY <2>1 DEF HonestInv, AtPlan, ItemsHonest, ItemHonest
  <2>3. \A x \in Items : ItemDone(fired, dropped, step, x)
    BY <1>1, <2>2, Zenon DEF Honest
  <2>4. StepDone(fired, dropped, step)
    BY <1>1, <2>2, <2>3, EffectsAre DEF StepDone, ItemDone, SkippedIn
  <2>5. keys \in SUBSET AnyKeys /\ box \subseteq keys
    <3>1. Collect(step) \in AnyKeys
      BY <1>1, PlanType DEF AnyKeys
    <3> QED
      BY <1>1, <3>1
  <2>6. Honest(fired, dropped, keys)
    BY <1>1, <2>4, HonestAdds
  <2> HIDE DEF keys
  <2> QED
    BY <1>1, <2>1, <2>4, <2>5, <2>6, EndStepHonest
<1> QED
  BY <1>3, <1>4, <1>5, <1>6 DEF EndingStep

\* A write in the middle of a for_each.
LEMMA ItemWriteHonest ==
  ASSUME RecordInv, HonestInv, [Next]_vars, phase = "each",
         NEW key \in AnyKeys, box' = box \cup {key}, Honest(fired', dropped', box'),
         NEW by \in Items \cup {"step", "nobody"}, queue' = Append(queue, Write(step - 1, box', by))
  PROVE  WritesHonestly /\ Complete(step - 1, box')
<1>1. /\ step \in Nat \ {0} /\ step - 1 \in Nat /\ box' \in SUBSET AnyKeys
      /\ queue \in Seq(Jobs) /\ AllGood(fired, dropped, queue) /\ Complete(step - 1, box)
  BY DEF RecordInv, BoxIsAtStep, DiskIsBehind, Ordered, HonestInv, GensHonest, BoxHonest, InRun
<1>2. Complete(step - 1, box')
  BY <1>1 DEF Complete
<1> DEFINE w == Write(step - 1, box', by)
<1>3. w \in Jobs /\ Good(fired', dropped', w.gen)
  <2>1. w \in Jobs /\ w.gen.done = box' /\ w.gen.step = step - 1
    BY <1>1, GenerationJobs
  <2> HIDE DEF w
  <2> QED
    BY <1>2, <2>1 DEF Good
<1>4. queue' = Append(queue, w)
  OBVIOUS
<1> HIDE DEF w
<1>5. AllGood(fired', dropped', queue)
  BY <1>1, MoreIsDone, Zenon DEF AllGood
<1>6. AllGood(fired', dropped', queue')
  BY <1>1, <1>3, <1>4, <1>5, AllGoodAppends
<1> QED
  BY <1>2, <1>6 DEF WritesHonestly

LEMMA RecordHonest ==
  ASSUME RecordInv, HonestInv, [Next]_vars, NEW x \in Items, Record(x)
  PROVE  WritesHonestly /\ Complete(step - 1, box')
<1>1. /\ at[x] = "acted" /\ phase = "each" /\ Inner # 0 /\ step \in Nat
      /\ fired' = fired /\ dropped' = dropped /\ Honest(fired, dropped, box)
  BY DEF RecordInv, ItemsUnkept, BoxIsAtStep, HonestInv, BoxHonest, InRun, Record
<1>2. PICK e \in Upcoming(x) :
        box' = box \cup {e} /\ queue' = Append(queue, Write(step - 1, box', x))
  BY DEF Record, Merged
<1>3. PICK j \in 1..Inner : e = Sub(step, x, j)
  BY <1>1, UpcomingIs
<1>4. fired[Sub(step, x, j)] > 0
  BY <1>1, <1>3 DEF HonestInv, ItemsHonest, ItemHonest
<1>5. e \in AnyKeys
  BY <1>1, <1>3, PipelineAssumption DEF AnyKeys
<1>6. Honest(fired', dropped', box')
  BY <1>1, <1>2, <1>3, <1>4, HonestAdds
<1> QED
  BY <1>1, <1>2, <1>5, <1>6, ItemWriteHonest

LEMMA SaveHonest ==
  ASSUME RecordInv, HonestInv, [Next]_vars, Save
  PROVE  WritesHonestly /\ Complete(step - 1, box')
<1>1. /\ phase = "each" /\ step \in Nat /\ fired' = fired /\ First \in Items
      /\ Honest(fired, dropped, box) /\ at[First] \in {"good", "bad"}
  <2>1. finished \in Seq(Items) /\ finished # <<>>
    BY DEF RecordInv, Save
  <2>2. First = finished[1] /\ 1 \in 1..Len(finished) /\ First \in Items
    BY <2>1 DEF First
  <2>3. at[First] \in {"good", "bad"}
    BY <2>2, Zenon DEF HonestInv, FinishedOnce
  <2> QED
    BY <2>2, <2>3 DEF RecordInv, BoxIsAtStep, HonestInv, BoxHonest, InRun, Save
<1>2. PICK by \in Items \cup {"step", "nobody"} :
        queue' = Append(queue, Write(step - 1, box', by)) /\ box' = box \cup {Item(step, First)}
  BY <1>1 DEF Save
<1>3. Item(step, First) \in AnyKeys
  BY <1>1 DEF AnyKeys
<1>4. ItemDone(fired', dropped', step, First)
  <2>1. CASE at[First] = "good"
    BY <1>1, <2>1 DEF HonestInv, ItemsHonest, ItemHonest, ItemDone
  <2>2. CASE at[First] = "bad"
    BY <2>2 DEF Save, ItemDone
  <2> QED
    BY <1>1, <2>1, <2>2
<1>5. Honest(fired', dropped', box)
  BY <1>1, MoreIsDone
<1>6. Honest(fired', dropped', box')
  BY <1>1, <1>2, <1>4, <1>5, HonestAdds
<1> QED
  BY <1>1, <1>2, <1>3, <1>6, ItemWriteHonest

----------------------------------------------------------------------------
(* Every step keeps it honest.                                              *)

LEMMA GensHonestStep == RecordInv /\ HonestInv /\ [Next]_vars => GensHonest'
<1> SUFFICES ASSUME RecordInv, HonestInv, [Next]_vars PROVE GensHonest'
  OBVIOUS
<1>0. /\ queue \in Seq(Jobs) /\ AllGood(fired, dropped, queue) /\ Good(fired, dropped, gen)
  BY DEF RecordInv, DiskIsBehind, Ordered, HonestInv, GensHonest
<1>1. ASSUME AllGood(fired, dropped, queue'), Good(fired, dropped, gen') PROVE GensHonest'
  BY <1>1, MoreIsDone, Zenon DEF GensHonest, AllGood
<1>2. CASE Land
  <2>1. /\ queue # <<>> /\ queue' = Tail(queue)
        /\ gen' = IF Head(queue).job = "gen" THEN Head(queue).gen ELSE gen
    BY <1>2 DEF Land
  <2>2. /\ AllGood(fired, dropped, Tail(queue))
        /\ Head(queue).job = "gen" => Good(fired, dropped, Head(queue).gen)
    BY <1>0, <2>1, AllGoodTail
  <2> QED
    BY <1>0, <1>1, <2>1, <2>2
<1>3. CASE IgnoreNudge \/ GiveUp \/ StartRun \/ Deliver \/ Wake
  <2>1. gen' = gen /\ (queue' = queue \/ \E j \in {"put", "take", "reply"} : queue' = Append(queue, Simple(j)))
    BY <1>3 DEF IgnoreNudge, GiveUp, StartRun, Take, Deliver, Wake
  <2>2. AllGood(fired, dropped, queue')
    BY <1>0, <2>1, SimpleJobs, AllGoodAppends
  <2> QED
    BY <1>0, <1>1, <2>1, <2>2
<1>4. CASE Crash
  <2>1. gen' = gen /\ queue' = <<>>
    BY <1>4 DEF Crash
  <2>2. AllGood(fired, dropped, queue')
    BY <2>1 DEF AllGood
  <2> QED
    BY <1>0, <1>1, <2>1, <2>2
<1>5. CASE UNCHANGED <<queue, gen>>
  BY <1>0, <1>1, <1>5
<1>6. CASE EndingStep \/ Save \/ \E x \in Items : Record(x)
  <2>1. gen' = gen
    BY <1>6 DEF EndingStep, Transform, ToolEnds, ReplayEach, EndEach, Save, Record
  <2>2. AllGood(fired', dropped', queue')
    BY <1>6, EndingHonest, SaveHonest, RecordHonest DEF WritesHonestly
  <2>3. Good(fired', dropped', gen)
    BY <1>0, MoreIsDone
  <2> QED
    BY <2>1, <2>2, <2>3 DEF GensHonest
<1> QED
  BY <1>2, <1>3, <1>4, <1>5, <1>6, KindsOfSteps, QuietFrame, QuietItemFrame

LEMMA BoxHonestStep == RecordInv /\ HonestInv /\ [Next]_vars => BoxHonest'
<1> SUFFICES ASSUME RecordInv, HonestInv, [Next]_vars, InRun'
             PROVE  /\ Honest(fired', dropped', box') /\ Complete(step' - 1, box')
                    /\ phase' = "recording" => Step(step') \in box'
  BY DEF BoxHonest
<1>0. /\ InRun => /\ Honest(fired, dropped, box) /\ Complete(step - 1, box)
                  /\ phase = "recording" => Step(step) \in box
      /\ Honest(fired, dropped, box) => Honest(fired', dropped', box)
      /\ step \in Nat \ {0}
  BY MoreIsDone DEF HonestInv, BoxHonest, RecordInv, BoxIsAtStep
<1>1. CASE Land \/ RequestCancel
  <2>1. UNCHANGED <<phase, step, box>>
    BY <1>1 DEF Land, RequestCancel
  <2>2. InRun
    BY <2>1 DEF InRun
  <2> QED
    BY <1>0, <2>1, <2>2
<1>2. CASE StartRun
  <2>1. step' = gen.step + 1 /\ box' = gen.done /\ phase' = "boundary"
    BY <1>2 DEF StartRun
  <2>2. Good(fired, dropped, gen) /\ gen.step \in Nat
    BY DEF HonestInv, GensHonest, RecordInv, DiskIsBehind, Generations
  <2>3. Good(fired', dropped', gen)
    BY <2>2, MoreIsDone
  <2>4. step' - 1 = gen.step
    BY <2>1, <2>2
  <2> QED
    BY <2>1, <2>3, <2>4 DEF Good
<1>3. CASE IgnoreNudge \/ GiveUp \/ Deliver \/ Wake \/ Crash
  BY <1>3 DEF IgnoreNudge, GiveUp, Take, Deliver, Wake, Crash, InRun
<1>4. CASE StopAtBoundary \/ AllDone \/ Abort \/ StepFails \/ SettleRaises \/ NoDelivery(FALSE)
           \/ NoDelivery(TRUE) \/ WriteMarker \/ Scan \/ ToolRaises \/ Interrupt
  BY <1>4 DEF StopAtBoundary, AllDone, Abort, StepFails, Finish, SettleRaises, NoDelivery,
       WriteMarker, Scan, ToolRaises, Interrupt, InRun
<1>5. CASE CallTool \/ ToolActs \/ StartEach
  <2>1. UNCHANGED <<step, box>> /\ InRun /\ phase' # "recording"
    BY <1>5 DEF CallTool, ToolActs, StartEach, AtStep, InRun
  <2> QED
    BY <1>0, <2>1
<1>6. CASE StepRecorded
  <2>1. box' = box /\ phase = "recording" /\ InRun /\ phase' = "boundary" /\ step' = step + 1
    BY <1>6 DEF StepRecorded, InRun
  <2>2. Complete(step, box)
    BY <1>0, <2>1, PlanType DEF Complete
  <2>3. step' - 1 = step
    BY <1>0, <2>1
  <2>4. Honest(fired, dropped, box)
    BY <1>0, <2>1
  <2>5. Honest(fired', dropped', box)
    BY <2>4, MoreIsDone, Zenon
  <2>6. Honest(fired', dropped', box') /\ Complete(step' - 1, box')
    BY <2>1, <2>2, <2>3, <2>5, Zenon
  <2>7. phase' # "recording"
    BY <2>1
  <2> QED
    BY <2>6, <2>7, Zenon
<1>7. CASE EndingStep
  <2>1. Honest(fired', dropped', box') /\ Complete(step, box') /\ Step(step) \in box'
    BY <1>7, EndingHonest DEF WritesHonestly
  <2>2. (phase' = "recording" /\ step' = step) \/ (phase' = "boundary" /\ step' = step + 1)
    BY <1>7 DEF EndingStep, Transform, ToolEnds, ReplayEach, EndEach, EndStep
  <2>3. Complete(step - 1, box')
    BY <1>0, <2>1, PlanType DEF Complete
  <2>4. CASE phase' = "recording" /\ step' = step
    <3>1. step' - 1 = step - 1
      BY <2>4
    <3>2. Complete(step' - 1, box')
      BY <2>3, <3>1, Zenon
    <3> QED
      BY <2>1, <2>4, <3>2, Zenon
  <2>5. CASE phase' = "boundary" /\ step' = step + 1
    <3>1. step' - 1 = step /\ phase' # "recording"
      BY <1>0, <2>5
    <3>2. Complete(step' - 1, box')
      BY <2>1, <3>1, Zenon
    <3> QED
      BY <2>1, <3>1, <3>2, Zenon
  <2> QED
    BY <2>2, <2>4, <2>5
<1>8. ASSUME NEW x \in Items, Record(x)
      PROVE  /\ Honest(fired', dropped', box') /\ Complete(step' - 1, box')
             /\ phase' # "recording"
  <2>1. step' = step /\ phase' = "each"
    BY <1>8, RecordKeeps DEF Record
  <2> QED
    BY <1>8, <2>1, RecordHonest DEF WritesHonestly
<1>9. CASE Save
  <2>1. step' = step /\ phase' = "each"
    BY <1>9 DEF Save
  <2> QED
    BY <1>9, <2>1, SaveHonest DEF WritesHonestly
<1>10. ASSUME NEW x \in Items, QuietItemStep(x)
       PROVE  /\ Honest(fired', dropped', box') /\ Complete(step' - 1, box')
              /\ phase' = "recording" => Step(step') \in box'
  <2>1. UNCHANGED <<phase, step, box>>
    BY <1>10, QuietItemFrame
  <2>2. InRun
    BY <2>1 DEF InRun
  <2> QED
    BY <1>0, <2>1, <2>2
<1>11. CASE UNCHANGED vars
  BY <1>0, <1>11 DEF InRun
<1> QED
  BY <1>1, <1>2, <1>3, <1>4, <1>5, <1>6, <1>7, <1>8, <1>9, <1>10, <1>11, KindsOfSteps DEF QuietStep

LEMMA AtPlanStep == RecordInv /\ HonestInv /\ [Next]_vars => AtPlan'
<1> SUFFICES ASSUME RecordInv, HonestInv, [Next]_vars PROVE AtPlan'
  OBVIOUS
<1>0. AtPlan /\ step \in Nat \ {0}
  BY DEF HonestInv, RecordInv, BoxIsAtStep
<1>1. CASE UNCHANGED <<phase, step, fired>>
  BY <1>0, <1>1 DEF AtPlan
<1>2. CASE CallTool \/ StartEach
  BY <1>0, <1>2, PlanType DEF CallTool, StartEach, AtStep, AtPlan
<1>3. CASE ToolActs
  <2>1. phase = "calling" /\ phase' = "returned" /\ step' = step /\ Had(Step(step))
    BY <1>3 DEF ToolActs
  <2>2. step \in DOMAIN Plan /\ Plan[step] = "tool"
    BY <1>0, <2>1 DEF AtPlan
  <2>3. Step(step) \in Effects /\ fired \in [Effects -> Nat]
    BY <2>2, EffectsAre DEF RecordInv
  <2>4. fired'[Step(step)] = fired[Step(step)] + 1
    BY <2>1, <2>3 DEF Had
  <2>5. fired'[Step(step)] > 0
    BY <2>3, <2>4
  <2> QED
    BY <2>1, <2>2, <2>5 DEF AtPlan
<1>4. CASE phase' \notin {"calling", "returned", "each"}
  BY <1>4 DEF AtPlan
<1>5. CASE phase = "each" /\ phase' = "each" /\ step' = step
  BY <1>0, <1>5 DEF AtPlan
<1>6. CASE Land \/ RequestCancel
  BY <1>1, <1>6 DEF Land, RequestCancel
<1>7. CASE IgnoreNudge \/ GiveUp \/ StartRun \/ Deliver \/ Wake \/ Crash \/ EndingStep
           \/ StopAtBoundary \/ AllDone \/ Abort \/ StepFails \/ StepRecorded
           \/ SettleRaises \/ NoDelivery(FALSE) \/ NoDelivery(TRUE) \/ WriteMarker \/ Scan
           \/ ToolRaises \/ Interrupt
  BY <1>4, <1>7 DEF IgnoreNudge, GiveUp, StartRun, Take, Deliver, Wake, Crash, EndingStep,
       Transform, ToolEnds, ReplayEach, EndEach, EndStep, StopAtBoundary, AllDone, Abort,
       StepFails, Finish, StepRecorded, SettleRaises, NoDelivery, WriteMarker, Scan,
       ToolRaises, Interrupt
<1>8. CASE Save
  BY <1>5, <1>8 DEF Save
<1>9. ASSUME NEW x \in Items, Record(x) \/ QuietItemStep(x) PROVE AtPlan'
  <2>1. step' = step /\ phase' = phase
    BY <1>9, QuietItemFrame DEF Record
  <2>2. phase = "each"
    BY <1>9 DEF RecordInv, FateInv, ItemsRest, PlainTypes, Record, QuietItemStep, StartItem, ItemActs,
         Recorded, ItemReturns, Saved, ItemFails
  <2> QED
    BY <1>5, <2>1, <2>2
<1>10. CASE UNCHANGED vars
  BY <1>1, <1>10
<1> QED
  BY <1>2, <1>3, <1>6, <1>7, <1>8, <1>9, <1>10, KindsOfSteps DEF QuietStep

LEMMA FinishedOnceStep == RecordInv /\ HonestInv /\ [Next]_vars => FinishedOnce'
<1> SUFFICES ASSUME RecordInv, HonestInv, [Next]_vars PROVE FinishedOnce'
  OBVIOUS
<1>0. /\ FinishedOnce /\ finished \in Seq(Items) /\ at \in [Items -> Places] /\ ItemsRest
      /\ Len(finished) \in Nat /\ \A k \in 1..Len(finished) : finished[k] \in Items
  BY DEF HonestInv, RecordInv, FateInv, PlainTypes
<1>1. CASE finished' = <<>>
  BY <1>1 DEF FinishedOnce
<1>2. CASE finished' = finished /\ at' = at
  BY <1>0, <1>2 DEF FinishedOnce
<1>3. ASSUME phase # "each" PROVE finished = <<>>
  <2>1. \A k \in 1..Len(finished) : FALSE
    BY <1>0, <1>3 DEF FinishedOnce, ItemsRest
  <2> QED
    BY <1>0, <2>1
\* An item that has not returned moves on, and may return.
<1>4. ASSUME NEW x \in Items, at[x] \notin {"good", "bad"}, NEW place, at' = [at EXCEPT ![x] = place],
             finished' = finished \/ (finished' = Append(finished, x) /\ place \in {"good", "bad"})
      PROVE  FinishedOnce'
  <2>1. \A k \in 1..Len(finished) : finished[k] # x /\ at'[finished[k]] = at[finished[k]]
    BY <1>0, <1>4 DEF FinishedOnce
  <2>2. at'[x] = place
    BY <1>0, <1>4
  <2>3. CASE finished' = finished
    BY <1>0, <2>1, <2>3 DEF FinishedOnce
  <2>4. CASE finished' = Append(finished, x) /\ place \in {"good", "bad"}
    <3>1. /\ Len(finished') = Len(finished) + 1 /\ finished'[Len(finished) + 1] = x
          /\ \A k \in 1..Len(finished) : finished'[k] = finished[k]
      BY <1>0, <2>4
    <3>2. \A k \in 1..Len(finished') : k \in 1..Len(finished) \/ k = Len(finished) + 1
      BY <1>0, <3>1
    <3> QED
      BY <1>0, <2>1, <2>2, <2>4, <3>1, <3>2 DEF FinishedOnce
  <2> QED
    BY <1>4, <2>3, <2>4
<1>5. CASE Save
  <2>1. /\ finished # <<>> /\ finished' = Tail(finished)
        /\ \E place : at' = [at EXCEPT ![First] = place]
    BY <1>5 DEF Save
  <2>2. /\ Len(finished) \in Nat \ {0} /\ First = finished[1] /\ 1 \in 1..Len(finished)
        /\ Len(finished') = Len(finished) - 1
        /\ \A k \in 1..Len(finished') : k + 1 \in 1..Len(finished) /\ k + 1 # 1
                                        /\ finished'[k] = finished[k + 1]
    BY <1>0, <2>1 DEF First
  <2>3. \A k \in 1..Len(finished') : finished'[k] # First /\ finished'[k] \in Items
    BY <1>0, <2>2 DEF FinishedOnce
  <2>4. \A k \in 1..Len(finished') : at'[finished'[k]] = at[finished'[k]]
    BY <1>0, <2>1, <2>3
  <2>5. \A k \in 1..Len(finished') : at'[finished'[k]] \in {"good", "bad"}
    BY <1>0, <2>2, <2>4 DEF FinishedOnce
  <2>6. ASSUME NEW k \in 1..Len(finished'), NEW l \in 1..Len(finished'), finished'[k] = finished'[l]
        PROVE  k = l
    <3>1. k + 1 = l + 1
      BY <1>0, <2>2, <2>6 DEF FinishedOnce
    <3> QED
      BY <3>1
  <2> QED
    BY <2>5, <2>6 DEF FinishedOnce
<1>6. CASE StartRun \/ Crash \/ Interrupt \/ EndEach \/ StopAtBoundary \/ AllDone \/ Abort \/ StepFails
  BY <1>1, <1>6 DEF StartRun, Crash, Interrupt, EndEach, StopAtBoundary, AllDone, Abort, StepFails,
       Finish, NoTasks
<1>7. CASE StartEach
  <2>1. phase # "each" /\ finished' = finished
    BY <1>7 DEF StartEach, AtStep
  <2> QED
    BY <1>1, <1>3, <2>1
<1>8. CASE Land \/ IgnoreNudge \/ GiveUp \/ Deliver \/ Wake \/ Transform \/ ToolEnds \/ ReplayEach
           \/ CallTool \/ ToolActs \/ StepRecorded \/ SettleRaises \/ NoDelivery(FALSE)
           \/ NoDelivery(TRUE) \/ WriteMarker \/ Scan \/ ToolRaises \/ RequestCancel
  BY <1>2, <1>8 DEF Land, IgnoreNudge, GiveUp, Take, Deliver, Wake, Transform, ToolEnds, ReplayEach,
       CallTool, ToolActs, StepRecorded, SettleRaises, NoDelivery, WriteMarker, Scan,
       ToolRaises, RequestCancel
<1>9. ASSUME NEW x \in Items, StartItem(x) \/ ItemActs(x) \/ Record(x) \/ Recorded(x)
                              \/ ItemReturns(x) \/ Saved(x)
      PROVE  FinishedOnce'
  BY <1>4, <1>9 DEF StartItem, ItemActs, Record, Recorded, ItemReturns, Saved, Returns
<1>10. ASSUME NEW x \in Items, ItemFails(x) PROVE FinishedOnce'
  BY <1>2, <1>4, <1>10 DEF ItemFails, Returns
<1>11. CASE UNCHANGED vars
  BY <1>2, <1>11
<1> QED
  BY <1>5, <1>6, <1>7, <1>8, <1>9, <1>10, <1>11, KindsOfSteps DEF QuietStep, QuietItemStep, EndingStep

LEMMA OkStep == RecordInv /\ HonestInv /\ [Next]_vars => OkIsEarned'
<1> SUFFICES ASSUME RecordInv, HonestInv, [Next]_vars PROVE OkIsEarned'
  OBVIOUS
<1> DEFINE Claim == (InEnd /\ verdict = "ok") \/ marker.status = "ok"
<1>0. /\ Claim => \A i \in DOMAIN Plan : StepDone(fired, dropped, i)
      /\ \A i \in DOMAIN Plan : StepDone(fired, dropped, i) => StepDone(fired', dropped', i)
  BY MoreIsDone DEF HonestInv, OkIsEarned
<1>1. CASE Claim' => Claim
  BY <1>0, <1>1 DEF OkIsEarned
<1>2. CASE UNCHANGED <<phase, verdict, marker>>
  BY <1>1, <1>2 DEF InEnd
<1>3. CASE phase' \notin {"finishing", "posted", "unposted"} /\ marker' = marker
  BY <1>1, <1>3 DEF InEnd
<1>4. CASE verdict' # "ok" /\ marker' = marker
  BY <1>1, <1>4
<1>5. CASE AllDone
  <2>1. phase = "boundary" /\ step > Len(Plan)
    BY <1>5 DEF AllDone
  <2>2. Honest(fired, dropped, box) /\ Complete(step - 1, box) /\ step \in Nat \ {0}
    BY <2>1 DEF HonestInv, BoxHonest, InRun, RecordInv, BoxIsAtStep
  <2>3. \A i \in DOMAIN Plan : Step(i) \in box
    BY <2>1, <2>2, PlanType DEF Complete
  <2>4. \A i \in DOMAIN Plan : StepDone(fired, dropped, i)
    BY <2>2, <2>3, Zenon DEF Honest
  <2> QED
    BY <1>0, <2>4 DEF OkIsEarned
<1>6. CASE WriteMarker
  BY <1>1, <1>6 DEF WriteMarker, InEnd
<1>7. CASE Deliver \/ NoDelivery(FALSE) \/ NoDelivery(TRUE)
  BY <1>1, <1>7 DEF Deliver, NoDelivery, InEnd
<1>8. CASE GiveUp \/ StopAtBoundary \/ Abort \/ StepFails
  BY <1>4, <1>8 DEF GiveUp, Take, StopAtBoundary, Abort, StepFails, Finish
<1>9. CASE Land \/ IgnoreNudge \/ RequestCancel
  BY <1>2, <1>9 DEF Land, IgnoreNudge, Take, RequestCancel
<1>10. CASE StartRun \/ Wake \/ Crash \/ EndingStep \/ CallTool \/ ToolActs \/ StepRecorded
            \/ StartEach \/ Save \/ SettleRaises \/ Scan \/ ToolRaises \/ Interrupt
  BY <1>3, <1>10 DEF StartRun, Take, Wake, Crash, EndingStep, Transform, ToolEnds, ReplayEach,
       EndEach, EndStep, CallTool, ToolActs, StepRecorded, StartEach, Save, SettleRaises, Scan,
       ToolRaises, Interrupt
<1>11. ASSUME NEW x \in Items, Record(x) \/ QuietItemStep(x) PROVE OkIsEarned'
  <2>1. UNCHANGED <<phase, marker, verdict>>
    BY <1>11 DEF Record, QuietItemStep, StartItem, ItemActs, Recorded, ItemReturns, Saved, ItemFails
  <2> QED
    BY <1>2, <2>1
<1>12. CASE UNCHANGED vars
  BY <1>2, <1>12
<1> QED
  BY <1>5, <1>6, <1>7, <1>8, <1>9, <1>10, <1>11, <1>12, KindsOfSteps DEF QuietStep

\* What an item has left to do is an effect of its step.
LEMMA ItemEffects ==
  ASSUME AtPlan, phase = "each", NEW x \in Items
  PROVE  Upcoming(x) \subseteq EffectsOfItem(step, x) /\ EffectsOfItem(step, x) \subseteq Effects
<1>1. EffectsOfItem(step, x) \subseteq Effects
  BY EffectsAre DEF AtPlan
<1>2. CASE Inner = 0
  BY <1>1, <1>2, UpcomingIs
<1>3. CASE Inner # 0
  <2>1. \A j \in 1..Inner : Sub(step, x, j) \in EffectsOfItem(step, x)
    BY <1>3 DEF EffectsOfItem
  <2>2. \A e \in Upcoming(x) : \E j \in 1..Inner : e = Sub(step, x, j)
    BY <1>3, UpcomingIs
  <2> QED
    BY <1>1, <2>1, <2>2, Zenon
<1> QED
  BY <1>2, <1>3

LEMMA UpcomingKept ==
  ASSUME NEW x \in Items, step' = step,
         \A j \in 1..Inner : Sub(step, x, j) \in box' <=> Sub(step, x, j) \in box
  PROVE  Upcoming(x)' = Upcoming(x)
<1>1. Left(x)' = Left(x)
  BY DEF Left
<1> HIDE DEF Left
<1> QED
  BY <1>1 DEF Upcoming

\* An item that a step leaves where it is keeps what it did.
LEMMA ItemStays ==
  ASSUME RecordInv, HonestInv, [Next]_vars, phase = "each", step' = step, box \subseteq box',
         NEW x \in Items, at'[x] = at[x],
         \A j \in 1..Inner : Sub(step, x, j) \in box' => Sub(step, x, j) \in box
  PROVE  ItemHonest(x)'
<1>1. ItemHonest(x) /\ AtPlan
  BY DEF HonestInv, ItemsHonest
<1>2. Upcoming(x)' = Upcoming(x)
  BY UpcomingKept
<1>3. Upcoming(x) \subseteq Effects /\ EffectsOfItem(step, x) \subseteq Effects
  BY <1>1, ItemEffects
<1>4. \A e \in Effects : fired[e] > 0 => fired'[e] > 0
  BY HadGrows
<1>5. at'[x] = "acted" => \A e \in Upcoming(x)' : fired'[e] > 0
  BY <1>1, <1>2, <1>3, <1>4, Zenon DEF ItemHonest
<1>6. at'[x] = "good" => \A e \in EffectsOfItem(step', x) : fired'[e] > 0
  BY <1>1, <1>3, <1>4, Zenon DEF ItemHonest
<1>7. at'[x] \in {"saving", "settled"} => Item(step', x) \in box'
  BY <1>1 DEF ItemHonest
<1> QED
  BY <1>5, <1>6, <1>7 DEF ItemHonest

\* An item's own step, and the coordinator's: the item it moves.
LEMMA ItemMoves ==
  ASSUME RecordInv, HonestInv, [Next]_vars, phase = "each", NEW x \in Items
  PROVE  /\ StartItem(x) \/ Recorded(x) \/ ItemFails(x) \/ Record(x) =>
              at'[x] \in {"ready", "bad", "writing"}
         /\ ItemActs(x) \/ ItemReturns(x) \/ Saved(x) => ItemHonest(x)'
<1>0. /\ at \in [Items -> Places] /\ fired \in [Effects -> Nat] /\ AtPlan /\ ItemHonest(x)
      /\ Honest(fired, dropped, box)
  BY DEF RecordInv, FateInv, PlainTypes, HonestInv, ItemsHonest, BoxHonest, InRun
<1>1. StartItem(x) \/ Recorded(x) \/ ItemFails(x) \/ Record(x) => at'[x] \in {"ready", "bad", "writing"}
  BY <1>0 DEF StartItem, Recorded, ItemFails, Returns, Record
<1>2. Upcoming(x) \subseteq EffectsOfItem(step, x) /\ EffectsOfItem(step, x) \subseteq Effects
  BY <1>0, ItemEffects
<1>3. ASSUME ItemActs(x) PROVE ItemHonest(x)'
  <2>1. step' = step /\ box' = box
    BY <1>3 DEF ItemActs
  <2>2. PICK e \in Upcoming(x) : Had(e)
    BY <1>3 DEF ItemActs
  <2>3. e \in Effects /\ fired'[e] = fired[e] + 1 /\ fired[e] \in Nat
    BY <1>0, <1>2, <2>2 DEF Had
  <2>4. fired'[e] > 0
    BY <2>3
  <2>5. Upcoming(x) = {e} /\ Upcoming(x)' = {e}
    <3>1. Upcoming(x) = {e}
      BY <2>2, UpcomingIs
    <3>2. Upcoming(x)' = Upcoming(x)
      BY <2>1, UpcomingKept
    <3> QED
      BY <3>1, <3>2
  <2>6. CASE Inner = 0
    <3>1. EffectsOfItem(step, x) = {e}
      BY <2>5, <2>6, UpcomingIs
    <3>2. at'[x] = "good"
      BY <1>0, <1>3, <2>6 DEF ItemActs, Returns
    <3>3. EffectsOfItem(step', x) = {e}
      BY <2>1, <3>1
    <3> HIDE DEF EffectsOfItem, Upcoming
    <3> QED
      BY <2>4, <3>2, <3>3 DEF ItemHonest
  <2>7. CASE Inner # 0
    <3>1. at'[x] = "acted"
      BY <1>0, <1>3, <2>7 DEF ItemActs
    <3> QED
      BY <2>4, <2>5, <3>1 DEF ItemHonest
  <2> QED
    BY <2>6, <2>7
<1>4. ASSUME ItemReturns(x) PROVE ItemHonest(x)'
  <2>1. /\ step' = step /\ fired' = fired /\ at'[x] = "good" /\ Upcoming(x) = {}
    BY <1>0, <1>4 DEF ItemReturns, Returns
  <2>2. Inner # 0 /\ Left(x) = {}
    BY <2>1, UpcomingIs
  <2>3. \A j \in 1..Inner : Sub(step, x, j) \in box
    BY <2>2 DEF Left
  <2>4. step \in DOMAIN Plan /\ Plan[step] = "each"
    BY <1>0 DEF AtPlan
  <2>5. \A j \in 1..Inner : fired[Sub(step, x, j)] > 0
    BY <1>0, <2>3, <2>4, Zenon DEF Honest
  <2>6. \A e \in EffectsOfItem(step, x) : fired[e] > 0
    BY <2>2, <2>5 DEF EffectsOfItem
  <2> QED
    BY <2>1, <2>6 DEF ItemHonest
<1>5. ASSUME Saved(x) PROVE ItemHonest(x)'
  <2>1. step' = step /\ box' = box /\ at[x] = "saving" /\ at'[x] = "settled"
    BY <1>0, <1>5 DEF Saved
  <2> QED
    BY <1>0, <2>1 DEF ItemHonest
<1> QED
  BY <1>1, <1>3, <1>4, <1>5

LEMMA ItemsHonestStep == RecordInv /\ HonestInv /\ [Next]_vars => ItemsHonest'
<1> SUFFICES ASSUME RecordInv, HonestInv, [Next]_vars, phase' = "each"
             PROVE  \A y \in Items : ItemHonest(y)'
  BY DEF ItemsHonest
<1>0. at \in [Items -> Places] /\ ItemsRest
  BY DEF RecordInv, FateInv, PlainTypes
<1>1. CASE Land \/ RequestCancel \/ UNCHANGED vars
  <2>1. UNCHANGED <<phase, step, box, at>>
    BY <1>1 DEF Land, RequestCancel, vars, execVars, fanVars
  <2> QED
    BY <2>1, ItemStays
<1>2. CASE IgnoreNudge \/ GiveUp \/ StartRun \/ Deliver \/ Wake \/ Crash \/ EndingStep
           \/ StopAtBoundary \/ AllDone \/ Abort \/ StepFails \/ CallTool \/ ToolActs
           \/ StepRecorded \/ SettleRaises \/ NoDelivery(FALSE) \/ NoDelivery(TRUE)
           \/ WriteMarker \/ Scan \/ ToolRaises \/ Interrupt
  BY <1>2 DEF IgnoreNudge, GiveUp, StartRun, Take, Deliver, Wake, Crash, EndingStep,
       Transform, ToolEnds, ReplayEach, EndEach, EndStep, StopAtBoundary, AllDone, Abort,
       StepFails, Finish, CallTool, ToolActs, StepRecorded, SettleRaises, NoDelivery,
       WriteMarker, Scan, ToolRaises, Interrupt
<1>3. CASE StartEach
  <2>1. /\ step' = step /\ box' = box
        /\ at' = [x \in Items |-> IF Item(step, x) \in box THEN "settled" ELSE "waiting"]
    BY <1>3 DEF StartEach
  <2> HIDE DEF Item, EffectsOfItem, Upcoming
  <2> QED
    BY <2>1 DEF ItemHonest
<1>4. CASE Save
  <2>1. /\ phase = "each" /\ step' = step /\ box' = box \cup {Item(step, First)}
        /\ at' = [at EXCEPT ![First] = "saving"] \/ at' = [at EXCEPT ![First] = "settled"]
        /\ finished # <<>>
    BY <1>4 DEF Save
  <2>2. First \in Items
    BY <2>1 DEF RecordInv, First
  <2>3. ASSUME NEW y \in Items, y = First PROVE ItemHonest(y)'
    <3>1. at'[y] \in {"saving", "settled"} /\ Item(step', y) \in box'
      BY <1>0, <2>1, <2>3
    <3> QED
      BY <3>1 DEF ItemHonest
  <2>4. ASSUME NEW y \in Items, y # First PROVE ItemHonest(y)'
    <3>1. at'[y] = at[y]
      BY <1>0, <2>1, <2>4
    <3>2. \A j \in 1..Inner : Sub(step, y, j) # Item(step, First)
      BY <2>2, KeysName
    <3> QED
      BY <2>1, <3>1, <3>2, ItemStays
  <2> QED
    BY <2>3, <2>4
<1>5. ASSUME NEW x \in Items, Record(x) \/ QuietItemStep(x), NEW y \in Items
      PROVE  ItemHonest(y)'
  <2>1. /\ phase = "each" /\ step' = step /\ box \subseteq box'
        /\ \A z \in Items : z # x => at'[z] = at[z]
    <3>1. phase = "each"
      BY <1>0, <1>5 DEF ItemsRest, Record, QuietItemStep, StartItem, ItemActs, Recorded,
           ItemReturns, Saved, ItemFails
    <3>2. step' = step /\ box \subseteq box'
      BY <1>5, QuietItemFrame DEF Record, Merged
    <3>3. at' = at \/ \E p : at' = [at EXCEPT ![x] = p]
      BY <1>5 DEF Record, QuietItemStep, StartItem, ItemActs, Recorded, ItemReturns, Saved,
           ItemFails, Returns
    <3> QED
      BY <1>0, <3>1, <3>2, <3>3
  <2>2. CASE y # x
    <3>1. \A j \in 1..Inner : Sub(step, y, j) \in box' => Sub(step, y, j) \in box
      <4>1. CASE QuietItemStep(x)
        BY <4>1, QuietItemFrame
      <4>2. CASE Record(x)
        <5>1. PICK e \in Upcoming(x) : box' = box \cup {e}
          BY <4>2 DEF Record, Merged
        <5>2. Inner # 0
          BY <4>2 DEF RecordInv, ItemsUnkept, Record
        <5>3. PICK k \in 1..Inner : e = Sub(step, x, k)
          BY <5>2, UpcomingIs
        <5>4. \A j \in 1..Inner : Sub(step, y, j) # e
          BY <2>2, <5>3, KeysName
        <5> QED
          BY <5>1, <5>4
      <4> QED
        BY <1>5, <4>1, <4>2
    <3> QED
      BY <2>1, <2>2, <3>1, ItemStays
  <2>3. CASE y = x
    <3>1. CASE ItemActs(x) \/ ItemReturns(x) \/ Saved(x)
      BY <2>1, <2>3, <3>1, ItemMoves
    <3>2. CASE StartItem(x) \/ Recorded(x) \/ ItemFails(x) \/ Record(x)
      BY <2>1, <2>3, <3>2, ItemMoves DEF ItemHonest
    <3> QED
      BY <1>5, <3>1, <3>2 DEF QuietItemStep
  <2> QED
    BY <2>2, <2>3
<1> QED
  BY <1>1, <1>2, <1>3, <1>4, <1>5, KindsOfSteps DEF QuietStep

LEMMA HonestInit == Init => HonestInv
<1> SUFFICES ASSUME Init PROVE HonestInv
  OBVIOUS
<1>1. /\ queue = <<Simple("put")>> /\ gen = NoGeneration /\ phase = "idle" /\ finished = <<>>
      /\ marker = NoMarker
  BY DEF Init
<1>2. /\ Len(queue) = 1 /\ queue[1] = Simple("put") /\ Simple("put").job # "gen"
  BY <1>1, SimpleJobs
<1>3. AllGood(fired, dropped, queue)
  BY <1>2 DEF AllGood
<1>4. gen.done = {} /\ gen.step = 0
  BY <1>1 DEF NoGeneration, Generation
<1>5. Honest(fired, dropped, gen.done) /\ Complete(gen.step, gen.done)
  <2>1. Honest(fired, dropped, {})
    BY DEF Honest
  <2>2. \A i \in DOMAIN Plan : ~(i <= 0)
    BY PlanType
  <2> QED
    BY <1>4, <2>1, <2>2 DEF Complete
<1>6. OkIsEarned
  BY <1>1 DEF OkIsEarned, InEnd, NoMarker
<1> QED
  BY <1>1, <1>3, <1>5, <1>6
     DEF HonestInv, GensHonest, Good, BoxHonest, InRun, AtPlan, ItemsHonest, FinishedOnce

----------------------------------------------------------------------------
(* The first process.  Only there can a run be cancelled, and there each    *)
(* step that had an effect has its generation on disk before the next       *)
(* boundary: a tool's is awaited, and so is a for_each's, which has an item *)
(* that worked.                                                             *)

Touched(f, i) == \E e \in EffectsOf(i) : f[e] > 0

\* Nothing of a for_each is kept.
Bare(keys, i) ==
  /\ Collect(i) \notin keys
  /\ \A x \in Items : Item(i, x) \notin keys /\ \A j \in 1..Inner : Sub(i, x, j) \notin keys

Clean(f, g) == \A i \in DOMAIN Plan : Touched(f, i) => Step(i) \in g.done

CancelIsFirst ==
  /\ crashes \in Nat
  /\ cancel \/ reader => crashes = 0
  /\ phase \in {"down", "woken"} => crashes # 0

FreshIdle ==
  crashes = 0 /\ phase = "idle" /\ marker = NoMarker =>
    gen = NoGeneration /\ \A i \in DOMAIN Plan : ~Touched(fired, i)

FirstSteps ==
  crashes = 0 /\ InRun => \A i \in DOMAIN Plan :
    /\ i < step /\ Touched(fired, i) => Step(i) \in gen.done
    /\ i > step \/ (i = step /\ phase = "boundary") => ~Touched(fired, i) /\ Bare(box, i)

FirstWrite ==
  crashes = 0 /\ phase = "recording" =>
    \/ Step(step) \in gen.done
    \/ \E k \in 1..Len(queue) :
         queue[k].by = "step" /\ queue[k].job = "gen" /\ Step(step) \in queue[k].gen.done

FirstItems ==
  crashes = 0 /\ phase = "each" =>
    /\ Collect(step) \notin box
    /\ \A x \in Items :
         \/ \E j \in 1..Inner : Sub(step, x, j) \in box
         \/ at[x] \in {"acted", "writing", "good", "saving", "settled"}
         => x \in worked

CancelIsClean ==
  (InEnd /\ verdict = "cancelled") \/ marker.status = "cancelled" => Clean(fired, gen)

FirstInv ==
  CancelIsFirst /\ FreshIdle /\ FirstSteps /\ FirstWrite /\ FirstItems /\ CancelIsClean

\* The effects of two steps are different.
LEMMA EffectsApart ==
  ASSUME NEW i \in DOMAIN Plan, NEW s \in DOMAIN Plan, i # s
  PROVE  EffectsOf(i) \cap EffectsOf(s) = {}
<1> DEFINE Own(n) == \A e \in EffectsOf(n) :
                       \/ e = Step(n)
                       \/ \E x \in Items : e = Item(n, x) \/ \E j \in 1..Inner : e = Sub(n, x, j)
<1>1. ASSUME NEW n \in DOMAIN Plan PROVE Own(n)
  <2>1. CASE Plan[n] = "tool" \/ Plan[n] = "transform"
    BY <2>1, EffectsAre
  <2>2. CASE Plan[n] = "each"
    <3>1. \A e \in EffectsOf(n) : \E x \in Items : e \in EffectsOfItem(n, x)
      BY <2>2, EffectsAre
    <3> QED
      BY <3>1 DEF EffectsOfItem
  <2> QED
    BY <2>1, <2>2, PlanType
<1>2. SUFFICES ASSUME NEW e \in EffectsOf(i), e \in EffectsOf(s) PROVE FALSE
  OBVIOUS
<1>3. Own(i) /\ Own(s)
  BY <1>1
<1>4. \/ e = Step(s)
      \/ \E y \in Items : e = Item(s, y) \/ \E k \in 1..Inner : e = Sub(s, y, k)
  BY <1>2, <1>3, Zenon
<1>5. CASE e = Step(i)
  <2>1. e # Step(s) /\ \A y \in Items : e # Item(s, y) /\ \A k \in 1..Inner : e # Sub(s, y, k)
    BY <1>5, KeysName
  <2> QED
    BY <1>4, <2>1, Zenon
<1>6. ASSUME NEW x \in Items, e = Item(i, x) PROVE FALSE
  <2>1. e # Step(s) /\ \A y \in Items : e # Item(s, y) /\ \A k \in 1..Inner : e # Sub(s, y, k)
    BY <1>6, KeysName
  <2> QED
    BY <1>4, <2>1, Zenon
<1>7. ASSUME NEW x \in Items, NEW j \in 1..Inner, e = Sub(i, x, j) PROVE FALSE
  <2>1. e # Step(s) /\ \A y \in Items : e # Item(s, y) /\ \A k \in 1..Inner : e # Sub(s, y, k)
    BY <1>7, KeysName
  <2> QED
    BY <1>4, <2>1, Zenon
<1> QED
  BY <1>3, <1>5, <1>6, <1>7

\* A key of one step leaves the others bare.
LEMMA BareAdds ==
  ASSUME NEW keys, NEW i, Bare(keys, i), NEW s
  PROVE  /\ Bare(keys \cup {Step(s)}, i)
         /\ i # s => /\ Bare(keys \cup {Collect(s)}, i)
                     /\ \A x \in Items : Bare(keys \cup {Item(s, x)}, i)
                     /\ \A x \in Items, j \in 1..Inner : Bare(keys \cup {Sub(s, x, j)}, i)
<1>1. /\ Collect(i) # Step(s)
      /\ \A x \in Items : Item(i, x) # Step(s) /\ \A j \in 1..Inner : Sub(i, x, j) # Step(s)
  BY KeysName
<1>2. ASSUME i # s
      PROVE  /\ Collect(i) # Collect(s)
             /\ \A x \in Items : Item(i, x) # Collect(s) /\ \A j \in 1..Inner : Sub(i, x, j) # Collect(s)
  BY <1>2, KeysName
<1>3. ASSUME i # s, NEW y \in Items
      PROVE  /\ Collect(i) # Item(s, y)
             /\ \A x \in Items : Item(i, x) # Item(s, y) /\ \A j \in 1..Inner : Sub(i, x, j) # Item(s, y)
  BY <1>3, KeysName
<1>4. ASSUME i # s, NEW y \in Items, NEW k \in 1..Inner
      PROVE  /\ Collect(i) # Sub(s, y, k)
             /\ \A x \in Items : Item(i, x) # Sub(s, y, k)
                                 /\ \A j \in 1..Inner : Sub(i, x, j) # Sub(s, y, k)
  <2>1. Collect(i) # Sub(s, y, k) /\ \A x \in Items : Item(i, x) # Sub(s, y, k)
    BY KeysName
  <2>2. \A x \in Items : \A j : Sub(i, x, j) # Sub(s, y, k)
    BY <1>4, KeysName
  <2> QED
    BY <2>1, <2>2
<1>5. \A key : /\ Collect(i) # key
               /\ \A x \in Items : Item(i, x) # key /\ \A j \in 1..Inner : Sub(i, x, j) # key
               => Bare(keys \cup {key}, i)
  BY Zenon DEF Bare
<1> QED
  BY <1>1, <1>2, <1>3, <1>4, <1>5

\* What is on disk and what was had only grows, and only the step that calls
\* a tool or runs items has effects.
LEMMA OnlyTheStep ==
  ASSUME RecordInv, HonestInv, [Next]_vars
  PROVE  /\ gen.done \subseteq gen'.done
         /\ \A i \in DOMAIN Plan :
              /\ Touched(fired, i) => Touched(fired', i)
              /\ i # step \/ phase \notin {"calling", "each"} =>
                   (Touched(fired', i) => Touched(fired, i))
<1>1. gen.done \subseteq gen'.done
  <2>1. gen.done = recorded /\ gen'.done = recorded'
    BY RecordStep DEF RecordInv, DiskIsBehind
  <2>2. recorded \subseteq recorded'
    <3>1. CASE Land
      BY <3>1 DEF Land
    <3>2. CASE IgnoreNudge \/ GiveUp \/ StartRun \/ Deliver \/ Wake \/ Crash \/ Save \/ EndingStep
      BY <3>2 DEF IgnoreNudge, GiveUp, StartRun, Take, Deliver, Wake, Crash, Save, EndingStep,
           Transform, ToolEnds, ReplayEach, EndEach
    <3>3. \A x \in Items : Record(x) => recorded' = recorded
      BY DEF Record
    <3> QED
      BY <3>1, <3>2, <3>3, KindsOfSteps, QuietFrame, QuietItemFrame
  <2> QED
    BY <2>1, <2>2
<1>2. \A i \in DOMAIN Plan : Touched(fired, i) => Touched(fired', i)
  BY HadGrows, EffectsAre DEF Touched
<1>3. ASSUME NEW i \in DOMAIN Plan, i # step \/ phase \notin {"calling", "each"}, Touched(fired', i)
      PROVE  Touched(fired, i)
  <2>0. fired \in [Effects -> Nat] /\ AtPlan /\ ItemsRest
    BY DEF RecordInv, HonestInv, FateInv
  <2>1. CASE fired' = fired
    BY <1>3, <2>1
  <2>2. ASSUME NEW e, Had(e), e \in EffectsOf(step), step \in DOMAIN Plan, i # step
        PROVE  Touched(fired, i)
    <3>1. PICK g \in EffectsOf(i) : fired'[g] > 0
      BY <1>3 DEF Touched
    <3>2. g # e
      BY <2>2, EffectsApart
    <3>3. g \in Effects
      BY EffectsAre
    <3>4. fired'[g] = fired[g]
      BY <2>0, <2>2, <3>2, <3>3 DEF Had
    <3> QED
      BY <3>1, <3>4 DEF Touched
  <2>3. CASE ToolActs /\ Had(Step(step))
    <3>1. phase = "calling" /\ step \in DOMAIN Plan /\ Plan[step] = "tool"
      BY <2>0, <2>3 DEF ToolActs, AtPlan
    <3>2. Step(step) \in EffectsOf(step)
      BY <3>1, EffectsAre
    <3> QED
      BY <1>3, <2>2, <2>3, <3>1, <3>2
  <2>4. ASSUME NEW x \in Items, at[x] = "ready", NEW e \in Upcoming(x), Had(e)
        PROVE  Touched(fired, i)
    <3>1. phase = "each" /\ step \in DOMAIN Plan /\ Plan[step] = "each"
      BY <2>0, <2>4 DEF ItemsRest, AtPlan
    <3>2. e \in EffectsOf(step)
      BY <2>0, <3>1, ItemEffects, EffectsAre
    <3> QED
      BY <1>3, <2>2, <2>4, <3>1, <3>2
  <2> QED
    BY <2>1, <2>3, <2>4, WhoFires
<1> QED
  BY <1>1, <1>2, <1>3

LEMMA FirstInit == Init => FirstInv
<1> SUFFICES ASSUME Init PROVE FirstInv
  OBVIOUS
<1>1. \A i \in DOMAIN Plan : ~Touched(fired, i)
  BY EffectsAre DEF Touched, Init
<1>2. CancelIsClean
  BY DEF Init, CancelIsClean, InEnd, NoMarker
<1> QED
  BY <1>1, <1>2 DEF Init, FirstInv, CancelIsFirst, FreshIdle, FirstSteps, FirstWrite, FirstItems, InRun

LEMMA CancelIsFirstStep == FirstInv /\ [Next]_vars => CancelIsFirst'
<1> SUFFICES ASSUME FirstInv, [Next]_vars PROVE CancelIsFirst'
  OBVIOUS
<1>0. CancelIsFirst
  BY DEF FirstInv
<1>1. CASE /\ crashes' = crashes /\ phase' \notin {"down", "woken"}
           /\ (cancel' => cancel) /\ (reader' => reader)
  BY <1>0, <1>1 DEF CancelIsFirst
<1>2. CASE UNCHANGED <<crashes, phase, cancel, reader>>
  BY <1>0, <1>2 DEF CancelIsFirst
<1>3. CASE Land \/ IgnoreNudge
  BY <1>2, <1>3 DEF Land, IgnoreNudge, Take
<1>4. CASE GiveUp \/ StartRun \/ EndingStep \/ Save \/ Deliver \/ Wake
  BY <1>1, <1>4 DEF GiveUp, StartRun, Take, EndingStep, Transform, ToolEnds, ReplayEach, EndEach,
       EndStep, Save, Deliver, Wake
<1>5. CASE Crash
  BY <1>0, <1>5 DEF Crash, CancelIsFirst
<1>6. CASE StopAtBoundary \/ AllDone \/ Abort \/ StepFails \/ CallTool \/ ToolActs \/ StepRecorded
           \/ StartEach \/ SettleRaises \/ NoDelivery(FALSE) \/ NoDelivery(TRUE) \/ WriteMarker
           \/ ToolRaises
  BY <1>1, <1>6 DEF StopAtBoundary, AllDone, Abort, StepFails, Finish, CallTool, ToolActs,
       StepRecorded, StartEach, SettleRaises, NoDelivery, WriteMarker, ToolRaises
<1>7. CASE Scan \/ RequestCancel \/ Interrupt
  BY <1>0, <1>7 DEF Scan, RequestCancel, Interrupt, CancelIsFirst
<1>8. ASSUME NEW x \in Items, QuietItemStep(x) \/ Record(x) PROVE CancelIsFirst'
  BY <1>2, <1>8 DEF QuietItemStep, StartItem, ItemActs, Recorded, ItemReturns, Saved, ItemFails,
       Returns, Record
<1>9. CASE UNCHANGED vars
  BY <1>2, <1>9
<1> QED
  BY <1>3, <1>4, <1>5, <1>6, <1>7, <1>8, <1>9, KindsOfSteps DEF QuietStep

\* The process counts its deaths.
LEMMA StillFirst ==
  ASSUME FirstInv, [Next]_vars, crashes' = 0
  PROVE  crashes = 0 /\ ~Crash
<1>1. ~Crash
  BY DEF FirstInv, CancelIsFirst, Crash
<1>2. ASSUME Land \/ IgnoreNudge \/ GiveUp \/ StartRun \/ EndingStep \/ Save \/ Deliver \/ Wake
      PROVE  crashes' = crashes
  BY <1>2 DEF Land, IgnoreNudge, GiveUp, StartRun, Take, EndingStep, Transform, ToolEnds, ReplayEach,
       EndEach, Save, Deliver, Wake
<1>3. ASSUME QuietStep PROVE crashes' = crashes
  BY <1>3 DEF QuietStep, StopAtBoundary, AllDone, Abort, StepFails, Finish, CallTool, ToolActs,
       StepRecorded, StartEach, SettleRaises, NoDelivery, WriteMarker, Scan, ToolRaises,
       RequestCancel, Interrupt
<1>4. ASSUME NEW x \in Items, QuietItemStep(x) \/ Record(x) PROVE crashes' = crashes
  BY <1>4 DEF QuietItemStep, StartItem, ItemActs, Recorded, ItemReturns, Saved, ItemFails, Record
<1> QED
  BY <1>1, <1>2, <1>3, <1>4, KindsOfSteps

LEMMA FreshIdleStep ==
  RecordInv /\ HonestInv /\ FirstInv /\ [Next]_vars => FreshIdle'
<1> SUFFICES ASSUME RecordInv, HonestInv, FirstInv, [Next]_vars,
                    crashes' = 0, phase' = "idle", marker' = NoMarker
             PROVE  gen' = NoGeneration /\ \A i \in DOMAIN Plan : ~Touched(fired', i)
  BY DEF FreshIdle
<1>0. crashes = 0 /\ ~Crash /\ CancelIsFirst /\ FreshIdle /\ MarkerRests
  BY StillFirst DEF FirstInv, RecordInv, FateInv
<1>1. CASE phase = "idle" /\ marker = NoMarker
  <2>1. gen = NoGeneration /\ \A i \in DOMAIN Plan : ~Touched(fired, i)
    BY <1>0, <1>1 DEF FreshIdle
  <2>2. \A i \in DOMAIN Plan : ~Touched(fired', i)
    BY <1>1, <2>1, OnlyTheStep
  <2>3. gen' = gen
    <3>1. CASE Land
      <4>1. Head(queue).job # "gen"
        BY <1>1, <3>1, OrderedTail DEF Land, RecordInv, DiskIsBehind, NothingQueued
      <4> QED
        BY <3>1, <4>1 DEF Land
    <3>2. CASE IgnoreNudge \/ GiveUp \/ StartRun \/ Deliver \/ Wake \/ Save \/ EndingStep
      BY <3>2 DEF IgnoreNudge, GiveUp, StartRun, Take, Deliver, Wake, Save, EndingStep,
           Transform, ToolEnds, ReplayEach, EndEach
    <3>3. \A x \in Items : Record(x) => gen' = gen
      BY DEF Record
    <3> QED
      BY <1>0, <3>1, <3>2, <3>3, KindsOfSteps, QuietFrame, QuietItemFrame
  <2> QED
    BY <2>1, <2>2, <2>3
<1>2. CASE phase # "idle" \/ marker # NoMarker
  <2>1. phase \notin {"down", "woken"}
    BY <1>0 DEF CancelIsFirst
  <2>2. CASE Land \/ IgnoreNudge \/ GiveUp \/ StartRun \/ EndingStep \/ Save \/ Deliver \/ Wake
    BY <1>2, <2>1, <2>2 DEF Land, IgnoreNudge, GiveUp, StartRun, Take, EndingStep, Transform, ToolEnds,
         ReplayEach, EndEach, EndStep, Save, Deliver, Wake
  <2>3. CASE WriteMarker
    <3>1. marker'.status # "none"
      BY <1>0, <2>3 DEF WriteMarker, MarkerRests, InEnd
    <3> QED
      BY <3>1 DEF NoMarker
  <2>4. CASE StopAtBoundary \/ AllDone \/ Abort \/ StepFails \/ CallTool \/ ToolActs \/ StepRecorded
             \/ StartEach \/ SettleRaises \/ NoDelivery(FALSE) \/ NoDelivery(TRUE) \/ Scan
             \/ ToolRaises \/ RequestCancel \/ Interrupt
    BY <1>2, <2>1, <2>4 DEF StopAtBoundary, AllDone, Abort, StepFails, Finish, CallTool, ToolActs,
         StepRecorded, StartEach, SettleRaises, NoDelivery, Scan, ToolRaises, RequestCancel, Interrupt
  <2>5. ASSUME NEW x \in Items, QuietItemStep(x) \/ Record(x) PROVE FALSE
    <3>1. UNCHANGED <<phase, marker>>
      BY <2>5, QuietItemFrame DEF Record
    <3> QED
      BY <1>2, <3>1
  <2>6. CASE UNCHANGED vars
    BY <1>2, <2>6
  <2> QED
    BY <1>0, <2>2, <2>3, <2>4, <2>5, <2>6, KindsOfSteps DEF QuietStep
<1> QED
  BY <1>1, <1>2

\* In the first process every step that can be done ends durably.
LEMMA FirstEnding ==
  ASSUME RecordInv, HonestInv, FirstInv, EndingStep, crashes = 0
  PROVE  /\ InRun /\ step \in DOMAIN Plan
         /\ \A i \in DOMAIN Plan : i > step /\ Bare(box, i) => Bare(box', i)
         /\ \/ /\ phase' = "boundary" /\ step' = step + 1 /\ Plan[step] = "transform"
            \/ /\ phase' = "recording" /\ step' = step
               /\ \E k \in 1..Len(queue') : /\ queue'[k].by = "step" /\ queue'[k].job = "gen"
                                            /\ Step(step) \in queue'[k].gen.done
<1>0. /\ step \in Nat \ {0} /\ box \in SUBSET AnyKeys /\ queue \in Seq(Jobs)
      /\ FirstSteps /\ FirstItems /\ AtPlan
  BY DEF RecordInv, BoxIsAtStep, DiskIsBehind, Ordered, FirstInv, HonestInv
<1>1. InRun /\ step \in DOMAIN Plan
  <2>1. InRun
    BY DEF InRun, EndingStep, Transform, ToolEnds, ReplayEach, EndEach, AtStep
  <2>2. step <= Len(Plan) \/ phase \in {"returned", "each"}
    BY DEF EndingStep, Transform, ToolEnds, ReplayEach, EndEach, AtStep
  <2> QED
    BY <1>0, <2>1, <2>2, PlanType DEF AtPlan
<1>2. \A i \in DOMAIN Plan : i > step /\ Bare(box, i) => Bare(box', i)
  <2>1. box' = box \cup {Step(step)} \/ box' = (box \cup {Collect(step)}) \cup {Step(step)}
    BY DEF EndingStep, Transform, ToolEnds, ReplayEach, EndEach, EndStep
  <2>2. ASSUME NEW i \in DOMAIN Plan, i > step, Bare(box, i) PROVE Bare(box', i)
    <3>1. i # step
      BY <1>1, <2>2, PlanType
    <3>2. Bare(box \cup {Step(step)}, i) /\ Bare(box \cup {Collect(step)}, i)
      BY <2>2, <3>1, BareAdds
    <3>3. Bare((box \cup {Collect(step)}) \cup {Step(step)}, i)
      BY <3>2, BareAdds
    <3> QED
      BY <2>1, <3>2, <3>3
  <2> QED
    BY <2>2
<1>3. ASSUME NEW keys, NEW before, before = <<>> \/ before = <<Write(step - 1, keys, "nobody")>>,
             EndStep(before, keys, TRUE)
      PROVE  /\ phase' = "recording" /\ step' = step
             /\ \E k \in 1..Len(queue') : /\ queue'[k].by = "step" /\ queue'[k].job = "gen"
                                          /\ Step(step) \in queue'[k].gen.done
  <2> DEFINE w == Write(step, keys \cup {Step(step)}, "step")
             v == Write(step - 1, keys, "nobody")
  <2>1. w.by = "step" /\ w.job = "gen" /\ Step(step) \in w.gen.done
    BY DEF Write, Generation
  <2>2. queue' = queue \o before \o <<w>> /\ phase' = "recording" /\ step' = step
    BY <1>3 DEF EndStep
  <2>3. before = <<>> \/ before = <<v>>
    BY <1>3
  <2> HIDE DEF w, v
  <2>4. \E q \in Seq({v}) : queue' = queue \o q \o <<w>>
    <3>1. <<>> \in Seq({v}) /\ <<v>> \in Seq({v})
      OBVIOUS
    <3>2. before \in Seq({v})
      BY <2>3, <3>1, Zenon
    <3> QED
      BY <2>2, <3>2
  <2>5. Len(queue') \in Nat \ {0} /\ queue'[Len(queue')] = w
    <3>1. PICK q \in Seq({v}) : queue' = queue \o q \o <<w>>
      BY <2>4
    <3>2. /\ Len(queue') = Len(queue) + Len(q) + 1 /\ Len(queue) \in Nat /\ Len(q) \in Nat
          /\ queue'[Len(queue) + Len(q) + 1] = w
      BY <1>0, <3>1
    <3> QED
      BY <3>2
  <2>6. Len(queue') \in 1..Len(queue')
    BY <2>5
  <2> QED
    BY <2>1, <2>2, <2>5, <2>6
<1> DEFINE Ends ==
      \/ /\ phase' = "boundary" /\ step' = step + 1 /\ Plan[step] = "transform"
      \/ /\ phase' = "recording" /\ step' = step
         /\ \E k \in 1..Len(queue') : /\ queue'[k].by = "step" /\ queue'[k].job = "gen"
                                      /\ Step(step) \in queue'[k].gen.done
<1>4. ASSUME Transform PROVE Ends
  BY <1>4 DEF Transform, AtStep, EndStep
<1>5. ASSUME ToolEnds PROVE Ends
  <2>1. EndStep(<<>>, box, TRUE)
    BY <1>5 DEF ToolEnds
  <2> QED
    BY <1>3, <2>1
<1>6. ASSUME ReplayEach PROVE Ends
  <2>1. phase = "boundary" /\ Collect(step) \in box
    BY <1>6 DEF ReplayEach, AtStep
  <2>2. Bare(box, step)
    BY <1>0, <1>1, <2>1 DEF FirstSteps
  <2> QED
    BY <2>1, <2>2 DEF Bare
<1>7. ASSUME EndEach PROVE Ends
  <2>1. phase = "each" /\ \A x \in Items : at[x] = "settled"
    BY <1>7 DEF EndEach, AllSettled
  <2>2. PICK x \in Items : TRUE
    BY PipelineAssumption
  <2>3. x \in worked
    BY <1>0, <2>1 DEF FirstItems
  <2>4. EndStep(<<Write(step - 1, box \cup {Collect(step)}, "nobody")>>, box \cup {Collect(step)}, TRUE)
    <3>1. (worked # {}) = TRUE
      BY <2>3
    <3> QED
      BY <1>7, <3>1 DEF EndEach
  <2> QED
    BY <1>3, <2>4
<1> QED
  BY <1>1, <1>2, <1>4, <1>5, <1>6, <1>7 DEF EndingStep

LEMMA FirstStepsStep ==
  RecordInv /\ HonestInv /\ FirstInv /\ [Next]_vars => FirstSteps'
<1> SUFFICES ASSUME RecordInv, HonestInv, FirstInv, [Next]_vars, crashes' = 0, InRun',
                    NEW i \in DOMAIN Plan
             PROVE  /\ i < step' /\ Touched(fired', i) => Step(i) \in gen'.done
                    /\ i > step' \/ (i = step' /\ phase' = "boundary") =>
                         ~Touched(fired', i) /\ Bare(box', i)
  BY DEF FirstSteps
<1>0. /\ crashes = 0 /\ ~Crash /\ CancelIsFirst /\ FirstSteps /\ FreshIdle /\ FirstWrite
      /\ step \in Nat \ {0} /\ i \in Nat /\ AtPlan
  BY StillFirst, PlanType DEF FirstInv, RecordInv, BoxIsAtStep, HonestInv
<1>1. InRun => /\ i < step /\ Touched(fired, i) => Step(i) \in gen.done
               /\ i > step \/ (i = step /\ phase = "boundary") => ~Touched(fired, i) /\ Bare(box, i)
  BY <1>0 DEF FirstSteps
\* A step that goes on.
<1>2. ASSUME InRun, step' = step, phase' = "boundary" => phase = "boundary" /\ box' = box,
             i > step /\ Bare(box, i) => Bare(box', i)
      PROVE  /\ i < step' /\ Touched(fired', i) => Step(i) \in gen'.done
             /\ i > step' \/ (i = step' /\ phase' = "boundary") =>
                  ~Touched(fired', i) /\ Bare(box', i)
  <2>1. ASSUME i < step', Touched(fired', i) PROVE Step(i) \in gen'.done
    <3>1. Touched(fired, i)
      BY <1>0, <1>2, <2>1, OnlyTheStep
    <3> QED
      BY <1>1, <1>2, <2>1, <3>1, OnlyTheStep
  <2>2. ASSUME i > step' \/ (i = step' /\ phase' = "boundary")
        PROVE  ~Touched(fired', i) /\ Bare(box', i)
    <3>1. ~Touched(fired, i) /\ Bare(box', i)
      BY <1>1, <1>2, <2>2
    <3>2. i # step \/ phase \notin {"calling", "each"}
      BY <1>0, <1>2, <2>2
    <3> QED
      BY <3>1, <3>2, OnlyTheStep
  <2> QED
    BY <2>1, <2>2
<1>3. CASE Land \/ RequestCancel \/ UNCHANGED vars
  <2>1. UNCHANGED <<phase, step, box>>
    BY <1>3 DEF Land, RequestCancel
  <2>2. InRun
    BY <2>1 DEF InRun
  <2> QED
    BY <1>2, <2>1, <2>2
<1>4. CASE CallTool \/ ToolActs \/ StartEach
  <2>1. UNCHANGED <<step, box>> /\ InRun /\ phase' # "boundary"
    BY <1>4 DEF CallTool, ToolActs, StartEach, AtStep, InRun
  <2> QED
    BY <1>2, <2>1
<1>5. CASE StartRun
  <2>1. phase = "idle" /\ marker = NoMarker /\ step' = gen.step + 1 /\ box' = gen.done
    BY <1>5 DEF StartRun, Take
  <2>2. gen.step = 0 /\ gen.done = {} /\ ~Touched(fired, i)
    BY <1>0, <2>1 DEF FreshIdle, NoGeneration, Generation
  <2>3. ~Touched(fired', i)
    BY <2>1, <2>2, OnlyTheStep
  <2>4. Bare(box', i)
    BY <2>1, <2>2 DEF Bare
  <2> QED
    BY <2>3, <2>4
<1>6. CASE IgnoreNudge \/ GiveUp \/ Deliver \/ Wake
  BY <1>6 DEF IgnoreNudge, GiveUp, Take, Deliver, Wake, InRun
<1>7. CASE StopAtBoundary \/ AllDone \/ Abort \/ StepFails \/ SettleRaises \/ NoDelivery(FALSE)
           \/ NoDelivery(TRUE) \/ WriteMarker \/ Scan \/ ToolRaises \/ Interrupt
  BY <1>7 DEF StopAtBoundary, AllDone, Abort, StepFails, Finish, SettleRaises, NoDelivery,
       WriteMarker, Scan, ToolRaises, Interrupt, InRun
\* A step that is over.
<1>8. ASSUME InRun, step' = step + 1, phase \notin {"calling", "each"} \/ ~Touched(fired', step),
             i > step /\ Bare(box, i) => Bare(box', i),
             i = step /\ Touched(fired', i) => Step(i) \in gen'.done
      PROVE  /\ i < step' /\ Touched(fired', i) => Step(i) \in gen'.done
             /\ i > step' \/ (i = step' /\ phase' = "boundary") =>
                  ~Touched(fired', i) /\ Bare(box', i)
  <2>1. ASSUME i < step', Touched(fired', i) PROVE Step(i) \in gen'.done
    <3>1. CASE i = step
      BY <1>8, <2>1, <3>1
    <3>2. CASE i < step
      <4>1. Touched(fired, i)
        BY <1>0, <2>1, <3>2, OnlyTheStep
      <4> QED
        BY <1>1, <1>8, <3>2, <4>1, OnlyTheStep
    <3> QED
      BY <1>0, <1>8, <2>1, <3>1, <3>2
  <2>2. ASSUME i > step' \/ i = step' PROVE ~Touched(fired', i) /\ Bare(box', i)
    <3>1. i > step
      BY <1>0, <1>8, <2>2
    <3>2. ~Touched(fired, i) /\ Bare(box', i)
      BY <1>1, <1>8, <3>1
    <3> QED
      BY <1>0, <3>1, <3>2, OnlyTheStep
  <2> QED
    BY <2>1, <2>2
<1>9. CASE StepRecorded
  <2>1. /\ phase = "recording" /\ InRun /\ step' = step + 1 /\ box' = box /\ gen' = gen
        /\ Landed("step")
    BY <1>9 DEF StepRecorded, InRun
  <2>2. \A k \in 1..Len(queue) : queue[k].by # "step"
    BY <2>1 DEF Landed, RecordInv, DiskIsBehind, Ordered
  <2>3. Step(step) \in gen.done
    BY <1>0, <2>1, <2>2 DEF FirstWrite
  <2> QED
    BY <1>8, <2>1, <2>3
<1>10. CASE EndingStep
  <2>1. InRun /\ (i > step /\ Bare(box, i) => Bare(box', i))
    BY <1>0, <1>10, FirstEnding
  <2>2. CASE phase' = "recording" /\ step' = step
    BY <1>2, <2>1, <2>2
  <2>3. CASE phase' = "boundary" /\ step' = step + 1 /\ Plan[step] = "transform" /\ step \in DOMAIN Plan
    <3>1. ~Touched(fired', step)
      BY <2>3, EffectsAre DEF Touched
    <3> QED
      BY <1>8, <2>1, <2>3, <3>1
  <2> QED
    BY <1>0, <1>10, <2>2, <2>3, FirstEnding
<1>11. CASE Save
  <2>1. /\ phase = "each" /\ phase' = "each" /\ step' = step /\ finished # <<>>
        /\ box' = box \cup {Item(step, First)}
    BY <1>11 DEF Save
  <2>2. First \in Items
    BY <2>1 DEF RecordInv, First
  <2>3. i > step /\ Bare(box, i) => Bare(box', i)
    <3>1. i > step => i # step
      BY <1>0
    <3> QED
      BY <2>1, <2>2, <3>1, BareAdds
  <2> QED
    BY <1>2, <2>1, <2>3 DEF InRun
<1>12. ASSUME NEW x \in Items, Record(x)
       PROVE  /\ i < step' /\ Touched(fired', i) => Step(i) \in gen'.done
              /\ i > step' \/ (i = step' /\ phase' = "boundary") =>
                   ~Touched(fired', i) /\ Bare(box', i)
  <2>1. /\ phase = "each" /\ phase' = phase /\ step' = step /\ Inner # 0
        /\ \E e \in Upcoming(x) : box' = box \cup {e}
    BY <1>12 DEF Record, Merged, RecordInv, ItemsUnkept
  <2>2. PICK j \in 1..Inner : box' = box \cup {Sub(step, x, j)}
    BY <2>1, UpcomingIs
  <2>3. i > step /\ Bare(box, i) => Bare(box', i)
    <3>1. i > step => i # step
      BY <1>0
    <3> QED
      BY <2>2, <3>1, BareAdds
  <2> QED
    BY <1>2, <2>1, <2>3 DEF InRun
<1>13. ASSUME NEW x \in Items, QuietItemStep(x)
       PROVE  /\ i < step' /\ Touched(fired', i) => Step(i) \in gen'.done
              /\ i > step' \/ (i = step' /\ phase' = "boundary") =>
                   ~Touched(fired', i) /\ Bare(box', i)
  <2>1. UNCHANGED <<phase, step, box>>
    BY <1>13, QuietItemFrame
  <2>2. InRun
    BY <2>1 DEF InRun
  <2> QED
    BY <1>2, <2>1, <2>2
<1> QED
  BY <1>0, <1>3, <1>4, <1>5, <1>6, <1>7, <1>9, <1>10, <1>11, <1>12, <1>13, KindsOfSteps DEF QuietStep

LEMMA FirstWriteStep ==
  RecordInv /\ HonestInv /\ FirstInv /\ [Next]_vars => FirstWrite'
<1> SUFFICES ASSUME RecordInv, HonestInv, FirstInv, [Next]_vars, crashes' = 0, phase' = "recording"
             PROVE  \/ Step(step') \in gen'.done
                    \/ \E k \in 1..Len(queue') : /\ queue'[k].by = "step" /\ queue'[k].job = "gen"
                                                 /\ Step(step') \in queue'[k].gen.done
  BY DEF FirstWrite
<1>0. /\ crashes = 0 /\ ~Crash /\ queue \in Seq(Jobs) /\ ItemsRest /\ gen.done \subseteq gen'.done
      /\ phase = "recording" =>
           \/ Step(step) \in gen.done
           \/ \E k \in 1..Len(queue) : /\ queue[k].by = "step" /\ queue[k].job = "gen"
                                       /\ Step(step) \in queue[k].gen.done
  BY StillFirst, OnlyTheStep DEF FirstInv, FirstWrite, RecordInv, DiskIsBehind, Ordered, FateInv
<1>1. CASE UNCHANGED <<phase, step, queue>>
  BY <1>0, <1>1
<1>2. CASE Land
  <2>1. /\ phase = "recording" /\ step' = step /\ queue # <<>> /\ queue' = Tail(queue)
        /\ Head(queue).job = "gen" => gen' = Head(queue).gen
    BY <1>2 DEF Land
  <2>2. CASE Step(step) \in gen.done
    BY <1>0, <2>1, <2>2
  <2>3. ASSUME NEW k \in 1..Len(queue), queue[k].by = "step", queue[k].job = "gen",
               Step(step) \in queue[k].gen.done
        PROVE  \/ Step(step') \in gen'.done
               \/ \E l \in 1..Len(queue') : /\ queue'[l].by = "step" /\ queue'[l].job = "gen"
                                            /\ Step(step') \in queue'[l].gen.done
    <3>1. CASE k = 1
      <4>1. Head(queue) = queue[1]
        BY <1>0, <2>1
      <4> QED
        BY <2>1, <2>3, <3>1, <4>1
    <3>2. CASE k # 1
      <4>1. k - 1 \in 1..Len(queue') /\ queue'[k - 1] = queue[k]
        BY <1>0, <2>1, <2>3, <3>2
      <4> QED
        BY <2>1, <2>3, <4>1
    <3> QED
      BY <3>1, <3>2
  <2> QED
    BY <1>0, <2>1, <2>2, <2>3
<1>3. CASE EndingStep
  BY <1>0, <1>3, FirstEnding
<1>4. CASE RequestCancel \/ UNCHANGED vars
  BY <1>1, <1>4 DEF RequestCancel
<1>5. CASE IgnoreNudge \/ GiveUp \/ StartRun \/ Save \/ Deliver \/ Wake
  BY <1>5 DEF IgnoreNudge, GiveUp, StartRun, Take, Save, Deliver, Wake
<1>6. CASE StopAtBoundary \/ AllDone \/ Abort \/ StepFails \/ CallTool \/ ToolActs \/ StepRecorded
           \/ StartEach \/ SettleRaises \/ NoDelivery(FALSE) \/ NoDelivery(TRUE) \/ WriteMarker
           \/ Scan \/ ToolRaises \/ Interrupt
  BY <1>6 DEF StopAtBoundary, AllDone, Abort, StepFails, Finish, CallTool, ToolActs, StepRecorded,
       StartEach, SettleRaises, NoDelivery, WriteMarker, Scan, ToolRaises, Interrupt
<1>7. ASSUME NEW x \in Items, QuietItemStep(x) PROVE FALSE
  <2>1. phase = "recording"
    BY <1>7, QuietItemFrame
  <2> QED
    BY <1>0, <1>7, <2>1 DEF ItemsRest, QuietItemStep, StartItem, ItemActs, Recorded, ItemReturns,
         Saved, ItemFails
<1>8. ASSUME NEW x \in Items, Record(x) PROVE FALSE
  BY <1>0, <1>8 DEF ItemsRest, Record
<1> QED
  BY <1>0, <1>2, <1>3, <1>4, <1>5, <1>6, <1>7, <1>8, KindsOfSteps DEF QuietStep

\* An item that acted or has a key of its own is among those that worked.
Worker(x) ==
  \/ \E j \in 1..Inner : Sub(step, x, j) \in box
  \/ at[x] \in {"acted", "writing", "good", "saving", "settled"}
  => x \in worked

LEMMA FirstItemsStep ==
  RecordInv /\ HonestInv /\ FirstInv /\ [Next]_vars => FirstItems'
<1> SUFFICES ASSUME RecordInv, HonestInv, FirstInv, [Next]_vars, crashes' = 0, phase' = "each"
             PROVE  Collect(step') \notin box' /\ \A y \in Items : Worker(y)'
  BY DEF FirstItems, Worker
<1>0. /\ crashes = 0 /\ ~Crash /\ ItemsRest /\ at \in [Items -> Places] /\ FirstSteps /\ AtPlan
      /\ phase = "each" => Collect(step) \notin box /\ \A y \in Items : Worker(y)
  BY StillFirst DEF FirstInv, FirstItems, Worker, RecordInv, FateInv, PlainTypes, HonestInv
\* What leaves an item as it was, and what the box has of it.
<1>1. ASSUME phase = "each", step' = step, worked \subseteq worked', NEW y \in Items, at'[y] = at[y],
             \A j \in 1..Inner : Sub(step, y, j) \in box' => Sub(step, y, j) \in box
      PROVE  Worker(y)'
  BY <1>0, <1>1 DEF Worker
<1>2. CASE Land \/ RequestCancel \/ UNCHANGED vars
  <2>1. UNCHANGED <<phase, step, box, at, worked>>
    BY <1>2 DEF Land, RequestCancel
  <2> QED
    BY <1>0, <1>1, <2>1
<1>3. CASE IgnoreNudge \/ GiveUp \/ StartRun \/ Deliver \/ Wake \/ EndingStep
           \/ StopAtBoundary \/ AllDone \/ Abort \/ StepFails \/ CallTool \/ ToolActs
           \/ StepRecorded \/ SettleRaises \/ NoDelivery(FALSE) \/ NoDelivery(TRUE)
           \/ WriteMarker \/ Scan \/ ToolRaises \/ Interrupt
  BY <1>3 DEF IgnoreNudge, GiveUp, StartRun, Take, Deliver, Wake, EndingStep,
       Transform, ToolEnds, ReplayEach, EndEach, EndStep, StopAtBoundary, AllDone, Abort,
       StepFails, Finish, CallTool, ToolActs, StepRecorded, SettleRaises, NoDelivery,
       WriteMarker, Scan, ToolRaises, Interrupt
<1>4. CASE StartEach
  <2>1. /\ step' = step /\ box' = box /\ phase = "boundary" /\ Collect(step) \notin box
        /\ at' = [x \in Items |-> IF Item(step, x) \in box THEN "settled" ELSE "waiting"]
        /\ step \in DOMAIN Plan
    <3>1. step <= Len(Plan) /\ step \in Nat \ {0}
      BY <1>4 DEF StartEach, AtStep, RecordInv, BoxIsAtStep
    <3> QED
      BY <1>4, <3>1, PlanType DEF StartEach, AtStep
  <2>2. Bare(box, step)
    BY <1>0, <2>1 DEF FirstSteps, InRun
  <2>3. ASSUME NEW y \in Items PROVE Worker(y)'
    <3>1. at'[y] = "waiting" /\ \A j \in 1..Inner : Sub(step', y, j) \notin box'
      BY <2>1, <2>2, Zenon DEF Bare
    <3> QED
      BY <3>1 DEF Worker
  <2> QED
    BY <2>1, <2>3
<1>5. CASE Save
  <2>1. /\ phase = "each" /\ step' = step /\ box' = box \cup {Item(step, First)}
        /\ at' = [at EXCEPT ![First] = "saving"] \/ at' = [at EXCEPT ![First] = "settled"]
        /\ finished # <<>> /\ worked \subseteq worked'
    BY <1>5 DEF Save
  <2>2. First \in Items
    BY <2>1 DEF RecordInv, First
  <2>3. at[First] \in {"good", "bad"}
    <3>1. First = finished[1] /\ 1 \in 1..Len(finished)
      BY <2>1 DEF RecordInv, First
    <3> QED
      BY <3>1, Zenon DEF HonestInv, FinishedOnce
  <2>4. First \in worked'
    <3>1. CASE First \in worked
      BY <2>1, <3>1
    <3>2. CASE at[First] = "bad"
      BY <1>5, <3>2 DEF Save
    <3> QED
      BY <1>0, <2>1, <2>2, <2>3, <3>1, <3>2 DEF Worker
  <2>5. \A j \in 1..Inner, y \in Items : Sub(step, y, j) # Item(step, First)
    BY <2>2, KeysName
  <2>6. ASSUME NEW y \in Items PROVE Worker(y)'
    <3>1. CASE y = First
      BY <2>4, <3>1 DEF Worker
    <3>2. CASE y # First
      <4>1. at'[y] = at[y]
        BY <1>0, <2>1, <3>2
      <4> QED
        BY <1>1, <2>1, <2>5, <4>1
    <3> QED
      BY <3>1, <3>2
  <2>7. Collect(step) # Item(step, First)
    BY <2>2, KeysName
  <2> QED
    BY <1>0, <2>1, <2>6, <2>7
<1>6. ASSUME NEW x \in Items, Record(x)
      PROVE  Collect(step') \notin box' /\ \A y \in Items : Worker(y)'
  <2>1. /\ phase = "each" /\ step' = step /\ Inner # 0 /\ worked' = worked /\ at[x] = "acted"
        /\ at' = [at EXCEPT ![x] = "writing"] /\ \E e \in Upcoming(x) : box' = box \cup {e}
    BY <1>6 DEF Record, Merged, RecordInv, ItemsUnkept
  <2>2. PICK k \in 1..Inner : box' = box \cup {Sub(step, x, k)}
    BY <2>1, UpcomingIs
  <2>3. x \in worked'
    BY <1>0, <2>1 DEF Worker
  <2>4. ASSUME NEW y \in Items PROVE Worker(y)'
    <3>1. CASE y = x
      BY <2>3, <3>1 DEF Worker
    <3>2. CASE y # x
      <4>1. at'[y] = at[y]
        BY <1>0, <2>1, <3>2
      <4>2. \A j \in 1..Inner : Sub(step, y, j) # Sub(step, x, k)
        BY <3>2, KeysName
      <4> QED
        BY <1>1, <2>1, <2>2, <4>1, <4>2
    <3> QED
      BY <3>1, <3>2
  <2>5. Collect(step) # Sub(step, x, k)
    BY KeysName
  <2> QED
    BY <1>0, <2>1, <2>2, <2>4, <2>5
<1>7. ASSUME NEW x \in Items, QuietItemStep(x)
      PROVE  Collect(step') \notin box' /\ \A y \in Items : Worker(y)'
  <2>1. /\ phase = "each" /\ step' = step /\ box' = box /\ worked \subseteq worked'
        /\ \A z \in Items : z # x => at'[z] = at[z]
    <3>1. phase = "each" /\ step' = step /\ box' = box
      BY <1>7, QuietItemFrame
    <3>2. at' = at \/ \E p : at' = [at EXCEPT ![x] = p]
      BY <1>7 DEF QuietItemStep, StartItem, ItemActs, Recorded, ItemReturns, Saved, ItemFails, Returns
    <3>3. worked \subseteq worked'
      BY <1>7 DEF QuietItemStep, StartItem, ItemActs, Recorded, ItemReturns, Saved, ItemFails
    <3> QED
      BY <1>0, <3>1, <3>2, <3>3
  <2>2. CASE x \in worked'
    <3>1. ASSUME NEW y \in Items PROVE Worker(y)'
      <4>1. CASE y = x
        BY <2>2, <4>1 DEF Worker
      <4> QED
        BY <1>1, <2>1, <4>1
    <3> QED
      BY <1>0, <2>1, <3>1
  <2>3. CASE x \notin worked'
    <3>1. /\ x \notin worked /\ at[x] \notin {"acted", "writing", "good", "saving", "settled"}
          /\ \A j \in 1..Inner : Sub(step, x, j) \notin box
      BY <1>0, <2>1, <2>3 DEF Worker
    <3>2. ~ItemReturns(x)
      <4>1. Upcoming(x) = {} => Inner # 0 /\ Left(x) = {}
        BY UpcomingIs
      <4>2. Inner # 0 => 1 \in 1..Inner
        BY PipelineAssumption
      <4>3. Inner # 0 => 1 \in Left(x)
        BY <3>1, <4>2 DEF Left
      <4> QED
        BY <4>1, <4>3 DEF ItemReturns
    <3>3. ~ItemActs(x)
      BY <2>3 DEF ItemActs
    <3>4. at'[x] \in {at[x], "ready", "bad"}
      BY <1>0, <1>7, <3>1, <3>2, <3>3 DEF QuietItemStep, StartItem, Recorded, Saved, ItemFails, Returns
    <3>5. Worker(x)'
      BY <2>1, <3>1, <3>4 DEF Worker
    <3>6. \A y \in Items : Worker(y)'
      BY <1>1, <2>1, <3>5
    <3> QED
      BY <1>0, <2>1, <3>6
  <2> QED
    BY <2>2, <2>3
<1> QED
  BY <1>0, <1>2, <1>3, <1>4, <1>5, <1>6, <1>7, KindsOfSteps DEF QuietStep

LEMMA CancelIsCleanStep ==
  RecordInv /\ HonestInv /\ FirstInv /\ [Next]_vars => CancelIsClean'
<1> SUFFICES ASSUME RecordInv, HonestInv, FirstInv, [Next]_vars PROVE CancelIsClean'
  OBVIOUS
<1> DEFINE Cancelled == (InEnd /\ verdict = "cancelled") \/ marker.status = "cancelled"
<1>0. /\ Cancelled => Clean(fired, gen)
      /\ phase \notin {"calling", "each"} /\ Clean(fired, gen) => Clean(fired', gen')
      /\ MarkerRests
  <2>1. phase \notin {"calling", "each"} /\ Clean(fired, gen) => Clean(fired', gen')
    BY OnlyTheStep DEF Clean
  <2> QED
    BY <2>1 DEF FirstInv, CancelIsClean, RecordInv, FateInv
<1>1. ASSUME Cancelled PROVE phase \notin {"calling", "each"}
  BY <1>0, <1>1 DEF MarkerRests, InEnd, NoMarker
<1>2. CASE Cancelled' => Cancelled
  BY <1>0, <1>1, <1>2 DEF CancelIsClean
<1>3. CASE UNCHANGED <<phase, verdict, marker>>
  BY <1>2, <1>3 DEF InEnd
<1>4. CASE phase' \notin {"finishing", "posted", "unposted"} /\ marker' = marker
  BY <1>2, <1>4 DEF InEnd
<1>5. CASE verdict' # "cancelled" /\ marker' = marker
  BY <1>2, <1>5
<1>6. CASE StopAtBoundary
  <2>1. phase = "boundary" /\ cancel /\ crashes = 0
    BY <1>6 DEF StopAtBoundary, FirstInv, CancelIsFirst
  <2>2. \A i \in DOMAIN Plan : i \in Nat /\ step \in Nat
    BY PlanType DEF RecordInv, BoxIsAtStep
  <2>3. Clean(fired, gen)
    BY <2>1, <2>2 DEF FirstInv, FirstSteps, InRun, Clean
  <2> QED
    BY <1>0, <2>1, <2>3 DEF CancelIsClean
<1>7. CASE WriteMarker
  BY <1>2, <1>7 DEF WriteMarker, InEnd
<1>8. CASE Deliver \/ NoDelivery(FALSE) \/ NoDelivery(TRUE)
  BY <1>2, <1>8 DEF Deliver, NoDelivery, InEnd
<1>9. CASE GiveUp \/ AllDone \/ Abort \/ StepFails
  BY <1>5, <1>9 DEF GiveUp, Take, AllDone, Abort, StepFails, Finish
<1>10. CASE Land \/ IgnoreNudge \/ RequestCancel
  BY <1>3, <1>10 DEF Land, IgnoreNudge, Take, RequestCancel
<1>11. CASE StartRun \/ Wake \/ Crash \/ EndingStep \/ CallTool \/ ToolActs \/ StepRecorded
            \/ StartEach \/ Save \/ SettleRaises \/ Scan \/ ToolRaises \/ Interrupt
  BY <1>4, <1>11 DEF StartRun, Take, Wake, Crash, EndingStep, Transform, ToolEnds, ReplayEach,
       EndEach, EndStep, CallTool, ToolActs, StepRecorded, StartEach, Save, SettleRaises, Scan,
       ToolRaises, Interrupt
<1>12. ASSUME NEW x \in Items, Record(x) \/ QuietItemStep(x) PROVE CancelIsClean'
  <2>1. UNCHANGED <<phase, marker, verdict>>
    BY <1>12 DEF Record, QuietItemStep, StartItem, ItemActs, Recorded, ItemReturns, Saved, ItemFails
  <2> QED
    BY <1>3, <2>1
<1>13. CASE UNCHANGED vars
  BY <1>3, <1>13
<1> QED
  BY <1>6, <1>7, <1>8, <1>9, <1>10, <1>11, <1>12, <1>13, KindsOfSteps DEF QuietStep

\* MarkerIsHonest: what result.json says of the run holds, whatever the plan,
\* however many items run side by side, whenever the process dies and however
\* often an item is retried.  "ok" stands only over effects that were had or
\* that on_error = "continue" recorded as dropped; "cancelled" only where no
\* step that acted is missing from the latest generation.
THEOREM MarkerTellsTheTruth == Spec => []MarkerIsHonest
<1> DEFINE IInv == RecordInv /\ HonestInv /\ FirstInv
<1>1. Init => IInv
  BY RecordInit, HonestInit, FirstInit
<1>2. IInv /\ [Next]_vars => IInv'
  <2>1. RecordInv /\ HonestInv /\ [Next]_vars => RecordInv' /\ HonestInv'
    BY RecordStep, GensHonestStep, BoxHonestStep, AtPlanStep, ItemsHonestStep, FinishedOnceStep,
       OkStep DEF HonestInv
  <2>2. RecordInv /\ HonestInv /\ FirstInv /\ [Next]_vars => FirstInv'
    BY CancelIsFirstStep, FreshIdleStep, FirstStepsStep, FirstWriteStep, FirstItemsStep,
       CancelIsCleanStep DEF FirstInv
  <2> QED
    BY <2>1, <2>2
<1>3. IInv => MarkerIsHonest
  <2> SUFFICES ASSUME HonestInv, FirstInv PROVE MarkerIsHonest
    OBVIOUS
  <2>1. marker.status = "ok" =>
          \A i \in DOMAIN Plan : \A e \in EffectsOf(i) : fired[e] > 0 \/ Skipped(i, e)
    BY Zenon DEF HonestInv, OkIsEarned, StepDone, SkippedIn, Skipped
  <2>2. marker.status = "cancelled" =>
          \A i \in DOMAIN Plan : (\E e \in EffectsOf(i) : fired[e] > 0) => Step(i) \in gen.done
    BY Zenon DEF FirstInv, CancelIsClean, Clean, Touched
  <2> QED
    BY <2>1, <2>2 DEF MarkerIsHonest
<1> QED
  BY <1>1, <1>2, <1>3, PTL DEF Spec
=============================================================================
