----------------------- MODULE DurabilityWorkerProofs -----------------------
(***************************************************************************)
(* What DurabilityWorker promises for any number of jobs, callers, faults  *)
(* and cancellations.                                                      *)
(*                                                                         *)
(* Two parts of the invariant hold whatever is cancelled: the queue's      *)
(* books balance (Shape) and a job is in one place at a time - queued, in  *)
(* one consumer's hand, in a thread nobody awaits, or on disk (OnePlace).  *)
(* The other two need that nothing is: the places are in the order of      *)
(* enqueueing (InOrder), and a job in none of them was dealt with, before  *)
(* anyone who waits for it goes on (Tracked).  On top of these, HookInv    *)
(* follows the end-of-burst job: what is on disk without one is owed one.  *)
(***************************************************************************)
EXTENDS DurabilityWorker, FiniteSetTheorems, TLAPS

\* The jobs enqueued so far, and those a queue holds, which stand in order.
Born      == {j \in Job : fut[j] # "unborn"}
Queued(q) == {j \in Job : \E i \in DOMAIN q : q[i] = j}
Sorted(q) == \A a, b \in DOMAIN q : a < b /\ q[a] # END /\ q[b] # END => q[a] < q[b]

\* A consumer is running, and has this job in hand, or none.
Active(c)   == worker[c].at # "off"
Carries(c)  == Held(worker[c])
InHand(c)   == IF Carries(c) THEN {worker[c].hand} \ {END} ELSE {}
HeldBy(run) == IF Held(run) THEN 1 ELSE 0

Inliners == {k \in Callers : caller[k] = "inlining"}

\* One caller drains at a time, and unfinished counts what is queued and in hand.
Shape ==
  /\ Born = 1..issued /\ issued \in Nat
  /\ worker["inline"].at # "start"
  /\ Active("inline") <=> InlineDraining
  /\ \A k, l \in Inliners : k = l
  /\ unfinished = Len(queue) + HeldBy(worker["drainer"]) + HeldBy(worker["inline"])

\* No job is in two places; a write in a thread is not on disk yet.
OnePlace ==
  /\ Sorted(queue)
  /\ Queued(queue) \subseteq Born /\ orphans \subseteq Born /\ Landed \subseteq Born
  /\ \A c \in Consumer : InHand(c) \subseteq Born
  /\ \A c \in Consumer : InHand(c) \cap Queued(queue) = {}
  /\ InHand("drainer") \cap InHand("inline") = {}
  /\ Queued(queue) \cap (Landed \cup orphans) = {}
  /\ orphans \cap Landed = {}
  /\ \A c \in Consumer : InHand(c) \cap orphans = {}
  /\ \A c \in Consumer : worker[c].at \in {"writing", "raised"} => InHand(c) \cap Landed = {}
  /\ \A c \in Consumer : worker[c].at = "written" => InHand(c) \subseteq Landed

\* Written, or its failure surfaced.
Dealt(j) == j \in Landed \/ (j \in gaveUp /\ (failed \/ fut[j] = "error"))

\* What is on disk comes before what is in hand, and that before what is queued.
InOrder ==
  ~Cancelled =>
    /\ ~cancelling /\ orphans = {}
    /\ ~(Active("drainer") /\ Active("inline"))
    /\ \A a, b \in DOMAIN landed : a < b => landed[a] < landed[b]
    /\ \A c \in Consumer : \A h \in InHand(c), j \in Landed :
         j < h \/ (worker[c].at = "written" /\ j <= h)
    /\ \A j \in Landed, q \in Queued(queue) : j < q
    /\ \A c \in Consumer : \A h \in InHand(c), q \in Queued(queue) : h < q

\* Whatever is in no place was dealt with; so was all a caller past its wait asked for.
Tracked ==
  ~Cancelled =>
    /\ Born \subseteq Queued(queue) \cup InHand("drainer") \cup InHand("inline")
                       \cup {j \in Job : Dealt(j)}
    /\ \A j \in Queued(queue) \cup InHand("drainer") \cup InHand("inline") :
         fut[j] \in {"none", "pending"}
    /\ \A k \in Callers : target[k] \subseteq Born
    /\ \A k \in Callers : caller[k] \in {"drained", "returned", "stopped"} =>
         \A j \in target[k] : Dealt(j)

IInv == TypeOK /\ Shape /\ OnePlace /\ FuturesAreHonest /\ InOrder /\ Tracked

----------------------------------------------------------------------------
(* Queues and numbers.                                                     *)

Slot == Job \cup {END}

LEMMA Numbers == Job \subseteq Nat \ {0} /\ END = 0 /\ END \notin Job /\ Slot \subseteq Nat
  BY WorkerAssumption DEF Job, END, Slot

\* Putting a job behind a queue.
LEMMA PutBehind ==
  ASSUME NEW q \in Seq(Slot), NEW e \in Slot
  PROVE  /\ Append(q, e) \in Seq(Slot) /\ Len(Append(q, e)) = Len(q) + 1
         /\ Append(q, e) # <<>>
         /\ Queued(Append(q, e)) = Queued(q) \cup ({e} \ {END})
         /\ (Sorted(q) /\ (e # END => \A j \in Queued(q) : j < e)) => Sorted(Append(q, e))
  <1> DEFINE r == Append(q, e)
  <1>1. r \in Seq(Slot) /\ Len(r) = Len(q) + 1 /\ r # <<>>
    <2>1. r \in Seq(Slot) /\ Len(r) = Len(q) + 1 /\ Len(q) \in Nat
      OBVIOUS
    <2>2. Len(<<>>) = 0 /\ Len(q) + 1 # 0
      BY <2>1
    <2> QED
      BY <2>1, <2>2
  <1>2. /\ DOMAIN r = 1..(Len(q) + 1) /\ DOMAIN q = 1..Len(q) /\ Len(q) \in Nat
        /\ \A i \in DOMAIN q : r[i] = q[i] /\ q[i] \in Slot
        /\ r[Len(q) + 1] = e
    OBVIOUS
  <1> HIDE DEF r
  <1>3. Queued(r) = Queued(q) \cup ({e} \ {END})
    <2>1. \A i \in DOMAIN r : i \in DOMAIN q \/ i = Len(q) + 1
      BY <1>2
    <2>2. DOMAIN q \subseteq DOMAIN r /\ Len(q) + 1 \in DOMAIN r
      BY <1>2
    <2> QED
      BY <1>2, <2>1, <2>2, Numbers DEF Queued, Slot
  <1>4. ASSUME Sorted(q), e # END => \A j \in Queued(q) : j < e
        PROVE  Sorted(r)
    <2> SUFFICES ASSUME NEW a \in DOMAIN r, NEW b \in DOMAIN r, a < b, r[a] # END, r[b] # END
                 PROVE  r[a] < r[b]
      BY DEF Sorted
    <2>1. a \in DOMAIN q
      BY <1>2
    <2>2. CASE b \in DOMAIN q
      BY <1>2, <1>4, <2>1, <2>2 DEF Sorted
    <2>3. CASE b = Len(q) + 1
      <3>1. q[a] \in Queued(q)
        BY <1>2, <2>1, Numbers DEF Queued, Slot
      <3> QED
        BY <1>2, <1>4, <2>1, <2>3, <3>1
    <2> QED
      BY <1>2, <2>2, <2>3
  <1> QED
    BY <1>1, <1>3, <1>4 DEF r

\* Taking the first job of one.
LEMMA TakenFirst ==
  ASSUME NEW q \in Seq(Slot), q # <<>>
  PROVE  /\ Head(q) \in Slot /\ Tail(q) \in Seq(Slot) /\ Len(Tail(q)) = Len(q) - 1
         /\ Queued(q) = Queued(Tail(q)) \cup ({Head(q)} \ {END})
         /\ Sorted(q) => /\ Sorted(Tail(q))
                         /\ Head(q) # END => \A j \in Queued(Tail(q)) : Head(q) < j
  <1> DEFINE r == Tail(q)
  <1>1. Head(q) \in Slot /\ r \in Seq(Slot) /\ Len(r) = Len(q) - 1 /\ Len(q) \in Nat \ {0}
    OBVIOUS
  <1>2. /\ DOMAIN q = 1..Len(q) /\ DOMAIN r = 1..(Len(q) - 1)
        /\ Head(q) = q[1] /\ \A i \in DOMAIN r : r[i] = q[i + 1]
    OBVIOUS
  <1> HIDE DEF r
  <1>3. Queued(q) = Queued(r) \cup ({Head(q)} \ {END})
    <2>1. \A i \in DOMAIN q : i = 1 \/ (i - 1 \in DOMAIN r /\ r[i - 1] = q[i])
      BY <1>1, <1>2
    <2>2. \A i \in DOMAIN r : i + 1 \in DOMAIN q
      BY <1>1, <1>2
    <2>3. 1 \in DOMAIN q
      BY <1>1, <1>2
    <2>4. Queued(q) \subseteq Queued(r) \cup {Head(q)} /\ END \notin Queued(q)
      BY <1>2, <2>1, Numbers DEF Queued
    <2>5. Queued(r) \subseteq Queued(q)
      BY <1>2, <2>2, Zenon DEF Queued
    <2>6. Head(q) # END => Head(q) \in Queued(q)
      BY <1>1, <1>2, <2>3, Zenon DEF Queued, Slot
    <2> DEFINE a == Queued(q)
               b == Queued(r)
               h == Head(q)
    <2> HIDE DEF a, b, h
    <2>7. a = b \cup ({h} \ {END})
      <3>1. a \subseteq b \cup {h} /\ END \notin a /\ b \subseteq a /\ (h # END => h \in a)
        BY <2>4, <2>5, <2>6, Zenon DEF a, b, h
      <3> QED
        BY <3>1
    <2> QED
      BY <2>7, Zenon DEF a, b, h
  <1>4. ASSUME Sorted(q)
        PROVE  Sorted(r)
    <2>1. SUFFICES ASSUME NEW a \in DOMAIN r, NEW b \in DOMAIN r, a < b,
                          r[a] # END, r[b] # END
                   PROVE  r[a] < r[b]
      BY Zenon DEF Sorted
    <2>2. /\ a + 1 \in DOMAIN q /\ b + 1 \in DOMAIN q /\ a + 1 < b + 1
          /\ r[a] = q[a + 1] /\ r[b] = q[b + 1]
      BY <1>1, <1>2, <2>1
    <2> QED
      BY <1>4, <2>1, <2>2, Zenon DEF Sorted
  <1>5. ASSUME Sorted(q), Head(q) # END, NEW j \in Queued(r)
        PROVE  Head(q) < j
    <2>1. PICK i \in DOMAIN r : r[i] = j
      BY <1>5 DEF Queued
    <2>2. j # END
      BY <1>5, Numbers DEF Queued
    <2>3. 1 \in DOMAIN q /\ i + 1 \in DOMAIN q /\ 1 < i + 1 /\ q[i + 1] = j
      BY <1>1, <1>2, <2>1
    <2> QED
      BY <1>2, <1>5, <2>2, <2>3 DEF Sorted
  <1> QED
    BY <1>1, <1>3, <1>4, <1>5 DEF r

\* An empty queue has no jobs.
LEMMA NothingQueued == Queued(<<>>) = {} /\ Sorted(<<>>)
  BY DEF Queued, Sorted

Runs == [at : {"off", "start", "writing", "written", "raised"},
         hand : Slot, attempt : 0..(MaxWriteAttempts - 1), owes : BOOLEAN]

LEMMA Idle ==
  /\ Off \in Runs /\ Off.at = "off" /\ HeldBy(Off) = 0
  /\ Started \in Runs /\ Started.at = "start" /\ HeldBy(Started) = 0
  BY WorkerAssumption, Numbers DEF Off, Started, Runs, Slot, HeldBy, Held

\* One turn of the loop: nothing is lost on the way from the queue to the hand.
LEMMA TakeFacts ==
  ASSUME NEW q \in Seq(Slot), NEW n \in Int, NEW owes \in BOOLEAN
  PROVE  LET t == Take(q, n, owes) IN
         /\ t.queue \in Seq(Slot) /\ t.run \in Runs /\ t.run.at \in {"off", "writing"}
         /\ t.unfinished = n - Len(q) + Len(t.queue) + HeldBy(t.run)
         /\ Queued(q) = Queued(t.queue) \cup ({t.run.hand} \ {END})
         /\ Sorted(q) => /\ Sorted(t.queue)
                         /\ t.run.hand # END => \A j \in Queued(t.queue) : t.run.hand < j
         /\ t.run = Off <=> t.run.at = "off"
         /\ t.run = Off => q = <<>>
  <1> DEFINE last == owes /\ Len(q) <= 1
             more == IF last THEN Append(q, END) ELSE q
             put  == IF last THEN n + 1 ELSE n
             t    == Take(q, n, owes)
  <1>0. END \in Slot
    BY DEF Slot
  <1>1. /\ more \in Seq(Slot) /\ put = n - Len(q) + Len(more) /\ Queued(more) = Queued(q)
        /\ Sorted(q) => Sorted(more)
        /\ more = <<>> => q = <<>>
    <2>1. CASE last
      <3>1. /\ more = Append(q, END) /\ put = n + 1
        BY <2>1
      <3>2. /\ more \in Seq(Slot) /\ Len(more) = Len(q) + 1 /\ more # <<>>
            /\ Queued(more) = Queued(q) \cup ({END} \ {END})
            /\ Sorted(q) => Sorted(more)
        BY <1>0, <3>1, PutBehind
      <3> HIDE DEF more, put
      <3>3. Len(q) \in Nat /\ put = n - Len(q) + Len(more)
        BY <3>1, <3>2
      <3> QED
        BY <3>2, <3>3
    <2>2. CASE ~last
      BY <2>2
    <2> QED
      BY <2>1, <2>2
  <1>2. t = IF more = <<>> THEN [queue |-> <<>>, unfinished |-> n, run |-> Off]
            ELSE [queue |-> Tail(more), unfinished |-> put,
                  run |-> Writing(Head(more), owes /\ ~last)]
    BY DEF Take
  <1>3. Off.hand = END
    BY DEF Off
  <1> HIDE DEF last, more, put, t
  <1>4. CASE more = <<>>
    <2>1. t.queue = <<>> /\ t.unfinished = n /\ t.run = Off /\ q = <<>>
      BY <1>1, <1>2, <1>4
    <2>2. Len(q) = 0 /\ <<>> \in Seq(Slot) /\ Len(<<>>) = 0
      BY <2>1
    <2> QED
      BY <1>3, <2>1, <2>2, Idle, NothingQueued DEF t
  <1>5. CASE more # <<>>
    <2> DEFINE run == Writing(Head(more), owes /\ ~last)
    <2>1. t.queue = Tail(more) /\ t.unfinished = put /\ t.run = run
      BY <1>2, <1>5
    <2>2. /\ Head(more) \in Slot /\ Tail(more) \in Seq(Slot)
          /\ Len(Tail(more)) = Len(more) - 1 /\ Len(more) \in Nat
      BY <1>1, <1>5, TakenFirst
    <2>3. /\ run \in Runs /\ run.at = "writing" /\ run.hand = Head(more)
          /\ run # Off /\ HeldBy(run) = 1
      BY <2>2, WorkerAssumption DEF Writing, Runs, Off, HeldBy, Held, last
    <2>4. put = n - Len(q) + Len(Tail(more)) + 1
      BY <1>1, <2>2 DEF put
    <2>5. /\ Queued(q) = Queued(Tail(more)) \cup ({Head(more)} \ {END})
          /\ Sorted(q) => /\ Sorted(Tail(more))
                          /\ Head(more) # END => \A j \in Queued(Tail(more)) : Head(more) < j
      BY <1>1, <1>5, TakenFirst
    <2> HIDE DEF run
    <2> QED
      BY <2>1, <2>2, <2>3, <2>4, <2>5 DEF t
  <1> QED
    BY <1>4, <1>5

\* A write reaches the disk.
LEMMA LandFacts ==
  ASSUME landed \in Seq(Job), NEW j \in Job, j \notin Landed,
         Len(landed) = Cardinality(Landed), landed' = Append(landed, j)
  PROVE  /\ landed' \in Seq(Job) /\ Landed' = Landed \cup {j}
         /\ Len(landed') = Cardinality(Landed')
         /\ (/\ \A a, b \in DOMAIN landed : a < b => landed[a] < landed[b]
             /\ \A i \in Landed : i < j)
              => \A a, b \in DOMAIN landed' : a < b => landed'[a] < landed'[b]
  <1>1. /\ landed' \in Seq(Job) /\ Len(landed') = Len(landed) + 1 /\ Len(landed) \in Nat
        /\ DOMAIN landed = 1..Len(landed) /\ DOMAIN landed' = 1..(Len(landed) + 1)
        /\ \A i \in DOMAIN landed : landed'[i] = landed[i] /\ landed[i] \in Job
        /\ landed'[Len(landed) + 1] = j
    OBVIOUS
  <1>2. Landed' = Landed \cup {j}
    <2>1. \A i \in DOMAIN landed' : i \in DOMAIN landed \/ i = Len(landed) + 1
      BY <1>1
    <2>2. DOMAIN landed \subseteq DOMAIN landed' /\ Len(landed) + 1 \in DOMAIN landed'
      BY <1>1
    <2> QED
      BY <1>1, <2>1, <2>2 DEF Landed
  <1>3. Landed \subseteq Job /\ IsFiniteSet(Landed)
    <2>1. Landed \subseteq Job
      BY <1>1 DEF Landed
    <2>2. IsFiniteSet(Job)
      BY FS_Interval, WorkerAssumption DEF Job
    <2> QED
      BY <2>1, <2>2, FS_Subset
  <1>4. Cardinality(Landed \cup {j}) = Cardinality(Landed) + 1
    BY <1>3, FS_AddElement
  <1>5. ASSUME \A a, b \in DOMAIN landed : a < b => landed[a] < landed[b],
               \A i \in Landed : i < j,
               NEW a \in DOMAIN landed', NEW b \in DOMAIN landed', a < b
        PROVE  landed'[a] < landed'[b]
    <2>0. a \in DOMAIN landed
      BY <1>1, <1>5
    <2>1. a \in DOMAIN landed /\ landed[a] \in Landed
      BY <2>0 DEF Landed
    <2>2. CASE b \in DOMAIN landed
      BY <1>1, <1>5, <2>1, <2>2
    <2>3. CASE b = Len(landed) + 1
      BY <1>1, <1>5, <2>1, <2>3
    <2> QED
      BY <1>1, <2>2, <2>3
  <1> QED
    BY <1>1, <1>2, <1>4, <1>5

----------------------------------------------------------------------------
(* A turn of the loop, whoever takes it.                                   *)

Futures == {"unborn", "none", "pending", "ok", "error", "cancelled"}
Stages  == {"new", "joining", "drained", "inlining", "stopping",
            "returned", "stopped", "cancelled"}

\* c takes the next job, n of those enqueued being unfinished.
Turn(c, n) ==
  /\ queue' \in Seq(Slot) /\ (Sorted(queue) => Sorted(queue'))
  /\ worker' \in [Consumer -> Runs] /\ worker'[c].at \in {"off", "writing"}
  /\ \A d \in Consumer \ {c} : worker'[d] = worker[d]
  /\ unfinished' = n - Len(queue) + Len(queue') + HeldBy(worker'[c])
  /\ Queued(queue) = Queued(queue') \cup InHand(c)'
  /\ Sorted(queue) => \A h \in InHand(c)', j \in Queued(queue') : h < j
  /\ worker'[c].at = "off" => queue = <<>>

LEMMA TurnIsTaken ==
  ASSUME TypeOK, NEW c \in Consumer, NEW n \in Int, NEW owes \in BOOLEAN,
         queue' = Take(queue, n, owes).queue,
         unfinished' = Take(queue, n, owes).unfinished,
         worker' = [worker EXCEPT ![c] = Take(queue, n, owes).run]
  PROVE  Turn(c, n) /\ (Take(queue, n, owes).run = Off <=> worker'[c].at = "off")
  <1> DEFINE t == Take(queue, n, owes)
  <1>1. queue \in Seq(Slot) /\ worker \in [Consumer -> Runs]
    BY DEF TypeOK, Slot, Runs
  <1>2. /\ t.queue \in Seq(Slot) /\ t.run \in Runs /\ t.run.at \in {"off", "writing"}
        /\ t.unfinished = n - Len(queue) + Len(t.queue) + HeldBy(t.run)
        /\ Queued(queue) = Queued(t.queue) \cup ({t.run.hand} \ {END})
        /\ Sorted(queue) => /\ Sorted(t.queue)
                            /\ t.run.hand # END => \A j \in Queued(t.queue) : t.run.hand < j
        /\ t.run = Off <=> t.run.at = "off"
        /\ t.run = Off => queue = <<>>
    BY <1>1, TakeFacts
  <1> HIDE DEF t
  <1>3. queue' = t.queue /\ unfinished' = t.unfinished /\ worker' = [worker EXCEPT ![c] = t.run]
    BY DEF t
  <1>4. /\ worker'[c] = t.run /\ worker' \in [Consumer -> Runs]
        /\ \A d \in Consumer \ {c} : worker'[d] = worker[d]
    BY <1>1, <1>2, <1>3
  <1>5. InHand(c)' = {t.run.hand} \ {END}
    <2>1. CASE t.run.at = "off"
      BY <1>2, <1>4, <2>1 DEF InHand, Carries, Held, Off
    <2>2. CASE t.run.at = "writing"
      BY <1>4, <2>2 DEF InHand, Carries, Held
    <2> QED
      BY <1>2, <2>1, <2>2
  <1>6. Turn(c, n)
    BY <1>2, <1>3, <1>4, <1>5 DEF Turn
  <1> QED
    BY <1>2, <1>4, <1>6 DEF t

\* What the others have in hand.
LEMMA OtherHands ==
  ASSUME NEW c \in Consumer, NEW n, Turn(c, n)
  PROVE  /\ \A d \in Consumer \ {c} : InHand(d)' = InHand(d)
         /\ \A d \in Consumer \ {c} : Active(d)' = Active(d)
  BY DEF Turn, InHand, Carries, Active

LEMMA PlaceAfterTurn ==
  ASSUME TypeOK, OnePlace, NEW c \in Consumer, NEW n, Turn(c, n),
         orphans' = orphans, Landed' = Landed, Born' = Born
  PROVE  OnePlace'
  <1>1. /\ Sorted(queue') /\ Queued(queue) = Queued(queue') \cup InHand(c)'
        /\ \A h \in InHand(c)', j \in Queued(queue') : h < j
        /\ worker'[c].at \in {"off", "writing"}
        /\ \A d \in Consumer \ {c} : worker'[d] = worker[d] /\ InHand(d)' = InHand(d)
    BY OtherHands DEF Turn, OnePlace
  <1>2. InHand(c)' \cap Queued(queue') = {}
    <2>1. Queued(queue') \subseteq Nat
      BY Numbers DEF Queued
    <2>2. \A j \in Nat : ~(j < j)
      OBVIOUS
    <2> QED
      BY <1>1, <2>1, <2>2
  <1>3. \A d \in Consumer \ {c} : InHand(d)' \cap Queued(queue') = {}
                                /\ InHand(d)' \cap InHand(c)' = {}
    BY <1>1 DEF OnePlace
  <1>4. (InHand("drainer") \cap InHand("inline") = {})'
    BY <1>3 DEF Consumer
  <1>5. InHand(c)' \cap (Landed \cup orphans) = {} /\ InHand(c)' \subseteq Born
    BY <1>1 DEF OnePlace
  <1> QED
    BY <1>1, <1>2, <1>3, <1>4, <1>5 DEF OnePlace

LEMMA OrderAfterTurn ==
  ASSUME TypeOK, OnePlace, InOrder, NEW c \in Consumer, NEW n, Turn(c, n),
         ~Cancelled, orphans' = orphans, landed' = landed, cancelling' = cancelling,
         \A d \in Consumer \ {c} : ~Active(d)
  PROVE  InOrder'
  <1>1. /\ Queued(queue) = Queued(queue') \cup InHand(c)'
        /\ \A h \in InHand(c)', j \in Queued(queue') : h < j
        /\ worker'[c].at \in {"off", "writing"}
        /\ \A d \in Consumer \ {c} : InHand(d)' = InHand(d) /\ Active(d)' = Active(d)
        /\ Landed' = Landed
    BY OtherHands DEF Turn, OnePlace, Landed
  <1>2. \A d \in Consumer \ {c} : InHand(d)' = {} /\ ~Active(d)'
    BY <1>1 DEF Active, InHand, Carries, Held
  <1>3. ~(Active("drainer")' /\ Active("inline")')
    BY <1>2 DEF Consumer
  <1>4. \A h \in InHand(c)', j \in Landed : j < h
    BY <1>1 DEF InOrder
  <1>5. \A d \in Consumer : \A h \in InHand(d)', j \in Landed : j < h
    BY <1>2, <1>4
  <1>6. \A d \in Consumer : \A h \in InHand(d)', j \in Queued(queue') : h < j
    BY <1>1, <1>2
  <1>7. \A j \in Landed, q \in Queued(queue') : j < q
    BY <1>1 DEF InOrder
  <1>8. /\ ~cancelling /\ orphans = {}
        /\ \A a, b \in DOMAIN landed : a < b => landed[a] < landed[b]
    BY DEF InOrder
  <1> QED
    BY <1>1, <1>3, <1>5, <1>6, <1>7, <1>8 DEF InOrder

\* Nobody is born; a submitter is told at most once, and only what is so.
LEMMA SameBorn ==
  ASSUME Born' = Born
  PROVE  issued' = issued
  BY DEF Born, issued

LEMMA Resolved ==
  ASSUME TypeOK, NEW j \in Slot, NEW outcome \in Futures \ {"unborn"}, Resolve(j, outcome)
  PROVE  /\ fut' \in [Job -> Futures] /\ Born' = Born
         /\ \A i \in Job : (fut'[i] = fut[i]) \/ (i = j /\ fut[i] = "pending" /\ fut'[i] = outcome)
         /\ j # END /\ fut[j] = "pending" => fut'[j] = outcome
  <1>1. fut \in [Job -> Futures]
    BY DEF TypeOK, Futures
  <1>2. CASE j # END /\ fut[j] = "pending"
    <2>1. j \in Job /\ fut' = [fut EXCEPT ![j] = outcome]
      BY <1>2 DEF Resolve, Slot
    <2>2. fut' \in [Job -> Futures] /\ fut'[j] = outcome /\ \A i \in Job \ {j} : fut'[i] = fut[i]
      BY <1>1, <2>1
    <2> QED
      BY <1>2, <2>1, <2>2 DEF Born, Futures
  <1>3. CASE ~(j # END /\ fut[j] = "pending")
    BY <1>1, <1>3 DEF Resolve, Born
  <1> QED
    BY <1>2, <1>3

----------------------------------------------------------------------------
(* A consumer accounts for what it had in hand and takes the next job.     *)

LEMMA Counts ==
  ASSUME TypeOK
  PROVE  /\ \A c \in Consumer : HeldBy(worker[c]) \in {0, 1}
         /\ Len(queue) \in Nat /\ unfinished \in Nat
         /\ \A c \in Consumer : HeldBy(worker[c]) = 0 => InHand(c) = {}
         /\ \A c \in Consumer : ~Active(c) => HeldBy(worker[c]) = 0 /\ InHand(c) = {}
         /\ \A c \in Consumer : InHand(c) \subseteq Job
  BY DEF TypeOK, HeldBy, InHand, Carries, Active, Held

\* What a turn adds to the queue it adds to the count.
LEMMA TurnCounts ==
  ASSUME TypeOK, Shape, NEW c \in Consumer, NEW o \in Consumer, o # c, NEW n \in Int,
         n = unfinished - HeldBy(worker[c]), Turn(c, n)
  PROVE  /\ n = Len(queue) + HeldBy(worker[o])
         /\ unfinished' = Len(queue') + HeldBy(worker'[c]) + HeldBy(worker[o])
         /\ unfinished' \in Nat
  <1>1. /\ HeldBy(worker[o]) \in {0, 1} /\ HeldBy(worker[c]) \in {0, 1}
        /\ Len(queue) \in Nat
    BY Counts
  <1>2. unfinished = Len(queue) + HeldBy(worker[c]) + HeldBy(worker[o])
    <2>1. unfinished = Len(queue) + HeldBy(worker["drainer"]) + HeldBy(worker["inline"])
      BY DEF Shape
    <2>2. HeldBy(worker["drainer"]) \in {0, 1} /\ HeldBy(worker["inline"]) \in {0, 1}
      BY Counts DEF Consumer
    <2>3. CASE c = "drainer"
      <3>1. o = "inline"
        BY <2>3 DEF Consumer
      <3> QED
        BY <2>1, <2>3, <3>1
    <2>4. CASE c = "inline"
      <3>1. o = "drainer"
        BY <2>4 DEF Consumer
      <3> QED
        BY <1>1, <2>1, <2>2, <2>4, <3>1
    <2> QED
      BY <2>3, <2>4 DEF Consumer
  <1>3. /\ queue' \in Seq(Slot) /\ HeldBy(worker'[c]) \in {0, 1}
        /\ unfinished' = n - Len(queue) + Len(queue') + HeldBy(worker'[c])
    BY DEF Turn, HeldBy
  <1>4. Len(queue') \in Nat
    BY <1>3
  <1>5. n = Len(queue) + HeldBy(worker[o])
    BY <1>1, <1>2
  <1>6. unfinished' = Len(queue') + HeldBy(worker'[c]) + HeldBy(worker[o])
    <2> DEFINE hand == HeldBy(worker'[c])
               more == Len(queue')
    <2>1. unfinished' = n - Len(queue) + more + hand /\ hand \in {0, 1} /\ more \in Nat
      BY <1>3, <1>4
    <2> HIDE DEF hand, more
    <2>2. unfinished' = more + hand + HeldBy(worker[o])
      BY <1>1, <1>5, <2>1
    <2> QED
      BY <2>2, Zenon DEF hand, more
  <1>7. unfinished' \in Nat
    <2> DEFINE more == Len(queue')
    <2>1. more \in Nat /\ unfinished' = more + HeldBy(worker'[c]) + HeldBy(worker[o])
      BY <1>4, <1>6
    <2> HIDE DEF more
    <2> QED
      BY <1>1, <1>3, <2>1
  <1> QED
    BY <1>5, <1>6, <1>7

LEMMA TakeStep ==
  ASSUME IInv, NEW c \in Consumer, NEW owes \in BOOLEAN, NEW n \in Int,
         n = unfinished - HeldBy(worker[c]), Active(c), c = "drainer" => ~cancelling,
         NEW awake \in [Callers -> Stages],
         \A k \in Callers : \/ awake[k] = caller[k]
                            \/ caller[k] = "joining" /\ awake[k] = "drained" /\ n = 0,
         TakeNext(c, n, owes, awake),
         UNCHANGED <<cancelling, target, landed, orphans, covered, late, boundVars>>,
         fut' \in [Job -> Futures], Born' = Born,
         \A j \in Job : fut'[j] = fut[j] \/ (j \in InHand(c) /\ fut'[j] \in {"ok", "error"}),
         \A j \in Job : (fut'[j] = "ok" => j \in Landed) /\ (fut'[j] = "error" => j \in gaveUp'),
         gaveUp \subseteq gaveUp', gaveUp' \subseteq Job, failed' \in BOOLEAN, failed => failed',
         ~Cancelled => \A h \in InHand(c) : Dealt(h)'
  PROVE  IInv'
  <1> USE DEF IInv
  <1>1. PICK o \in Consumer : o # c /\ Consumer = {c, o}
    BY DEF Consumer
  <1>2. /\ Turn(c, n)
        /\ caller' = [k \in Callers |->
                        IF c = "inline" /\ worker'[c].at = "off" /\ awake[k] = "inlining"
                          THEN Drained(k) ELSE awake[k]]
    <2>1. /\ queue' = Take(queue, n, owes).queue
          /\ unfinished' = Take(queue, n, owes).unfinished
          /\ worker' = [worker EXCEPT ![c] = Take(queue, n, owes).run]
          /\ caller' = [k \in Callers |->
                          IF c = "inline" /\ Take(queue, n, owes).run = Off /\ awake[k] = "inlining"
                            THEN Drained(k) ELSE awake[k]]
      BY DEF TakeNext
    <2>2. Turn(c, n) /\ (Take(queue, n, owes).run = Off <=> worker'[c].at = "off")
      BY <2>1, TurnIsTaken
    <2> QED
      BY <2>1, <2>2
  <1>3. /\ worker' \in [Consumer -> Runs] /\ worker'[o] = worker[o]
        /\ InHand(o)' = InHand(o) /\ Active(o)' = Active(o)
        /\ worker'[c].at \in {"off", "writing"}
        /\ HeldBy(worker'[c]) \in {0, 1}
        /\ Queued(queue) = Queued(queue') \cup InHand(c)'
        /\ worker'[c].at = "off" => queue = <<>>
    BY <1>1, <1>2, OtherHands DEF Turn, HeldBy
  <1>4. /\ unfinished' = Len(queue') + HeldBy(worker'[c]) + HeldBy(worker[o])
        /\ queue' \in Seq(Slot) /\ unfinished' \in Nat
        /\ n = Len(queue) + HeldBy(worker[o])
    <2>1. /\ unfinished' = Len(queue') + HeldBy(worker'[c]) + HeldBy(worker[o])
          /\ unfinished' \in Nat /\ n = Len(queue) + HeldBy(worker[o])
      BY <1>1, <1>2, TurnCounts
    <2>2. queue' \in Seq(Slot)
      BY <1>2 DEF Turn
    <2> QED
      BY <2>1, <2>2
  <1>5. /\ caller' \in [Callers -> Stages]
        /\ \A k \in Callers : caller'[k] = "inlining" <=>
             caller[k] = "inlining" /\ ~(c = "inline" /\ worker'[c].at = "off")
        /\ \A k \in Callers :
             \/ caller'[k] = caller[k]
             \/ caller[k] = "joining" /\ caller'[k] = "drained" /\ n = 0
             \/ caller[k] = "inlining" /\ caller'[k] \in {"stopping", "returned"} /\ queue = <<>>
    BY <1>2, <1>3 DEF Drained, Stages
  <1>6. TypeOK'
    <2>1. (cancelling => DrainerAlive)'
      BY <1>1, <1>3 DEF TypeOK, DrainerAlive, Consumer
    <2>2. queue' \in Seq(Job \cup {END}) /\ unfinished' \in Nat
      BY <1>4 DEF Slot
    <2>3. worker' \in [Consumer -> [at : {"off", "start", "writing", "written", "raised"},
                              hand : Job \cup {END}, attempt : 0..(MaxWriteAttempts - 1),
                              owes : BOOLEAN]]
      BY <1>3 DEF Runs, Slot
    <2>4. /\ caller' \in [Callers -> {"new", "joining", "drained", "inlining", "stopping",
                             "returned", "stopped", "cancelled"}]
          /\ fut' \in [Job -> {"unborn", "none", "pending", "ok", "error", "cancelled"}]
      BY <1>5 DEF Stages, Futures
    <2> QED
      BY <2>1, <2>2, <2>3, <2>4 DEF TypeOK, boundVars
  <1>7. Shape'
    <2>1. Born' = 1..issued' /\ issued' \in Nat
      BY SameBorn DEF Shape
    <2>2. worker'["inline"].at # "start"
      BY <1>1, <1>3 DEF Shape, Consumer
    <2>3. Active("inline")' <=> InlineDraining'
      <3>1. CASE c = "inline"
        <4>1. InlineDraining
          BY <3>1 DEF Shape
        <4>2. InlineDraining' <=> worker'[c].at # "off"
          BY <1>5, <3>1, <4>1 DEF InlineDraining
        <4> QED
          BY <3>1, <4>2 DEF Active
      <3>2. CASE c # "inline"
        <4>1. o = "inline"
          BY <1>1, <3>2 DEF Consumer
        <4> QED
          BY <1>3, <1>5, <3>2, <4>1 DEF Shape, InlineDraining
      <3> QED
        BY <3>1, <3>2
    <2>4. \A k, l \in Inliners' : k = l
      <3>1. Inliners' \subseteq Inliners
        BY <1>5 DEF Inliners
      <3> QED
        BY <3>1 DEF Shape
    <2>5. unfinished' = Len(queue') + HeldBy(worker'["drainer"]) + HeldBy(worker'["inline"])
      <3>1. /\ HeldBy(worker'[o]) = HeldBy(worker[o]) /\ HeldBy(worker[o]) \in {0, 1}
            /\ Len(queue') \in Nat
        BY <1>3, <1>4, Counts
      <3> HIDE DEF IInv
      <3> QED
        BY <1>1, <1>3, <1>4, <3>1 DEF Consumer
    <2> QED
      BY <2>1, <2>2, <2>3, <2>4, <2>5 DEF Shape
  <1>8. Landed' = Landed
    BY DEF Landed
  <1>9. OnePlace'
    BY <1>2, <1>8, PlaceAfterTurn
  <1>10. FuturesAreHonest'
    BY <1>8 DEF FuturesAreHonest
  <1>11. SUFFICES ASSUME ~Cancelled'
                  PROVE  InOrder' /\ Tracked'
    BY <1>6, <1>7, <1>9, <1>10 DEF InOrder, Tracked
  <1>12. ~Cancelled
    BY <1>5, <1>11 DEF Cancelled, boundVars
  <1>13. ~Active(o) /\ InHand(o) = {} /\ HeldBy(worker[o]) = 0
    <2>1. ~Active(o)
      BY <1>1, <1>12 DEF InOrder, Consumer
    <2> QED
      BY <2>1, Counts
  <1>14. InOrder'
    BY <1>1, <1>2, <1>12, <1>13, OrderAfterTurn
  <1>15. \A j \in Job : Dealt(j) => Dealt(j)'
    BY <1>8, <1>12 DEF Dealt
  <1>16. /\ Born \subseteq Queued(queue) \cup InHand(c) \cup {j \in Job : Dealt(j)}
         /\ \A j \in Queued(queue) \cup InHand(c) : fut[j] \in {"none", "pending"}
         /\ \A k \in Callers : target[k] \subseteq Born
         /\ \A k \in Callers : caller[k] \in {"drained", "returned", "stopped"} =>
              \A j \in target[k] : Dealt(j)
    BY <1>1, <1>12, <1>13 DEF Tracked, Consumer
  <1>17. Born' \subseteq Queued(queue') \cup InHand("drainer")' \cup InHand("inline")'
                           \cup {j \in Job : Dealt(j)'}
    <2>1. InHand(c) \subseteq Job
      BY Counts
    <2>2. Born' \subseteq Queued(queue') \cup InHand(c)' \cup {j \in Job : Dealt(j)'}
      BY <1>3, <1>12, <1>15, <1>16, <2>1
    <2> QED
      BY <2>2 DEF Consumer
  <1>18. \A j \in Queued(queue') \cup InHand("drainer")' \cup InHand("inline")' :
           fut'[j] \in {"none", "pending"}
    <2>1. \A j \in Queued(queue) : fut'[j] \in {"none", "pending"}
      BY <1>16 DEF OnePlace, Queued
    <2>2. InHand(c)' \cup InHand(o)' = InHand("drainer")' \cup InHand("inline")'
      BY <1>1 DEF Consumer
    <2> QED
      BY <1>3, <1>13, <2>1, <2>2
  <1>19. ASSUME NEW k \in Callers, caller'[k] \in {"drained", "returned", "stopped"},
                NEW j \in target[k]
         PROVE  Dealt(j)'
    <2>1. j \in Job
      BY DEF TypeOK
    <2>2. CASE caller'[k] = caller[k]
      BY <1>15, <1>16, <1>19, <2>1, <2>2
    <2>3. CASE caller'[k] # caller[k]
      <3>1. n = 0 \/ queue = <<>>
        BY <1>5, <2>3
      <3>2. queue = <<>>
        <4>1. n = Len(queue) /\ queue \in Seq(Slot)
          BY <1>4, <1>13, Counts DEF TypeOK, Slot
        <4> QED
          BY <3>1, <4>1
      <3>3. Queued(queue) = {}
        BY <3>2, NothingQueued
      <3> QED
        BY <1>12, <1>15, <1>16, <2>1, <3>3
    <2> QED
      BY <2>2, <2>3
  <1>20. Tracked'
    BY <1>16, <1>17, <1>18, <1>19 DEF Tracked
  <1> QED
    BY <1>14, <1>20

LEMMA WakesOnly ==
  ASSUME TypeOK, NEW n
  PROVE  /\ Released(n) \in [Callers -> Stages]
         /\ \A k \in Callers : \/ Released(n)[k] = caller[k]
                               \/ caller[k] = "joining" /\ Released(n)[k] = "drained" /\ n = 0
         /\ caller \in [Callers -> Stages]
  BY DEF TypeOK, Released, Stages

LEMMA DrainerStartsStep ==
  ASSUME IInv, DrainerStarts
  PROVE  IInv'
  <1> DEFINE c == "drainer"
  <1>1. TypeOK /\ c \in Consumer /\ unfinished \in Int /\ HasEndHook \in BOOLEAN
    BY WorkerAssumption DEF IInv, TypeOK, Consumer
  <1>2. HeldBy(worker[c]) = 0 /\ Active(c) /\ InHand(c) = {} /\ ~cancelling
    BY DEF DrainerStarts, HeldBy, Held, Active, InHand, Carries
  <1>3. /\ TakeNext(c, unfinished, HasEndHook, caller)
        /\ UNCHANGED <<cancelling, target, landed, orphans, covered, late, boundVars>>
        /\ UNCHANGED <<fut, gaveUp, failed>>
    BY DEF DrainerStarts
  <1>4. /\ fut \in [Job -> Futures] /\ gaveUp \subseteq Job /\ failed \in BOOLEAN
        /\ \A j \in Job : (fut[j] = "ok" => j \in Landed) /\ (fut[j] = "error" => j \in gaveUp)
    BY DEF IInv, TypeOK, Futures, FuturesAreHonest
  <1>5. Born' = Born
    BY <1>3 DEF Born
  <1>6. caller \in [Callers -> Stages] /\ unfinished = unfinished - HeldBy(worker[c])
    BY <1>1, <1>2, WakesOnly
  <1> QED
    BY <1>1, <1>2, <1>3, <1>4, <1>5, <1>6, TakeStep

LEMMA FinishStep ==
  ASSUME IInv, NEW c \in Consumer, Finish(c)
  PROVE  IInv'
  <1> DEFINE h == worker[c].hand
  <1>1. TypeOK /\ unfinished - 1 \in Int /\ worker[c].owes \in BOOLEAN /\ h \in Slot
    BY DEF IInv, TypeOK, Slot
  <1>2. /\ worker[c].at = "written" /\ HeldBy(worker[c]) = 1 /\ Active(c)
        /\ InHand(c) = {h} \ {END} /\ (c = "drainer" => ~cancelling)
    BY DEF Finish, HeldBy, Held, Active, InHand, Carries, CanStep
  <1>3. /\ Resolve(h, "ok")
        /\ TakeNext(c, unfinished - 1, worker[c].owes, Released(unfinished - 1))
        /\ UNCHANGED <<cancelling, target, landed, orphans, covered, late, boundVars>>
        /\ UNCHANGED <<gaveUp, failed>>
    BY DEF Finish, JobDone
  <1>4. /\ fut' \in [Job -> Futures] /\ Born' = Born
        /\ \A i \in Job : (fut'[i] = fut[i]) \/ (i = h /\ fut[i] = "pending" /\ fut'[i] = "ok")
    BY <1>1, <1>3, Resolved DEF Futures
  <1>5. InHand(c) \subseteq Landed
    BY <1>2 DEF IInv, OnePlace
  <1>6. \A j \in Job : /\ fut'[j] = fut[j] \/ (j \in InHand(c) /\ fut'[j] \in {"ok", "error"})
                       /\ fut'[j] = "ok" => j \in Landed
                       /\ fut'[j] = "error" => j \in gaveUp
    BY <1>2, <1>4, <1>5, Numbers DEF IInv, FuturesAreHonest
  <1>7. \A j \in InHand(c) : Dealt(j)'
    BY <1>3, <1>5 DEF Dealt, Landed
  <1>8. gaveUp \subseteq Job /\ failed \in BOOLEAN
    BY <1>1 DEF TypeOK
  <1>9. unfinished - 1 = unfinished - HeldBy(worker[c])
    BY <1>2
  <1> QED
    BY <1>1, <1>2, <1>3, <1>4, <1>6, <1>7, <1>8, <1>9, WakesOnly, TakeStep

LEMMA GiveUpStep ==
  ASSUME IInv, NEW c \in Consumer, GiveUp(c)
  PROVE  IInv'
  <1> DEFINE h == worker[c].hand
  <1>1. TypeOK /\ unfinished - 1 \in Int /\ worker[c].owes \in BOOLEAN /\ h \in Slot
    BY DEF IInv, TypeOK, Slot
  <1>2. /\ worker[c].at = "raised" /\ HeldBy(worker[c]) = 1 /\ Active(c)
        /\ InHand(c) = {h} \ {END} /\ (c = "drainer" => ~cancelling)
    BY DEF GiveUp, HeldBy, Held, Active, InHand, Carries, CanStep
  <1>3. /\ Resolve(h, "error") /\ failed' = (failed \/ h = END \/ fut[h] = "none")
        /\ gaveUp' = gaveUp \cup ({h} \ {END})
        /\ TakeNext(c, unfinished - 1, worker[c].owes, Released(unfinished - 1))
        /\ UNCHANGED <<cancelling, target, landed, orphans, covered, late, boundVars>>
    BY DEF GiveUp, Surface, JobDone
  <1>4. /\ fut' \in [Job -> Futures] /\ Born' = Born
        /\ \A i \in Job : (fut'[i] = fut[i]) \/ (i = h /\ fut[i] = "pending" /\ fut'[i] = "error")
        /\ h # END /\ fut[h] = "pending" => fut'[h] = "error"
    BY <1>1, <1>3, Resolved DEF Futures
  <1>5. failed \in BOOLEAN /\ failed' \in BOOLEAN /\ (failed => failed')
    BY <1>1, <1>3 DEF TypeOK
  <1>6. gaveUp' \subseteq Job
    BY <1>1, <1>3 DEF TypeOK, Slot
  <1>7. \A j \in Job : /\ fut'[j] = fut[j] \/ (j \in InHand(c) /\ fut'[j] \in {"ok", "error"})
                       /\ fut'[j] = "ok" => j \in Landed
                       /\ fut'[j] = "error" => j \in gaveUp'
    BY <1>2, <1>3, <1>4, Numbers DEF IInv, FuturesAreHonest
  <1>8. ASSUME ~Cancelled, NEW j \in InHand(c)
        PROVE  Dealt(j)'
    <2>1. fut[j] \in {"none", "pending"}
      BY <1>8 DEF IInv, Tracked, Consumer
    <2> QED
      BY <1>2, <1>3, <1>4, <1>8, <2>1 DEF Dealt
  <1>9. unfinished - 1 = unfinished - HeldBy(worker[c])
    BY <1>2
  <1> QED
    BY <1>1, <1>2, <1>3, <1>4, <1>5, <1>6, <1>7, <1>8, <1>9, WakesOnly, TakeStep

----------------------------------------------------------------------------
(* What happens in the write's thread, and after.                          *)

\* c goes on with the job it has in hand.
LEMMA SameHands ==
  ASSUME NEW c \in Consumer, \A d \in Consumer \ {c} : worker'[d] = worker[d],
         Held(worker[c]), Held(worker'[c]), worker'[c].hand = worker[c].hand
  PROVE  /\ \A d \in Consumer : InHand(d)' = InHand(d)
         /\ \A d \in Consumer : HeldBy(worker'[d]) = HeldBy(worker[d])
         /\ \A d \in Consumer : Active(d)' <=> Active(d)
  <1>1. worker[c].at # "off" /\ worker'[c].at # "off"
    BY DEF Held
  <1> QED
    BY <1>1 DEF InHand, Carries, HeldBy, Active

\* The write is tried again, or fails once.
LEMMA RewriteStep ==
  ASSUME IInv, NEW c \in Consumer, worker' \in [Consumer -> Runs],
         \A d \in Consumer \ {c} : worker'[d] = worker[d],
         worker[c].at \in {"writing", "raised"}, worker'[c].at \in {"writing", "raised"},
         worker'[c].hand = worker[c].hand, faults' \in 0..MaxFaults,
         UNCHANGED <<queueVars, cancelling, caller, target, fut, failed, landed,
                     orphans, covered, gaveUp, late, cancels>>
  PROVE  IInv'
  <1>1. /\ \A d \in Consumer : InHand(d)' = InHand(d)
        /\ \A d \in Consumer : HeldBy(worker'[d]) = HeldBy(worker[d])
        /\ \A d \in Consumer : Active(d)' <=> Active(d)
        /\ {"drainer", "inline"} \subseteq Consumer
    BY SameHands DEF Held, Consumer
  <1>2. /\ Born' = Born /\ issued' = issued /\ Landed' = Landed /\ Inliners' = Inliners
        /\ InlineDraining' = InlineDraining /\ Cancelled' = Cancelled
        /\ \A j \in Job : Dealt(j)' <=> Dealt(j)
        /\ queue' = queue /\ unfinished' = unfinished
    BY DEF Born, issued, Landed, Inliners, InlineDraining, Cancelled, Dealt, queueVars
  <1>3. TypeOK'
    <2>1. DrainerAlive' <=> DrainerAlive
      BY <1>1 DEF DrainerAlive, Active
    <2>2. worker' \in [Consumer -> [at : {"off", "start", "writing", "written", "raised"},
                              hand : Job \cup {END}, attempt : 0..(MaxWriteAttempts - 1),
                              owes : BOOLEAN]]
      BY DEF Runs, Slot
    <2> QED
      BY <2>1, <2>2 DEF IInv, TypeOK, queueVars
  <1>4. Shape'
    <2>1. worker'["inline"].at # "start"
      <3>1. CASE c = "inline"
        BY <3>1
      <3>2. CASE c # "inline"
        BY <1>1, <3>2 DEF IInv, Shape
      <3> QED
        BY <3>1, <3>2
    <2> QED
      BY <1>1, <1>2, <2>1 DEF IInv, Shape
  <1>5. OnePlace'
    BY <1>1, <1>2 DEF IInv, OnePlace
  <1>6. FuturesAreHonest'
    BY <1>2 DEF IInv, FuturesAreHonest
  <1>7. InOrder'
    <2>1. ASSUME ~Cancelled, NEW d \in Consumer, NEW h \in InHand(d), NEW j \in Landed
          PROVE  j < h \/ (worker'[d].at = "written" /\ j <= h)
      BY <2>1 DEF IInv, InOrder
    <2> QED
      BY <1>1, <1>2, <2>1 DEF IInv, InOrder
  <1>8. Tracked'
    <2>1. Tracked /\ target \in [Callers -> SUBSET Job] /\ Born \subseteq Job
      BY DEF IInv, TypeOK, Born
    <2>2. caller' = caller /\ target' = target /\ fut' = fut
      OBVIOUS
    <2> QED
      BY <1>1, <1>2, <2>1, <2>2 DEF Tracked
  <1> QED
    BY <1>3, <1>4, <1>5, <1>6, <1>7, <1>8 DEF IInv

LEMMA WriteFailsStep ==
  ASSUME IInv, NEW c \in Consumer, WriteFails(c)
  PROVE  IInv'
  <1>1. worker \in [Consumer -> Runs] /\ faults \in 0..MaxFaults
    BY DEF IInv, TypeOK, Runs, Slot
  <1>2. /\ worker[c].at = "writing" /\ worker' = [worker EXCEPT ![c].at = "raised"]
        /\ faults < MaxFaults /\ faults' = faults + 1
        /\ UNCHANGED <<queueVars, cancelling, caller, target, fut, failed, landed,
                       orphans, covered, gaveUp, late, cancels>>
    BY DEF WriteFails
  <1>3. worker' \in [Consumer -> Runs] /\ worker'[c].at = "raised"
        /\ worker'[c].hand = worker[c].hand /\ \A d \in Consumer \ {c} : worker'[d] = worker[d]
    BY <1>1, <1>2 DEF Runs
  <1>4. faults' \in 0..MaxFaults
    BY <1>1, <1>2, WorkerAssumption
  <1> QED
    BY <1>2, <1>3, <1>4, RewriteStep

LEMMA RetryStep ==
  ASSUME IInv, NEW c \in Consumer, Retry(c)
  PROVE  IInv'
  <1>1. worker \in [Consumer -> Runs] /\ faults \in 0..MaxFaults
    BY DEF IInv, TypeOK, Runs, Slot
  <1>2. /\ worker[c].at = "raised" /\ worker[c].attempt + 1 < MaxWriteAttempts
        /\ worker' = [worker EXCEPT ![c].at = "writing", ![c].attempt = @ + 1]
        /\ UNCHANGED <<queueVars, cancelling, caller, target, fut, failed, landed,
                       orphans, covered, gaveUp, late, boundVars>>
    BY <1>1 DEF Retry, TriesLeft, Runs
  <1>3. worker[c].attempt + 1 \in 0..(MaxWriteAttempts - 1)
    BY <1>1, <1>2, WorkerAssumption DEF Runs
  <1>4. worker' \in [Consumer -> Runs] /\ worker'[c].at = "writing"
        /\ worker'[c].hand = worker[c].hand /\ \A d \in Consumer \ {c} : worker'[d] = worker[d]
    <2> DEFINE run == [worker[c] EXCEPT !.at = "writing", !.attempt = worker[c].attempt + 1]
    <2>1. worker' = [worker EXCEPT ![c] = run]
      BY <1>1, <1>2
    <2>2. run \in Runs /\ run.at = "writing" /\ run.hand = worker[c].hand
      BY <1>1, <1>3 DEF Runs
    <2> HIDE DEF run
    <2> QED
      BY <1>1, <2>1, <2>2
  <1>5. faults' = faults /\ cancels' = cancels
    BY <1>2 DEF boundVars
  <1> QED
    BY <1>1, <1>2, <1>4, <1>5, RewriteStep

\* A job lands, or an end-of-burst job has run.
LEMMA WriteLandsStep ==
  ASSUME IInv, NEW c \in Consumer, WriteLands(c)
  PROVE  IInv'
  <1> DEFINE h == worker[c].hand
  <1>1. /\ worker \in [Consumer -> Runs] /\ h \in Slot /\ landed \in Seq(Job)
        /\ Landed \subseteq Job
    BY DEF IInv, TypeOK, Runs, Slot, Landed
  <1>2. /\ worker[c].at = "writing" /\ worker' = [worker EXCEPT ![c].at = "written"]
        /\ IF h = END THEN covered' = Landed /\ landed' = landed
                      ELSE landed' = Append(landed, h) /\ covered' = covered
        /\ UNCHANGED <<queueVars, cancelling, caller, target, fut, failed, orphans,
                       gaveUp, late, boundVars>>
    BY DEF WriteLands
  <1>3. worker' \in [Consumer -> Runs] /\ worker'[c].at = "written"
        /\ worker'[c].hand = h /\ \A d \in Consumer \ {c} : worker'[d] = worker[d]
    BY <1>1, <1>2 DEF Runs
  <1>4. /\ \A d \in Consumer : InHand(d)' = InHand(d)
        /\ \A d \in Consumer : HeldBy(worker'[d]) = HeldBy(worker[d])
        /\ \A d \in Consumer : Active(d)' <=> Active(d)
        /\ {"drainer", "inline"} \subseteq Consumer /\ InHand(c) = {h} \ {END}
    BY <1>2, <1>3, SameHands DEF Held, Consumer, InHand, Carries
  <1>5. /\ landed' \in Seq(Job) /\ Landed' = Landed \cup InHand(c)
        /\ Len(landed') = Cardinality(Landed') /\ covered' \subseteq Job
        /\ (/\ \A a, b \in DOMAIN landed : a < b => landed[a] < landed[b]
            /\ \A j \in InHand(c), i \in Landed : i < j)
             => \A a, b \in DOMAIN landed' : a < b => landed'[a] < landed'[b]
    <2>1. Len(landed) = Cardinality(Landed) /\ covered \subseteq Job
      BY DEF IInv, FuturesAreHonest, TypeOK
    <2>2. CASE h = END
      BY <1>1, <1>2, <1>4, <2>1, <2>2 DEF Landed
    <2>3. CASE h # END
      <3>1. h \in Job /\ h \in InHand(c) /\ landed' = Append(landed, h) /\ covered' = covered
        BY <1>1, <1>2, <1>4, <2>3 DEF Slot
      <3>2. h \notin Landed
        BY <1>2, <3>1 DEF IInv, OnePlace
      <3>3. InHand(c) = {h}
        BY <1>4, <2>3
      <3> QED
        BY <1>1, <2>1, <3>1, <3>2, <3>3, LandFacts
    <2> QED
      BY <2>2, <2>3
  <1>6. /\ Born' = Born /\ issued' = issued /\ Inliners' = Inliners
        /\ InlineDraining' = InlineDraining /\ Cancelled' = Cancelled
        /\ queue' = queue /\ unfinished' = unfinished
    BY <1>2 DEF Born, issued, Inliners, InlineDraining, Cancelled, queueVars, boundVars
  <1>7. TypeOK'
    <2>1. DrainerAlive' <=> DrainerAlive
      BY <1>4 DEF DrainerAlive, Active
    <2>2. worker' \in [Consumer -> [at : {"off", "start", "writing", "written", "raised"},
                              hand : Job \cup {END}, attempt : 0..(MaxWriteAttempts - 1),
                              owes : BOOLEAN]]
      BY <1>3 DEF Runs, Slot
    <2> QED
      BY <1>2, <1>5, <2>1, <2>2 DEF IInv, TypeOK, queueVars, boundVars
  <1>8. Shape'
    <2>1. worker'["inline"].at # "start"
      <3>1. CASE c = "inline"
        BY <1>3, <3>1
      <3>2. CASE c # "inline"
        BY <1>3, <1>4, <3>2 DEF IInv, Shape
      <3> QED
        BY <3>1, <3>2
    <2> QED
      BY <1>4, <1>6, <2>1 DEF IInv, Shape
  <1>9. OnePlace'
    <2>1. OnePlace /\ orphans' = orphans
      BY <1>2 DEF IInv
    <2>2. \A d \in Consumer \ {c} : InHand(d) \cap InHand(c) = {}
      BY <2>1 DEF OnePlace, Consumer
    <2>3. \A d \in Consumer : worker'[d].at \in {"writing", "raised"} => InHand(d) \cap Landed' = {}
      BY <1>3, <1>5, <2>1, <2>2 DEF OnePlace
    <2>4. \A d \in Consumer : worker'[d].at = "written" => InHand(d) \subseteq Landed'
      BY <1>3, <1>5, <2>1 DEF OnePlace
    <2>5. /\ Landed' \subseteq Born /\ orphans \cap Landed' = {}
          /\ Queued(queue) \cap (Landed' \cup orphans) = {}
      BY <1>5, <2>1 DEF OnePlace
    <2> QED
      BY <1>4, <1>6, <2>1, <2>3, <2>4, <2>5 DEF OnePlace
  <1>10. FuturesAreHonest'
    BY <1>2, <1>5 DEF IInv, FuturesAreHonest
  <1>11. InOrder'
    <2> SUFFICES ASSUME ~Cancelled PROVE InOrder'
      BY <1>6 DEF InOrder
    <2>1. /\ ~cancelling /\ orphans = {} /\ ~(Active("drainer") /\ Active("inline"))
          /\ \A a, b \in DOMAIN landed : a < b => landed[a] < landed[b]
          /\ \A i \in InHand(c), j \in Landed : j < i
          /\ \A j \in Landed, q \in Queued(queue) : j < q
          /\ \A d \in Consumer : \A i \in InHand(d), q \in Queued(queue) : i < q
      BY <1>2 DEF IInv, InOrder
    <2>2. \A d \in Consumer \ {c} : InHand(d) = {}
      <3>1. Active(c)
        BY <1>2 DEF Active
      <3>2. \A d \in Consumer \ {c} : ~Active(d)
        BY <2>1, <3>1 DEF Consumer
      <3> QED
        BY <3>2, Counts DEF IInv
    <2>3. \A i \in InHand(c), j \in Landed' : j <= i
      <3>1. \A i, j \in InHand(c) : j = i
        BY <1>4
      <3>2. InHand(c) \subseteq Nat /\ Landed \subseteq Nat
        BY <1>1, <1>4, Numbers
      <3> QED
        BY <1>5, <2>1, <3>1, <3>2
    <2>4. \A j \in Landed', q \in Queued(queue) : j < q
      BY <1>5, <2>1
    <2>5. \A d \in Consumer : \A i \in InHand(d), j \in Landed' :
            j < i \/ (worker'[d].at = "written" /\ j <= i)
      BY <1>3, <2>2, <2>3
    <2>6. \A a, b \in DOMAIN landed' : a < b => landed'[a] < landed'[b]
      BY <1>5, <2>1
    <2>7. cancelling' = cancelling /\ orphans' = orphans
      BY <1>2
    <2> QED
      BY <1>4, <1>6, <2>1, <2>4, <2>5, <2>6, <2>7 DEF InOrder
  <1>12. Tracked'
    <2>1. \A j \in Job : Dealt(j) => Dealt(j)'
      BY <1>2, <1>5 DEF Dealt
    <2>2. Tracked /\ target \in [Callers -> SUBSET Job] /\ Born \subseteq Job
      BY DEF IInv, TypeOK, Born
    <2>3. caller' = caller /\ target' = target /\ fut' = fut
      BY <1>2
    <2> QED
      BY <1>4, <1>6, <2>1, <2>2, <2>3 DEF Tracked
  <1> QED
    BY <1>7, <1>8, <1>9, <1>10, <1>11, <1>12 DEF IInv

----------------------------------------------------------------------------
(* Cancellation: order and barriers are off, places and counts are not.    *)

\* The job in hand leaves the queue's books; its write may go on.
LEMMA Abandoned ==
  ASSUME IInv, NEW c \in Consumer, Abandon(c)
  PROVE  /\ worker' \in [Consumer -> Runs] /\ worker'[c] = Off
         /\ \A d \in Consumer \ {c} : worker'[d] = worker[d] /\ InHand(d)' = InHand(d)
         /\ InHand(c)' = {} /\ ~Active(c)'
         /\ unfinished' = unfinished - HeldBy(worker[c])
         /\ fut' \in [Job -> Futures] /\ Born' = Born
         /\ \A j \in Job : fut'[j] \in {"ok", "error"} => fut'[j] = fut[j]
         /\ orphans \subseteq orphans' /\ orphans' \subseteq orphans \cup InHand(c)
         /\ (orphans' \ orphans) \cap Landed = {}
  <1> DEFINE h == worker[c].hand
  <1>1. worker \in [Consumer -> Runs] /\ h \in Slot /\ unfinished \in Nat
    BY DEF IInv, TypeOK, Runs, Slot
  <1>2. /\ worker' = [worker EXCEPT ![c] = Off] /\ Resolve(h, "cancelled")
        /\ unfinished' = IF Held(worker[c]) THEN unfinished - 1 ELSE unfinished
        /\ orphans' \in {orphans} \cup
             (IF worker[c].at = "writing" /\ h # END THEN {orphans \cup {h}} ELSE {})
    BY DEF Abandon
  <1>3. worker' \in [Consumer -> Runs] /\ worker'[c] = Off
        /\ \A d \in Consumer \ {c} : worker'[d] = worker[d]
    BY <1>1, <1>2, Idle
  <1>4. /\ \A d \in Consumer \ {c} : InHand(d)' = InHand(d)
        /\ InHand(c)' = {} /\ ~Active(c)'
    BY <1>3 DEF InHand, Carries, Held, Active, Off
  <1>5. unfinished' = unfinished - HeldBy(worker[c])
    BY <1>1, <1>2 DEF HeldBy
  <1>6. /\ fut' \in [Job -> Futures] /\ Born' = Born
        /\ \A i \in Job : (fut'[i] = fut[i]) \/ (i = h /\ fut[i] = "pending" /\ fut'[i] = "cancelled")
    BY <1>1, <1>2, Resolved DEF IInv, Futures
  <1>7. /\ orphans \subseteq orphans' /\ orphans' \subseteq orphans \cup InHand(c)
        /\ (orphans' \ orphans) \cap Landed = {}
    <2>1. CASE orphans' = orphans
      BY <2>1
    <2>2. CASE orphans' # orphans
      <3>1. worker[c].at = "writing" /\ h # END /\ orphans' = orphans \cup {h}
        BY <1>2, <2>2
      <3>2. InHand(c) = {h} /\ InHand(c) \cap Landed = {}
        BY <3>1 DEF InHand, Carries, Held, IInv, OnePlace
      <3> QED
        BY <3>1, <3>2
    <2> QED
      BY <2>1, <2>2
  <1> QED
    BY <1>3, <1>4, <1>5, <1>6, <1>7

\* Whoever is abandoned, every job stays in one place.
LEMMA PlaceAfterAbandon ==
  ASSUME IInv, NEW c \in Consumer, Abandon(c), queue' = queue, landed' = landed
  PROVE  OnePlace'
  <1>1. Landed' = Landed
    BY DEF Landed
  <1>2. /\ worker'[c].at = "off"
        /\ \A d \in Consumer \ {c} : worker'[d] = worker[d] /\ InHand(d)' = InHand(d)
        /\ InHand(c)' = {} /\ Born' = Born
        /\ orphans' \subseteq orphans \cup InHand(c)
        /\ (orphans' \ orphans) \cap Landed = {}
    BY Abandoned DEF Off
  <1>3. OnePlace
    BY DEF IInv
  <1>4. \A d \in Consumer \ {c} : InHand(d) \cap InHand(c) = {}
    BY <1>3 DEF OnePlace, Consumer
  <1>5. /\ orphans' \subseteq Born /\ orphans' \cap Landed = {}
        /\ Queued(queue) \cap orphans' = {}
        /\ \A d \in Consumer \ {c} : InHand(d) \cap orphans' = {}
    BY <1>2, <1>3, <1>4 DEF OnePlace
  <1>6. InHand("drainer")' \cap InHand("inline")' = {}
    BY <1>2, <1>3 DEF OnePlace, Consumer
  <1>7. \A d \in Consumer :
          /\ InHand(d)' \subseteq Born /\ InHand(d)' \cap Queued(queue) = {}
          /\ InHand(d)' \cap orphans' = {}
          /\ worker'[d].at \in {"writing", "raised"} => InHand(d)' \cap Landed = {}
          /\ worker'[d].at = "written" => InHand(d)' \subseteq Landed
    <2> SUFFICES ASSUME NEW d \in Consumer
                 PROVE  /\ InHand(d)' \subseteq Born /\ InHand(d)' \cap Queued(queue) = {}
                        /\ InHand(d)' \cap orphans' = {}
                        /\ worker'[d].at \in {"writing", "raised"} => InHand(d)' \cap Landed = {}
                        /\ worker'[d].at = "written" => InHand(d)' \subseteq Landed
      OBVIOUS
    <2>1. CASE d = c
      BY <1>2, <2>1
    <2>2. CASE d # c
      BY <1>2, <1>3, <1>5, <2>2 DEF OnePlace
    <2> QED
      BY <2>1, <2>2
  <1> QED
    BY <1>1, <1>2, <1>3, <1>5, <1>6, <1>7 DEF OnePlace

\* A cancelled drain leaves the count as the queue has it.
LEMMA CountAfterAbandon ==
  ASSUME IInv, NEW c \in Consumer, Abandon(c), queue' = queue
  PROVE  /\ unfinished' \in Nat
         /\ unfinished' = Len(queue') + HeldBy(worker'["drainer"]) + HeldBy(worker'["inline"])
  <1>1. PICK o \in Consumer : o # c /\ Consumer = {c, o}
    BY DEF Consumer
  <1>2. /\ HeldBy(worker[c]) \in {0, 1} /\ HeldBy(worker[o]) \in {0, 1} /\ Len(queue) \in Nat
        /\ unfinished \in Nat
    BY Counts DEF IInv
  <1>3. unfinished = Len(queue) + HeldBy(worker["drainer"]) + HeldBy(worker["inline"])
    BY DEF IInv, Shape
  <1>4. /\ HeldBy(worker'[c]) = 0 /\ HeldBy(worker'[o]) = HeldBy(worker[o])
        /\ unfinished' = unfinished - HeldBy(worker[c])
    BY <1>1, Abandoned, Idle
  <1>5. unfinished' = Len(queue) + HeldBy(worker[o])
    BY <1>1, <1>2, <1>3, <1>4 DEF Consumer
  <1> QED
    BY <1>1, <1>2, <1>4, <1>5 DEF Consumer

LEMMA DrainerCancelledStep ==
  ASSUME IInv, DrainerCancelled
  PROVE  IInv'
  <1> DEFINE c == "drainer"
  <1>1. /\ cancelling /\ c \in Consumer /\ Abandon(c) /\ cancelling' = FALSE
        /\ caller' = [k \in Callers |->
                        IF caller[k] = "stopping" THEN "stopped" ELSE Released(unfinished')[k]]
        /\ UNCHANGED <<queue, target, failed, landed, covered, gaveUp, late, boundVars>>
    BY DEF DrainerCancelled, Consumer
  <1>2. /\ worker' \in [Consumer -> Runs] /\ worker'["inline"] = worker["inline"]
        /\ fut' \in [Job -> Futures] /\ Born' = Born
        /\ \A j \in Job : fut'[j] \in {"ok", "error"} => fut'[j] = fut[j]
        /\ orphans' \subseteq orphans \cup InHand(c)
    BY <1>1, Abandoned DEF Consumer
  <1>3. /\ caller' \in [Callers -> Stages]
        /\ \A k \in Callers : caller'[k] = "inlining" <=> caller[k] = "inlining"
        /\ \A k \in Callers : caller[k] \in {"stopping", "stopped"} => caller'[k] = "stopped"
    <2>1. Released(unfinished') \in [Callers -> Stages]
      BY DEF IInv, TypeOK, Released, Stages
    <2>2. \A k \in Callers : Released(unfinished')[k] = caller[k]
                             \/ (caller[k] = "joining" /\ Released(unfinished')[k] = "drained")
      BY DEF Released
    <2> QED
      BY <1>1, <2>1, <2>2 DEF Stages
  <1>4. Cancelled'
    <2>1. Cancelled
      BY <1>1 DEF IInv, InOrder
    <2> QED
      BY <1>1, <1>3, <2>1 DEF Cancelled, boundVars
  <1>5. TypeOK'
    <2>1. orphans' \subseteq Job
      BY <1>1, <1>2, Counts DEF IInv, TypeOK
    <2>2. worker' \in [Consumer -> [at : {"off", "start", "writing", "written", "raised"},
                              hand : Job \cup {END}, attempt : 0..(MaxWriteAttempts - 1),
                              owes : BOOLEAN]]
      BY <1>2 DEF Runs, Slot
    <2>3. /\ caller' \in [Callers -> {"new", "joining", "drained", "inlining", "stopping",
                             "returned", "stopped", "cancelled"}]
          /\ fut' \in [Job -> {"unborn", "none", "pending", "ok", "error", "cancelled"}]
      BY <1>2, <1>3 DEF Stages, Futures
    <2>4. unfinished' \in Nat
      BY <1>1, CountAfterAbandon
    <2> QED
      BY <1>1, <2>1, <2>2, <2>3, <2>4 DEF IInv, TypeOK, boundVars
  <1>6. Shape'
    <2>1. InlineDraining' = InlineDraining /\ Inliners' = Inliners
      BY <1>3 DEF InlineDraining, Inliners
    <2>2. Active("inline")' <=> Active("inline")
      BY <1>2 DEF Active
    <2>3. issued' = issued
      BY <1>2, SameBorn
    <2>4. unfinished' = Len(queue') + HeldBy(worker'["drainer"]) + HeldBy(worker'["inline"])
      BY <1>1, CountAfterAbandon
    <2> QED
      BY <1>2, <2>1, <2>2, <2>3, <2>4 DEF IInv, Shape
  <1>7. OnePlace'
    BY <1>1, PlaceAfterAbandon
  <1>8. FuturesAreHonest'
    BY <1>1, <1>2 DEF IInv, FuturesAreHonest, Landed
  <1> QED
    BY <1>4, <1>5, <1>6, <1>7, <1>8 DEF IInv, InOrder, Tracked

LEMMA CancelCallerStep ==
  ASSUME IInv, NEW k \in Callers, CancelCaller(k)
  PROVE  IInv'
  <1> DEFINE c == "inline"
  <1>1. /\ cancels < MaxCancels /\ cancels' = cancels + 1 /\ c \in Consumer
        /\ IF caller[k] = "inlining" THEN Abandon(c)
                                     ELSE UNCHANGED <<worker, fut, unfinished, orphans>>
        /\ caller' = [Released(unfinished') EXCEPT ![k] = "cancelled"]
        /\ UNCHANGED <<queue, cancelling, target, failed, landed, covered, gaveUp, late, faults>>
    BY DEF CancelCaller, Consumer
  <1>2. /\ caller' \in [Callers -> Stages]
        /\ \A l \in Callers : caller'[l] = "inlining" <=> caller[l] = "inlining" /\ l # k
    <2>1. Released(unfinished') \in [Callers -> Stages]
      BY DEF IInv, TypeOK, Released, Stages
    <2>2. \A l \in Callers : Released(unfinished')[l] = caller[l]
                             \/ (caller[l] = "joining" /\ Released(unfinished')[l] = "drained")
      BY DEF Released
    <2> QED
      BY <1>1, <2>1, <2>2 DEF Stages
  <1>3. cancels \in 0..MaxCancels /\ cancels' \in 0..MaxCancels /\ Cancelled'
    BY <1>1, WorkerAssumption DEF IInv, TypeOK, Cancelled
  <1>4. /\ worker' \in [Consumer -> Runs] /\ worker'["drainer"] = worker["drainer"]
        /\ fut' \in [Job -> Futures] /\ Born' = Born
        /\ \A j \in Job : fut'[j] \in {"ok", "error"} => fut'[j] = fut[j]
        /\ orphans' \subseteq orphans \cup InHand(c)
        /\ unfinished' \in Nat
        /\ unfinished' = Len(queue') + HeldBy(worker'["drainer"]) + HeldBy(worker'["inline"])
        /\ OnePlace' /\ worker'["inline"].at # "start"
        /\ Active("inline")' <=> InlineDraining'
    <2>1. CASE caller[k] = "inlining"
      <3>1. Abandon(c) /\ queue' = queue /\ landed' = landed
        BY <1>1, <2>1
      <3>2. ~InlineDraining'
        BY <1>2, <2>1 DEF IInv, Shape, Inliners, InlineDraining
      <3> QED
        BY <1>1, <3>1, <3>2, Abandoned, CountAfterAbandon, PlaceAfterAbandon DEF Consumer, Off
    <2>2. CASE caller[k] # "inlining"
      <3>1. /\ worker' = worker /\ fut' = fut /\ unfinished' = unfinished /\ orphans' = orphans
            /\ queue' = queue /\ landed' = landed
        BY <1>1, <2>2
      <3>2. Born' = Born /\ Landed' = Landed /\ \A d \in Consumer : InHand(d)' = InHand(d)
        BY <3>1 DEF Born, Landed, InHand, Carries
      <3>3. OnePlace'
        BY <3>1, <3>2 DEF IInv, OnePlace, Consumer
      <3>4. InlineDraining' <=> InlineDraining
        <4>1. \A l \in Callers : caller'[l] = "inlining" <=> caller[l] = "inlining"
          BY <1>2, <2>2
        <4> QED
          BY <4>1 DEF InlineDraining
      <3>5. Active("inline")' <=> InlineDraining'
        BY <3>1, <3>4 DEF IInv, Shape, Active
      <3>6. worker \in [Consumer -> Runs] /\ fut \in [Job -> Futures] /\ unfinished \in Nat
        BY DEF IInv, TypeOK, Runs, Slot, Futures
      <3> QED
        BY <3>1, <3>2, <3>3, <3>5, <3>6 DEF IInv, Shape
    <2> QED
      BY <2>1, <2>2
  <1>5. TypeOK'
    <2>1. orphans' \subseteq Job
      BY <1>1, <1>4, Counts DEF IInv, TypeOK
    <2>2. worker' \in [Consumer -> [at : {"off", "start", "writing", "written", "raised"},
                              hand : Job \cup {END}, attempt : 0..(MaxWriteAttempts - 1),
                              owes : BOOLEAN]]
      BY <1>4 DEF Runs, Slot
    <2>3. /\ caller' \in [Callers -> {"new", "joining", "drained", "inlining", "stopping",
                             "returned", "stopped", "cancelled"}]
          /\ fut' \in [Job -> {"unborn", "none", "pending", "ok", "error", "cancelled"}]
      BY <1>2, <1>4 DEF Stages, Futures
    <2>4. (cancelling => DrainerAlive)'
      BY <1>1, <1>4 DEF IInv, TypeOK, DrainerAlive
    <2> QED
      BY <1>1, <1>3, <1>4, <2>1, <2>2, <2>3, <2>4 DEF IInv, TypeOK
  <1>6. Shape'
    <2>1. Inliners' \subseteq Inliners
      BY <1>2 DEF Inliners
    <2>2. issued' = issued
      BY <1>4, SameBorn
    <2> QED
      BY <1>4, <2>1, <2>2 DEF IInv, Shape
  <1>7. FuturesAreHonest'
    BY <1>1, <1>4 DEF IInv, FuturesAreHonest, Landed
  <1> QED
    BY <1>3, <1>4, <1>5, <1>6, <1>7 DEF IInv, InOrder, Tracked

LEMMA CancelDrainerStep ==
  ASSUME IInv, CancelDrainer
  PROVE  IInv'
  <1>1. /\ DrainerAlive /\ cancelling' = TRUE /\ cancels < MaxCancels /\ cancels' = cancels + 1
        /\ UNCHANGED <<queueVars, worker, caller, target, fut, failed, landed, orphans,
                       covered, gaveUp, late, faults>>
    BY DEF CancelDrainer
  <1>2. cancels' \in 0..MaxCancels /\ Cancelled'
    BY <1>1, WorkerAssumption DEF IInv, TypeOK, Cancelled
  <1>3. TypeOK'
    BY <1>1, <1>2 DEF IInv, TypeOK, queueVars, DrainerAlive
  <1>4. Shape' /\ OnePlace' /\ FuturesAreHonest'
    <2>1. /\ Born' = Born /\ issued' = issued /\ Landed' = Landed /\ Inliners' = Inliners
          /\ InlineDraining' = InlineDraining
          /\ \A d \in Consumer : InHand(d)' = InHand(d) /\ Active(d)' = Active(d)
      BY <1>1 DEF Born, issued, Landed, Inliners, InlineDraining, InHand, Carries, Active
    <2> QED
      BY <1>1, <2>1 DEF IInv, Shape, OnePlace, FuturesAreHonest, queueVars, Consumer
  <1> QED
    BY <1>2, <1>3, <1>4 DEF IInv, InOrder, Tracked

LEMMA CancelSubmitterStep ==
  ASSUME IInv, NEW j \in Job, CancelSubmitter(j)
  PROVE  IInv'
  <1>1. /\ fut[j] = "pending" /\ fut' = [fut EXCEPT ![j] = "cancelled"]
        /\ cancels < MaxCancels /\ cancels' = cancels + 1
        /\ UNCHANGED <<queueVars, worker, cancelling, caller, target, failed, landed,
                       orphans, covered, gaveUp, late, faults>>
    BY DEF CancelSubmitter
  <1>2. cancels' \in 0..MaxCancels /\ Cancelled'
    BY <1>1, WorkerAssumption DEF IInv, TypeOK, Cancelled
  <1>3. /\ fut \in [Job -> Futures] /\ fut' \in [Job -> Futures] /\ Born' = Born
        /\ \A i \in Job : fut'[i] \in {"ok", "error"} => fut'[i] = fut[i]
    BY <1>1 DEF IInv, TypeOK, Futures, Born
  <1>4. TypeOK'
    BY <1>1, <1>2, <1>3 DEF IInv, TypeOK, queueVars, DrainerAlive, Futures
  <1>5. Shape' /\ OnePlace' /\ FuturesAreHonest'
    <2>1. /\ issued' = issued /\ Landed' = Landed /\ Inliners' = Inliners
          /\ InlineDraining' = InlineDraining
          /\ \A d \in Consumer : InHand(d)' = InHand(d) /\ Active(d)' = Active(d)
      BY <1>1, <1>3, SameBorn DEF Landed, Inliners, InlineDraining, InHand, Carries, Active
    <2>2. FuturesAreHonest'
      BY <1>1, <1>3, <2>1 DEF IInv, FuturesAreHonest
    <2> QED
      BY <1>1, <1>3, <2>1, <2>2 DEF IInv, Shape, OnePlace, queueVars, Consumer
  <1> QED
    BY <1>2, <1>4, <1>5 DEF IInv, InOrder, Tracked

LEMMA OrphanLandsStep ==
  ASSUME IInv, NEW j \in orphans, OrphanLands(j)
  PROVE  IInv'
  <1>1. /\ orphans' = orphans \ {j} /\ landed' = Append(landed, j)
        /\ UNCHANGED <<queueVars, cancelling, worker, caller, target, fut, failed, covered,
                       gaveUp, late, boundVars>>
    BY DEF OrphanLands
  <1>2. j \in Job /\ j \notin Landed /\ landed \in Seq(Job)
    BY DEF IInv, TypeOK, OnePlace
  <1>3. /\ landed' \in Seq(Job) /\ Landed' = Landed \cup {j}
        /\ Len(landed') = Cardinality(Landed')
    BY <1>1, <1>2, LandFacts DEF IInv, FuturesAreHonest
  <1>4. Cancelled'
    <2>1. Cancelled
      BY DEF IInv, InOrder
    <2> QED
      BY <1>1, <2>1 DEF Cancelled, boundVars
  <1>5. /\ Born' = Born /\ issued' = issued /\ Inliners' = Inliners
        /\ InlineDraining' = InlineDraining /\ queue' = queue /\ unfinished' = unfinished
        /\ \A d \in Consumer : InHand(d)' = InHand(d) /\ Active(d)' = Active(d)
        /\ {"drainer", "inline"} = Consumer /\ worker' = worker
    BY <1>1 DEF Born, issued, Inliners, InlineDraining, InHand, Carries, Active, queueVars, Consumer
  <1>6. TypeOK'
    BY <1>1, <1>3 DEF IInv, TypeOK, queueVars, boundVars, DrainerAlive
  <1>7. Shape'
    BY <1>5 DEF IInv, Shape
  <1>8. OnePlace'
    <2>1. OnePlace
      BY DEF IInv
    <2>2. \A d \in Consumer : j \notin InHand(d)
      BY <2>1 DEF OnePlace
    <2> QED
      BY <1>1, <1>3, <1>5, <2>1, <2>2 DEF OnePlace
  <1>9. FuturesAreHonest'
    BY <1>1, <1>3 DEF IInv, FuturesAreHonest
  <1> QED
    BY <1>4, <1>6, <1>7, <1>8, <1>9 DEF IInv, InOrder, Tracked

----------------------------------------------------------------------------
(* Callers and submitters.                                                 *)

\* A caller is past its join.
LEMMA AfterJoinStep ==
  ASSUME IInv, NEW k \in Callers, AfterJoin(k)
  PROVE  IInv'
  <1>1. /\ caller[k] = "drained" /\ caller' = [caller EXCEPT ![k] = Drained(k)]
        /\ cancelling' = (cancelling \/ Drained(k) = "stopping")
        /\ UNCHANGED <<queueVars, worker, target, fut, failed, landed, orphans, covered,
                       gaveUp, late, boundVars>>
    BY DEF AfterJoin
  <1>2. /\ caller \in [Callers -> Stages] /\ caller' \in [Callers -> Stages]
        /\ Drained(k) \in {"stopping", "returned"} /\ (Drained(k) = "stopping" => DrainerAlive)
        /\ caller'[k] = Drained(k) /\ \A l \in Callers \ {k} : caller'[l] = caller[l]
    BY <1>1 DEF IInv, TypeOK, Stages, Drained
  <1>3. /\ Born' = Born /\ issued' = issued /\ Landed' = Landed
        /\ queue' = queue /\ unfinished' = unfinished /\ worker' = worker
        /\ \A d \in Consumer : InHand(d)' = InHand(d) /\ Active(d)' = Active(d)
        /\ \A j \in Job : Dealt(j)' <=> Dealt(j)
        /\ {"drainer", "inline"} = Consumer
    BY <1>1 DEF Born, issued, Landed, InHand, Carries, Active, queueVars, Consumer, Dealt
  <1>4. Inliners' = Inliners /\ InlineDraining' = InlineDraining
    <2>1. \A l \in Callers : caller'[l] = "inlining" <=> caller[l] = "inlining"
      BY <1>1, <1>2
    <2> QED
      BY <2>1 DEF Inliners, InlineDraining
  <1>5. TypeOK'
    BY <1>1, <1>2 DEF IInv, TypeOK, queueVars, boundVars, DrainerAlive, Stages
  <1>6. Shape'
    BY <1>3, <1>4 DEF IInv, Shape
  <1>7. OnePlace'
    BY <1>1, <1>3 DEF IInv, OnePlace
  <1>8. FuturesAreHonest'
    BY <1>1, <1>3 DEF IInv, FuturesAreHonest
  <1>9. SUFFICES ASSUME ~Cancelled'
                 PROVE  InOrder' /\ Tracked'
    BY <1>5, <1>6, <1>7, <1>8 DEF IInv, InOrder, Tracked
  <1>10. ~Cancelled /\ Drained(k) = "returned"
    BY <1>1, <1>2, <1>9 DEF Cancelled, boundVars
  <1>11. InOrder'
    <2>1. InOrder /\ cancelling' = cancelling
      BY <1>1, <1>10 DEF IInv, TypeOK
    <2> QED
      BY <1>1, <1>3, <1>10, <2>1 DEF InOrder
  <1>12. Tracked'
    <2>1. Tracked /\ target \in [Callers -> SUBSET Job] /\ Born \subseteq Job
      BY DEF IInv, TypeOK, Born
    <2>2. fut' = fut /\ target' = target
      BY <1>1
    <2>3. \A l \in Callers : caller'[l] \in {"drained", "returned", "stopped"} =>
                               caller[l] \in {"drained", "returned", "stopped"}
      BY <1>1, <1>2
    <2> QED
      BY <1>3, <1>10, <2>1, <2>2, <2>3 DEF Tracked
  <1> QED
    BY <1>11, <1>12

LEMMA SubmitStep ==
  ASSUME IInv, NEW kind \in {"pending", "none"}, Submit(kind)
  PROVE  IInv'
  <1> DEFINE j == issued + 1
  <1>1. /\ issued < MaxJobs /\ fut' = [fut EXCEPT ![j] = kind]
        /\ queue' = Append(queue, j) /\ unfinished' = unfinished + 1 /\ Kick
        /\ late' = IF BehindHook THEN late \cup {j} ELSE late
        /\ UNCHANGED <<cancelling, caller, target, failed, landed, orphans, covered,
                       gaveUp, boundVars>>
    BY DEF Submit
  <1>2. /\ Born = 1..issued /\ issued \in Nat /\ j \in Job /\ j \in Slot /\ j # END
        /\ j \notin Born /\ \A i \in Born : i < j
    BY <1>1, WorkerAssumption DEF IInv, Shape, Job, Slot, END
  <1>3. /\ fut \in [Job -> Futures] /\ fut' \in [Job -> Futures] /\ Born' = Born \cup {j}
        /\ fut'[j] = kind /\ \A i \in Job \ {j} : fut'[i] = fut[i]
    <2>1. fut \in [Job -> Futures]
      BY DEF IInv, TypeOK, Futures
    <2> HIDE DEF j
    <2>2. fut' \in [Job -> Futures] /\ fut'[j] = kind /\ \A i \in Job \ {j} : fut'[i] = fut[i]
      BY <1>1, <1>2, <2>1 DEF Futures
    <2> QED
      BY <1>2, <2>1, <2>2 DEF Born
  <1>4. issued' = issued + 1 /\ Born' = 1..issued'
    <2>1. IsFiniteSet(Born) /\ issued = Cardinality(Born) /\ issued' = Cardinality(Born')
      <3>1. IsFiniteSet(1..issued)
        BY <1>2, FS_Interval
      <3> QED
        BY <1>2, <3>1 DEF Born, issued
    <2>2. Cardinality(Born \cup {j}) = Cardinality(Born) + 1
      BY <1>2, <2>1, FS_AddElement
    <2>3. issued' = issued + 1
      BY <1>3, <2>1, <2>2
    <2>4. (1..issued) \cup {issued + 1} = 1..(issued + 1)
      BY <1>2
    <2> QED
      BY <1>2, <1>3, <2>3, <2>4
  <1>5. /\ queue \in Seq(Slot) /\ queue' \in Seq(Slot) /\ Len(queue') = Len(queue) + 1
        /\ Queued(queue') = Queued(queue) \cup {j} /\ Sorted(queue')
    <2>1. queue \in Seq(Slot) /\ Sorted(queue) /\ Queued(queue) \subseteq Born
      BY DEF IInv, TypeOK, Slot, OnePlace
    <2> HIDE DEF j
    <2>2. {j} \ {END} = {j}
      BY <1>2
    <2> QED
      BY <1>1, <1>2, <2>1, <2>2, PutBehind
  <1>6. /\ worker' \in [Consumer -> Runs] /\ worker'["inline"] = worker["inline"]
        /\ \/ worker' = worker
           \/ /\ ~Active("drainer") /\ ~InlineDraining
              /\ worker'["drainer"] = Started
    <2>1. worker \in [Consumer -> Runs]
      BY DEF IInv, TypeOK, Runs, Slot
    <2>2. worker' = [worker EXCEPT !["drainer"] =
                       IF InlineDraining \/ DrainerAlive THEN @ ELSE Started]
      BY <1>1 DEF Kick
    <2> QED
      BY <2>1, <2>2, Idle DEF Consumer, DrainerAlive, Active
  <1>7. /\ \A d \in Consumer : InHand(d)' = InHand(d)
        /\ \A d \in Consumer : HeldBy(worker'[d]) = HeldBy(worker[d])
        /\ \A d \in Consumer : worker'[d].at \in {"writing", "raised", "written"} =>
                                 worker'[d].at = worker[d].at
    BY <1>6, Idle DEF Consumer, InHand, Carries, HeldBy, Held, Active
  <1>8. /\ Landed' = Landed /\ Inliners' = Inliners /\ InlineDraining' = InlineDraining
        /\ Cancelled' = Cancelled /\ {"drainer", "inline"} = Consumer
        /\ Active("inline")' = Active("inline")
    BY <1>1, <1>6 DEF Landed, Inliners, InlineDraining, Cancelled, boundVars, Consumer, Active
  <1> HIDE DEF j
  <1>9. TypeOK'
    <2>1. worker' \in [Consumer -> [at : {"off", "start", "writing", "written", "raised"},
                              hand : Job \cup {END}, attempt : 0..(MaxWriteAttempts - 1),
                              owes : BOOLEAN]]
      BY <1>6 DEF Runs, Slot
    <2>2. (cancelling => DrainerAlive)'
      BY <1>1, <1>6, Idle DEF IInv, TypeOK, DrainerAlive
    <2>3. late' \subseteq Job
      BY <1>1, <1>2 DEF IInv, TypeOK
    <2>4. queue' \in Seq(Job \cup {END}) /\ unfinished' \in Nat
      BY <1>1, <1>5 DEF IInv, TypeOK, Slot
    <2> QED
      BY <1>1, <1>3, <2>1, <2>2, <2>3, <2>4 DEF IInv, TypeOK, boundVars, Futures
  <1>10. Shape'
    <2>1. unfinished' = Len(queue') + HeldBy(worker'["drainer"]) + HeldBy(worker'["inline"])
      <3>1. /\ HeldBy(worker["drainer"]) \in {0, 1} /\ HeldBy(worker["inline"]) \in {0, 1}
            /\ Len(queue) \in Nat
        BY Counts DEF IInv, Consumer
      <3>2. unfinished = Len(queue) + HeldBy(worker["drainer"]) + HeldBy(worker["inline"])
        BY DEF IInv, Shape
      <3>3. HeldBy(worker'["drainer"]) = HeldBy(worker["drainer"])
            /\ HeldBy(worker'["inline"]) = HeldBy(worker["inline"])
        BY <1>7 DEF Consumer
      <3> QED
        BY <1>1, <1>5, <3>1, <3>2, <3>3
    <2>2. issued' \in Nat
      BY <1>2, <1>4
    <2> QED
      BY <1>4, <1>6, <1>8, <2>1, <2>2 DEF IInv, Shape
  <1>11. OnePlace'
    <2>1. OnePlace /\ orphans' = orphans
      BY <1>1 DEF IInv
    <2>2. /\ \A d \in Consumer : j \notin InHand(d)
          /\ j \notin Landed \cup orphans
      BY <1>2, <2>1 DEF OnePlace
    <2> QED
      BY <1>3, <1>5, <1>7, <1>8, <2>1, <2>2 DEF OnePlace
  <1>12. FuturesAreHonest'
    <2>1. \A i \in Job : fut'[i] \in {"ok", "error"} => fut'[i] = fut[i]
      BY <1>3
    <2> QED
      BY <1>1, <1>8, <2>1 DEF IInv, FuturesAreHonest
  <1>13. InOrder'
    <2> SUFFICES ASSUME ~Cancelled PROVE InOrder'
      BY <1>8 DEF InOrder
    <2>1. ~(Active("drainer")' /\ Active("inline")')
      <3>1. CASE worker' = worker
        BY <3>1 DEF IInv, InOrder, Active
      <3>2. CASE ~InlineDraining
        BY <1>8, <3>2 DEF IInv, Shape
      <3> QED
        BY <1>6, <3>1, <3>2
    <2>2. /\ \A i \in Landed, q \in Queued(queue') : i < q
          /\ \A d \in Consumer : \A h \in InHand(d), q \in Queued(queue') : h < q
      BY <1>2, <1>5 DEF IInv, InOrder, OnePlace
    <2>3. \A d \in Consumer : \A h \in InHand(d), i \in Landed :
            i < h \/ (worker'[d].at = "written" /\ i <= h)
      <3> SUFFICES ASSUME NEW d \in Consumer, NEW h \in InHand(d), NEW i \in Landed
                   PROVE  i < h \/ (worker'[d].at = "written" /\ i <= h)
        OBVIOUS
      <3>1. worker' = worker \/ d # "drainer" \/ InHand(d) = {}
        BY <1>6, Counts DEF IInv
      <3>2. worker'[d] = worker[d]
        BY <1>6, <3>1 DEF Consumer
      <3> QED
        BY <3>2 DEF IInv, InOrder
    <2>4. /\ ~cancelling' /\ orphans' = {} /\ landed' = landed
          /\ \A a, b \in DOMAIN landed : a < b => landed[a] < landed[b]
      BY <1>1 DEF IInv, InOrder
    <2> QED
      BY <1>7, <1>8, <2>1, <2>2, <2>3, <2>4 DEF InOrder
  <1>14. Tracked'
    <2> SUFFICES ASSUME ~Cancelled PROVE Tracked'
      BY <1>8 DEF Tracked
    <2>1. Tracked /\ target \in [Callers -> SUBSET Job] /\ Born \subseteq Job
      BY DEF IInv, TypeOK, Born
    <2>2. \A i \in Job : Dealt(i) => Dealt(i)'
      <3>1. \A i \in Job : fut[i] = "error" => fut'[i] = "error"
        BY <1>2, <1>3 DEF Born
      <3> QED
        BY <1>1, <1>8, <3>1 DEF Dealt
    <2>3. \A i \in Queued(queue') \cup InHand("drainer") \cup InHand("inline") :
            fut'[i] \in {"none", "pending"}
      <3>1. /\ Queued(queue) \cup InHand("drainer") \cup InHand("inline") \subseteq Job \ {j}
        BY <1>2, <2>1 DEF IInv, OnePlace, Consumer
      <3> QED
        BY <1>3, <1>5, <2>1, <3>1 DEF Tracked
    <2>4. Born' \subseteq Queued(queue') \cup InHand("drainer") \cup InHand("inline")
                            \cup {i \in Job : Dealt(i)'}
      BY <1>3, <1>5, <2>1, <2>2 DEF Tracked
    <2>5. caller' = caller /\ target' = target
      BY <1>1
    <2> QED
      BY <1>3, <1>7, <1>8, <2>1, <2>2, <2>3, <2>4, <2>5 DEF Tracked
  <1> QED
    BY <1>9, <1>10, <1>11, <1>12, <1>13, <1>14 DEF IInv

\* A caller finds nothing to wait for, or waits.
LEMMA CallWaits ==
  ASSUME IInv, NEW k \in Callers, Call(k), ~MustDrainInline
  PROVE  IInv'
  <1> DEFINE stage == IF unfinished = 0 THEN "drained" ELSE "joining"
  <1>1. /\ caller[k] = "new" /\ target' = [target EXCEPT ![k] = 1..issued]
        /\ caller' = [caller EXCEPT ![k] = stage]
        /\ UNCHANGED <<queueVars, worker>>
        /\ UNCHANGED <<cancelling, fut, failed, landed, orphans, covered, gaveUp, late,
                       boundVars>>
    BY DEF Call
  <1>2. /\ caller \in [Callers -> Stages] /\ caller' \in [Callers -> Stages]
        /\ target \in [Callers -> SUBSET Job] /\ target' \in [Callers -> SUBSET Job]
        /\ Born = 1..issued /\ Born \subseteq Job
        /\ target'[k] = Born /\ caller'[k] = stage
        /\ \A l \in Callers \ {k} : caller'[l] = caller[l] /\ target'[l] = target[l]
    BY <1>1 DEF IInv, TypeOK, Stages, Shape, Born
  <1>3. /\ Born' = Born /\ issued' = issued /\ Landed' = Landed
        /\ queue' = queue /\ unfinished' = unfinished /\ worker' = worker
        /\ \A d \in Consumer : InHand(d)' = InHand(d) /\ Active(d)' = Active(d)
        /\ \A j \in Job : Dealt(j)' <=> Dealt(j)
        /\ {"drainer", "inline"} = Consumer
    BY <1>1 DEF Born, issued, Landed, InHand, Carries, Active, queueVars, Consumer, Dealt
  <1>4. /\ Inliners' = Inliners /\ InlineDraining' = InlineDraining /\ Cancelled' = Cancelled
    <2>1. \A l \in Callers : /\ caller'[l] = "inlining" <=> caller[l] = "inlining"
                             /\ caller'[l] \in {"stopping", "stopped"} <=>
                                  caller[l] \in {"stopping", "stopped"}
      BY <1>1, <1>2
    <2> QED
      BY <1>1, <2>1 DEF Inliners, InlineDraining, Cancelled, boundVars
  <1>5. TypeOK'
    BY <1>1, <1>2 DEF IInv, TypeOK, queueVars, boundVars, DrainerAlive, Stages
  <1>6. Shape'
    BY <1>3, <1>4 DEF IInv, Shape
  <1>7. OnePlace'
    BY <1>1, <1>3 DEF IInv, OnePlace
  <1>8. FuturesAreHonest'
    BY <1>1, <1>3 DEF IInv, FuturesAreHonest
  <1>9. InOrder'
    BY <1>1, <1>3, <1>4 DEF IInv, InOrder
  <1>10. ASSUME ~Cancelled
         PROVE  Tracked'
    <2>1. Tracked /\ fut' = fut
      BY <1>1 DEF IInv
    <2>2. ASSUME unfinished = 0, NEW j \in Born
          PROVE  Dealt(j)
      <3>1. /\ HeldBy(worker["drainer"]) \in {0, 1} /\ HeldBy(worker["inline"]) \in {0, 1}
            /\ Len(queue) \in Nat
            /\ unfinished = Len(queue) + HeldBy(worker["drainer"]) + HeldBy(worker["inline"])
        BY Counts DEF IInv, Consumer, Shape
      <3>2. Len(queue) = 0 /\ HeldBy(worker["drainer"]) = 0 /\ HeldBy(worker["inline"]) = 0
        BY <2>2, <3>1
      <3>3. queue = <<>> /\ InHand("drainer") = {} /\ InHand("inline") = {}
        BY <3>2, Counts DEF IInv, TypeOK, Consumer
      <3> QED
        BY <1>10, <2>1, <2>2, <3>3, NothingQueued DEF Tracked
    <2>3. ASSUME NEW l \in Callers, caller'[l] \in {"drained", "returned", "stopped"},
                 NEW j \in target'[l]
          PROVE  Dealt(j)'
      <3>1. CASE l = k
        BY <1>2, <1>3, <2>2, <2>3, <3>1
      <3>2. CASE l # k
        BY <1>2, <1>3, <1>10, <2>1, <2>3, <3>2 DEF Tracked
      <3> QED
        BY <3>1, <3>2
    <2>4. \A l \in Callers : target'[l] \subseteq Born
      BY <1>2, <1>10, <2>1 DEF Tracked
    <2> QED
      BY <1>2, <1>3, <1>10, <2>1, <2>3, <2>4 DEF Tracked
  <1>11. Cancelled => Tracked'
    BY <1>4 DEF Tracked
  <1> QED
    BY <1>5, <1>6, <1>7, <1>8, <1>9, <1>10, <1>11 DEF IInv

\* A caller finds no drainer and drains.
LEMMA CallDrains ==
  ASSUME IInv, NEW k \in Callers, Call(k), MustDrainInline
  PROVE  IInv'
  <1> DEFINE c == "inline"
             stage == IF worker'[c].at = "off" THEN Drained(k) ELSE "inlining"
  <1>1. /\ caller[k] = "new" /\ target' = [target EXCEPT ![k] = 1..issued]
        /\ queue' = Take(queue, unfinished, HasEndHook).queue
        /\ unfinished' = Take(queue, unfinished, HasEndHook).unfinished
        /\ worker' = [worker EXCEPT ![c] = Take(queue, unfinished, HasEndHook).run]
        /\ caller' = [caller EXCEPT ![k] =
             IF Take(queue, unfinished, HasEndHook).run = Off THEN Drained(k) ELSE "inlining"]
        /\ UNCHANGED <<cancelling, fut, failed, landed, orphans, covered, gaveUp, late,
                       boundVars>>
    BY DEF Call
  <1>2. c \in Consumer /\ "drainer" \in Consumer /\ Consumer = {"drainer", "inline"}
    BY DEF Consumer
  <1>3. /\ Turn(c, unfinished) /\ caller' = [caller EXCEPT ![k] = stage]
    <2>1. /\ Turn(c, unfinished)
          /\ Take(queue, unfinished, HasEndHook).run = Off <=> worker'[c].at = "off"
      <3>1. TypeOK /\ unfinished \in Int /\ HasEndHook \in BOOLEAN
        BY WorkerAssumption DEF IInv, TypeOK
      <3> QED
        BY <1>1, <1>2, <3>1, TurnIsTaken
    <2> QED
      BY <1>1, <2>1
  <1>4. /\ worker' \in [Consumer -> Runs] /\ worker'["drainer"] = worker["drainer"]
        /\ InHand("drainer")' = InHand("drainer") /\ Active("drainer")' = Active("drainer")
        /\ worker'[c].at \in {"off", "writing"}
        /\ HeldBy(worker'[c]) \in {0, 1} /\ queue' \in Seq(Slot)
        /\ unfinished' = unfinished - Len(queue) + Len(queue') + HeldBy(worker'[c])
        /\ Queued(queue) = Queued(queue') \cup InHand(c)'
        /\ worker'[c].at = "off" => queue = <<>>
    BY <1>2, <1>3, OtherHands DEF Turn, HeldBy
  <1>5. /\ ~InlineDraining /\ ~Active(c) /\ InHand(c) = {} /\ HeldBy(worker[c]) = 0
        /\ (DrainerAlive => cancelling)
    BY <1>2, Counts DEF MustDrainInline, IInv, Shape
  <1>6. /\ caller \in [Callers -> Stages] /\ caller' \in [Callers -> Stages]
        /\ target \in [Callers -> SUBSET Job] /\ target' \in [Callers -> SUBSET Job]
        /\ Born = 1..issued /\ Born \subseteq Job
        /\ target'[k] = Born /\ caller'[k] = stage
        /\ stage \in {"stopping", "returned", "inlining"}
        /\ stage = "inlining" <=> worker'[c].at # "off"
        /\ \A l \in Callers \ {k} : caller'[l] = caller[l] /\ target'[l] = target[l]
    <2>1. /\ caller \in [Callers -> Stages] /\ target \in [Callers -> SUBSET Job]
          /\ Born = 1..issued /\ Born \subseteq Job
      <3>1. TypeOK /\ Born = 1..issued
        BY DEF IInv, Shape
      <3>2. caller \in [Callers -> Stages] /\ target \in [Callers -> SUBSET Job]
        BY <3>1, Zenon DEF TypeOK, Stages
      <3> QED
        BY <3>1, <3>2, Zenon DEF Born
    <2>2. /\ stage \in {"stopping", "returned", "inlining"}
          /\ stage = "inlining" <=> worker'[c].at # "off"
      <3>1. Drained(k) \in {"stopping", "returned"}
        BY DEF Drained
      <3>2. Drained(k) # "inlining"
        BY <3>1
      <3> QED
        BY <3>1, <3>2, Zenon
    <2>3. stage \in Stages
      BY <2>2 DEF Stages
    <2> HIDE DEF stage
    <2>4. /\ target' = [target EXCEPT ![k] = 1..issued]
          /\ caller' = [caller EXCEPT ![k] = stage]
      BY <1>1, <1>3, Zenon
    <2> QED
      BY <2>1, <2>2, <2>3, <2>4
  <1>7. /\ Born' = Born /\ issued' = issued /\ Landed' = Landed
        /\ \A j \in Job : Dealt(j)' <=> Dealt(j)
    BY <1>1 DEF Born, issued, Landed, Dealt
  <1> HIDE DEF stage
  <1>8. /\ unfinished' = Len(queue') + HeldBy(worker'["drainer"]) + HeldBy(worker'[c])
        /\ unfinished' \in Nat
    <2>1. /\ HeldBy(worker["drainer"]) \in {0, 1} /\ Len(queue) \in Nat
          /\ unfinished = Len(queue) + HeldBy(worker["drainer"]) + HeldBy(worker[c])
      BY <1>2, Counts DEF IInv, Shape
    <2>2. Len(queue') \in Nat
      BY <1>4
    <2>3. unfinished' = Len(queue') + HeldBy(worker'["drainer"]) + HeldBy(worker'[c])
      BY <1>4, <1>5, <2>1, <2>2
    <2> QED
      BY <1>4, <2>1, <2>2, <2>3
  <1>9. TypeOK'
    <2>1. worker' \in [Consumer -> [at : {"off", "start", "writing", "written", "raised"},
                              hand : Job \cup {END}, attempt : 0..(MaxWriteAttempts - 1),
                              owes : BOOLEAN]]
      BY <1>4 DEF Runs, Slot
    <2>2. (cancelling => DrainerAlive)'
      BY <1>1, <1>4 DEF IInv, TypeOK, DrainerAlive
    <2>3. queue' \in Seq(Job \cup {END})
      BY <1>4 DEF Slot
    <2> QED
      BY <1>1, <1>6, <1>8, <2>1, <2>2, <2>3 DEF IInv, TypeOK, boundVars, Stages
  <1>10. Shape'
    <2>1. InlineDraining' <=> worker'[c].at # "off"
      BY <1>5, <1>6 DEF InlineDraining
    <2>2. \A l, m \in Inliners' : l = m
      BY <1>5, <1>6 DEF InlineDraining, Inliners
    <2> QED
      BY <1>4, <1>7, <1>8, <2>1, <2>2 DEF IInv, Shape, Active
  <1>11. OnePlace'
    BY <1>1, <1>2, <1>3, <1>7, PlaceAfterTurn DEF IInv
  <1>12. FuturesAreHonest'
    BY <1>1, <1>7 DEF IInv, FuturesAreHonest
  <1>13. SUFFICES ASSUME ~Cancelled'
                  PROVE  InOrder' /\ Tracked'
    BY <1>9, <1>10, <1>11, <1>12 DEF IInv, InOrder, Tracked
  <1>14. ~Cancelled
    <2>1. \A l \in Callers : caller[l] \in {"stopping", "stopped"} => caller'[l] = caller[l]
      BY <1>1, <1>6
    <2> QED
      BY <1>1, <1>13, <2>1 DEF Cancelled, boundVars
  <1>15. ~Active("drainer") /\ InHand("drainer") = {}
    <2>1. ~Active("drainer")
      BY <1>5, <1>14 DEF IInv, InOrder, DrainerAlive, Active
    <2> QED
      BY <1>2, <2>1, Counts DEF IInv
  <1>16. InOrder'
    BY <1>1, <1>2, <1>3, <1>14, <1>15, OrderAfterTurn DEF IInv
  <1>17. Tracked'
    <2>1. /\ Born \subseteq Queued(queue) \cup {j \in Job : Dealt(j)}
          /\ \A j \in Queued(queue) : fut[j] \in {"none", "pending"}
          /\ \A l \in Callers : target[l] \subseteq Born
          /\ \A l \in Callers : caller[l] \in {"drained", "returned", "stopped"} =>
               \A j \in target[l] : Dealt(j)
      BY <1>5, <1>14, <1>15 DEF IInv, Tracked
    <2>2. ASSUME NEW l \in Callers, caller'[l] \in {"drained", "returned", "stopped"},
                 NEW j \in target'[l]
          PROVE  Dealt(j)'
      <3>1. CASE l = k
        <4>1. queue = <<>>
          BY <1>4, <1>6, <2>2, <3>1
        <4> QED
          BY <1>6, <1>7, <2>1, <2>2, <3>1, <4>1, NothingQueued
      <3>2. CASE l # k
        <4>1. j \in target[l] /\ caller[l] \in {"drained", "returned", "stopped"} /\ j \in Job
          BY <1>6, <2>2, <3>2
        <4> QED
          BY <1>7, <2>1, <4>1
      <3> QED
        BY <3>1, <3>2
    <2>3. Born' \subseteq Queued(queue') \cup InHand("drainer")' \cup InHand("inline")'
                            \cup {j \in Job : Dealt(j)'}
      BY <1>4, <1>7, <2>1
    <2>4. \A j \in Queued(queue') \cup InHand("drainer")' \cup InHand("inline")' :
            fut'[j] \in {"none", "pending"}
      BY <1>1, <1>4, <1>15, <2>1
    <2>5. \A l \in Callers : target'[l] \subseteq Born'
      BY <1>6, <1>7, <2>1
    <2> QED
      BY <2>2, <2>3, <2>4, <2>5 DEF Tracked
  <1> QED
    BY <1>16, <1>17

----------------------------------------------------------------------------
(* The invariant, and what it says.                                        *)

LEMMA InitIInv == Init => IInv
  <1> SUFFICES ASSUME Init PROVE IInv
    OBVIOUS
  <1>1. /\ queue = <<>> /\ unfinished = 0 /\ worker = [c \in Consumer |-> Off]
        /\ cancelling = FALSE /\ caller = [k \in Callers |-> "new"]
        /\ target = [k \in Callers |-> {}] /\ fut = [j \in Job |-> "unborn"]
        /\ failed = FALSE /\ landed = <<>> /\ orphans = {} /\ covered = {}
        /\ gaveUp = {} /\ late = {} /\ faults = 0 /\ cancels = 0
    BY DEF Init
  <1>2. Born = {} /\ Landed = {} /\ issued = 0
    <2>1. Born = {} /\ Landed = {}
      BY <1>1 DEF Born, Landed
    <2> QED
      BY <2>1, FS_EmptySet DEF issued, Born
  <1>3. /\ \A c \in Consumer : worker[c] = Off /\ InHand(c) = {} /\ ~Active(c)
        /\ {"drainer", "inline"} = Consumer
    BY <1>1 DEF InHand, Carries, Held, Active, Off, Consumer
  <1>4. TypeOK
    <2>1. worker \in [Consumer -> [at : {"off", "start", "writing", "written", "raised"},
                              hand : Job \cup {END}, attempt : 0..(MaxWriteAttempts - 1),
                              owes : BOOLEAN]]
      BY <1>1, Idle DEF Runs, Slot
    <2>2. queue \in Seq(Job \cup {END}) /\ unfinished \in Nat /\ landed \in Seq(Job)
      BY <1>1
    <2>3. faults \in 0..MaxFaults /\ cancels \in 0..MaxCancels
      BY <1>1, WorkerAssumption
    <2> QED
      BY <1>1, <2>1, <2>2, <2>3 DEF TypeOK
  <1>5. Shape
    <2>1. 1..0 = {}
      OBVIOUS
    <2>2. ~InlineDraining /\ Inliners = {}
      BY <1>1 DEF InlineDraining, Inliners
    <2>3. Len(queue) = 0
      BY <1>1
    <2> QED
      BY <1>1, <1>2, <1>3, <2>1, <2>2, <2>3, Idle DEF Shape
  <1>6. OnePlace
    BY <1>1, <1>2, <1>3, NothingQueued DEF OnePlace
  <1>7. FuturesAreHonest
    <2>1. Len(landed) = 0
      BY <1>1
    <2> QED
      BY <1>1, <1>2, <2>1, FS_EmptySet DEF FuturesAreHonest
  <1>8. InOrder
    BY <1>1, <1>2, <1>3, NothingQueued DEF InOrder
  <1>9. Tracked
    BY <1>1, <1>2, <1>3, NothingQueued DEF Tracked
  <1> QED
    BY <1>4, <1>5, <1>6, <1>7, <1>8, <1>9 DEF IInv

LEMMA StutterStep ==
  ASSUME IInv, UNCHANGED vars
  PROVE  IInv'
  <1>1. UNCHANGED <<queue, unfinished, worker, cancelling, caller, target, fut, failed,
                    landed, orphans, covered, gaveUp, late, faults, cancels>>
    BY DEF vars, queueVars, boundVars
  <1>2. TypeOK' /\ Shape'
    BY <1>1 DEF IInv, TypeOK, Shape, DrainerAlive, InlineDraining, Active, Inliners, Born, issued
  <1>3. /\ Born' = Born /\ Landed' = Landed /\ Cancelled' = Cancelled
        /\ \A d \in Consumer : InHand(d)' = InHand(d) /\ Active(d)' = Active(d)
        /\ \A j \in Job : Dealt(j)' <=> Dealt(j)
        /\ {"drainer", "inline"} = Consumer
    BY <1>1 DEF Born, Landed, Cancelled, InHand, Carries, Active, Dealt, Consumer
  <1>4. OnePlace' /\ FuturesAreHonest'
    BY <1>1, <1>3 DEF IInv, OnePlace, FuturesAreHonest
  <1>5. InOrder'
    BY <1>1, <1>3 DEF IInv, InOrder
  <1>6. Tracked'
    <2>1. Tracked /\ target \in [Callers -> SUBSET Job] /\ Born \subseteq Job
      BY DEF IInv, TypeOK, Born
    <2> QED
      BY <1>1, <1>3, <2>1 DEF Tracked
  <1> QED
    BY <1>2, <1>4, <1>5, <1>6 DEF IInv

LEMMA Inductive == Spec => []IInv
  <1>1. IInv /\ [Next]_vars => IInv'
    <2> SUFFICES ASSUME IInv, [Next]_vars PROVE IInv'
      OBVIOUS
    <2>1. CASE UNCHANGED vars
      BY <2>1, StutterStep
    <2>2. ASSUME NEW kind \in {"pending", "none"}, Submit(kind) PROVE IInv'
      BY <2>2, SubmitStep
    <2>3. ASSUME NEW k \in Callers, Call(k) PROVE IInv'
      BY <2>3, CallWaits, CallDrains
    <2>4. ASSUME NEW k \in Callers, CancelCaller(k) PROVE IInv'
      BY <2>4, CancelCallerStep
    <2>5. ASSUME NEW c \in Consumer, WriteFails(c) PROVE IInv'
      BY <2>5, WriteFailsStep
    <2>6. CASE CancelDrainer
      BY <2>6, CancelDrainerStep
    <2>7. ASSUME NEW j \in Job, CancelSubmitter(j) PROVE IInv'
      BY <2>7, CancelSubmitterStep
    <2>8. CASE Progress
      <3>1. CASE DrainerStarts
        BY <3>1, DrainerStartsStep
      <3>2. CASE DrainerCancelled
        BY <3>2, DrainerCancelledStep
      <3>3. ASSUME NEW c \in Consumer, WriteLands(c) \/ Finish(c) \/ Retry(c) \/ GiveUp(c)
            PROVE  IInv'
        BY <3>3, WriteLandsStep, FinishStep, RetryStep, GiveUpStep
      <3>4. ASSUME NEW k \in Callers, AfterJoin(k) PROVE IInv'
        BY <3>4, AfterJoinStep
      <3>5. ASSUME NEW j \in orphans, OrphanLands(j) PROVE IInv'
        BY <3>5, OrphanLandsStep
      <3> QED
        BY <2>8, <3>1, <3>2, <3>3, <3>4, <3>5 DEF Progress
    <2> QED
      BY <2>1, <2>2, <2>3, <2>4, <2>5, <2>6, <2>7, <2>8 DEF Next
  <1> QED
    BY <1>1, InitIInv, PTL DEF Spec

\* DurabilityWorker._drain, submit: a submitter that is told its write is on disk has it
\* there, one that is told it failed had its last attempt fail, and no write is done
\* twice - whoever is cancelled, at whatever await.
THEOREM NobodyIsLiedTo == Spec => []FuturesAreHonest
  BY Inductive, PTL DEF IInv

\* _drain, _kick, _drain_to_empty: while nothing is cancelled there is one consumer at a
\* time and writes reach the disk in the order they were enqueued.
THEOREM OneInOrder == Spec => []LandsInOrder
  <1>1. IInv => LandsInOrder
    <2> SUFFICES ASSUME IInv, ~Cancelled PROVE LandsInOrder
      BY DEF LandsInOrder
    <2>1. /\ \A a, b \in DOMAIN landed : a < b => landed[a] < landed[b]
          /\ ~(Active("drainer") /\ Active("inline"))
      BY DEF IInv, InOrder
    <2> DEFINE S == {c \in Consumer : worker[c].at # "off"}
    <2>2. S = {} \/ \E c \in Consumer : S = {c}
      BY <2>1 DEF Consumer, Active
    <2>3. Cardinality(S) <= 1
      BY <2>2, FS_EmptySet, FS_Singleton
    <2> QED
      BY <2>1, <2>3 DEF LandsInOrder
  <1> QED
    BY <1>1, Inductive, PTL

\* flush, aclose: when one of them returns, everything enqueued before it was called is
\* on disk or has been surfaced as failed, to its submitter or in the latch.
THEOREM FlushWaitsForAll == Spec => []FlushIsBarrier
  <1>1. IInv => FlushIsBarrier
    <2> SUFFICES ASSUME IInv, ~Cancelled, NEW k \in Callers, Back(k), NEW j \in target[k]
                 PROVE  j \in Landed \/ (j \in gaveUp /\ (failed \/ fut[j] = "error"))
      BY DEF FlushIsBarrier
    <2>1. caller[k] \in {"drained", "returned", "stopped"}
      BY DEF Back
    <2> QED
      BY <2>1 DEF IInv, Tracked, Dealt
  <1> QED
    BY <1>1, Inductive, PTL

----------------------------------------------------------------------------
(* The end-of-burst job.                                                   *)
(*                                                                         *)
(* While nothing is cancelled and nothing has been given up, what is on    *)
(* disk and not yet behind an on_drain_end is owed one: its burst has not  *)
(* enqueued it (owes), or it is in the queue with only late jobs behind    *)
(* it, or in hand.  A burst that owes has something in the queue, so       *)
(* unfinished is not zero and no join() returns before it has paid.        *)

Settled == Landed \subseteq covered \cup late

HookIsQueued ==
  \E i \in DOMAIN queue : queue[i] = END /\ \A m \in DOMAIN queue : m > i => queue[m] \in late

Promised(c) ==
  \/ HookIsQueued
  \/ /\ worker[c].hand = END /\ worker[c].at \in {"writing", "raised"}
     /\ Queued(queue) \subseteq late
  \/ Settled /\ Queued(queue) \cup InHand(c) \subseteq late

Quiet == \A c \in Consumer : ~Active(c)

Past(k) == caller[k] \in {"drained", "returned", "stopped"}

Hooked ==
  /\ Quiet => queue = <<>> /\ Settled
  /\ \A c \in Consumer : Active(c) => IF worker[c].owes THEN queue # <<>> ELSE Promised(c)
  /\ \A c \in Consumer : worker[c].at = "start" => queue # <<>>
  /\ \A k \in Callers : Past(k) => target[k] \cap Landed \subseteq covered \cup late

HookInv == (HasEndHook /\ ~Cancelled /\ ~failed) => Hooked

\* What one turn leaves owed.
LEMMA TakeOwes ==
  ASSUME NEW q \in Seq(Slot), NEW n \in Int, NEW owes \in BOOLEAN
  PROVE  LET t == Take(q, n, owes) IN
         /\ owes => /\ t.run.at = "writing"
                    /\ \/ t.run.owes /\ t.queue # <<>>
                       \/ ~t.run.owes /\ DOMAIN t.queue = 1..1 /\ t.queue[1] = END
                       \/ ~t.run.owes /\ t.run.hand = END /\ t.queue = <<>>
         /\ ~owes /\ q = <<>> => t.run.at = "off" /\ t.queue = <<>>
         /\ ~owes /\ q # <<>> =>
              /\ t.queue = Tail(q) /\ t.run.at = "writing"
              /\ t.run.hand = Head(q) /\ ~t.run.owes
  <1> DEFINE t == Take(q, n, owes)
  <1>0. Len(q) \in Nat /\ Len(<<>>) = 0 /\ (q # <<>> => Len(Tail(q)) = Len(q) - 1)
    OBVIOUS
  <1>1. ~owes => t = IF q = <<>> THEN [queue |-> <<>>, unfinished |-> n, run |-> Off]
                     ELSE [queue |-> Tail(q), unfinished |-> n, run |-> Writing(Head(q), FALSE)]
    BY DEF Take
  <1>2. ASSUME owes, Len(q) > 1
        PROVE  t.run.at = "writing" /\ t.run.owes /\ t.queue # <<>>
    <2>1. q # <<>> /\ ~(Len(q) <= 1)
      BY <1>0, <1>2
    <2>2. t = [queue |-> Tail(q), unfinished |-> n, run |-> Writing(Head(q), TRUE)]
      BY <1>2, <2>1 DEF Take
    <2> HIDE DEF t
    <2>3. t.queue = Tail(q) /\ t.run = Writing(Head(q), TRUE)
      BY <2>2
    <2>4. Len(t.queue) = Len(q) - 1
      BY <1>0, <2>1, <2>3
    <2>5. t.queue # <<>>
      <3> SUFFICES ASSUME t.queue = <<>> PROVE FALSE
        OBVIOUS
      <3>1. Len(t.queue) = 0
        BY <1>0
      <3>2. Len(q) - 1 = 0 /\ Len(q) \in Nat
        BY <1>0, <2>4, <3>1
      <3> DEFINE l == Len(q)
      <3>3. l - 1 = 0 /\ l \in Nat /\ l > 1
        BY <1>2, <3>2
      <3> HIDE DEF l
      <3> QED
        BY <3>3
    <2> QED
      BY <2>3, <2>5 DEF Writing
  <1>3. ASSUME owes, Len(q) <= 1
        PROVE  /\ t.run.at = "writing" /\ ~t.run.owes
               /\ (DOMAIN t.queue = 1..1 /\ t.queue[1] = END) \/ (t.run.hand = END /\ t.queue = <<>>)
    <2> DEFINE m == Append(q, END)
    <2>1. m # <<>>
      BY PutBehind DEF Slot
    <2>2. t = [queue |-> Tail(m), unfinished |-> n + 1, run |-> Writing(Head(m), FALSE)]
      BY <1>3, <2>1 DEF Take
    <2> HIDE DEF t
    <2>3. \/ Tail(m) = <<>> /\ Head(m) = END
          \/ DOMAIN Tail(m) = 1..1 /\ Tail(m)[1] = END
      <3> DEFINE l == Len(q)
      <3>4. l \in Nat /\ l <= 1
        BY <1>0, <1>3
      <3> HIDE DEF l
      <3>5. l = 0 \/ l = 1
        BY <3>4
      <3>1. Len(q) = 0 \/ Len(q) = 1
        BY <3>5 DEF l
      <3>2. CASE Len(q) = 0
        <4>1. q = <<>>
          BY <3>2
        <4>2. m = <<END>>
          BY <4>1
        <4> QED
          BY <4>2
      <3>3. CASE Len(q) = 1
        <4>1. /\ m \in Seq(Slot) /\ Len(m) = 2 /\ m[2] = END
          <5>1. END \in Slot
            BY DEF Slot
          <5>2. m \in Seq(Slot) /\ Len(m) = Len(q) + 1 /\ m[Len(q) + 1] = END
            BY <5>1
          <5>3. Len(q) + 1 = 2
            BY <3>3
          <5> HIDE DEF m
          <5> QED
            BY <5>2, <5>3
        <4> HIDE DEF m
        <4>2. DOMAIN Tail(m) = 1..1
          <5>0. Tail(m) \in Seq(Slot) /\ Len(Tail(m)) = Len(m) - 1
            BY <2>1, <4>1, TakenFirst
          <5>1. Tail(m) \in Seq(Slot) /\ Len(Tail(m)) = 1
            BY <4>1, <5>0
          <5> DEFINE r == Tail(m)
          <5> HIDE DEF r
          <5>2. r \in Seq(Slot) /\ Len(r) = 1
            BY <5>1 DEF r
          <5>3. DOMAIN r = 1..Len(r)
            BY <5>2
          <5>4. DOMAIN r = 1..1
            BY <5>2, <5>3, Zenon
          <5> QED
            BY <5>4 DEF r
        <4>3. Tail(m)[1] = m[2]
          BY <4>1
        <4> QED
          BY <4>1, <4>2, <4>3
      <3> QED
        BY <3>1, <3>2, <3>3
    <2> HIDE DEF m
    <2>4. t.queue = Tail(m) /\ t.run = Writing(Head(m), FALSE)
      BY <2>2
    <2> QED
      BY <2>3, <2>4 DEF Writing
  <1>4. ASSUME ~owes, q = <<>>
        PROVE  t.run.at = "off" /\ t.queue = <<>>
    BY <1>1, <1>4 DEF Off
  <1>5. ASSUME ~owes, q # <<>>
        PROVE  /\ t.queue = Tail(q) /\ t.run.at = "writing"
               /\ t.run.hand = Head(q) /\ ~t.run.owes
    BY <1>1, <1>5 DEF Writing
  <1> HIDE DEF t
  <1>6. Len(q) > 1 \/ Len(q) <= 1
    BY <1>0
  <1>7. /\ owes => /\ t.run.at = "writing"
                   /\ \/ t.run.owes /\ t.queue # <<>>
                      \/ ~t.run.owes /\ DOMAIN t.queue = 1..1 /\ t.queue[1] = END
                      \/ ~t.run.owes /\ t.run.hand = END /\ t.queue = <<>>
        /\ ~owes /\ q = <<>> => t.run.at = "off" /\ t.queue = <<>>
        /\ ~owes /\ q # <<>> =>
             /\ t.queue = Tail(q) /\ t.run.at = "writing"
             /\ t.run.hand = Head(q) /\ ~t.run.owes
    BY <1>2, <1>3, <1>4, <1>5, <1>6
  <1> QED
    BY <1>7, Zenon DEF t

\* A turn keeps the promise, or ends the burst with nothing owed.
LEMMA TurnKeepsPromise ==
  ASSUME TypeOK, NEW c \in Consumer, NEW n \in Int, NEW owes \in BOOLEAN,
         queue' = Take(queue, n, owes).queue,
         worker'[c] = Take(queue, n, owes).run,
         UNCHANGED <<landed, covered, late>>,
         owes \/ HookIsQueued \/ (Settled /\ Queued(queue) \subseteq late)
  PROVE  /\ Active(c)' => IF worker'[c].owes THEN queue' # <<>> ELSE Promised(c)'
         /\ ~Active(c)' => ~owes /\ queue = <<>> /\ queue' = <<>> /\ Settled'
         /\ worker'[c].at # "start"
  <1> DEFINE t == Take(queue, n, owes)
  <1>0. queue \in Seq(Slot) /\ Settled' = Settled
    BY DEF TypeOK, Slot, Settled, Landed
  <1>1. /\ owes => /\ t.run.at = "writing"
                   /\ \/ t.run.owes /\ t.queue # <<>>
                      \/ ~t.run.owes /\ DOMAIN t.queue = 1..1 /\ t.queue[1] = END
                      \/ ~t.run.owes /\ t.run.hand = END /\ t.queue = <<>>
        /\ ~owes /\ queue = <<>> => t.run.at = "off" /\ t.queue = <<>>
        /\ ~owes /\ queue # <<>> =>
             /\ t.queue = Tail(queue) /\ t.run.at = "writing"
             /\ t.run.hand = Head(queue) /\ ~t.run.owes
    BY <1>0, TakeOwes
  <1>2. queue' = t.queue /\ worker'[c] = t.run
    OBVIOUS
  <1> HIDE DEF t
  <1>3. CASE owes
    <2>1. worker'[c].at = "writing" /\ Active(c)'
      BY <1>1, <1>2, <1>3 DEF Active
    <2>2. CASE t.run.owes /\ t.queue # <<>>
      BY <1>2, <2>1, <2>2
    <2>3. CASE ~t.run.owes /\ DOMAIN t.queue = 1..1 /\ t.queue[1] = END
      <3>1. HookIsQueued'
        BY <1>2, <2>3 DEF HookIsQueued
      <3> QED
        BY <1>2, <2>1, <2>3, <3>1 DEF Promised
    <2>4. CASE ~t.run.owes /\ t.run.hand = END /\ t.queue = <<>>
      <3>1. Queued(queue') = {}
        BY <1>2, <2>4, NothingQueued
      <3> QED
        BY <1>2, <2>1, <2>4, <3>1 DEF Promised
    <2> QED
      BY <1>1, <1>3, <2>2, <2>3, <2>4
  <1>4. CASE ~owes /\ queue = <<>>
    <2>1. ~HookIsQueued
      BY <1>4 DEF HookIsQueued
    <2> QED
      BY <1>0, <1>1, <1>2, <1>4, <2>1 DEF Active
  <1>5. CASE ~owes /\ queue # <<>>
    <2>1. /\ queue' = Tail(queue) /\ worker'[c].at = "writing"
          /\ worker'[c].hand = Head(queue) /\ ~worker'[c].owes
      BY <1>1, <1>2, <1>5
    <2>2. /\ DOMAIN queue = 1..Len(queue) /\ DOMAIN queue' = 1..(Len(queue) - 1)
          /\ Len(queue) \in Nat \ {0} /\ Head(queue) = queue[1]
          /\ \A i \in DOMAIN queue' : queue'[i] = queue[i + 1]
      BY <1>0, <1>5, <2>1
    <2>3. Queued(queue) = Queued(queue') \cup ({Head(queue)} \ {END})
      BY <1>0, <1>5, <2>1, TakenFirst
    <2>4. CASE HookIsQueued
      <3>1. PICK i \in DOMAIN queue :
              queue[i] = END /\ \A m \in DOMAIN queue : m > i => queue[m] \in late
        BY <2>4 DEF HookIsQueued
      <3>2. CASE i = 1
        <4>1. \A j \in Queued(queue') : j \in late
          BY <2>2, <3>1, <3>2 DEF Queued
        <4> QED
          BY <2>1, <2>2, <3>1, <3>2, <4>1 DEF Promised, Active
      <3>3. CASE i # 1
        <4>1. i - 1 \in DOMAIN queue' /\ queue'[i - 1] = END
          BY <2>2, <3>1, <3>3
        <4>2. \A m \in DOMAIN queue' : m > i - 1 => queue'[m] \in late
          BY <2>2, <3>1
        <4>3. HookIsQueued'
          BY <4>1, <4>2 DEF HookIsQueued
        <4> QED
          BY <2>1, <4>3 DEF Promised, Active
      <3> QED
        BY <3>2, <3>3
    <2>5. CASE Settled /\ Queued(queue) \subseteq late
      <3>1. InHand(c)' = {Head(queue)} \ {END}
        BY <2>1 DEF InHand, Carries, Held
      <3>2. Queued(queue') \cup InHand(c)' \subseteq late
        BY <2>3, <2>5, <3>1
      <3> QED
        BY <1>0, <2>1, <2>5, <3>2 DEF Promised, Active
    <2> QED
      BY <1>5, <2>4, <2>5
  <1> QED
    BY <1>3, <1>4, <1>5

\* What has been cancelled stays so, and what failed.
LEMMA NothingIsForgotten ==
  ASSUME TypeOK, [Next]_vars, ~Cancelled', ~failed'
  PROVE  ~Cancelled /\ ~failed
  <1>1. /\ \A k \in Callers : caller[k] \in {"stopping", "stopped"} =>
             caller'[k] \in {"stopping", "stopped"} \/ cancels' > 0
        /\ cancels > 0 => cancels' > 0
        /\ failed => failed'
    <2>0. caller \in [Callers -> Stages] /\ cancels \in Nat
      BY WorkerAssumption DEF TypeOK, Stages
    <2>1. CASE UNCHANGED vars
      BY <2>1 DEF vars, boundVars
    <2>2. ASSUME NEW kind \in {"pending", "none"}, Submit(kind) PROVE <1>1!:
      BY <2>2 DEF Submit, boundVars
    <2>3. ASSUME NEW k \in Callers, Call(k) PROVE <1>1!:
      BY <2>0, <2>3 DEF Call, boundVars
    <2>4. ASSUME NEW k \in Callers, CancelCaller(k) PROVE <1>1!:
      BY <2>0, <2>4 DEF CancelCaller
    <2>5. ASSUME NEW c \in Consumer, WriteFails(c) PROVE <1>1!:
      BY <2>5 DEF WriteFails
    <2>6. CASE CancelDrainer
      BY <2>0, <2>6 DEF CancelDrainer
    <2>7. ASSUME NEW j \in Job, CancelSubmitter(j) PROVE <1>1!:
      BY <2>0, <2>7 DEF CancelSubmitter
    <2>8. ASSUME NEW c \in Consumer, NEW n, NEW owes, NEW awake,
                 TakeNext(c, n, owes, awake), awake = caller \/ awake = Released(n),
                 cancels' = cancels, failed => failed'
          PROVE  <1>1!:
      <3>1. \A k \in Callers : caller[k] \in {"stopping", "stopped"} => awake[k] = caller[k]
        BY <2>8 DEF Released
      <3>2. \A k \in Callers : awake[k] # "inlining" => caller'[k] = awake[k]
        BY <2>8 DEF TakeNext
      <3> QED
        BY <2>8, <3>1, <3>2
    <2>9. CASE DrainerStarts
      BY <2>8, <2>9 DEF DrainerStarts, boundVars, Consumer
    <2>10. CASE DrainerCancelled
      BY <2>0, <2>10 DEF DrainerCancelled, Released, boundVars
    <2>11. ASSUME NEW c \in Consumer, WriteLands(c) \/ Retry(c) PROVE <1>1!:
      BY <2>11 DEF WriteLands, Retry, boundVars
    <2>12. ASSUME NEW c \in Consumer, Finish(c) \/ GiveUp(c) PROVE <1>1!:
      <3> DEFINE n == unfinished - 1
                 owes == worker[c].owes
                 awake == Released(n)
      <3>1. TakeNext(c, n, owes, awake)
        BY <2>12 DEF Finish, GiveUp, JobDone
      <3>2. cancels' = cancels
        BY <2>12 DEF Finish, GiveUp, boundVars
      <3>3. failed => failed'
        BY <2>12 DEF Finish, GiveUp, Surface
      <3>4. awake = Released(n)
        OBVIOUS
      <3> HIDE DEF n, owes, awake
      <3> QED
        BY <2>8, <3>1, <3>2, <3>3, <3>4
    <2>13. ASSUME NEW k \in Callers, AfterJoin(k) PROVE <1>1!:
      BY <2>0, <2>13 DEF AfterJoin, boundVars
    <2>14. ASSUME NEW j \in orphans, OrphanLands(j) PROVE <1>1!:
      BY <2>14 DEF OrphanLands, boundVars
    <2> QED
      BY <2>1, <2>2, <2>3, <2>4, <2>5, <2>6, <2>7, <2>9, <2>10, <2>11, <2>12, <2>13, <2>14
      DEF Next, Progress
  <1> QED
    BY <1>1 DEF Cancelled

----------------------------------------------------------------------------
(* The end-of-burst job, action by action.                                 *)

\* While nothing is cancelled, whoever runs runs alone.
LEMMA RunsAlone ==
  ASSUME IInv, ~Cancelled, NEW c \in Consumer, Active(c)
  PROVE  \A d \in Consumer \ {c} : ~Active(d) /\ InHand(d) = {}
  <1>1. \A d \in Consumer \ {c} : ~Active(d)
    BY DEF IInv, InOrder, Consumer
  <1> QED
    BY <1>1, Counts DEF IInv

\* A consumer that runs accounts for its job and goes on.
LEMMA TakeHooked ==
  ASSUME IInv, HasEndHook, ~Cancelled, Hooked, NEW c \in Consumer, Active(c),
         NEW owes \in BOOLEAN, NEW n \in Int, n = unfinished - HeldBy(worker[c]),
         NEW awake,
         \A k \in Callers : \/ awake[k] = caller[k]
                            \/ awake[k] = "drained" /\ n = 0,
         TakeNext(c, n, owes, awake),
         UNCHANGED <<target, landed, covered, late>>,
         owes => queue # <<>>,
         owes \/ HookIsQueued \/ (Settled /\ Queued(queue) \subseteq late)
  PROVE  Hooked'
  <1>1. PICK o \in Consumer : o # c /\ Consumer = {c, o}
    BY DEF Consumer
  <1>2. /\ queue' = Take(queue, n, owes).queue
        /\ unfinished' = Take(queue, n, owes).unfinished
        /\ worker' = [worker EXCEPT ![c] = Take(queue, n, owes).run]
        /\ caller' = [k \in Callers |->
                        IF c = "inline" /\ Take(queue, n, owes).run = Off /\ awake[k] = "inlining"
                          THEN Drained(k) ELSE awake[k]]
    BY DEF TakeNext
  <1>3. /\ Turn(c, n) /\ (Take(queue, n, owes).run = Off <=> worker'[c].at = "off")
        /\ worker'[c] = Take(queue, n, owes).run
    <2>1. Turn(c, n) /\ (Take(queue, n, owes).run = Off <=> worker'[c].at = "off")
      BY <1>2, TurnIsTaken DEF IInv
    <2>2. worker \in [Consumer -> Runs]
      BY DEF IInv, TypeOK, Runs, Slot
    <2>3. worker'[c] = Take(queue, n, owes).run
      BY <1>2, <2>2
    <2> QED
      BY <2>1, <2>3
  <1>4. /\ Active(c)' => IF worker'[c].owes THEN queue' # <<>> ELSE Promised(c)'
        /\ ~Active(c)' => ~owes /\ queue = <<>> /\ queue' = <<>> /\ Settled'
        /\ worker'[c].at # "start"
    BY <1>2, <1>3, TurnKeepsPromise DEF IInv
  <1>5. ~Active(o) /\ worker'[o] = worker[o] /\ ~Active(o)' /\ worker[o].at # "start"
        /\ HeldBy(worker[o]) = 0
    <2>1. ~Active(o)
      BY <1>1, RunsAlone
    <2>2. worker'[o] = worker[o]
      BY <1>1, <1>3 DEF Turn
    <2> QED
      BY <2>1, <2>2, Counts DEF Active, IInv
  <1>6. Settled' <=> Settled
    BY DEF Settled, Landed
  <1>7. n = 0 => queue = <<>>
    <2>1. n = Len(queue)
      <3>1. n = Len(queue) + HeldBy(worker[o]) /\ Len(queue) \in Nat
        BY <1>1, <1>3, TurnCounts, Counts DEF IInv
      <3> DEFINE l == Len(queue)
                 held == HeldBy(worker[o])
      <3>2. n = l + held /\ l \in Nat /\ held = 0
        BY <1>5, <3>1
      <3> HIDE DEF l, held
      <3>3. n = l
        BY <3>2
      <3> QED
        BY <3>3 DEF l
    <2>2. queue \in Seq(Slot)
      BY DEF IInv, TypeOK, Slot
    <2>3. Len(queue) = 0 => queue = <<>>
      BY <2>2
    <2> QED
      BY <2>1, <2>3, Zenon
  <1>8. queue = <<>> => Settled
    <2> SUFFICES ASSUME queue = <<>> PROVE Settled
      OBVIOUS
    <2>1. ~owes /\ ~HookIsQueued
      BY DEF HookIsQueued
    <2> QED
      BY <2>1
  <1>9. ASSUME NEW k \in Callers, Past(k)'
        PROVE  target[k] \cap Landed \subseteq covered \cup late
    <2>1. caller'[k] = IF c = "inline" /\ worker'[c].at = "off" /\ awake[k] = "inlining"
                         THEN Drained(k) ELSE awake[k]
      BY <1>2, <1>3
    <2>2. CASE worker'[c].at = "off"
      <3>1. Settled
        BY <1>4, <1>6, <2>2 DEF Active
      <3> QED
        BY <3>1 DEF Settled
    <2>3. CASE n = 0
      BY <1>7, <1>8, <2>3 DEF Settled
    <2>4. CASE worker'[c].at # "off" /\ n # 0
      BY <1>9, <2>1, <2>4 DEF Past, Hooked
    <2> QED
      BY <2>2, <2>3, <2>4
  <1>10. target' = target /\ covered' = covered /\ late' = late /\ Landed' = Landed
    BY DEF Landed
  <1>11. Quiet' => queue' = <<>> /\ Settled'
    BY <1>1, <1>4 DEF Quiet
  <1>12. \A d \in Consumer : Active(d)' => IF worker'[d].owes THEN queue' # <<>> ELSE Promised(d)'
    BY <1>1, <1>4, <1>5
  <1>13. \A d \in Consumer : worker'[d].at = "start" => queue' # <<>>
    BY <1>1, <1>4, <1>5
  <1> QED
    BY <1>9, <1>10, <1>11, <1>12, <1>13 DEF Hooked

LEMMA DrainerStartsHooked ==
  ASSUME IInv, HasEndHook, ~Cancelled, Hooked, DrainerStarts
  PROVE  Hooked'
  <1> DEFINE c == "drainer"
  <1>1. TypeOK /\ c \in Consumer /\ unfinished \in Int /\ HasEndHook \in BOOLEAN
    BY WorkerAssumption DEF IInv, TypeOK, Consumer
  <1>2. HeldBy(worker[c]) = 0 /\ Active(c) /\ queue # <<>>
    BY <1>1 DEF DrainerStarts, HeldBy, Held, Active, Hooked
  <1>3. TakeNext(c, unfinished, HasEndHook, caller) /\ UNCHANGED <<target, landed, covered, late>>
    BY DEF DrainerStarts
  <1>4. unfinished = unfinished - HeldBy(worker[c])
    BY <1>1, <1>2
  <1> QED
    BY <1>1, <1>2, <1>3, <1>4, TakeHooked

\* The job in hand is over; if it was the end-of-burst job, it was written, or
\* the failure is latched.
LEMMA JobDoneHooked ==
  ASSUME IInv, HasEndHook, ~Cancelled, Hooked, NEW c \in Consumer,
         Finish(c) \/ GiveUp(c), ~failed'
  PROVE  Hooked'
  <1>1. TypeOK /\ unfinished - 1 \in Int /\ worker[c].owes \in BOOLEAN
    BY DEF IInv, TypeOK
  <1>2. /\ worker[c].at \in {"written", "raised"} /\ HeldBy(worker[c]) = 1 /\ Active(c)
        /\ worker[c].at = "raised" => worker[c].hand # END
    BY DEF Finish, GiveUp, Surface, HeldBy, Held, Active
  <1>3. /\ TakeNext(c, unfinished - 1, worker[c].owes, Released(unfinished - 1))
        /\ UNCHANGED <<target, landed, covered, late>>
    BY DEF Finish, GiveUp, JobDone
  <1>4. worker[c].owes \/ HookIsQueued \/ (Settled /\ Queued(queue) \subseteq late)
    BY <1>2 DEF Hooked, Promised
  <1>5. unfinished - 1 = unfinished - HeldBy(worker[c])
    BY <1>2
  <1>7. worker[c].owes => queue # <<>>
    BY <1>2 DEF Hooked
  <1>6. \A k \in Callers : \/ Released(unfinished - 1)[k] = caller[k]
                           \/ /\ Released(unfinished - 1)[k] = "drained"
                              /\ unfinished - 1 = 0
    BY <1>1, WakesOnly
  <1> QED
    BY <1>1, <1>2, <1>3, <1>4, <1>5, <1>6, <1>7, TakeHooked

\* A write is tried again, or fails once.
LEMMA RewriteHooked ==
  ASSUME IInv, Hooked, NEW c \in Consumer, WriteFails(c) \/ Retry(c)
  PROVE  Hooked'
  <1>1. worker \in [Consumer -> Runs]
    BY DEF IInv, TypeOK, Runs, Slot
  <1>2. /\ worker[c].at \in {"writing", "raised"} /\ worker'[c].at \in {"writing", "raised"}
        /\ worker'[c].hand = worker[c].hand /\ worker'[c].owes = worker[c].owes
        /\ \A d \in Consumer \ {c} : worker'[d] = worker[d]
    BY <1>1 DEF WriteFails, Retry, Runs
  <1>3. UNCHANGED <<queue, caller, target, landed, covered, late>>
    BY DEF WriteFails, Retry, queueVars
  <1>4. \A d \in Consumer : InHand(d)' = InHand(d) /\ (Active(d)' <=> Active(d))
    BY <1>2, SameHands DEF Held
  <1>5. Landed' = Landed /\ Settled' = Settled /\ HookIsQueued' = HookIsQueued
    BY <1>3 DEF Landed, Settled, HookIsQueued
  <1>6. \A d \in Consumer : Promised(d) => Promised(d)'
    BY <1>2, <1>3, <1>4, <1>5 DEF Promised
  <1>7. Quiet' <=> Quiet
    BY <1>4 DEF Quiet
  <1>8. \A d \in Consumer : worker'[d].owes = worker[d].owes
                            /\ (worker'[d].at = "start" => worker[d].at = "start")
    BY <1>2
  <1> QED
    BY <1>3, <1>4, <1>5, <1>6, <1>7, <1>8 DEF Hooked, Past

\* A job reaches the disk, or on_drain_end has run after all that is there.
LEMMA WriteLandsHooked ==
  ASSUME IInv, HasEndHook, ~Cancelled, ~failed, Hooked, NEW c \in Consumer, WriteLands(c)
  PROVE  Hooked'
  <1> DEFINE h == worker[c].hand
  <1>1. /\ worker \in [Consumer -> Runs] /\ h \in Slot /\ landed \in Seq(Job)
        /\ Landed \subseteq Job
    BY DEF IInv, TypeOK, Runs, Slot, Landed
  <1>2. /\ worker[c].at = "writing" /\ worker' = [worker EXCEPT ![c].at = "written"]
        /\ IF h = END THEN covered' = Landed /\ landed' = landed
                      ELSE landed' = Append(landed, h) /\ covered' = covered
        /\ UNCHANGED <<queue, caller, target, fut, failed, late>>
    BY DEF WriteLands, queueVars
  <1>3. /\ worker'[c].at = "written" /\ worker'[c].hand = h /\ worker'[c].owes = worker[c].owes
        /\ \A d \in Consumer \ {c} : worker'[d] = worker[d]
    BY <1>1, <1>2 DEF Runs
  <1>4. /\ \A d \in Consumer : InHand(d)' = InHand(d) /\ (Active(d)' <=> Active(d))
        /\ InHand(c) = {h} \ {END} /\ Active(c)
        /\ \A d \in Consumer \ {c} : ~Active(d)
    BY <1>2, <1>3, SameHands, RunsAlone DEF Held, InHand, Carries, Active
  <1>5. CASE h = END
    <2>1. Landed' = Landed /\ covered' = Landed
      BY <1>2, <1>5 DEF Landed
    <2>2. Settled'
      BY <2>1 DEF Settled
    <2>3. HookIsQueued' <=> HookIsQueued
      BY <1>2 DEF HookIsQueued
    <2>4. Promised(c) => Promised(c)'
      BY <1>2, <1>4, <1>5, <2>2, <2>3 DEF Promised
    <2>5. \A d \in Consumer : Active(d)' => IF worker'[d].owes THEN queue' # <<>> ELSE Promised(d)'
      BY <1>2, <1>3, <1>4, <2>4 DEF Hooked
    <2>6. \A d \in Consumer : worker'[d].at = "start" => queue' # <<>>
      BY <1>2, <1>3 DEF Hooked
    <2> QED
      BY <1>4, <2>1, <2>2, <2>5, <2>6 DEF Hooked, Quiet
  <1>6. CASE h # END
    <2>1. landed' = Append(landed, h) /\ covered' = covered /\ h \in Job /\ InHand(c) = {h}
      BY <1>1, <1>2, <1>4, <1>6 DEF Slot
    <2>2. h \notin Landed
      BY <1>2, <2>1 DEF IInv, OnePlace
    <2>3. Landed' = Landed \cup {h}
      <3>1. Len(landed) = Cardinality(Landed)
        BY DEF IInv, FuturesAreHonest
      <3> QED
        BY <1>1, <2>1, <2>2, <3>1, LandFacts
    <2>4. HookIsQueued' <=> HookIsQueued
      BY <1>2 DEF HookIsQueued
    <2>5. Promised(c) => Promised(c)'
      <3>1. CASE HookIsQueued
        BY <2>4, <3>1 DEF Promised
      <3>2. CASE Settled /\ Queued(queue) \cup InHand(c) \subseteq late
        <4>1. Settled'
          BY <1>2, <2>1, <2>3, <3>2 DEF Settled
        <4> QED
          BY <1>2, <1>4, <3>2, <4>1 DEF Promised
      <3> QED
        BY <1>6, <3>1, <3>2 DEF Promised
    <2>6. \A d \in Consumer : Active(d)' => IF worker'[d].owes THEN queue' # <<>> ELSE Promised(d)'
      BY <1>2, <1>3, <1>4, <2>5 DEF Hooked
    <2>7. \A d \in Consumer : worker'[d].at = "start" => queue' # <<>>
      BY <1>2, <1>3 DEF Hooked
    <2>8. ASSUME NEW k \in Callers, Past(k)
          PROVE  h \notin target[k]
      <3> SUFFICES ASSUME h \in target[k] PROVE FALSE
        OBVIOUS
      <3>1. Dealt(h)
        BY <2>8 DEF IInv, Tracked, Past
      <3>2. fut[h] \in {"none", "pending"}
        BY <2>1 DEF IInv, Tracked, Consumer
      <3> QED
        BY <2>2, <3>1, <3>2 DEF Dealt
    <2>9. \A k \in Callers : Past(k)' => target'[k] \cap Landed' \subseteq covered' \cup late'
      BY <1>2, <2>1, <2>3, <2>8 DEF Hooked, Past
    <2> QED
      BY <1>4, <2>6, <2>7, <2>9 DEF Hooked, Quiet
  <1> QED
    BY <1>5, <1>6

\* A job is enqueued: behind the end-of-burst job, or with a burst that owes it.
LEMMA SubmitHooked ==
  ASSUME IInv, HasEndHook, Hooked, NEW kind, Submit(kind)
  PROVE  Hooked'
  <1> DEFINE j == issued + 1
  <1>1. /\ queue' = Append(queue, j) /\ Kick
        /\ late' = IF BehindHook THEN late \cup {j} ELSE late
        /\ UNCHANGED <<caller, target, landed, covered>>
    BY DEF Submit
  <1>2. queue \in Seq(Slot) /\ j \in Slot /\ j # END /\ worker \in [Consumer -> Runs]
    <2>1. issued \in Nat /\ issued < MaxJobs
      BY DEF IInv, Shape, Submit
    <2> QED
      BY <2>1, WorkerAssumption DEF IInv, TypeOK, Runs, Slot, Job, END
  <1> HIDE DEF j
  <1>3. /\ queue' # <<>> /\ Queued(queue') = Queued(queue) \cup {j}
        /\ DOMAIN queue = 1..Len(queue) /\ DOMAIN queue' = 1..(Len(queue) + 1)
        /\ \A i \in DOMAIN queue : queue'[i] = queue[i]
        /\ queue'[Len(queue) + 1] = j /\ Len(queue) \in Nat
    BY <1>1, <1>2, PutBehind
  <1>4. late \subseteq late' /\ Landed' = Landed /\ (Settled => Settled')
    BY <1>1 DEF Landed, Settled
  <1>5. \A d \in Consumer : \/ worker'[d] = worker[d]
                            \/ worker'[d].owes /\ worker'[d] = Started
    BY <1>1, <1>2 DEF Kick, Started
  <1>6. ~Quiet'
    <2>1. CASE InlineDraining
      BY <1>1, <1>2, <2>1 DEF Kick, Quiet, IInv, Shape, Active, Consumer
    <2>2. CASE ~InlineDraining
      BY <1>1, <1>2, <2>2 DEF Kick, Quiet, Active, DrainerAlive, Consumer, Started
    <2> QED
      BY <2>1, <2>2
  <1>7. ASSUME NEW d \in Consumer, Active(d)', ~worker'[d].owes
        PROVE  Promised(d)'
    <2>1. worker'[d] = worker[d] /\ Active(d) /\ ~worker[d].owes
      BY <1>5, <1>7 DEF Active
    <2>2. late' = late \cup {j} /\ j \in late'
      BY <1>1, <2>1 DEF BehindHook, Active
    <2>3. InHand(d)' = InHand(d)
      BY <2>1 DEF InHand, Carries
    <2>4. HookIsQueued => HookIsQueued'
      <3> SUFFICES ASSUME NEW i \in DOMAIN queue, queue[i] = END,
                          \A m \in DOMAIN queue : m > i => queue[m] \in late
                   PROVE  HookIsQueued'
        BY DEF HookIsQueued
      <3>1. i \in DOMAIN queue' /\ queue'[i] = END
        BY <1>3
      <3>2. ASSUME NEW m \in DOMAIN queue', m > i PROVE queue'[m] \in late'
        <4>1. m \in DOMAIN queue \/ m = Len(queue) + 1
          BY <1>3
        <4>2. CASE m \in DOMAIN queue
          BY <1>3, <1>4, <3>2, <4>2
        <4>3. CASE m = Len(queue) + 1
          BY <1>3, <2>2, <4>3
        <4> QED
          BY <4>1, <4>2, <4>3
      <3> QED
        BY <3>1, <3>2 DEF HookIsQueued
    <2>5. Queued(queue) \subseteq late => Queued(queue') \subseteq late'
      BY <1>3, <1>4, <2>2
    <2>6. Promised(d)
      BY <2>1 DEF Hooked
    <2> QED
      BY <1>4, <2>1, <2>3, <2>4, <2>5, <2>6 DEF Promised
  <1>8. \A k \in Callers : Past(k)' => target'[k] \cap Landed' \subseteq covered' \cup late'
    BY <1>1, <1>4 DEF Hooked, Past
  <1> QED
    BY <1>3, <1>6, <1>7, <1>8 DEF Hooked

\* A caller finds nothing to wait for only when nothing is owed.
LEMMA CallHooked ==
  ASSUME IInv, HasEndHook, ~Cancelled, Hooked, NEW k \in Callers, Call(k)
  PROVE  Hooked'
  <1>0. TypeOK /\ caller \in [Callers -> Stages] /\ target \in [Callers -> SUBSET Job]
        /\ worker \in [Consumer -> Runs] /\ ~cancelling
        /\ {"drainer", "inline"} = Consumer
    BY DEF IInv, TypeOK, Stages, Runs, Slot, InOrder, Consumer
  <1>1. /\ UNCHANGED <<landed, covered, late>> /\ Landed' = Landed /\ Settled' = Settled
        /\ \A l \in Callers \ {k} : target'[l] = target[l] /\ caller'[l] = caller[l]
    BY <1>0 DEF Call, Landed, Settled
  <1>2. CASE MustDrainInline
    <2>1. Quiet
      BY <1>0, <1>2 DEF MustDrainInline, Quiet, DrainerAlive, IInv, Shape, Active
    <2>2. queue = <<>> /\ Settled
      BY <2>1 DEF Hooked
    <2>3. /\ queue' = Take(queue, unfinished, HasEndHook).queue
          /\ worker' = [worker EXCEPT !["inline"] = Take(queue, unfinished, HasEndHook).run]
      BY <1>2 DEF Call
    <2>4. worker'["inline"] = Take(queue, unfinished, HasEndHook).run
          /\ worker'["drainer"] = worker["drainer"]
      BY <1>0, <2>3
    <2>5. /\ Active("inline")' => IF worker'["inline"].owes THEN queue' # <<>>
                                  ELSE Promised("inline")'
          /\ Active("inline")' /\ worker'["inline"].at # "start"
      <3> DEFINE c == "inline"
      <3>1. c \in Consumer /\ unfinished \in Int /\ HasEndHook \in BOOLEAN
        BY WorkerAssumption DEF Consumer, IInv, TypeOK
      <3>2. /\ queue' = Take(queue, unfinished, HasEndHook).queue
            /\ worker'[c] = Take(queue, unfinished, HasEndHook).run
            /\ UNCHANGED <<landed, covered, late>>
        BY <1>1, <2>3, <2>4
      <3>3. HasEndHook \/ HookIsQueued \/ (Settled /\ Queued(queue) \subseteq late)
        OBVIOUS
      <3>4. c = "inline"
        OBVIOUS
      <3> HIDE DEF c
      <3>5. /\ Active(c)' => IF worker'[c].owes THEN queue' # <<>> ELSE Promised(c)'
            /\ ~Active(c)' => ~HasEndHook /\ queue = <<>> /\ queue' = <<>> /\ Settled'
            /\ worker'[c].at # "start"
        BY <1>0, <3>1, <3>2, <3>3, TurnKeepsPromise
      <3> QED
        BY <3>4, <3>5
    <2>6. ~Active("drainer")' /\ worker'["drainer"].at # "start"
      BY <1>0, <2>1, <2>4 DEF Quiet, Active
    <2>7. target'[k] \cap Landed' \subseteq covered' \cup late'
      BY <1>1, <2>2 DEF Settled
    <2>8. \A l \in Callers : Past(l)' => target'[l] \cap Landed' \subseteq covered' \cup late'
      BY <1>1, <2>7 DEF Hooked, Past
    <2> QED
      BY <1>0, <2>5, <2>6, <2>8 DEF Hooked, Quiet
  <1>3. CASE ~MustDrainInline
    <2>1. /\ caller' = [caller EXCEPT ![k] = IF unfinished = 0 THEN "drained" ELSE "joining"]
          /\ UNCHANGED <<queue, unfinished, worker>>
      BY <1>3 DEF Call, queueVars
    <2>2. unfinished # 0
      <3> SUFFICES ASSUME unfinished = 0 PROVE FALSE
        OBVIOUS
      <3>1. /\ HeldBy(worker["drainer"]) \in {0, 1} /\ HeldBy(worker["inline"]) \in {0, 1}
            /\ Len(queue) \in Nat
            /\ unfinished = Len(queue) + HeldBy(worker["drainer"]) + HeldBy(worker["inline"])
        BY <1>0, Counts DEF IInv, Shape
      <3>2. Len(queue) = 0 /\ HeldBy(worker["drainer"]) = 0 /\ HeldBy(worker["inline"]) = 0
        BY <3>1
      <3>3. queue = <<>>
        BY <3>2 DEF IInv, TypeOK
      <3>4. worker["drainer"].at # "start" /\ worker["inline"].at # "start"
        BY <1>0, <3>3 DEF Hooked
      <3>5. worker["drainer"].at = "off" /\ worker["inline"].at = "off"
        BY <3>2, <3>4 DEF HeldBy, Held
      <3> QED
        BY <1>3, <3>5 DEF MustDrainInline, DrainerAlive, IInv, Shape, Active
    <2>3. ~Past(k)'
      BY <1>0, <2>1, <2>2 DEF Past
    <2>4. \A l \in Callers : Past(l)' => target'[l] \cap Landed' \subseteq covered' \cup late'
      BY <1>1, <2>3 DEF Hooked, Past
    <2>5. /\ \A d \in Consumer : (Active(d)' <=> Active(d)) /\ InHand(d)' = InHand(d)
          /\ HookIsQueued' = HookIsQueued /\ Quiet' = Quiet
      BY <1>1, <2>1 DEF Active, InHand, Carries, HookIsQueued, Quiet
    <2>6. \A d \in Consumer : Promised(d)' <=> Promised(d)
      BY <1>1, <2>1, <2>5 DEF Promised
    <2> QED
      BY <1>1, <2>1, <2>4, <2>5, <2>6 DEF Hooked
  <1> QED
    BY <1>2, <1>3

\* join() has returned; while nothing is cancelled there is nobody to stop.
LEMMA AfterJoinHooked ==
  ASSUME IInv, Hooked, NEW k \in Callers, AfterJoin(k), ~Cancelled'
  PROVE  Hooked'
  <1>1. caller \in [Callers -> Stages]
    BY DEF IInv, TypeOK, Stages
  <1>2. /\ caller[k] = "drained" /\ caller' = [caller EXCEPT ![k] = Drained(k)]
        /\ UNCHANGED <<queue, worker, target, landed, covered, late>>
    BY DEF AfterJoin, queueVars
  <1>3. \A l \in Callers : Past(l)' => Past(l)
    BY <1>1, <1>2 DEF Past
  <1>4. /\ Landed' = Landed /\ Settled' = Settled /\ HookIsQueued' = HookIsQueued
        /\ Quiet' = Quiet
        /\ \A c \in Consumer : (Active(c)' <=> Active(c)) /\ InHand(c)' = InHand(c)
    BY <1>2 DEF Landed, Settled, HookIsQueued, Quiet, Active, InHand, Carries
  <1>5. \A c \in Consumer : Promised(c)' <=> Promised(c)
    BY <1>2, <1>4 DEF Promised
  <1>6. \A l \in Callers : Past(l)' => target'[l] \cap Landed' \subseteq covered' \cup late'
    BY <1>2, <1>3, <1>4 DEF Hooked
  <1> QED
    BY <1>2, <1>4, <1>5, <1>6 DEF Hooked

\* Where nobody moves, nothing is owed anew.
LEMMA StutterHooked ==
  ASSUME Hooked, UNCHANGED vars
  PROVE  Hooked'
  <1>1. UNCHANGED <<queue, caller, worker, target, landed, covered, late>>
    BY DEF vars, queueVars
  <1>2. /\ Landed' = Landed /\ Settled' = Settled /\ HookIsQueued' = HookIsQueued
        /\ Quiet' = Quiet
        /\ \A c \in Consumer : (Active(c)' <=> Active(c)) /\ InHand(c)' = InHand(c)
        /\ \A l \in Callers : Past(l)' <=> Past(l)
    BY <1>1 DEF Landed, Settled, HookIsQueued, Quiet, Active, InHand, Carries, Past
  <1>3. \A c \in Consumer : Promised(c)' <=> Promised(c)
    BY <1>1, <1>2 DEF Promised
  <1> QED
    BY <1>1, <1>2, <1>3 DEF Hooked

LEMMA HookInductive == Spec => []HookInv
  <1>1. Init => HookInv
    <2> SUFFICES ASSUME Init PROVE Hooked
      BY DEF HookInv
    <2>1. /\ queue = <<>> /\ Landed = {} /\ \A c \in Consumer : worker[c].at = "off"
          /\ \A k \in Callers : caller[k] = "new"
      BY DEF Init, Landed, Off
    <2> QED
      BY <2>1 DEF Hooked, Settled, Active, Past
  <1>2. IInv /\ HookInv /\ [Next]_vars => HookInv'
    <2> SUFFICES ASSUME IInv, HookInv, [Next]_vars, HasEndHook, ~Cancelled', ~failed'
                 PROVE  Hooked'
      BY DEF HookInv
    <2>0. /\ ~Cancelled /\ ~failed /\ Hooked
          /\ ~cancelling /\ orphans = {} /\ cancels \in Nat
      BY NothingIsForgotten, WorkerAssumption DEF IInv, HookInv, InOrder, TypeOK
    <2>1. CASE UNCHANGED vars
      BY <2>0, <2>1, StutterHooked
    <2>2. ASSUME NEW kind \in {"pending", "none"}, Submit(kind) PROVE Hooked'
      BY <2>0, <2>2, SubmitHooked
    <2>3. ASSUME NEW k \in Callers, Call(k) PROVE Hooked'
      BY <2>0, <2>3, CallHooked
    <2>4. ASSUME \/ \E k \in Callers : CancelCaller(k)
                 \/ CancelDrainer \/ \E j \in Job : CancelSubmitter(j)
          PROVE  FALSE
      BY <2>0, <2>4 DEF CancelCaller, CancelDrainer, CancelSubmitter, Cancelled
    <2>5. ASSUME NEW c \in Consumer, WriteFails(c) \/ Retry(c) PROVE Hooked'
      BY <2>0, <2>5, RewriteHooked
    <2>6. ASSUME NEW c \in Consumer, Finish(c) \/ GiveUp(c) PROVE Hooked'
      BY <2>0, <2>6, JobDoneHooked
    <2>7. ASSUME NEW c \in Consumer, WriteLands(c) PROVE Hooked'
      BY <2>0, <2>7, WriteLandsHooked
    <2>8. CASE DrainerStarts
      BY <2>0, <2>8, DrainerStartsHooked
    <2>9. ASSUME DrainerCancelled \/ \E j \in orphans : OrphanLands(j) PROVE FALSE
      BY <2>0, <2>9 DEF DrainerCancelled
    <2>10. ASSUME NEW k \in Callers, AfterJoin(k) PROVE Hooked'
      BY <2>0, <2>10, AfterJoinHooked
    <2> QED
      BY <2>1, <2>2, <2>3, <2>4, <2>5, <2>6, <2>7, <2>8, <2>9, <2>10 DEF Next, Progress
  <1> QED
    BY <1>1, <1>2, Inductive, PTL DEF Spec

\* _drain, flush, aclose: unless something was cancelled or a failure is latched, when a
\* flush or aclose returns on_drain_end has run behind every write it waited for, but for
\* those enqueued when their burst had already enqueued its own.
THEOREM HookRunsFirst == Spec => []HookIsBehindBarrier
  <1>1. HookInv => HookIsBehindBarrier
    BY DEF HookInv, Hooked, HookIsBehindBarrier, Back, Past
  <1> QED
    BY <1>1, HookInductive, PTL
=============================================================================
