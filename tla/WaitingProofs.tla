---------------------------- MODULE WaitingProofs ----------------------------
(***************************************************************************)
(* What is promised to whoever waits in a session, for any number of       *)
(* questions and tasks and any bounds.                                     *)
(*                                                                         *)
(* Interventions: the journal has exactly the questions some task stands   *)
(* in the queue for; whoever listens sees the next one, or a task is about *)
(* to announce it; and nobody waits for a question that is nowhere.        *)
(* JournalIsQueue is not inductive alone: whoever leaves the queue strikes *)
(* its question off, which is right only if no second task stands there    *)
(* for the same question.  A question is in one place at a time            *)
(* (InOnePlace): not yet asked, in the queue with its asker, stalled, or   *)
(* with one courier.                                                       *)
(*                                                                         *)
(* TaskHandles, as T: its type invariant, that the manager's map and the   *)
(* journal's never part, that no watchdog outlives its task, and that no   *)
(* started task is forgotten.  NeverForgotten is not inductive alone: the  *)
(* end of a settling turn pops a handle, which is harmless only because    *)
(* the outcome was told when the turn began (SettlingIsTold).              *)
(***************************************************************************)
EXTENDS Interventions, TaskPromises, WellFoundedInduction, TLAPS

\* A courier that is parked stands nowhere: its question is stalled, or over.
Places == {"scheduled", "queued", "restoring", "restored"}

InOnePlace ==
  \A q \in Questions :
    /\ asker[q] \in {"new", "bus", "queued"} => q \notin stalled /\ couriers[q] \cap Places = {}
    /\ q \in stalled => couriers[q] \cap Places = {}
    /\ \A a, b \in couriers[q] \cap Places : a = b

\* No snapshot a crash could bring back has a question nobody delivered yet.
UnaskedIsUnrecorded ==
  /\ snap \in recoverable
  /\ \A q \in Questions : \A s \in recoverable : q \in s => asker[q] \notin {"new", "bus"}

\* The part of TypeOK the argument rests on.
PlaceType ==
  /\ asker \in [Questions -> {"new", "bus", "queued", "parked", "ended"}]
  /\ couriers \in [Questions ->
                     SUBSET {"scheduled", "queued", "parked", "restoring", "restored"}]
  /\ stalled \subseteq Questions
  /\ snap \subseteq Questions /\ recoverable \subseteq SUBSET Questions

IInv == PlaceType /\ InOnePlace /\ UnaskedIsUnrecorded /\ JournalIsQueue

----------------------------------------------------------------------------
(* A step about one question.                                              *)

\* The question stands in the queue, with its asker or with a courier.
Stands(q) == asker[q] = "queued" \/ Carried(q)

OnePlace(q) ==
  /\ asker[q] \in {"new", "bus", "queued"} => q \notin stalled /\ couriers[q] \cap Places = {}
  /\ q \in stalled => couriers[q] \cap Places = {}
  /\ \A a, b \in couriers[q] \cap Places : a = b

\* Nothing changes about a question.
Same(p) ==
  /\ asker'[p] = asker[p] /\ couriers'[p] = couriers[p]
  /\ p \in stalled' <=> p \in stalled
  /\ p \in snap' <=> p \in snap

\* Recording: what a crash may now bring back was so before, or differs from
\* the present snapshot in one question, which was delivered.
Records(q) ==
  /\ snap' \in recoverable'
  /\ \A s \in recoverable' :
       \/ s \in recoverable
       \/ s \subseteq snap
       \/ s \subseteq snap \cup {q} /\ asker'[q] \notin {"new", "bus"}
  /\ asker[q] \notin {"new", "bus"} => asker'[q] \notin {"new", "bus"}

\* A step that leaves every other question alone preserves the invariant if
\* it does for its own.
LEMMA OneQuestion ==
  ASSUME IInv, NEW q \in Questions, PlaceType',
         \A p \in Questions \ {q} : Same(p),
         Records(q), crossed' = crossed,
         OnePlace(q)',
         q \notin crossed => (q \in snap' <=> Stands(q)')
  PROVE  IInv'
  <1>1. InOnePlace'
    <2> SUFFICES ASSUME NEW p \in Questions PROVE OnePlace(p)'
      BY DEF InOnePlace, OnePlace
    <2>1. CASE p = q
      BY <2>1
    <2>2. CASE p # q
      BY <2>2 DEF IInv, InOnePlace, OnePlace, Same
    <2> QED
      BY <2>1, <2>2
  <1>2. UnaskedIsUnrecorded'
    <2> SUFFICES ASSUME NEW p \in Questions, NEW s \in recoverable', p \in s
                 PROVE  asker'[p] \notin {"new", "bus"}
      BY DEF UnaskedIsUnrecorded, Records
    <2>1. s \in recoverable \/ s \subseteq snap => asker[p] \notin {"new", "bus"}
      BY DEF IInv, UnaskedIsUnrecorded
    <2>2. CASE p = q
      BY <2>1, <2>2 DEF Records
    <2>3. CASE p # q
      BY <2>1, <2>3 DEF Records, Same, IInv, UnaskedIsUnrecorded
    <2> QED
      BY <2>2, <2>3
  <1>3. JournalIsQueue'
    <2> SUFFICES ASSUME NEW p \in Questions, p \notin crossed
                 PROVE  p \in snap' <=> Stands(p)'
      BY DEF JournalIsQueue, Stands
    <2>1. CASE p = q
      BY <2>1
    <2>2. CASE p # q
      BY <2>2 DEF IInv, JournalIsQueue, Stands, Carried, Same
    <2> QED
      BY <2>1, <2>2
  <1> QED
    BY <1>1, <1>2, <1>3 DEF IInv

\* A step that touches neither tasks nor journal preserves it.
LEMMA Untouched ==
  ASSUME IInv, UNCHANGED <<asker, couriers, stalled, snap, recoverable, crossed>>
  PROVE  IInv'
  BY DEF IInv, PlaceType, InOnePlace, UnaskedIsUnrecorded, JournalIsQueue, Carried

LEMMA InitIInv == Init => IInv
  BY DEF Init, IInv, PlaceType, InOnePlace, Places, UnaskedIsUnrecorded, JournalIsQueue, Carried

----------------------------------------------------------------------------
(* One lemma per action.                                                   *)

LEMMA PersistStep ==
  ASSUME IInv, Persist
  PROVE  IInv'
  <1>1. UNCHANGED <<asker, couriers, stalled, snap, crossed>> /\ recoverable' = {snap}
    BY DEF Persist, surfaceVars, taskVars, queueVars, historyVars
  <1> QED
    BY <1>1 DEF IInv, PlaceType, InOnePlace, UnaskedIsUnrecorded, JournalIsQueue, Carried

LEMMA OpenStep ==
  ASSUME IInv, NEW q \in Questions, Open(q)
  PROVE  IInv'
  <1>1. /\ asker[q] = "new"
        /\ asker' = [asker EXCEPT ![q] = IF listening THEN "bus" ELSE "ended"]
        /\ UNCHANGED <<couriers, stalled, snap, recoverable, crossed>>
    BY DEF Open, taskVars, queueVars, journalVars, historyVars
  <1>2. PlaceType'
    BY <1>1 DEF IInv, PlaceType
  <1>3. asker'[q] \in {"bus", "ended"} /\ \A p \in Questions \ {q} : Same(p)
    BY <1>1 DEF IInv, PlaceType, Same
  <1>4. Records(q)
    BY <1>1 DEF IInv, UnaskedIsUnrecorded, Records
  <1>5. OnePlace(q)'
    BY <1>1 DEF IInv, InOnePlace, OnePlace
  <1>6. q \notin crossed => (q \in snap' <=> Stands(q)')
    BY <1>1, <1>3 DEF IInv, JournalIsQueue, Stands, Carried
  <1> QED
    BY <1>1, <1>2, <1>3, <1>4, <1>5, <1>6, OneQuestion

LEMMA DeliverStep ==
  ASSUME IInv, NEW q \in Questions, Deliver(q)
  PROVE  IInv'
  <1>1. asker[q] = "bus" /\ UNCHANGED <<couriers, crossed>>
    BY DEF Deliver, historyVars
  <1>2. couriers[q] \cap Places = {} /\ q \notin stalled
    BY <1>1 DEF IInv, InOnePlace
  <1>3. q \notin crossed => q \notin snap
    BY <1>1, <1>2 DEF IInv, JournalIsQueue, Carried, Places
  <1>4. CASE asker' = [asker EXCEPT ![q] = "parked"] /\ Park(q) /\ UNCHANGED journalVars
    <2>1. PlaceType'
      BY <1>1, <1>4 DEF IInv, PlaceType, Park, journalVars
    <2>2. asker'[q] = "parked" /\ \A p \in Questions \ {q} : Same(p)
      BY <1>1, <1>4 DEF IInv, PlaceType, Park, journalVars, Same
    <2>3. Records(q)
      BY <1>4, <2>2 DEF IInv, UnaskedIsUnrecorded, Records, journalVars
    <2>4. OnePlace(q)'
      BY <1>1, <1>2, <2>2 DEF OnePlace
    <2>5. q \notin crossed => (q \in snap' <=> Stands(q)')
      BY <1>1, <1>2, <1>3, <1>4, <2>2 DEF Stands, Carried, Places, journalVars
    <2> QED
      BY <1>1, <2>1, <2>2, <2>3, <2>4, <2>5, OneQuestion
  <1>5. CASE /\ asker' = [asker EXCEPT ![q] = "ended"]
             /\ JournalBoth(snap \cup {q}, snap \ {q})
             /\ UNCHANGED queueVars
    <2>1. PlaceType'
      BY <1>1, <1>5 DEF IInv, PlaceType, JournalBoth, queueVars
    <2>2. asker'[q] = "ended" /\ \A p \in Questions \ {q} : Same(p)
      BY <1>1, <1>5 DEF IInv, PlaceType, JournalBoth, queueVars, Same
    <2>3. Records(q)
      BY <1>5, <2>2 DEF Records, JournalBoth
    <2>4. OnePlace(q)'
      BY <1>1, <1>2, <1>5, <2>2 DEF OnePlace, queueVars
    <2>5. q \notin crossed => (q \in snap' <=> Stands(q)')
      BY <1>1, <1>2, <1>5, <2>2 DEF Stands, Carried, Places, JournalBoth
    <2> QED
      BY <1>1, <2>1, <2>2, <2>3, <2>4, <2>5, OneQuestion
  <1>6. CASE /\ Journal(snap \cup {q})
             /\ asker' = [asker EXCEPT ![q] = "queued"]
             /\ UNCHANGED stalled
    <2>1. PlaceType'
      BY <1>1, <1>6 DEF IInv, PlaceType, Journal
    <2>2. asker'[q] = "queued" /\ \A p \in Questions \ {q} : Same(p)
      BY <1>1, <1>6 DEF IInv, PlaceType, Journal, Same
    <2>3. Records(q)
      BY <1>6, <2>2 DEF Records, Journal
    <2>4. OnePlace(q)'
      BY <1>1, <1>2, <1>6 DEF OnePlace
    <2>5. q \in snap' /\ Stands(q)'
      BY <1>6, <2>2 DEF Stands, Journal
    <2> QED
      BY <1>1, <2>1, <2>2, <2>3, <2>4, <2>5, OneQuestion
  <1> QED
    BY <1>4, <1>5, <1>6 DEF Deliver

\* The future is done: the asker leaves the queue and nobody else stands there.
LEMMA WakeStep ==
  ASSUME IInv, NEW q \in Questions, Wake(q)
  PROVE  IInv'
  <1>1. /\ asker[q] = "queued" /\ asker' = [asker EXCEPT ![q] = "ended"]
        /\ snap' = snap \ {q} /\ recoverable' = recoverable \cup {snap \ {q}}
        /\ UNCHANGED <<couriers, stalled, crossed>>
    BY DEF Wake, StrikeOff, Journal, historyVars
  <1>2. couriers[q] \cap Places = {}
    BY <1>1 DEF IInv, InOnePlace
  <1>3. PlaceType'
    BY <1>1 DEF IInv, PlaceType
  <1>4. asker'[q] = "ended" /\ \A p \in Questions \ {q} : Same(p)
    BY <1>1 DEF IInv, PlaceType, Same
  <1>5. Records(q)
    BY <1>1, <1>4 DEF Records
  <1>6. OnePlace(q)'
    BY <1>1, <1>2, <1>4 DEF OnePlace
  <1>7. q \notin snap' /\ ~Stands(q)'
    BY <1>1, <1>2, <1>4 DEF Stands, Carried, Places
  <1> QED
    BY <1>1, <1>3, <1>4, <1>5, <1>6, <1>7, OneQuestion

LEMMA WakeParkedStep ==
  ASSUME IInv, NEW q \in Questions, WakeParked(q)
  PROVE  IInv'
  <1>1. /\ asker[q] = "parked" /\ asker' = [asker EXCEPT ![q] = "ended"]
        /\ UNCHANGED <<couriers, stalled, snap, recoverable, crossed>>
    BY DEF WakeParked, queueVars, journalVars, historyVars
  <1>2. PlaceType'
    BY <1>1 DEF IInv, PlaceType
  <1>3. asker'[q] = "ended" /\ \A p \in Questions \ {q} : Same(p)
    BY <1>1 DEF IInv, PlaceType, Same
  <1>4. Records(q)
    BY <1>1, <1>3 DEF IInv, UnaskedIsUnrecorded, Records
  <1>5. OnePlace(q)'
    BY <1>1, <1>3 DEF IInv, InOnePlace, OnePlace
  <1>6. q \notin crossed => (q \in snap' <=> Stands(q)')
    BY <1>1, <1>3 DEF IInv, JournalIsQueue, Stands, Carried
  <1> QED
    BY <1>1, <1>2, <1>3, <1>4, <1>5, <1>6, OneQuestion

\* A cancelled task that had not delivered its question yet ends.
LEMMA CancelStep ==
  ASSUME IInv, NEW qs, Cancel(qs)
  PROVE  IInv'
  <1>1. /\ asker' = [q \in Questions |->
                       IF q \in qs /\ asker[q] = "bus" THEN "ended" ELSE asker[q]]
        /\ UNCHANGED <<couriers, stalled, snap, recoverable, crossed>>
    BY DEF Cancel, queueVars, journalVars, historyVars
  <1>2. PlaceType'
    BY <1>1 DEF IInv, PlaceType
  <1>3. \A q \in Questions :
          asker'[q] = asker[q] \/ (asker[q] = "bus" /\ asker'[q] = "ended")
    BY <1>1 DEF IInv, PlaceType
  <1>4. InOnePlace'
    BY <1>1, <1>3 DEF IInv, InOnePlace
  <1>5. UnaskedIsUnrecorded'
    BY <1>1, <1>3 DEF IInv, UnaskedIsUnrecorded
  <1>6. JournalIsQueue'
    BY <1>1, <1>3 DEF IInv, JournalIsQueue, Carried
  <1> QED
    BY <1>2, <1>4, <1>5, <1>6 DEF IInv

LEMMA DiscardStep ==
  ASSUME IInv, NEW q \in Questions, Discard(q)
  PROVE  IInv'
  <1>1. /\ stalled' = stalled \ {q}
        /\ UNCHANGED <<asker, couriers, snap, recoverable, crossed>>
    BY DEF Discard, taskVars, journalVars, historyVars
  <1> QED
    BY <1>1 DEF IInv, PlaceType, InOnePlace, UnaskedIsUnrecorded, JournalIsQueue, Carried

\* A claim moves the question from where it is stalled to a courier.
LEMMA ClaimStep ==
  ASSUME IInv, NEW q \in Questions, Claim(q)
  PROVE  IInv'
  <1>1. /\ q \in stalled /\ stalled' = stalled \ {q}
        /\ couriers' = [couriers EXCEPT ![q] = couriers[q] \cup {"scheduled"}]
        /\ UNCHANGED <<asker, snap, recoverable, crossed>>
    BY DEF Claim, journalVars, historyVars
  <1>2. couriers[q] \cap Places = {} /\ asker[q] \notin {"new", "bus", "queued"}
    BY <1>1 DEF IInv, InOnePlace
  <1>3. PlaceType'
    BY <1>1 DEF IInv, PlaceType
  <1>4. couriers'[q] = couriers[q] \cup {"scheduled"} /\ \A p \in Questions \ {q} : Same(p)
    BY <1>1 DEF IInv, PlaceType, Same
  <1>5. Records(q)
    BY <1>1 DEF IInv, UnaskedIsUnrecorded, Records
  <1>6. OnePlace(q)'
    BY <1>1, <1>2, <1>4 DEF OnePlace
  <1>7. q \notin crossed => (q \in snap' <=> Stands(q)')
    BY <1>1, <1>2, <1>4 DEF IInv, JournalIsQueue, Stands, Carried, Places
  <1> QED
    BY <1>1, <1>3, <1>4, <1>5, <1>6, <1>7, OneQuestion

\* A courier that stands somewhere is the only trace of its question there, and
\* moving on it takes the question along.
LEMMA MovesOn ==
  ASSUME IInv, NEW q \in Questions, NEW from \in Places, from \in couriers[q],
         NEW to \in SUBSET {"scheduled", "queued", "parked", "restoring", "restored"},
         Becomes(q, from, to)
  PROVE  /\ asker[q] \notin {"new", "bus", "queued"} /\ q \notin stalled
         /\ couriers'[q] \cap Places = to \cap Places
         /\ \A p \in Questions \ {q} : couriers'[p] = couriers[p]
         /\ couriers' \in [Questions ->
                             SUBSET {"scheduled", "queued", "parked", "restoring", "restored"}]
  <1>1. asker[q] \notin {"new", "bus", "queued"} /\ q \notin stalled
    BY DEF IInv, InOnePlace
  <1>2. \A a \in couriers[q] \cap Places : a = from
    BY DEF IInv, InOnePlace
  <1>3. /\ couriers'[q] = (couriers[q] \ {from}) \cup to
        /\ \A p \in Questions \ {q} : couriers'[p] = couriers[p]
        /\ couriers' \in [Questions ->
                            SUBSET {"scheduled", "queued", "parked", "restoring", "restored"}]
    BY DEF IInv, PlaceType, Becomes
  <1>4. couriers'[q] \cap Places = to \cap Places
    BY <1>2, <1>3
  <1> QED
    BY <1>1, <1>3, <1>4

\* What a courier's step has to show: its question is where it went.
LEMMA CourierStep ==
  ASSUME IInv, NEW q \in Questions, NEW from \in Places, from \in couriers[q],
         NEW to \in SUBSET {"scheduled", "queued", "parked", "restoring", "restored"},
         Becomes(q, from, to),
         \A a, b \in to \cap Places : a = b,
         UNCHANGED <<asker, crossed>>,
         stalled' \subseteq stalled \cup {q}, stalled \subseteq stalled',
         q \in stalled' => to \cap Places = {},
         \A p \in Questions \ {q} : p \in snap' <=> p \in snap,
         snap' \subseteq Questions, snap' \in recoverable',
         \A s \in recoverable' : s \in recoverable \/ s \subseteq snap \cup {q},
         recoverable' \subseteq SUBSET Questions,
         q \notin crossed =>
           (q \in snap' <=> to \cap {"queued", "restoring", "restored"} # {})
  PROVE  IInv'
  <1>1. /\ asker[q] \notin {"new", "bus", "queued"} /\ q \notin stalled
        /\ couriers'[q] \cap Places = to \cap Places
        /\ \A p \in Questions \ {q} : couriers'[p] = couriers[p]
        /\ couriers' \in [Questions ->
                            SUBSET {"scheduled", "queued", "parked", "restoring", "restored"}]
    BY MovesOn
  <1>2. PlaceType'
    BY <1>1 DEF IInv, PlaceType
  <1>3. \A p \in Questions \ {q} : Same(p)
    BY <1>1 DEF Same
  <1>4. Records(q)
    BY <1>1 DEF Records
  <1>5. OnePlace(q)'
    BY <1>1 DEF OnePlace
  <1>6. couriers'[q] \cap {"queued", "restoring", "restored"}
          = to \cap {"queued", "restoring", "restored"}
    BY <1>1 DEF Places
  <1>7. q \notin crossed => (q \in snap' <=> Stands(q)')
    BY <1>1, <1>6 DEF Stands, Carried
  <1> QED
    BY <1>2, <1>3, <1>4, <1>5, <1>7, OneQuestion

LEMMA CourierStartsStep ==
  ASSUME IInv, NEW q \in Questions, CourierStarts(q)
  PROVE  IInv'
  <1> DEFINE All == {"scheduled", "queued", "parked", "restoring", "restored"}
  <1>1. "scheduled" \in couriers[q] /\ UNCHANGED <<asker, crossed>>
    BY DEF CourierStarts, historyVars
  <1>2. "scheduled" \in Places
    BY DEF Places
  <1>3. snap \subseteq Questions /\ recoverable \subseteq SUBSET Questions /\ snap \in recoverable
    BY DEF IInv, PlaceType, UnaskedIsUnrecorded
  <1>4. q \notin stalled /\ (q \notin crossed => q \notin snap)
    BY <1>1, <1>2 DEF IInv, InOnePlace, JournalIsQueue, Carried, Places
  <1>5. CASE /\ Park(q) /\ UNCHANGED journalVars
             /\ Becomes(q, "scheduled", IF IsPending(q) THEN {"parked"} ELSE {})
    <2> DEFINE to == IF IsPending(q) THEN {"parked"} ELSE {}
    <2>1. to \in SUBSET All /\ to \cap Places = {} /\ to \cap {"queued", "restoring", "restored"} = {}
      BY DEF Places
    <2>2. /\ Becomes(q, "scheduled", to)
          /\ stalled' = stalled \cup {q} /\ snap' = snap /\ recoverable' = recoverable
      BY <1>5 DEF Park, journalVars
    <2> HIDE DEF to
    <2> QED
      BY <1>1, <1>2, <1>3, <1>4, <2>1, <2>2, CourierStep
  <1>6. CASE /\ Journal(snap \cup {q}) /\ UNCHANGED stalled
             /\ Becomes(q, "scheduled", {"queued"})
    BY <1>1, <1>2, <1>3, <1>4, <1>6, CourierStep DEF Journal, Places
  <1>7. CASE /\ JournalBoth(snap \cup {q}, snap \ {q}) /\ UNCHANGED queueVars
             /\ Becomes(q, "scheduled", {})
    BY <1>1, <1>2, <1>3, <1>7, CourierStep DEF JournalBoth, queueVars, Places
  <1> QED
    BY <1>5, <1>6, <1>7 DEF CourierStarts

\* A courier that stood in the queue ends, and its question with it.
LEMMA LeavesTheQueue ==
  ASSUME IInv, NEW q \in Questions, NEW from \in Places, from \in couriers[q],
         Becomes(q, from, {}), StrikeOff(q), UNCHANGED <<asker, stalled, crossed>>
  PROVE  IInv'
  <1>1. snap \subseteq Questions /\ recoverable \subseteq SUBSET Questions /\ snap \in recoverable
    BY DEF IInv, PlaceType, UnaskedIsUnrecorded
  <1>2. snap' = snap \ {q} /\ recoverable' = recoverable \cup {snap \ {q}}
    BY DEF StrikeOff, Journal
  <1>3. q \notin stalled
    BY DEF IInv, InOnePlace
  <1> QED
    BY <1>1, <1>2, <1>3, CourierStep

LEMMA CourierWakesStep ==
  ASSUME IInv, NEW q \in Questions, CourierWakes(q)
  PROVE  IInv'
  <1>1. UNCHANGED <<asker, stalled, crossed>>
    BY DEF CourierWakes, historyVars
  <1>2. CASE "queued" \in couriers[q] /\ Becomes(q, "queued", {}) /\ StrikeOff(q)
    BY <1>1, <1>2, LeavesTheQueue DEF Places
  <1>3. CASE /\ "parked" \in couriers[q] /\ Becomes(q, "parked", {})
             /\ UNCHANGED journalVars
    <2>1. /\ couriers' = [couriers EXCEPT ![q] = couriers[q] \ {"parked"}]
          /\ UNCHANGED <<snap, recoverable>>
      BY <1>3 DEF Becomes, journalVars
    <2>2. PlaceType'
      BY <1>1, <2>1 DEF IInv, PlaceType
    <2>3. /\ \A p \in Questions : couriers'[p] \cap Places = couriers[p] \cap Places
          /\ \A p \in Questions : couriers'[p] \cap {"queued", "restoring", "restored"}
                                    = couriers[p] \cap {"queued", "restoring", "restored"}
      BY <2>1 DEF IInv, PlaceType, Places
    <2>4. InOnePlace'
      BY <1>1, <2>3 DEF IInv, InOnePlace
    <2>5. UnaskedIsUnrecorded' /\ JournalIsQueue'
      BY <1>1, <2>1, <2>3 DEF IInv, UnaskedIsUnrecorded, JournalIsQueue, Carried
    <2> QED
      BY <2>2, <2>4, <2>5 DEF IInv
  <1> QED
    BY <1>2, <1>3 DEF CourierWakes

LEMMA RestoreStartsStep ==
  ASSUME IInv, NEW q \in Questions, RestoreStarts(q)
  PROVE  IInv'
  <1>1. "restoring" \in couriers[q] /\ UNCHANGED <<asker, stalled, crossed>>
    BY DEF RestoreStarts, historyVars
  <1>2. CASE Becomes(q, "restoring", {}) /\ StrikeOff(q)
    BY <1>1, <1>2, LeavesTheQueue DEF Places
  <1>3. CASE Becomes(q, "restoring", {"restored"}) /\ UNCHANGED journalVars
    <2>1. snap \subseteq Questions /\ recoverable \subseteq SUBSET Questions /\ snap \in recoverable
      BY DEF IInv, PlaceType, UnaskedIsUnrecorded
    <2>2. q \notin stalled /\ (q \notin crossed => q \in snap)
      BY <1>1 DEF IInv, InOnePlace, JournalIsQueue, Carried, Places
    <2> QED
      BY <1>1, <1>3, <2>1, <2>2, CourierStep DEF Places, journalVars
  <1> QED
    BY <1>2, <1>3 DEF RestoreStarts

LEMMA RestoredWakesStep ==
  ASSUME IInv, NEW q \in Questions, RestoredWakes(q)
  PROVE  IInv'
  BY LeavesTheQueue DEF RestoredWakes, historyVars, Places

\* Couriers of claims that have not started are dropped.
LEMMA QuiesceStep ==
  ASSUME IInv, Quiesce
  PROVE  IInv'
  <1>1. /\ couriers' = [q \in Questions |-> couriers[q] \ {"scheduled"}]
        /\ UNCHANGED <<asker, stalled, snap, recoverable, crossed>>
    BY DEF Quiesce, queueVars, journalVars
  <1>2. PlaceType'
    BY <1>1 DEF IInv, PlaceType
  <1>3. /\ \A q \in Questions : couriers'[q] \subseteq couriers[q]
        /\ \A q \in Questions : couriers'[q] \cap {"queued", "restoring", "restored"}
                                  = couriers[q] \cap {"queued", "restoring", "restored"}
    BY <1>1
  <1>4. InOnePlace'
    BY <1>1, <1>3 DEF IInv, InOnePlace
  <1>5. UnaskedIsUnrecorded' /\ JournalIsQueue'
    BY <1>1, <1>3 DEF IInv, UnaskedIsUnrecorded, JournalIsQueue, Carried
  <1> QED
    BY <1>2, <1>4, <1>5 DEF IInv

\* After a restart the outstanding questions have a courier each, and nobody
\* else stands anywhere.
LEMMA RestartStep ==
  ASSUME IInv, NEW s, Restart(s)
  PROVE  IInv'
  <1>1. /\ s \in recoverable /\ s \subseteq Questions
        /\ asker' = [q \in Questions |-> IF asker[q] = "new" THEN "new" ELSE "ended"]
        /\ couriers' = [q \in Questions |-> IF q \in s THEN {"restoring"} ELSE {}]
        /\ stalled' = {} /\ snap' = s /\ recoverable' = {s} /\ crossed' = {}
    BY DEF Restart, Install, IInv, PlaceType
  <1>2. PlaceType'
    BY <1>1 DEF PlaceType
  <1>3. \A q \in s : asker'[q] = "ended" /\ couriers'[q] = {"restoring"}
    BY <1>1 DEF IInv, UnaskedIsUnrecorded
  <1>4. \A q \in Questions \ s : asker'[q] \in {"new", "ended"} /\ couriers'[q] = {}
    BY <1>1
  <1>5. InOnePlace'
    BY <1>1, <1>3, <1>4 DEF InOnePlace
  <1>6. UnaskedIsUnrecorded'
    BY <1>1, <1>3 DEF UnaskedIsUnrecorded
  <1>7. JournalIsQueue'
    BY <1>1, <1>3, <1>4 DEF JournalIsQueue, Carried
  <1> QED
    BY <1>2, <1>5, <1>6, <1>7 DEF IInv

\* After a rewind too; what older askers strike off the snapshot is crossed.
LEMMA RewindStep ==
  ASSUME IInv, NEW s \in recoverable \cup {{}}, Rewind(s)
  PROVE  IInv'
  <1> DEFINE inQueue == {q \in Questions : asker[q] = "queued"}
             parked  == {q \in Questions : asker[q] = "parked" /\ (q \in stalled \/ ~IsPending(q))}
  <1>1. /\ s \subseteq Questions
        /\ asker' = [q \in Questions |-> IF q \in inQueue \cup parked THEN "ended" ELSE asker[q]]
        /\ couriers' = [q \in Questions |-> IF q \in s THEN {"restoring"} ELSE {}]
        /\ stalled' = {} /\ snap' = s \ inQueue /\ crossed' = s \cap inQueue
        /\ recoverable' = {s \ struck : struck \in SUBSET inQueue}
    BY DEF Rewind, Install, IInv, PlaceType
  <1>2. PlaceType'
    BY <1>1 DEF IInv, PlaceType
  <1>3. \A q \in s : q \in Questions /\ asker[q] \notin {"new", "bus"}
    BY <1>1 DEF IInv, UnaskedIsUnrecorded
  <1>4. \A q \in Questions : asker'[q] # "queued" /\ (asker'[q] = asker[q] \/ asker'[q] = "ended")
    BY <1>1
  <1>5. \A q \in Questions : couriers'[q] = IF q \in s THEN {"restoring"} ELSE {}
    BY <1>1
  <1> HIDE DEF parked
  <1>6. InOnePlace'
    BY <1>1, <1>3, <1>4, <1>5 DEF InOnePlace
  <1>7. UnaskedIsUnrecorded'
    <2>1. snap' \in recoverable' /\ \A t \in recoverable' : t \subseteq s
      BY <1>1
    <2> QED
      BY <1>1, <1>3, <1>4, <2>1 DEF UnaskedIsUnrecorded
  <1>8. JournalIsQueue'
    BY <1>1, <1>4, <1>5 DEF JournalIsQueue, Carried
  <1> QED
    BY <1>2, <1>6, <1>7, <1>8 DEF IInv

----------------------------------------------------------------------------
(* The theorem.                                                            *)

LEMMA NextIInv ==
  ASSUME IInv, [Next]_vars
  PROVE  IInv'
  <1>1. CASE UNCHANGED vars
    BY <1>1, Untouched DEF vars
  <1>2. CASE Attach \/ Detach \/ FailClose \/ LookAtHead
    BY <1>2, Untouched
    DEF Attach, Detach, FailClose, LookAtHead, taskVars, queueVars, journalVars, historyVars
  <1>3. CASE CancelTurn
    BY <1>3, CancelStep DEF CancelTurn
  <1>4. CASE Quiesce
    BY <1>4, QuiesceStep
  <1>5. CASE Persist
    BY <1>5, PersistStep
  <1>6. CASE Reset
    BY <1>6, RestartStep, RewindStep DEF Reset
  <1>7. ASSUME NEW q \in Questions,
               \/ Open(q) \/ Deliver(q) \/ Answer(q) \/ Wake(q) \/ WakeParked(q)
               \/ CancelAsker(q) \/ Discard(q) \/ Claim(q)
               \/ CourierStarts(q) \/ CourierWakes(q) \/ RestoreStarts(q) \/ RestoredWakes(q)
        PROVE  IInv'
    <2>1. CASE Answer(q)
      BY <2>1, Untouched DEF Answer, taskVars, journalVars, historyVars
    <2>2. CASE CancelAsker(q)
      BY <2>2, CancelStep DEF CancelAsker
    <2> QED
      BY <1>7, <2>1, <2>2, OpenStep, DeliverStep, WakeStep, WakeParkedStep, DiscardStep,
         ClaimStep, CourierStartsStep, CourierWakesStep, RestoreStartsStep, RestoredWakesStep
  <1> QED
    BY <1>1, <1>2, <1>3, <1>4, <1>5, <1>6, <1>7 DEF Next

LEMMA Inductive == Spec => []IInv
  <1>1. IInv /\ [Next]_vars => IInv'
    BY NextIInv
  <1> QED
    BY <1>1, InitIInv, PTL DEF Spec

\* The journal's outstanding questions are exactly those some task stands in
\* the queue for (record_intervention_dispatched and _resolved against the
\* registry), through cancellation, stalling, claims, restarts and rewinds.
THEOREM QueueIsJournalled == Spec => []JournalIsQueue
  BY Inductive, PTL DEF IInv

\* A question is in one place at a time: never stalled and in the queue, and
\* never carried by two tasks that could both be answered.
THEOREM QuestionsStandOnce == Spec => []InOnePlace
  BY Inductive, PTL DEF IInv

----------------------------------------------------------------------------
(* The line of questions.                                                  *)
(*                                                                         *)
(* Neither property below is inductive.  That a prompt is seen needs that  *)
(* whoever is in the line has a task that stands in it and will leave it   *)
(* (LineIsHeld), and is an invariant only about the very first of the line *)
(* (HeadSeen): an answered question there has somebody who is about to     *)
(* wake.  That nobody waits in vain needs where a parked asker's question  *)
(* may be (ParkedIsKept), and that InOnePlace holds.                       *)

InLine(q) == asker[q] = "queued" \/ couriers[q] \cap {"queued", "restored"} # {}

FutureType == future \in [Questions -> {"pending", "answered", "refused", "cancelled"}]

LineType ==
  /\ order \in Seq(Questions)
  /\ \A i, j \in 1..Len(order) : order[i] = order[j] => i = j

LineIsHeld ==
  \A q \in Questions :
    /\ q \in ToSet(order) => InLine(q)
    /\ InLine(q) /\ IsPending(q) => q \in ToSet(order)

HeadSeen ==
  listening /\ order # <<>> /\ IsPending(order[1]) =>
    order[1] \in shown \/ \E q \in Questions : Leaving(q)

ParkedIsKept ==
  \A q \in Questions \ dropped :
    asker[q] = "parked" =>
      /\ IsPending(q) => q \in stalled \/ couriers[q] \cap {"scheduled", "queued"} # {}
      /\ couriers[q] \cap {"restoring", "restored"} = {}

LineInv == FutureType /\ LineType /\ LineIsHeld /\ HeadSeen

\* Every non-empty set of numbers has a least element.
LEMMA LeastExists ==
  ASSUME NEW T \in SUBSET Nat, T # {}
  PROVE  \E x \in T : \A y \in T : x <= y
  <1>1. PICK x \in T : \A y \in T : <<y, x>> \notin OpToRel(<, Nat)
    BY WFMin, NatLessThanWellFounded, Zenon
  <1>2. \A y \in T : ~(y < x)
    BY <1>1 DEF OpToRel
  <1> QED
    BY <1>2

LEMMA MinIsLeast ==
  ASSUME NEW T \in SUBSET Nat, T # {}
  PROVE  Min(T) \in T /\ \A y \in T : Min(T) <= y
  <1>1. \E x \in T : \A y \in T : x =< y
    BY LeastExists
  <1> QED
    BY <1>1, Zenon DEF Min

\* The first of the line whose answer is pending, if there is one.
LEMMA FirstPending ==
  ASSUME LineType
  PROVE  LET i == SelectInSeq(order, IsPending)
         IN  \/ i = 0 /\ \A j \in 1..Len(order) : ~IsPending(order[j])
             \/ /\ i \in 1..Len(order) /\ IsPending(order[i])
                /\ \A j \in 1..Len(order) : IsPending(order[j]) => i <= j
  <1> DEFINE I == {j \in 1..Len(order) : IsPending(order[j])}
             i == SelectInSeq(order, IsPending)
  <1>1. i = IF I # {} THEN Min(I) ELSE 0
    BY Zenon DEF SelectInSeq
  <1>2. I \in SUBSET Nat
    BY DEF LineType
  <1>3. ASSUME I # {} PROVE i \in I /\ \A y \in I : i <= y
    <2>1. i = Min(I)
      BY <1>1, <1>3
    <2>2. Min(I) \in I /\ \A y \in I : Min(I) <= y
      BY <1>2, <1>3, MinIsLeast
    <2> QED
      BY <2>1, <2>2, Zenon
  <1>4. I = {} => i = 0
    BY <1>1
  <1>5. \/ i = 0 /\ \A j \in 1..Len(order) : ~IsPending(order[j])
        \/ /\ i \in 1..Len(order) /\ IsPending(order[i])
           /\ \A j \in 1..Len(order) : IsPending(order[j]) => i <= j
    <2> HIDE DEF i
    <2> QED
      BY <1>3, <1>4
  <1> QED
    BY <1>5, Zenon

\* deque.remove: the others stay, in their order.
LEMMA WithoutOne ==
  ASSUME LineType, NEW q
  PROVE  /\ Without(q) \in Seq(Questions)
         /\ \A i, j \in 1..Len(Without(q)) : Without(q)[i] = Without(q)[j] => i = j
         /\ ToSet(Without(q)) = ToSet(order) \ {q}
  <1>1. ASSUME NEW k \in 1..Len(order), order[k] = q
        PROVE  Without(q) = SubSeq(order, 1, k - 1) \o SubSeq(order, k + 1, Len(order))
    <2> DEFINE I == {i \in 1..Len(order) : order[i] = q}
               s == SelectInSeq(order, LAMBDA v : v = q)
    <2>1. s = IF I # {} THEN Min(I) ELSE 0
      BY Zenon DEF SelectInSeq
    <2>2. k \in I /\ I \in SUBSET Nat
      BY <1>1 DEF LineType
    <2>3. s \in I
      BY <2>1, <2>2, MinIsLeast
    <2>4. s = k
      <3>1. s \in 1..Len(order) /\ order[s] = q
        BY <2>3
      <3> HIDE DEF s
      <3> QED
        BY <3>1, <1>1 DEF LineType
    <2>5. Without(q) = RemoveAt(order, s)
      BY <1>1, Zenon DEF Without, RemoveFirst
    <2>6. Without(q) = RemoveAt(order, k)
      BY <2>4, <2>5, Zenon
    <2> QED
      BY <2>6, Zenon DEF RemoveAt
  <1>2. ASSUME ~\E i \in 1..Len(order) : order[i] = q
        PROVE  Without(q) = order
    BY <1>2, Zenon DEF Without, RemoveFirst
  <1>3. CASE \E i \in 1..Len(order) : order[i] = q
    <2>1. PICK k \in 1..Len(order) : order[k] = q
      BY <1>3
    <2> DEFINE w == SubSeq(order, 1, k - 1) \o SubSeq(order, k + 1, Len(order))
    <2>2. Without(q) = w
      BY <1>1, <2>1
    <2> DEFINE a == SubSeq(order, 1, k - 1)
               b == SubSeq(order, k + 1, Len(order))
    <2>7. Len(order) \in Nat /\ k \in 1..Len(order) /\ order \in Seq(Questions)
      BY <2>1 DEF LineType
    <2>8. /\ a \in Seq(Questions) /\ Len(a) = k - 1
          /\ \A i \in 1..(k - 1) : a[i] = order[i]
      BY <2>7
    <2>9. /\ b \in Seq(Questions) /\ Len(b) = Len(order) - k
          /\ \A i \in 1..(Len(order) - k) : b[i] = order[i + k]
      BY <2>7
    <2>10. w = a \o b
      OBVIOUS
    <2>3. /\ w \in Seq(Questions) /\ Len(w) = Len(order) - 1
          /\ \A i \in 1..Len(w) : w[i] = IF i < k THEN order[i] ELSE order[i + 1]
      <3> HIDE DEF w, a, b
      <3>1. w \in Seq(Questions) /\ Len(w) = Len(order) - 1
        BY <2>7, <2>8, <2>9, <2>10
      <3>2. ASSUME NEW i \in 1..Len(w) PROVE w[i] = IF i < k THEN order[i] ELSE order[i + 1]
        <4>1. CASE i < k
          BY <2>7, <2>8, <2>9, <2>10, <3>1, <4>1
        <4>2. CASE ~(i < k)
          <5>1. i - (k - 1) \in 1..(Len(order) - k)
            BY <2>7, <3>1, <4>2
          <5>2. w[i] = b[i - (k - 1)]
            BY <2>7, <2>8, <2>9, <2>10, <3>1, <4>2
          <5>3. b[i - (k - 1)] = order[(i - (k - 1)) + k]
            BY <2>9, <5>1
          <5>4. (i - (k - 1)) + k = i + 1
            BY <2>7, <3>1
          <5> QED
            BY <4>2, <5>2, <5>3, <5>4
        <4> QED
          BY <4>1, <4>2
      <3> QED
        BY <3>1, <3>2
    <2> HIDE DEF w
    <2>4. \A i, j \in 1..Len(w) : w[i] = w[j] => i = j
      BY <2>1, <2>3 DEF LineType
    <2>5. ASSUME NEW x PROVE x \in ToSet(w) <=> x \in ToSet(order) /\ x # q
      <3>1. ASSUME NEW i \in 1..Len(w), w[i] = x PROVE x \in ToSet(order) /\ x # q
        BY <2>1, <2>3, <3>1 DEF LineType, ToSet
      <3>2. ASSUME NEW i \in 1..Len(order), order[i] = x, x # q PROVE x \in ToSet(w)
        <4>1. CASE i < k
          <5>1. i \in 1..Len(w) /\ w[i] = x
            BY <2>1, <2>3, <3>2, <4>1 DEF LineType
          <5> QED
            BY <5>1 DEF ToSet
        <4>2. CASE i > k
          <5>1. i - 1 \in 1..Len(w) /\ w[i - 1] = x
            BY <2>1, <2>3, <3>2, <4>2 DEF LineType
          <5> QED
            BY <5>1 DEF ToSet
        <4> QED
          BY <2>1, <3>2, <4>1, <4>2 DEF LineType
      <3>3. DOMAIN w = 1..Len(w) /\ DOMAIN order = 1..Len(order)
        BY <2>3, <2>7
      <3> QED
        BY <3>1, <3>2, <3>3 DEF ToSet
    <2>6. ToSet(w) = ToSet(order) \ {q}
      BY <2>5
    <2> QED
      BY <2>2, <2>3, <2>4, <2>6, Zenon
  <1>4. CASE ~\E i \in 1..Len(order) : order[i] = q
    <2>1. ToSet(order) = ToSet(order) \ {q}
      BY <1>4 DEF ToSet
    <2>2. order \in Seq(Questions) /\ \A i, j \in 1..Len(order) : order[i] = order[j] => i = j
      BY DEF LineType
    <2> QED
      BY <1>2, <1>4, <2>1, <2>2, Zenon
  <1> QED
    BY <1>3, <1>4

\* registry.head drops from the front what is over, and nothing that is pending.
LEMMA EvictedKeeps ==
  ASSUME LineType
  PROVE  /\ Evicted \in Seq(Questions)
         /\ \A i, j \in 1..Len(Evicted) : Evicted[i] = Evicted[j] => i = j
         /\ ToSet(Evicted) \subseteq ToSet(order)
         /\ \A q \in ToSet(order) : IsPending(q) => q \in ToSet(Evicted)
         /\ Evicted # <<>> => \/ IsPending(order[1]) /\ Evicted[1] = order[1]
                              \/ order # <<>> /\ ~IsPending(order[1])
  <1> DEFINE i == SelectInSeq(order, IsPending)
  <1>1. Evicted = IF i = 0 THEN <<>> ELSE SubSeq(order, i, Len(order))
    BY Zenon DEF Evicted
  <1>2. \/ i = 0 /\ \A j \in 1..Len(order) : ~IsPending(order[j])
        \/ /\ i \in 1..Len(order) /\ IsPending(order[i])
           /\ \A j \in 1..Len(order) : IsPending(order[j]) => i <= j
    BY FirstPending
  <1> HIDE DEF i
  <1>3. CASE i = 0 /\ \A j \in 1..Len(order) : ~IsPending(order[j])
    <2>1. Evicted = <<>>
      BY <1>1, <1>3
    <2> QED
      BY <1>3, <2>1 DEF ToSet
  <1>4. CASE /\ i \in 1..Len(order) /\ IsPending(order[i])
             /\ \A j \in 1..Len(order) : IsPending(order[j]) => i <= j
    <2> DEFINE e == SubSeq(order, i, Len(order))
    <2>1. Evicted = e
      BY <1>1, <1>4
    <2>2. /\ e \in Seq(Questions) /\ Len(e) = Len(order) - i + 1
          /\ \A j \in 1..Len(e) : e[j] = order[j + i - 1]
      BY <1>4 DEF LineType
    <2> HIDE DEF e
    <2>3. \A a, b \in 1..Len(e) : e[a] = e[b] => a = b
      BY <1>4, <2>2 DEF LineType
    <2>4. ToSet(e) \subseteq ToSet(order)
      BY <1>4, <2>2 DEF LineType, ToSet
    <2>5. ASSUME NEW q \in ToSet(order), IsPending(q) PROVE q \in ToSet(e)
      <3>1. PICK j \in 1..Len(order) : order[j] = q
        BY DEF ToSet
      <3>2. i <= j
        BY <1>4, <2>5, <3>1
      <3>3. j - i + 1 \in 1..Len(e) /\ e[j - i + 1] = q
        BY <1>4, <2>2, <3>1, <3>2 DEF LineType
      <3> QED
        BY <3>3 DEF ToSet
    <2>6. \/ IsPending(order[1]) /\ e[1] = order[1]
          \/ order # <<>> /\ ~IsPending(order[1])
      <3>1. order # <<>> /\ Len(order) \in Nat /\ 1 \in 1..Len(order) /\ 1 \in 1..Len(e)
        BY <1>4, <2>2 DEF LineType
      <3>2. IsPending(order[1]) => i = 1
        BY <1>4, <3>1
      <3>3. i = 1 => e[1] = order[1]
        BY <2>2, <3>1
      <3> QED
        BY <3>1, <3>2, <3>3
    <2> QED
      BY <2>1, <2>2, <2>3, <2>4, <2>5, <2>6, Zenon
  <1> QED
    BY <1>2, <1>3, <1>4

----------------------------------------------------------------------------
(* What a step does to the line.                                           *)

LEMMA HeadIsInLine ==
  ASSUME LineType, order # <<>>
  PROVE  order[1] \in ToSet(order) /\ order[1] \in Questions
  <1>1. Len(order) \in Nat /\ 1 \in 1..Len(order) /\ order \in Seq(Questions)
    BY DEF LineType
  <1> QED
    BY <1>1 DEF ToSet

\* Nobody joins or leaves; futures only end.
LEMMA NobodyMoves ==
  ASSUME LineInv, order' = order, FutureType',
         \A q \in Questions : InLine(q)' <=> InLine(q),
         \A q \in Questions : IsPending(q)' => IsPending(q),
         listening' => listening /\ shown \subseteq shown'
  PROVE  LineInv'
  <1>1. LineType'
    BY DEF LineInv, LineType
  <1>2. LineIsHeld'
    BY DEF LineInv, LineIsHeld
  <1>3. HeadSeen'
    <2> SUFFICES ASSUME listening', order # <<>>, IsPending(order[1])'
                 PROVE  order[1] \in shown' \/ \E q \in Questions : Leaving(q)'
      BY DEF HeadSeen
    <2>1. order[1] \in Questions
      BY HeadIsInLine DEF LineInv
    <2>2. IsPending(order[1])
      BY <2>1 DEF IsPending
    <2>3. CASE order[1] \in shown
      BY <2>3
    <2>4. ASSUME NEW q \in Questions, Leaving(q) PROVE Leaving(q)'
      <3>1. ~IsPending(q)' /\ InLine(q)'
        BY <2>4 DEF Leaving, InLine
      <3> QED
        BY <3>1 DEF Leaving, InLine
    <2> QED
      BY <2>2, <2>3, <2>4 DEF LineInv, HeadSeen
  <1> QED
    BY <1>1, <1>2, <1>3 DEF LineInv

\* Somebody listens, and a task takes its place at the end.
LEMMA OneJoins ==
  ASSUME LineInv, NEW q \in Questions, q \notin ToSet(order), listening,
         Enqueue(q), future' = future, listening' = listening, InLine(q)',
         \A p \in Questions \ {q} : InLine(p)' <=> InLine(p),
         ~Leaving(q)
  PROVE  LineInv'
  <1>1. /\ order \in Seq(Questions) /\ order' \in Seq(Questions) /\ Len(order) \in Nat
        /\ Len(order') = Len(order) + 1 /\ order'[Len(order) + 1] = q
        /\ \A i \in 1..Len(order) : order'[i] = order[i]
    BY DEF LineInv, LineType, Enqueue
  <1>2. \A i \in 1..Len(order) : order[i] # q
    BY <1>1 DEF ToSet
  <1>3. LineType'
    BY <1>1, <1>2 DEF LineInv, LineType
  <1>4. \A p : p \in ToSet(order') <=> p \in ToSet(order) \/ p = q
    <2>1. DOMAIN order = 1..Len(order) /\ DOMAIN order' = 1..(Len(order) + 1)
      BY <1>1
    <2>2. 1..(Len(order) + 1) = (1..Len(order)) \cup {Len(order) + 1}
      BY <1>1
    <2> QED
      BY <1>1, <2>1, <2>2 DEF ToSet
  <1>5. LineIsHeld'
    BY <1>4 DEF LineInv, LineIsHeld, IsPending
  <1>6. HeadSeen'
    <2>1. CASE order = <<>>
      <3>1. order'[1] = q /\ q \in shown'
        BY <1>1, <2>1 DEF Enqueue, Display
      <3> QED
        BY <3>1 DEF HeadSeen
    <2>2. CASE order # <<>>
      <3>1. order'[1] = order[1] /\ shown' = shown
        BY <1>1, <2>2 DEF Enqueue, Display
      <3>2. ASSUME NEW p \in Questions, Leaving(p) PROVE Leaving(p)'
        <4>1. p # q
          BY <3>2
        <4>2. ~IsPending(p)' /\ InLine(p)'
          BY <3>2, <4>1 DEF Leaving, InLine, IsPending
        <4> QED
          BY <4>2 DEF Leaving, InLine
      <3> QED
        BY <2>2, <3>1, <3>2 DEF LineInv, HeadSeen, IsPending
    <2> QED
      BY <2>1, <2>2
  <1>7. FutureType'
    BY DEF LineInv, FutureType
  <1> QED
    BY <1>3, <1>5, <1>6, <1>7 DEF LineInv

\* A task whose question is over leaves, and announces the next.
LEMMA OneLeaves ==
  ASSUME LineInv, NEW q \in Questions, ~IsPending(q),
         Leave(q), future' = future, listening' = listening,
         \A p \in Questions \ {q} : InLine(p)' <=> InLine(p)
  PROVE  LineInv'
  <1>1. order' = Without(q)
    BY DEF Leave
  <1>2. LineType' /\ ToSet(order') = ToSet(order) \ {q}
    BY <1>1, WithoutOne DEF LineInv, LineType
  <1>3. LineIsHeld'
    BY <1>2 DEF LineInv, LineIsHeld, IsPending
  <1>4. HeadSeen'
    <2> SUFFICES ASSUME listening', order' # <<>>, future'[order'[1]] = "pending"
                 PROVE  order'[1] \in shown'
      BY DEF HeadSeen, IsPending
    <2>1. order'[1] \in {p \in {order'[1]} : IsPending(p)}
      BY DEF IsPending
    <2> QED
      BY <2>1 DEF Leave, Display
  <1>5. FutureType'
    BY DEF LineInv, FutureType
  <1> QED
    BY <1>2, <1>3, <1>4, <1>5 DEF LineInv

\* A new line is empty, and no task stands in it.
LEMMA NobodyStands ==
  ASSUME order' = <<>>, FutureType', \A q \in Questions : ~InLine(q)'
  PROVE  LineInv'
  <1>1. ToSet(<<>>) = {}
    BY DEF ToSet
  <1>2. LineType'
    BY DEF LineType
  <1>3. LineIsHeld' /\ HeadSeen'
    BY <1>1 DEF LineIsHeld, HeadSeen
  <1> QED
    BY <1>2, <1>3 DEF LineInv

LEMMA InitLine == Init => LineInv /\ ParkedIsKept
  <1> SUFFICES ASSUME Init PROVE LineInv /\ ParkedIsKept
    OBVIOUS
  <1>1. ToSet(order) = {} /\ order = <<>>
    BY DEF Init, ToSet
  <1>2. LineType
    BY <1>1 DEF LineType
  <1>3. LineIsHeld /\ HeadSeen /\ FutureType /\ ParkedIsKept
    BY <1>1 DEF Init, LineIsHeld, HeadSeen, FutureType, ParkedIsKept, InLine
  <1> QED
    BY <1>2, <1>3 DEF LineInv

\* A question that is not with any task in the line is not in the line.
LEMMA NotInLine ==
  ASSUME LineInv, NEW q \in Questions, asker[q] # "queued",
         couriers[q] \cap {"queued", "restored"} = {}
  PROVE  q \notin ToSet(order) /\ ~Leaving(q)
  BY DEF LineInv, LineIsHeld, InLine, Leaving

----------------------------------------------------------------------------
(* The line, one lemma per action that moves it.                           *)

LEMMA AttachLine ==
  ASSUME LineInv, Attach
  PROVE  LineInv'
  <1>1. UNCHANGED <<asker, couriers, future>>
    BY DEF Attach, taskVars
  <1>2. FutureType'
    BY <1>1 DEF LineInv, FutureType
  <1>3. CASE shown' = {q \in ToSet(order) : IsPending(q)} /\ order' = order
    <2>1. LineType' /\ LineIsHeld'
      BY <1>1, <1>3 DEF LineInv, LineType, LineIsHeld, InLine, IsPending
    <2>2. HeadSeen'
      BY <1>1, <1>3, HeadIsInLine DEF LineInv, HeadSeen, IsPending
    <2> QED
      BY <1>2, <2>1, <2>2 DEF LineInv
  <1>4. CASE order' = Evicted /\ shown' = IF order' = <<>> THEN {} ELSE {order'[1]}
    <2>1. LineType' /\ ToSet(order') \subseteq ToSet(order)
          /\ \A q \in ToSet(order) : IsPending(q) => q \in ToSet(order')
      BY <1>4, EvictedKeeps DEF LineInv, LineType
    <2>2. LineIsHeld'
      BY <1>1, <2>1 DEF LineInv, LineIsHeld, InLine, IsPending
    <2>3. HeadSeen'
      BY <1>4 DEF HeadSeen
    <2> QED
      BY <1>2, <2>1, <2>2, <2>3 DEF LineInv
  <1> QED
    BY <1>3, <1>4 DEF Attach

LEMMA LookAtHeadLine ==
  ASSUME LineInv, LookAtHead
  PROVE  LineInv'
  <1>1. UNCHANGED <<asker, couriers, future, listening, shown>> /\ order' = Evicted
    BY DEF LookAtHead, taskVars, surfaceVars
  <1>2. FutureType'
    BY <1>1 DEF LineInv, FutureType
  <1>3. /\ LineType' /\ ToSet(order') \subseteq ToSet(order)
        /\ \A q \in ToSet(order) : IsPending(q) => q \in ToSet(order')
        /\ order' # <<>> => \/ IsPending(order[1]) /\ order'[1] = order[1]
                            \/ order # <<>> /\ ~IsPending(order[1])
    BY <1>1, EvictedKeeps DEF LineInv, LineType
  <1>4. LineIsHeld'
    BY <1>1, <1>3 DEF LineInv, LineIsHeld, InLine, IsPending
  <1>5. HeadSeen'
    <2> SUFFICES ASSUME listening, order' # <<>>
                 PROVE  order'[1] \in shown \/ \E q \in Questions : Leaving(q)'
      BY <1>1 DEF HeadSeen
    <2>1. \A q \in Questions : Leaving(q)' <=> Leaving(q)
      BY <1>1 DEF Leaving, IsPending
    <2>2. order # <<>>
      <3>1. order' \in Seq(Questions) /\ 1 \in 1..Len(order')
        BY <1>3 DEF LineType
      <3>2. order'[1] \in ToSet(order')
        BY <3>1 DEF ToSet
      <3> QED
        BY <1>3, <3>2 DEF ToSet
    <2>3. order[1] \in ToSet(order) /\ order[1] \in Questions
      BY <2>2, HeadIsInLine DEF LineInv
    <2>4. CASE IsPending(order[1]) /\ order'[1] = order[1]
      BY <2>1, <2>2, <2>4 DEF LineInv, HeadSeen
    <2>5. CASE ~IsPending(order[1])
      <3>1. Leaving(order[1])
        BY <2>3, <2>5 DEF LineInv, LineIsHeld, InLine, Leaving
      <3> QED
        BY <2>1, <2>3, <3>1
    <2> QED
      BY <1>3, <2>4, <2>5
  <1> QED
    BY <1>2, <1>3, <1>4, <1>5 DEF LineInv

\* What is answered stays with the task that asked: it is about to wake.
LEMMA AnswerLine ==
  ASSUME LineInv, NEW q \in Questions, Answer(q)
  PROVE  LineInv'
  <1>1. /\ UNCHANGED <<asker, couriers, listening, shown>>
        /\ q \in ToSet(order) /\ order' = Without(q)
        /\ future' = [future EXCEPT ![q] = "answered"]
    BY DEF Answer, taskVars, surfaceVars
  <1>2. FutureType' /\ ~IsPending(q)'
        /\ \A p \in Questions \ {q} : IsPending(p)' <=> IsPending(p)
    BY <1>1 DEF LineInv, FutureType, IsPending
  <1>3. LineType' /\ ToSet(order') = ToSet(order) \ {q}
    BY <1>1, WithoutOne DEF LineInv, LineType
  <1>4. \A p \in Questions : InLine(p)' <=> InLine(p)
    BY <1>1 DEF InLine
  <1>5. LineIsHeld'
    BY <1>2, <1>3, <1>4 DEF LineInv, LineIsHeld
  <1>6. InLine(q)'
    BY <1>1, <1>4 DEF LineInv, LineIsHeld
  <1>7. Leaving(q)'
    BY <1>2, <1>6 DEF InLine, Leaving
  <1>8. HeadSeen'
    BY <1>7 DEF HeadSeen
  <1> QED
    BY <1>2, <1>3, <1>5, <1>8 DEF LineInv

\* Whoever delivers a question was not in the line before, and is the only one
\* to stand there for it.
LEMMA DeliverLine ==
  ASSUME IInv, LineInv, NEW q \in Questions, Deliver(q)
  PROVE  LineInv'
  <1>1. asker[q] = "bus" /\ UNCHANGED <<couriers, future, listening>>
    BY DEF Deliver, surfaceVars
  <1>2. FutureType' /\ \A p \in Questions : IsPending(p)' <=> IsPending(p)
    BY <1>1 DEF LineInv, FutureType, IsPending
  <1>3. couriers[q] \cap {"queued", "restored"} = {}
    BY <1>1 DEF IInv, InOnePlace, Places
  <1>4. ASSUME NEW w \in {"parked", "ended"}, asker' = [asker EXCEPT ![q] = w],
               ~listening, order' = order
        PROVE  LineInv'
    <2>1. \A p \in Questions : InLine(p)' <=> InLine(p)
      BY <1>1, <1>4 DEF IInv, PlaceType, InLine
    <2> QED
      BY <1>1, <1>2, <1>4, <2>1, NobodyMoves
  <1>5. CASE listening /\ Enqueue(q) /\ asker' = [asker EXCEPT ![q] = "queued"]
    <2>1. InLine(q)' /\ \A p \in Questions \ {q} : InLine(p)' <=> InLine(p)
      BY <1>1, <1>5 DEF IInv, PlaceType, InLine
    <2>2. q \notin ToSet(order) /\ ~Leaving(q)
      BY <1>1, <1>3, NotInLine
    <2> QED
      BY <1>1, <1>5, <2>1, <2>2, OneJoins
  <1> QED
    BY <1>4, <1>5 DEF Deliver, queueVars

LEMMA WakeLine ==
  ASSUME IInv, LineInv, NEW q \in Questions, Wake(q)
  PROVE  LineInv'
  <1>1. /\ ~IsPending(q) /\ asker' = [asker EXCEPT ![q] = "ended"] /\ Leave(q)
        /\ UNCHANGED <<couriers, future, listening>>
    BY DEF Wake, surfaceVars
  <1>2. \A p \in Questions \ {q} : InLine(p)' <=> InLine(p)
    BY <1>1 DEF IInv, PlaceType, InLine
  <1> QED
    BY <1>1, <1>2, OneLeaves

\* A courier's step about one question.
LEMMA OtherCouriersStay ==
  ASSUME IInv, NEW q \in Questions, NEW from, NEW to, Becomes(q, from, to), asker' = asker
  PROVE  /\ \A p \in Questions \ {q} : InLine(p)' <=> InLine(p)
         /\ couriers'[q] = (couriers[q] \ {from}) \cup to
  <1>1. /\ \A p \in Questions \ {q} : couriers'[p] = couriers[p]
        /\ couriers'[q] = (couriers[q] \ {from}) \cup to
    BY DEF IInv, PlaceType, Becomes
  <1> QED
    BY <1>1 DEF InLine

LEMMA CourierStartsLine ==
  ASSUME IInv, LineInv, NEW q \in Questions, CourierStarts(q)
  PROVE  LineInv'
  <1>1. "scheduled" \in couriers[q] /\ UNCHANGED <<asker, future, listening>>
    BY DEF CourierStarts, surfaceVars
  <1>2. FutureType' /\ \A p \in Questions : IsPending(p)' <=> IsPending(p)
    BY <1>1 DEF LineInv, FutureType, IsPending
  <1>3. couriers[q] \cap {"queued", "restored"} = {} /\ asker[q] # "queued"
    BY <1>1 DEF IInv, InOnePlace, Places
  <1>4. ASSUME NEW to \in {{}, {"parked"}}, Becomes(q, "scheduled", to), order' = order,
               listening => shown \subseteq shown'
        PROVE  LineInv'
    <2>1. \A p \in Questions \ {q} : InLine(p)' <=> InLine(p)
      BY <1>1, <1>4, OtherCouriersStay
    <2>2. couriers'[q] = (couriers[q] \ {"scheduled"}) \cup to
      BY <1>1, <1>4, OtherCouriersStay
    <2>3. InLine(q)' <=> InLine(q)
      BY <1>1, <1>4, <2>2 DEF InLine
    <2> QED
      BY <1>1, <1>2, <1>4, <2>1, <2>3, NobodyMoves
  <1>5. CASE listening /\ Enqueue(q) /\ Becomes(q, "scheduled", {"queued"})
    <2>1. /\ \A p \in Questions \ {q} : InLine(p)' <=> InLine(p)
          /\ couriers'[q] = (couriers[q] \ {"scheduled"}) \cup {"queued"}
      BY <1>1, <1>5, OtherCouriersStay
    <2>2. InLine(q)'
      BY <2>1 DEF InLine
    <2>3. q \notin ToSet(order) /\ ~Leaving(q)
      BY <1>3, NotInLine
    <2> QED
      BY <1>1, <1>5, <2>1, <2>2, <2>3, OneJoins
  <1>6. CASE ~listening /\ order' = order
             /\ Becomes(q, "scheduled", IF IsPending(q) THEN {"parked"} ELSE {})
    BY <1>4, <1>6
  <1>7. CASE /\ Display(IF order = <<>> THEN {q} ELSE {p \in {order[1]} : IsPending(p)})
             /\ Becomes(q, "scheduled", {}) /\ order' = order
    BY <1>4, <1>7 DEF Display
  <1> QED
    BY <1>5, <1>6, <1>7 DEF CourierStarts, queueVars

LEMMA CourierWakesLine ==
  ASSUME IInv, LineInv, NEW q \in Questions, CourierWakes(q)
  PROVE  LineInv'
  <1>1. ~IsPending(q) /\ UNCHANGED <<asker, future, listening>>
    BY DEF CourierWakes, surfaceVars
  <1>2. FutureType' /\ \A p \in Questions : IsPending(p)' <=> IsPending(p)
    BY <1>1 DEF LineInv, FutureType, IsPending
  <1>3. CASE Becomes(q, "queued", {}) /\ Leave(q)
    BY <1>1, <1>3, OtherCouriersStay, OneLeaves
  <1>4. CASE Becomes(q, "parked", {}) /\ UNCHANGED <<order, shown>>
    <2>1. /\ \A p \in Questions \ {q} : InLine(p)' <=> InLine(p)
          /\ couriers'[q] = (couriers[q] \ {"parked"}) \cup {}
      BY <1>1, <1>4, OtherCouriersStay
    <2>2. InLine(q)' <=> InLine(q)
      BY <1>1, <2>1 DEF InLine
    <2> QED
      BY <1>1, <1>2, <1>4, <2>1, <2>2, NobodyMoves
  <1> QED
    BY <1>3, <1>4 DEF CourierWakes

LEMMA RestoreStartsLine ==
  ASSUME IInv, LineInv, NEW q \in Questions, RestoreStarts(q)
  PROVE  LineInv'
  <1>1. "restoring" \in couriers[q] /\ UNCHANGED <<asker, future, listening>>
    BY DEF RestoreStarts, surfaceVars
  <1>2. FutureType' /\ \A p \in Questions : IsPending(p)' <=> IsPending(p)
    BY <1>1 DEF LineInv, FutureType, IsPending
  <1>3. couriers[q] \cap {"queued", "restored"} = {} /\ asker[q] # "queued"
    BY <1>1 DEF IInv, InOnePlace, Places
  <1>4. CASE ~listening /\ Becomes(q, "restoring", {}) /\ UNCHANGED <<order, shown>>
    <2>1. /\ \A p \in Questions \ {q} : InLine(p)' <=> InLine(p)
          /\ couriers'[q] = (couriers[q] \ {"restoring"}) \cup {}
      BY <1>1, <1>4, OtherCouriersStay
    <2>2. InLine(q)' <=> InLine(q)
      BY <1>1, <2>1 DEF InLine
    <2> QED
      BY <1>1, <1>2, <1>4, <2>1, <2>2, NobodyMoves
  <1>5. CASE listening /\ Becomes(q, "restoring", {"restored"}) /\ Enqueue(q)
    <2>1. /\ \A p \in Questions \ {q} : InLine(p)' <=> InLine(p)
          /\ couriers'[q] = (couriers[q] \ {"restoring"}) \cup {"restored"}
      BY <1>1, <1>5, OtherCouriersStay
    <2>2. InLine(q)'
      BY <2>1 DEF InLine
    <2>3. q \notin ToSet(order) /\ ~Leaving(q)
      BY <1>3, NotInLine
    <2> QED
      BY <1>1, <1>5, <2>1, <2>2, <2>3, OneJoins
  <1> QED
    BY <1>4, <1>5 DEF RestoreStarts

LEMMA RestoredWakesLine ==
  ASSUME IInv, LineInv, NEW q \in Questions, RestoredWakes(q)
  PROVE  LineInv'
  <1>1. /\ ~IsPending(q) /\ Becomes(q, "restored", {}) /\ Leave(q)
        /\ UNCHANGED <<asker, future, listening>>
    BY DEF RestoredWakes, surfaceVars
  <1> QED
    BY <1>1, OtherCouriersStay, OneLeaves

\* Futures end, where they were pending.
LEMMA FuturesEnd ==
  ASSUME LineInv, NEW outcome \in {"answered", "refused", "cancelled"}, NEW S,
         future' = [q \in Questions |-> IF q \in S /\ IsPending(q) THEN outcome ELSE future[q]]
  PROVE  FutureType' /\ \A q \in Questions : IsPending(q)' => IsPending(q)
  BY DEF LineInv, FutureType, IsPending

LEMMA CancelLine ==
  ASSUME IInv, LineInv, NEW qs, Cancel(qs)
  PROVE  LineInv'
  <1>1. /\ UNCHANGED <<couriers, listening, order, shown>>
        /\ asker' = [q \in Questions |->
                       IF q \in qs /\ asker[q] = "bus" THEN "ended" ELSE asker[q]]
    BY DEF Cancel, surfaceVars, queueVars
  <1>2. FutureType' /\ \A q \in Questions : IsPending(q)' => IsPending(q)
    BY FuturesEnd DEF Cancel, Cancelled
  <1>3. \A q \in Questions : InLine(q)' <=> InLine(q)
    BY <1>1 DEF InLine
  <1> QED
    BY <1>1, <1>2, <1>3, NobodyMoves

LEMMA QuiesceLine ==
  ASSUME IInv, LineInv, Quiesce
  PROVE  LineInv'
  <1>1. /\ UNCHANGED <<asker, listening, order, shown>>
        /\ couriers' = [q \in Questions |-> couriers[q] \ {"scheduled"}]
    BY DEF Quiesce, surfaceVars, queueVars
  <1>2. FutureType' /\ \A q \in Questions : IsPending(q)' => IsPending(q)
    BY FuturesEnd DEF Quiesce, Cancelled
  <1>3. \A q \in Questions : InLine(q)' <=> InLine(q)
    BY <1>1 DEF InLine
  <1> QED
    BY <1>1, <1>2, <1>3, NobodyMoves

LEMMA ResetLine ==
  ASSUME IInv, LineInv, Reset
  PROVE  LineInv'
  <1>1. PICK s \in recoverable \cup {{}} : Restart(s) \/ Rewind(s)
    BY DEF Reset
  <1>2. /\ order' = <<>>
        /\ couriers' = [q \in Questions |-> IF q \in s THEN {"restoring"} ELSE {}]
    BY <1>1 DEF Restart, Rewind, Install
  <1>3. \A q \in Questions : asker'[q] # "queued"
    BY <1>1 DEF Restart, Rewind
  <1>4. \A q \in Questions : ~InLine(q)'
    BY <1>2, <1>3 DEF InLine
  <1>5. FutureType'
    <2>1. ASSUME NEW f \in [Questions -> {"pending", "answered", "refused", "cancelled"}],
                 future' = [q \in Questions |-> IF q \in s THEN "pending" ELSE f[q]]
          PROVE  FutureType'
      BY <2>1 DEF FutureType
    <2>2. CASE Restart(s)
      BY <2>1, <2>2 DEF Restart, Install, LineInv, FutureType
    <2>3. CASE Rewind(s)
      <3> DEFINE S == {q \in Questions : asker[q] = "queued"}
                        \cup {q \in Questions :
                                asker[q] = "parked" /\ (q \in stalled \/ ~IsPending(q))}
      <3>1. Cancelled(S) \in [Questions -> {"pending", "answered", "refused", "cancelled"}]
        <4> HIDE DEF S
        <4> QED
          BY DEF LineInv, FutureType, Cancelled
      <3>2. future' = [q \in Questions |-> IF q \in s THEN "pending" ELSE Cancelled(S)[q]]
        BY <2>3, Zenon DEF Rewind, Install
      <3> HIDE DEF S
      <3> QED
        BY <2>1, <3>1, <3>2
    <2> QED
      BY <1>1, <2>2, <2>3
  <1> QED
    BY <1>2, <1>4, <1>5, NobodyStands

LEMMA NextLine ==
  ASSUME IInv, LineInv, [Next]_vars
  PROVE  LineInv'
  <1>1. ASSUME UNCHANGED <<asker, couriers, future, order>>,
               listening' => listening /\ shown \subseteq shown'
        PROVE  LineInv'
    <2>1. FutureType' /\ \A q \in Questions : IsPending(q)' => IsPending(q)
      BY <1>1 DEF LineInv, FutureType, IsPending
    <2>2. \A q \in Questions : InLine(q)' <=> InLine(q)
      BY <1>1 DEF InLine
    <2> QED
      BY <1>1, <2>1, <2>2, NobodyMoves
  <1>2. CASE UNCHANGED vars \/ Persist \/ Detach
    BY <1>1, <1>2 DEF vars, Persist, Detach, surfaceVars, taskVars, queueVars
  <1>3. CASE FailClose
    <2>1. FutureType' /\ \A q \in Questions : IsPending(q)' => IsPending(q)
      BY <1>3, FuturesEnd DEF FailClose
    <2>2. UNCHANGED <<asker, couriers, order, listening, shown>>
      BY <1>3 DEF FailClose, taskVars, queueVars
    <2>3. \A q \in Questions : InLine(q)' <=> InLine(q)
      BY <2>2 DEF InLine
    <2> QED
      BY <2>1, <2>2, <2>3, NobodyMoves
  <1>4. CASE CancelTurn
    BY <1>4, CancelLine DEF CancelTurn
  <1>5. ASSUME NEW q \in Questions, Open(q) \/ WakeParked(q)
        PROVE  LineInv'
    <2>1. UNCHANGED <<couriers, future, order, listening, shown>>
      BY <1>5 DEF Open, WakeParked, surfaceVars, queueVars
    <2>2. \A p \in Questions : asker'[p] = "queued" <=> asker[p] = "queued"
      BY <1>5 DEF Open, WakeParked, IInv, PlaceType
    <2>3. FutureType' /\ \A p \in Questions : IsPending(p)' => IsPending(p)
      BY <2>1 DEF LineInv, FutureType, IsPending
    <2>4. \A p \in Questions : InLine(p)' <=> InLine(p)
      BY <2>1, <2>2 DEF InLine
    <2> QED
      BY <2>1, <2>3, <2>4, NobodyMoves
  <1>6. ASSUME NEW q \in Questions, CancelAsker(q)
        PROVE  LineInv'
    BY <1>6, CancelLine DEF CancelAsker
  <1>7. ASSUME NEW q \in Questions, Discard(q)
        PROVE  LineInv'
    <2>1. UNCHANGED <<asker, couriers, order, listening, shown>>
      BY <1>7 DEF Discard, surfaceVars, taskVars
    <2>2. FutureType' /\ \A p \in Questions : IsPending(p)' => IsPending(p)
      BY <1>7 DEF Discard, LineInv, FutureType, IsPending
    <2>3. \A p \in Questions : InLine(p)' <=> InLine(p)
      BY <2>1 DEF InLine
    <2> QED
      BY <2>1, <2>2, <2>3, NobodyMoves
  <1>8. ASSUME NEW q \in Questions, Claim(q)
        PROVE  LineInv'
    <2>1. UNCHANGED <<asker, future, order, listening, shown>>
      BY <1>8 DEF Claim, surfaceVars
    <2>2. \A p \in Questions :
            couriers'[p] \cap {"queued", "restored"} = couriers[p] \cap {"queued", "restored"}
      BY <1>8 DEF Claim, IInv, PlaceType
    <2>3. FutureType' /\ \A p \in Questions : IsPending(p)' => IsPending(p)
      BY <2>1 DEF LineInv, FutureType, IsPending
    <2>4. \A p \in Questions : InLine(p)' <=> InLine(p)
      BY <2>1, <2>2 DEF InLine
    <2> QED
      BY <2>1, <2>3, <2>4, NobodyMoves
  <1> QED
    BY <1>2, <1>3, <1>4, <1>5, <1>6, <1>7, <1>8, AttachLine, LookAtHeadLine, AnswerLine,
       DeliverLine, WakeLine, CourierStartsLine, CourierWakesLine, RestoreStartsLine,
       RestoredWakesLine, QuiesceLine, ResetLine DEF Next

----------------------------------------------------------------------------
(* Where the question of a parked asker is.                                *)

Kept(p) ==
  asker[p] = "parked" =>
    /\ IsPending(p) => p \in stalled \/ couriers[p] \cap {"scheduled", "queued"} # {}
    /\ couriers[p] \cap {"restoring", "restored"} = {}

\* A step brings nobody to park, and leaves a question where it was, unless it
\* is over.
Stay(p) ==
  /\ asker'[p] = "parked" => asker[p] = "parked"
  /\ IsPending(p)' => IsPending(p)
  /\ p \in stalled => p \in stalled'
  /\ couriers'[p] = couriers[p]

LEMMA EachIsKept ==
  ASSUME ParkedIsKept, dropped \subseteq dropped',
         \A p \in Questions \ dropped' : Stay(p) \/ Kept(p)'
  PROVE  ParkedIsKept'
  <1> SUFFICES ASSUME NEW p \in Questions, p \notin dropped' PROVE Kept(p)'
    BY DEF ParkedIsKept, Kept
  <1>1. Kept(p)
    BY DEF ParkedIsKept, Kept
  <1>2. CASE Stay(p)
    BY <1>1, <1>2 DEF Stay, Kept
  <1> QED
    BY <1>2

LEMMA NextKept ==
  ASSUME IInv, LineInv, ParkedIsKept, [Next]_vars
  PROVE  ParkedIsKept'
  <1>1. ASSUME UNCHANGED <<asker, couriers, stalled, dropped>>,
               \A p \in Questions : IsPending(p)' => IsPending(p)
        PROVE  ParkedIsKept'
    BY <1>1, EachIsKept DEF Stay
  <1>2. CASE UNCHANGED vars \/ Attach \/ Detach \/ LookAtHead \/ Persist
    BY <1>1, <1>2 DEF vars, Attach, Detach, LookAtHead, Persist, surfaceVars, taskVars,
                      queueVars, historyVars, IsPending
  <1>3. CASE FailClose
    <2>1. \A p \in Questions : IsPending(p)' => IsPending(p)
      BY <1>3, FuturesEnd DEF FailClose
    <2> QED
      BY <1>1, <1>3, <2>1 DEF FailClose, taskVars, queueVars, historyVars
  <1>4. ASSUME NEW q \in Questions, Answer(q)
        PROVE  ParkedIsKept'
    <2>1. \A p \in Questions : IsPending(p)' => IsPending(p)
      BY <1>4 DEF Answer, LineInv, FutureType, IsPending
    <2> QED
      BY <1>1, <1>4, <2>1 DEF Answer, taskVars, historyVars
  <1>5. ASSUME NEW qs, Cancel(qs)
        PROVE  ParkedIsKept'
    <2>1. \A p \in Questions : IsPending(p)' => IsPending(p)
      BY <1>5, FuturesEnd DEF Cancel, Cancelled
    <2>2. \A p \in Questions : Stay(p)
      BY <1>5, <2>1 DEF Cancel, queueVars, Stay
    <2> QED
      BY <1>5, <2>2, EachIsKept DEF Cancel, historyVars
  <1>6. CASE Quiesce
    <2>1. \A p \in Questions : IsPending(p)' => IsPending(p)
      BY <1>6, FuturesEnd DEF Quiesce, Cancelled
    <2>2. \A p \in Questions \ dropped' : couriers'[p] = couriers[p]
      BY <1>6 DEF Quiesce
    <2>3. \A p \in Questions \ dropped' : Stay(p)
      BY <1>6, <2>1, <2>2 DEF Quiesce, queueVars, Stay
    <2> QED
      BY <1>6, <2>3, EachIsKept DEF Quiesce
  <1>7. CASE Reset
    <2>1. PICK s \in recoverable \cup {{}} : Restart(s) \/ Rewind(s)
      BY <1>7 DEF Reset
    <2>2. CASE Restart(s)
      BY <2>2 DEF Restart, ParkedIsKept
    <2>3. CASE Rewind(s)
      <3>1. ASSUME NEW p \in Questions, p \notin dropped, asker'[p] = "parked"
            PROVE  FALSE
        <4>1. asker[p] = "parked" /\ p \notin stalled /\ IsPending(p) /\ ~Claimed(p)
          BY <2>3, <3>1 DEF Rewind
        <4> QED
          BY <3>1, <4>1 DEF ParkedIsKept, Claimed
      <3>2. dropped' = dropped
        BY <2>3 DEF Rewind
      <3> QED
        BY <3>1, <3>2 DEF ParkedIsKept
    <2> QED
      BY <2>1, <2>2, <2>3
  <1>8. ASSUME NEW q \in Questions, dropped' = dropped,
               \A p \in Questions \ {q} : Stay(p),
               q \notin dropped => Kept(q)'
        PROVE  ParkedIsKept'
    BY <1>8, EachIsKept
  <1>9. ASSUME NEW q \in Questions,
               Open(q) \/ Wake(q) \/ WakeParked(q)
        PROVE  ParkedIsKept'
    <2>1. /\ UNCHANGED <<couriers, future, stalled, dropped>> /\ asker'[q] # "parked"
          /\ \A p \in Questions \ {q} : asker'[p] = asker[p]
      BY <1>9 DEF Open, Wake, WakeParked, IInv, PlaceType, queueVars, historyVars
    <2> QED
      BY <1>8, <2>1 DEF Stay, Kept, IsPending
  <1>10. ASSUME NEW q \in Questions, Deliver(q)
         PROVE  ParkedIsKept'
    <2>1. /\ UNCHANGED <<couriers, future, dropped>>
          /\ \A p \in Questions \ {q} : asker'[p] = asker[p] /\ (p \in stalled => p \in stalled')
          /\ asker'[q] = "parked" => q \in stalled'
      BY <1>10 DEF Deliver, Park, IInv, PlaceType, queueVars, historyVars
    <2>2. couriers[q] \cap {"restoring", "restored"} = {}
      BY <1>10 DEF Deliver, IInv, InOnePlace, Places
    <2> QED
      BY <1>8, <2>1, <2>2 DEF Stay, Kept, IsPending
  <1>11. ASSUME NEW q \in Questions, Discard(q)
         PROVE  ParkedIsKept'
    <2>1. /\ UNCHANGED <<asker, couriers, dropped>> /\ q \in stalled
          /\ \A p \in Questions \ {q} : p \in stalled => p \in stalled'
          /\ \A p \in Questions \ {q} : IsPending(p)' => IsPending(p)
          /\ ~IsPending(q)'
      BY <1>11 DEF Discard, taskVars, historyVars, LineInv, FutureType, IsPending
    <2>2. couriers[q] \cap {"restoring", "restored"} = {}
      BY <2>1 DEF IInv, InOnePlace, Places
    <2> QED
      BY <1>8, <2>1, <2>2 DEF Stay, Kept
  <1>12. ASSUME NEW q \in Questions, Claim(q)
         PROVE  ParkedIsKept'
    <2>1. /\ UNCHANGED <<asker, future, dropped>> /\ q \in stalled
          /\ \A p \in Questions \ {q} : p \in stalled => p \in stalled'
          /\ \A p \in Questions \ {q} : couriers'[p] = couriers[p]
          /\ couriers'[q] = couriers[q] \cup {"scheduled"}
      BY <1>12 DEF Claim, historyVars, IInv, PlaceType
    <2>2. couriers[q] \cap {"restoring", "restored"} = {}
      BY <2>1 DEF IInv, InOnePlace, Places
    <2> QED
      BY <1>8, <2>1, <2>2 DEF Stay, Kept, IsPending
  <1>13. ASSUME NEW q \in Questions, CourierStarts(q)
         PROVE  ParkedIsKept'
    <2>1. /\ UNCHANGED <<asker, future, dropped>> /\ "scheduled" \in couriers[q]
          /\ \A p \in Questions \ {q} : p \in stalled => p \in stalled'
          /\ \A p \in Questions \ {q} : couriers'[p] = couriers[p]
      BY <1>13 DEF CourierStarts, Park, Becomes, historyVars, queueVars, IInv, PlaceType
    <2>2. couriers'[q] \subseteq couriers[q] \cup {"queued", "parked"}
      BY <1>13 DEF CourierStarts, Becomes, IInv, PlaceType
    <2>3. IsPending(q) => q \in stalled' \/ "queued" \in couriers'[q]
      BY <1>13 DEF CourierStarts, Park, Becomes, IInv, PlaceType
    <2>4. couriers[q] \cap {"restoring", "restored"} = {}
      BY <2>1 DEF IInv, InOnePlace, Places
    <2> QED
      BY <1>8, <2>1, <2>2, <2>3, <2>4 DEF Stay, Kept, IsPending
  <1>14. ASSUME NEW q \in Questions, CourierWakes(q)
         PROVE  ParkedIsKept'
    <2>1. /\ UNCHANGED <<asker, future, stalled, dropped>> /\ ~IsPending(q)
          /\ \A p \in Questions \ {q} : couriers'[p] = couriers[p]
          /\ couriers'[q] \subseteq couriers[q]
      BY <1>14 DEF CourierWakes, Becomes, historyVars, IInv, PlaceType
    <2> QED
      BY <1>8, <2>1 DEF Stay, Kept, ParkedIsKept, IsPending
  <1>15. ASSUME NEW q \in Questions, RestoreStarts(q) \/ RestoredWakes(q)
         PROVE  ParkedIsKept'
    <2>1. /\ UNCHANGED <<asker, future, stalled, dropped>>
          /\ couriers[q] \cap {"restoring", "restored"} # {}
          /\ \A p \in Questions \ {q} : couriers'[p] = couriers[p]
      BY <1>15 DEF RestoreStarts, RestoredWakes, Becomes, historyVars, IInv, PlaceType
    <2> QED
      BY <1>8, <2>1 DEF Stay, Kept, ParkedIsKept, IsPending
  <1> QED
    BY <1>2, <1>3, <1>4, <1>5, <1>6, <1>7, <1>9, <1>10, <1>11, <1>12, <1>13, <1>14, <1>15
    DEF Next, CancelTurn, CancelAsker

----------------------------------------------------------------------------
(* The theorems about the line.                                            *)

LEMMA LineInductive == Spec => [](LineInv /\ ParkedIsKept)
  <1>1. IInv /\ (LineInv /\ ParkedIsKept) /\ [Next]_vars => (LineInv /\ ParkedIsKept)'
    BY NextLine, NextKept
  <1> QED
    BY <1>1, InitLine, Inductive, PTL DEF Spec

LEMMA ShownFromLine ==
  ASSUME LineInv
  PROVE  HeadIsShown
  <1> SUFFICES ASSUME listening, SelectInSeq(order, IsPending) # 0
               PROVE  \/ order[SelectInSeq(order, IsPending)] \in shown
                      \/ \E q \in Questions : Leaving(q)
    BY Zenon DEF HeadIsShown
  <1> DEFINE i == SelectInSeq(order, IsPending)
  <1>1. /\ i \in 1..Len(order) /\ IsPending(order[i])
        /\ \A j \in 1..Len(order) : IsPending(order[j]) => i <= j
    BY FirstPending DEF LineInv
  <1>2. i # 0
    OBVIOUS
  <1> HIDE DEF i
  <1>3. order # <<>> /\ Len(order) \in Nat /\ 1 \in 1..Len(order)
    BY <1>1 DEF LineInv, LineType
  <1>4. order[1] \in ToSet(order) /\ order[1] \in Questions
    BY <1>3, HeadIsInLine DEF LineInv
  <1>5. ASSUME ~IsPending(order[1]) PROVE Leaving(order[1])
    BY <1>4, <1>5 DEF LineInv, LineIsHeld, InLine, Leaving
  <1>6. ASSUME IsPending(order[1])
        PROVE  order[i] \in shown \/ \E q \in Questions : Leaving(q)
    <2>1. i = 1
      BY <1>1, <1>3, <1>6
    <2> QED
      BY <1>3, <1>6, <2>1 DEF LineInv, HeadSeen
  <1>7. order[i] \in shown \/ \E q \in Questions : Leaving(q)
    BY <1>4, <1>5, <1>6
  <1> QED
    BY <1>7, Zenon DEF i

\* Somebody who listens sees the next question that waits for an answer, or a
\* task is about to wake and announce it (_maybe_announce_next): no refusal,
\* cancellation, eviction, claim, restart or rewind leaves a prompt waiting
\* that nobody was shown.
THEOREM TheNextIsShown == Spec => []HeadIsShown
  BY LineInductive, ShownFromLine, PTL

\* Code that waits for an answer can get one: its question is in the queue, or
\* stalled where it can be claimed or discarded, or on its way from there -
\* except one whose claim await_quiescent cancelled before it ran.
THEOREM NobodyWaitsInVain == Spec => []NoQuestionIsLost
  <1>1. LineInv /\ ParkedIsKept => NoQuestionIsLost
    <2> SUFFICES ASSUME LineInv, ParkedIsKept,
                        NEW q \in Questions, q \notin dropped, Waits(q), IsPending(q)
                 PROVE  q \in ToSet(order) \cup stalled \/ "scheduled" \in couriers[q]
      BY DEF NoQuestionIsLost
    <2>1. InLine(q) => q \in ToSet(order)
      BY DEF LineInv, LineIsHeld
    <2>2. asker[q] = "queued" \/ asker[q] = "parked"
      BY DEF Waits
    <2>3. asker[q] = "queued" => InLine(q)
      BY DEF InLine
    <2>4. asker[q] = "parked" => q \in stalled \/ "scheduled" \in couriers[q] \/ InLine(q)
      BY DEF ParkedIsKept, InLine
    <2> QED
      BY <2>1, <2>2, <2>3, <2>4
  <1> QED
    BY <1>1, LineInductive, PTL

----------------------------------------------------------------------------
(* Background tasks.  What is promised of them is said in TaskPromises,    *)
(* which this module extends; how it is kept, in TaskHandles.  Where       *)
(* Interventions has a name of TaskHandles, its own is another.            *)

CONSTANTS TaskMixes, NOTASK, TaskMaxLag, TaskMaxResets

VARIABLES mode, kind, taskRecoverable, running, taskResets

T == INSTANCE TaskHandles
       WITH Mixes <- TaskMixes, MaxLag <- TaskMaxLag, MaxResets <- TaskMaxResets,
            recoverable <- taskRecoverable, resets <- taskResets

\* T is about the promises of TaskPromises.
LEMMA SamePromises ==
  /\ T!MemoryIsJournal <=> MemoryIsJournal
  /\ T!WatchIsForPending <=> WatchIsForPending
  /\ T!NeverForgotten <=> NeverForgotten
  BY DEF T!MemoryIsJournal, MemoryIsJournal, T!WatchIsForPending, WatchIsForPending,
         T!NeverForgotten, NeverForgotten, T!Knows, Knows, T!Delivering, Delivering

\* A turn that settles its task has told of it.
SettlingIsTold == stage = "settling" => turn.task \in told

\* The inductive invariant of TaskHandles.
TaskIInv ==
  /\ T!TypeOK
  /\ T!MemoryIsJournal
  /\ T!WatchIsForPending
  /\ SettlingIsTold
  /\ T!NeverForgotten

----------------------------------------------------------------------------
(* The snapshot's operations.                                              *)

\* Putting and consuming a message, registering and resolving a handle leave
\* a snapshot.
LEMMA SnapshotType ==
  ASSUME NEW s \in T!Snapshots, NEW m \in T!Message, NEW t \in Tasks
  PROVE  /\ T!Put(s, m) \in T!Snapshots /\ T!Consumed(s, m) \in T!Snapshots
         /\ T!Pending(s, t) \in T!Snapshots /\ T!Resolved(s, t) \in T!Snapshots
  BY DEF T!Snapshots, T!Put, T!Consumed, T!Pending, T!Resolved

\* What each does to the two fields.
LEMMA SnapshotFields ==
  ASSUME NEW s \in T!Snapshots, NEW m, NEW t
  PROVE  /\ T!Put(s, m).inbox = s.inbox \cup {m} /\ T!Put(s, m).handles = s.handles
         /\ T!Consumed(s, m).inbox = s.inbox \ {m} /\ T!Consumed(s, m).handles = s.handles
         /\ T!Pending(s, t).handles = s.handles \cup {t} /\ T!Pending(s, t).inbox = s.inbox
         /\ T!Resolved(s, t).handles = s.handles \ {t} /\ T!Resolved(s, t).inbox = s.inbox
  BY DEF T!Snapshots, T!Put, T!Consumed, T!Pending, T!Resolved

\* The three messages about a task.
LEMMA MessageType ==
  ASSUME NEW t \in Tasks
  PROVE  /\ T!AReply(t) \in T!Message /\ T!AResult(t) \in T!Message
         /\ T!AnError(t) \in T!Message
         /\ T!AReply(t).task = t /\ T!AResult(t).task = t /\ T!AnError(t).task = t
  BY DEF T!AReply, T!AResult, T!AnError, T!Message

\* What settling, posting a result and firing do to the snapshot.
LEMMA SettleFields ==
  ASSUME snapshot \in T!Snapshots, NEW t, T!Settle(t)
  PROVE  snapshot'.handles = snapshot.handles \ {t} /\ snapshot'.inbox = snapshot.inbox
  BY SnapshotFields DEF T!Settle, T!Journal

LEMMA PostFields ==
  ASSUME snapshot \in T!Snapshots, NEW t \in Tasks, T!PostResult(t)
  PROVE  /\ snapshot'.handles = snapshot.handles \ {t}
         /\ snapshot'.inbox = snapshot.inbox \cup {T!AResult(t)}
  <1> DEFINE posted == T!Put(snapshot, T!AResult(t))
  <1>1. posted \in T!Snapshots
    BY SnapshotType, MessageType
  <1>2. /\ posted.handles = snapshot.handles
        /\ posted.inbox = snapshot.inbox \cup {T!AResult(t)}
    BY SnapshotFields
  <1>3. snapshot' = T!Resolved(posted, t)
    BY DEF T!PostResult, T!JournalBoth
  <1> HIDE DEF posted
  <1>4. /\ T!Resolved(posted, t).handles = posted.handles \ {t}
        /\ T!Resolved(posted, t).inbox = posted.inbox
    BY <1>1, SnapshotFields
  <1> QED
    BY <1>2, <1>3, <1>4

LEMMA FireFields ==
  ASSUME snapshot \in T!Snapshots, NEW t \in Tasks, T!Fire(t)
  PROVE  /\ snapshot'.handles = snapshot.handles \ {t}
         /\ snapshot'.inbox = snapshot.inbox \cup {T!AnError(t)}
  <1> DEFINE fired == T!Resolved(snapshot, t)
  <1>1. fired \in T!Snapshots
    BY SnapshotType, MessageType
  <1>2. fired.handles = snapshot.handles \ {t} /\ fired.inbox = snapshot.inbox
    BY SnapshotFields
  <1>3. snapshot' = T!Put(fired, T!AnError(t))
    BY DEF T!Fire, T!JournalBoth
  <1> HIDE DEF fired
  <1>4. /\ T!Put(fired, T!AnError(t)).inbox = fired.inbox \cup {T!AnError(t)}
        /\ T!Put(fired, T!AnError(t)).handles = fired.handles
    BY <1>1, SnapshotFields
  <1> QED
    BY <1>2, <1>3, <1>4

LEMMA EmptySnapshot == T!Empty \in T!Snapshots
  BY DEF T!Empty, T!Snapshots

----------------------------------------------------------------------------
(* Type correctness.                                                       *)

LEMMA TasksInitType ==
  ASSUME T!TaskAssumption
  PROVE  T!Init => T!TypeOK
  BY EmptySnapshot, T!TaskAssumption
  DEF T!Init, T!TypeOK, T!Unwatched, T!Nothing, T!Kinds

\* Type correctness of a journal call.
LEMMA JournalType ==
  ASSUME T!TypeOK, NEW s \in T!Snapshots, T!Journal(s)
  PROVE  snapshot' \in T!Snapshots /\ taskRecoverable' \subseteq T!Snapshots
  BY DEF T!TypeOK, T!Journal

LEMMA JournalBothType ==
  ASSUME T!TypeOK, NEW r \in T!Snapshots, NEW s \in T!Snapshots, T!JournalBoth(r, s)
  PROVE  snapshot' \in T!Snapshots /\ taskRecoverable' \subseteq T!Snapshots
  BY DEF T!TypeOK, T!JournalBoth

\* Settling a task is well typed.
LEMMA SettleType ==
  ASSUME T!TypeOK, NEW t \in Tasks, T!Settle(t)
  PROVE  /\ handles' \subseteq Tasks
         /\ watch' \in [Tasks -> {"off", "armed", "asking"}]
         /\ snapshot' \in T!Snapshots /\ taskRecoverable' \subseteq T!Snapshots
  <1>1. T!Resolved(snapshot, t) \in T!Snapshots
    BY DEF T!TypeOK, T!Snapshots, T!Resolved
  <1>2. snapshot' \in T!Snapshots /\ taskRecoverable' \subseteq T!Snapshots
    BY <1>1, JournalType DEF T!Settle
  <1> QED
    BY <1>2 DEF T!TypeOK, T!Settle

\* The recovered snapshot is a snapshot, and knows what it was made from.
LEMMA RestoredType ==
  ASSUME NEW s \in T!Snapshots
  PROVE  /\ T!Restored(s) \in T!Snapshots
         /\ \A t \in Tasks : T!Knows(s, t) => T!Knows(T!Restored(s), t)
  BY EmptySnapshot DEF T!Restored, T!Empty, T!Knows, T!Snapshots

\* Type correctness of a restart's or rewind's parts.
LEMMA InstallType ==
  ASSUME NEW s \in T!Snapshots, T!Install(s)
  PROVE  /\ handles' \subseteq Tasks
         /\ watch' \in [Tasks -> {"off", "armed", "asking"}]
         /\ snapshot' \in T!Snapshots /\ taskRecoverable' \subseteq T!Snapshots
  BY DEF T!Install, T!Snapshots

LEMMA AfterwardsType ==
  ASSUME T!TypeOK, NEW s, NEW again, NEW execs,
         execs \in [Tasks -> {"new", "unsent", "working", "settled", "done", "gone"}],
         T!Afterwards(s, again, execs)
  PROVE  /\ worker' \in [Tasks -> {"new", "unsent", "working", "settled", "done", "gone"}]
         /\ forgotten' \subseteq Tasks /\ taskResets' \in Nat
  BY DEF T!TypeOK, T!Afterwards

\* Every step keeps the types.
LEMMA TasksNextType == T!TypeOK /\ [T!Next]_T!vars => T!TypeOK'
  <1> SUFFICES ASSUME T!TypeOK, [T!Next]_T!vars PROVE T!TypeOK'
    OBVIOUS
  <1>1. CASE T!StartWork
    BY <1>1 DEF T!TypeOK, T!StartWork, T!fixedVars, T!journalVars, T!historyVars
  <1>2. CASE T!Begin
    BY <1>2 DEF T!TypeOK, T!Begin, T!fixedVars, T!journalVars, T!historyVars, T!Message
  <1>3. CASE T!EndTurn
    <2>1. CASE stage = "settling"
      <3>1. turn.task \in Tasks
        BY <2>1 DEF T!TypeOK, T!Message
      <3>2. T!Settle(turn.task)
        BY <1>3, <2>1 DEF T!EndTurn
      <3> QED
        BY <1>3, <3>1, <3>2, SettleType DEF T!TypeOK, T!EndTurn, T!fixedVars, T!historyVars
    <2>2. CASE stage # "settling"
      BY <1>3, <2>2 DEF T!TypeOK, T!EndTurn, T!fixedVars, T!journalVars, T!historyVars
    <2> QED
      BY <2>1, <2>2
  <1>4. CASE T!CancelTurn
    BY <1>4
    DEF T!TypeOK, T!CancelTurn, T!Unwatched, T!Abandoned, T!fixedVars, T!journalVars,
        T!historyVars
  <1>5. CASE T!RouterFails
    BY <1>5
    DEF T!TypeOK, T!RouterFails, T!Unwatched, T!fixedVars, T!journalVars, T!historyVars
  <1>6. CASE T!AbortedCheckout
    BY <1>6
    DEF T!TypeOK, T!AbortedCheckout, T!Unwatched, T!fixedVars, T!journalVars, T!loopVars,
        T!historyVars
  <1>7. CASE T!Persist
    BY <1>7 DEF T!TypeOK, T!Persist, T!fixedVars, T!loopVars, T!historyVars
  <1>8. ASSUME NEW m \in T!Message, T!Take(m) PROVE T!TypeOK'
    <2>1. T!Consumed(snapshot, m) \in T!Snapshots
      BY DEF T!TypeOK, T!Snapshots, T!Consumed
    <2> QED
      BY <1>8, <2>1, JournalType DEF T!TypeOK, T!Take, T!fixedVars, T!historyVars
  <1>9. ASSUME NEW t \in Tasks, T!Register(t) PROVE T!TypeOK'
    <2>1. T!Pending(snapshot, t) \in T!Snapshots
      BY DEF T!TypeOK, T!Snapshots, T!Pending
    <2>2. snapshot' \in T!Snapshots /\ taskRecoverable' \subseteq T!Snapshots
      BY <1>9, <2>1, JournalType DEF T!Register
    <2> QED
      BY <1>9, <2>2 DEF T!TypeOK, T!Register, T!fixedVars, T!loopVars, T!historyVars
  <1>10. ASSUME NEW t \in Tasks, T!Send(t) PROVE T!TypeOK'
    BY <1>10 DEF T!TypeOK, T!Send, T!fixedVars, T!journalVars, T!loopVars, T!historyVars
  <1>11. ASSUME NEW t \in Tasks, T!Answer(t) PROVE T!TypeOK'
    <2>1. T!Put(snapshot, T!AReply(t)) \in T!Snapshots
      BY SnapshotType, MessageType DEF T!TypeOK
    <2>2. snapshot' \in T!Snapshots /\ taskRecoverable' \subseteq T!Snapshots
      BY <1>11, <2>1, JournalType DEF T!Answer
    <2> QED
      BY <1>11, <2>2 DEF T!TypeOK, T!Answer, T!fixedVars, T!historyVars
  <1>12. ASSUME NEW t \in Tasks, T!ExecEnds(t) PROVE T!TypeOK'
    BY <1>12, SettleType DEF T!TypeOK, T!ExecEnds, T!fixedVars, T!loopVars, T!historyVars
  <1>12a. ASSUME NEW t \in Tasks, T!Announce(t) PROVE T!TypeOK'
    BY <1>12a DEF T!TypeOK, T!Announce, T!fixedVars, T!journalVars, T!loopVars, T!historyVars
  <1>13. ASSUME NEW t \in Tasks, T!PostResult(t) PROVE T!TypeOK'
    <2> DEFINE posted == T!Put(snapshot, T!AResult(t))
    <2>1. posted \in T!Snapshots
      BY SnapshotType, MessageType DEF T!TypeOK
    <2>2. T!Resolved(posted, t) \in T!Snapshots
      BY <2>1, SnapshotType, MessageType
    <2>3. T!JournalBoth(posted, T!Resolved(posted, t))
      BY <1>13 DEF T!PostResult
    <2>4. snapshot' \in T!Snapshots /\ taskRecoverable' \subseteq T!Snapshots
      BY <2>1, <2>2, <2>3, JournalBothType
    <2> QED
      BY <1>13, <2>4 DEF T!TypeOK, T!PostResult, T!fixedVars, T!historyVars
  <1>14. ASSUME NEW t \in Tasks, T!Ask(t) PROVE T!TypeOK'
    BY <1>14 DEF T!TypeOK, T!Ask, T!fixedVars, T!journalVars, T!loopVars, T!historyVars
  <1>15. ASSUME NEW t \in Tasks, T!Extend(t) PROVE T!TypeOK'
    BY <1>15 DEF T!TypeOK, T!Extend, T!fixedVars, T!journalVars, T!loopVars, T!historyVars
  <1>16. ASSUME NEW t \in Tasks, T!Fire(t) PROVE T!TypeOK'
    <2> DEFINE fired == T!Resolved(snapshot, t)
    <2>1. fired \in T!Snapshots
      BY SnapshotType, MessageType DEF T!TypeOK
    <2>2. T!Put(fired, T!AnError(t)) \in T!Snapshots
      BY <2>1, SnapshotType, MessageType
    <2>3. T!JournalBoth(fired, T!Put(fired, T!AnError(t)))
      BY <1>16 DEF T!Fire
    <2>4. snapshot' \in T!Snapshots /\ taskRecoverable' \subseteq T!Snapshots
      BY <2>1, <2>2, <2>3, JournalBothType
    <2> QED
      BY <1>16, <2>4 DEF T!TypeOK, T!Fire, T!fixedVars, T!historyVars
  <1>17. ASSUME NEW s \in taskRecoverable \cup {T!Empty}, NEW again, T!Restart(s, again)
         PROVE  T!TypeOK'
    <2>1. T!Restored(s) \in T!Snapshots
      BY EmptySnapshot, RestoredType DEF T!TypeOK
    <2>2. [t \in Tasks |-> "gone"] \in [Tasks -> {"new", "unsent", "working", "settled", "done", "gone"}]
      OBVIOUS
    <2>3. /\ handles' \subseteq Tasks
          /\ watch' \in [Tasks -> {"off", "armed", "asking"}]
          /\ snapshot' \in T!Snapshots /\ taskRecoverable' \subseteq T!Snapshots
      BY <1>17, <2>1, InstallType DEF T!Restart
    <2>4. /\ worker' \in [Tasks -> {"new", "unsent", "working", "settled", "done", "gone"}]
          /\ forgotten' \subseteq Tasks /\ taskResets' \in Nat
      BY <1>17, <2>2, AfterwardsType DEF T!Restart
    <2> QED
      BY <1>17, <2>3, <2>4 DEF T!TypeOK, T!Restart, T!fixedVars
  <1>18. ASSUME NEW s \in taskRecoverable \cup {T!Empty}, NEW again, T!Rewind(s, again)
         PROVE  T!TypeOK'
    <2>1. s \in T!Snapshots
      BY EmptySnapshot DEF T!TypeOK
    <2>2. /\ handles' \subseteq Tasks
          /\ watch' \in [Tasks -> {"off", "armed", "asking"}]
          /\ snapshot' \in T!Snapshots /\ taskRecoverable' \subseteq T!Snapshots
      BY <1>18, <2>1, InstallType DEF T!Rewind
    <2>3. /\ worker' \in [Tasks -> {"new", "unsent", "working", "settled", "done", "gone"}]
          /\ forgotten' \subseteq Tasks /\ taskResets' \in Nat
      BY <1>18, AfterwardsType DEF T!Rewind, T!TypeOK
    <2> QED
      BY <1>18, <2>2, <2>3 DEF T!TypeOK, T!Rewind, T!fixedVars, T!loopVars
  <1>19. CASE UNCHANGED T!vars
    BY <1>19 DEF T!TypeOK, T!vars
  <1> QED
    BY <1>1, <1>2, <1>3, <1>4, <1>5, <1>6, <1>7, <1>8, <1>9, <1>10, <1>11, <1>12,
       <1>12a, <1>13, <1>14, <1>15, <1>16, <1>17, <1>18, <1>19 DEF T!Next, T!Reset

\* Every variable of the task handles keeps its type (TypeOK).
THEOREM TasksTypeCorrect ==
  ASSUME T!TaskAssumption
  PROVE  T!Spec => []T!TypeOK
  <1> QED
    BY TasksInitType, TasksNextType, PTL DEF T!Spec

----------------------------------------------------------------------------
(* The two copies of the handles.                                          *)

LEMMA MemoryStep == T!TypeOK /\ T!MemoryIsJournal /\ [T!Next]_T!vars => T!MemoryIsJournal'
  <1> SUFFICES ASSUME T!TypeOK, T!MemoryIsJournal, [T!Next]_T!vars PROVE T!MemoryIsJournal'
    OBVIOUS
  <1> USE DEF T!MemoryIsJournal
  <1>0. snapshot \in T!Snapshots
    BY DEF T!TypeOK
  <1>1. CASE \/ T!StartWork \/ T!Begin \/ T!CancelTurn
             \/ T!RouterFails \/ T!AbortedCheckout \/ T!Persist
    BY <1>1
    DEF T!StartWork, T!Begin, T!CancelTurn, T!RouterFails, T!AbortedCheckout, T!Persist,
                T!journalVars
  <1>2. CASE T!EndTurn
    <2>1. CASE stage = "settling"
      <3>1. T!Settle(turn.task)
        BY <1>2, <2>1 DEF T!EndTurn
      <3>2. snapshot'.handles = snapshot.handles \ {turn.task}
        BY <1>0, <3>1, SettleFields
      <3> QED
        BY <3>1, <3>2 DEF T!Settle
    <2>2. CASE stage # "settling"
      BY <1>2, <2>2 DEF T!EndTurn, T!journalVars
    <2> QED
      BY <2>1, <2>2
  <1>3. ASSUME NEW m \in T!Message, T!Take(m) PROVE T!MemoryIsJournal'
    BY <1>0, <1>3, SnapshotFields DEF T!Take, T!Journal
  <1>4. ASSUME NEW t \in Tasks, T!Register(t) PROVE T!MemoryIsJournal'
    <2>1. snapshot'.handles = snapshot.handles \cup {t}
      BY <1>0, <1>4, SnapshotFields DEF T!Register, T!Journal
    <2> QED
      BY <1>4, <2>1 DEF T!Register
  <1>5. ASSUME NEW t \in Tasks, T!Answer(t) PROVE T!MemoryIsJournal'
    <2>1. snapshot'.handles = snapshot.handles
      BY <1>0, <1>5, SnapshotFields DEF T!Answer, T!Journal
    <2> QED
      BY <1>5, <2>1 DEF T!Answer
  <1>6. ASSUME NEW t \in Tasks, T!ExecEnds(t) \/ T!PostResult(t) \/ T!Fire(t)
        PROVE  T!MemoryIsJournal'
    <2>1. snapshot'.handles = snapshot.handles \ {t}
      BY <1>0, <1>6, SettleFields, PostFields, FireFields DEF T!ExecEnds
    <2> QED
      BY <1>6, <2>1 DEF T!ExecEnds, T!Settle, T!PostResult, T!Fire
  <1>7. ASSUME NEW t \in Tasks, T!Send(t) \/ T!Announce(t) \/ T!Ask(t) \/ T!Extend(t)
        PROVE  T!MemoryIsJournal'
    BY <1>7 DEF T!Send, T!Announce, T!Ask, T!Extend, T!journalVars
  <1>8. ASSUME NEW s, NEW again, T!Restart(s, again) \/ T!Rewind(s, again)
        PROVE  T!MemoryIsJournal'
    BY <1>8 DEF T!Restart, T!Rewind, T!Install
  <1>9. CASE UNCHANGED T!vars
    BY <1>9 DEF T!vars
  <1> QED
    BY <1>1, <1>2, <1>3, <1>4, <1>5, <1>6, <1>7, <1>8, <1>9 DEF T!Next, T!Reset

\* The manager's own map of handles is the journal's, whatever interleaves,
\* is cancelled, crashes or is rewound (MemoryIsJournal).
THEOREM HandlesAgree ==
  ASSUME T!TaskAssumption
  PROVE  T!Spec => []MemoryIsJournal
  <1>1. T!Init => T!MemoryIsJournal
    BY DEF T!Init, T!MemoryIsJournal, T!Empty
  <1> QED
    BY <1>1, TasksInitType, TasksNextType, MemoryStep, SamePromises, PTL DEF T!Spec

----------------------------------------------------------------------------
(* Watchdogs.                                                              *)

LEMMA WatchStep == T!TypeOK /\ T!WatchIsForPending /\ [T!Next]_T!vars => T!WatchIsForPending'
  <1> SUFFICES ASSUME T!TypeOK, T!WatchIsForPending, [T!Next]_T!vars
  PROVE  T!WatchIsForPending'
    OBVIOUS
  <1> USE DEF T!WatchIsForPending, T!TypeOK
  <1>1. CASE T!StartWork \/ T!Begin \/ T!Persist
    BY <1>1 DEF T!StartWork, T!Begin, T!Persist
  <1>2. CASE T!CancelTurn \/ T!RouterFails \/ T!AbortedCheckout
    BY <1>2 DEF T!CancelTurn, T!RouterFails, T!AbortedCheckout, T!Unwatched
  <1>3. CASE T!EndTurn
    BY <1>3 DEF T!EndTurn, T!Settle
  <1>4. ASSUME NEW m \in T!Message, T!Take(m) PROVE T!WatchIsForPending'
    BY <1>4 DEF T!Take
  <1>5. ASSUME NEW t \in Tasks, T!Register(t) PROVE T!WatchIsForPending'
    BY <1>5 DEF T!Register
  <1>6. ASSUME NEW t \in Tasks, T!Send(t) \/ T!Answer(t) \/ T!Announce(t) \/ T!Ask(t)
        PROVE  T!WatchIsForPending'
    BY <1>6 DEF T!Send, T!Answer, T!Announce, T!Ask, T!journalVars
  <1>7. ASSUME NEW t \in Tasks, T!ExecEnds(t) \/ T!PostResult(t) \/ T!Fire(t)
        PROVE  T!WatchIsForPending'
    BY <1>7 DEF T!ExecEnds, T!PostResult, T!Fire, T!Settle
  <1>8. ASSUME NEW t \in Tasks, T!Extend(t) PROVE T!WatchIsForPending'
    BY <1>8 DEF T!Extend
  <1>9. ASSUME NEW s, NEW again, T!Restart(s, again) \/ T!Rewind(s, again)
        PROVE  T!WatchIsForPending'
    BY <1>9 DEF T!Restart, T!Rewind, T!Install
  <1>10. CASE UNCHANGED T!vars
    BY <1>10 DEF T!vars
  <1> QED
    BY <1>1, <1>2, <1>3, <1>4, <1>5, <1>6, <1>7, <1>8, <1>9, <1>10 DEF T!Next, T!Reset

\* A watchdog watches a pending task: whoever ends a task takes its watchdog
\* along, sleeping or asking (WatchIsForPending).
THEOREM WatchdogsEndWithTheirTask ==
  ASSUME T!TaskAssumption
  PROVE  T!Spec => []WatchIsForPending
  <1>1. T!Init => T!WatchIsForPending
    BY DEF T!Init, T!WatchIsForPending, T!Unwatched
  <1> QED
    BY <1>1, TasksInitType, TasksNextType, WatchStep, SamePromises, PTL DEF T!Spec

----------------------------------------------------------------------------
(* No task is forgotten.                                                   *)

\* A turn settles only what it has told.
LEMMA SettlingStep == T!TypeOK /\ SettlingIsTold /\ [T!Next]_T!vars => SettlingIsTold'
  <1> SUFFICES ASSUME T!TypeOK, SettlingIsTold, [T!Next]_T!vars PROVE SettlingIsTold'
    OBVIOUS
  <1> USE DEF SettlingIsTold
  <1>1. CASE T!StartWork \/ T!Begin \/ T!EndTurn \/ T!CancelTurn \/ T!RouterFails
    BY <1>1 DEF T!StartWork, T!Begin, T!EndTurn, T!CancelTurn, T!RouterFails
  <1>2. CASE T!AbortedCheckout \/ T!Persist
    BY <1>2 DEF T!AbortedCheckout, T!Persist, T!loopVars
  <1>3. ASSUME NEW m \in T!Message, T!Take(m) PROVE SettlingIsTold'
    BY <1>3 DEF T!Take
  <1>4. ASSUME NEW t \in Tasks,
               \/ T!Register(t) \/ T!Send(t) \/ T!Answer(t) \/ T!ExecEnds(t)
               \/ T!Announce(t) \/ T!PostResult(t) \/ T!Ask(t) \/ T!Extend(t) \/ T!Fire(t)
        PROVE SettlingIsTold'
    BY <1>4
    DEF T!Register, T!Send, T!Answer, T!ExecEnds, T!Announce, T!PostResult, T!Ask, T!Extend,
        T!Fire, T!loopVars
  <1>5. ASSUME NEW s, NEW again, T!Restart(s, again) \/ T!Rewind(s, again)
        PROVE  SettlingIsTold'
    BY <1>5 DEF T!Restart, T!Rewind, T!loopVars
  <1>6. CASE UNCHANGED T!vars
    BY <1>6 DEF T!vars
  <1> QED
    BY <1>1, <1>2, <1>3, <1>4, <1>5, <1>6 DEF T!Next, T!Reset

\* Where a started task is.
Accounted(t) ==
  t \in handles \/ T!Knows(snapshot, t) \/ T!Delivering(t) \/ t \in told \/ t \in forgotten

\* A restart or a rewind accounts for every task: it knows it, or the task
\* was told, or it is counted as forgotten.
LEMMA AfterwardsAccounts ==
  ASSUME T!TypeOK, NEW s \in T!Snapshots, NEW again, NEW execs, NEW t \in Tasks,
         \A u \in Tasks : worker[u] = "new" => execs[u] \in {"new", "gone"},
         T!Afterwards(s, again, execs), worker'[t] # "new", told' = told
  PROVE  T!Knows(s, t) \/ t \in told' \/ t \in forgotten'
  <1>1. CASE worker[t] # "new"
    BY <1>1 DEF T!Afterwards
  <1>2. CASE worker[t] = "new"
    BY <1>2 DEF T!Afterwards, T!TypeOK
  <1> QED
    BY <1>1, <1>2

\* Every step keeps a started task accounted for.
LEMMA AccountedStep ==
  ASSUME T!TypeOK, T!MemoryIsJournal, SettlingIsTold, T!NeverForgotten, [T!Next]_T!vars
  PROVE  T!NeverForgotten'
  <1> SUFFICES ASSUME NEW u \in Tasks, worker'[u] # "new"
               PROVE  Accounted(u)'
    BY DEF T!NeverForgotten, Accounted
  <1>0. snapshot \in T!Snapshots
    BY DEF T!TypeOK
  <1>1. worker[u] # "new" => Accounted(u)
    BY DEF T!NeverForgotten, Accounted
  <1> USE DEF Accounted
  <1>2. CASE T!StartWork
    BY <1>1, <1>2 DEF T!StartWork, T!journalVars, T!historyVars, T!Delivering
  <1>3. CASE T!Begin
    BY <1>1, <1>3 DEF T!Begin, T!journalVars, T!historyVars, T!Delivering
  <1>4. CASE T!EndTurn
    <2>1. CASE stage = "settling"
      <3>1. turn.task \in told /\ T!Settle(turn.task)
        BY <1>4, <2>1 DEF T!EndTurn, SettlingIsTold
      <3>2. /\ snapshot'.inbox = snapshot.inbox
            /\ snapshot'.handles = snapshot.handles \ {turn.task}
        BY <1>0, <3>1, SettleFields
      <3>3. /\ handles' = handles \ {turn.task}
            /\ worker' = worker /\ told' = told /\ forgotten' = forgotten
        BY <1>4, <3>1 DEF T!EndTurn, T!Settle, T!historyVars
      <3> QED
        BY <1>1, <2>1, <3>1, <3>2, <3>3 DEF T!Delivering, T!Knows
    <2>2. CASE stage # "settling"
      BY <1>1, <1>4, <2>2
    DEF T!EndTurn, T!InTurn, T!journalVars, T!historyVars, T!Delivering
    <2> QED
      BY <2>1, <2>2
  <1>5. CASE T!CancelTurn
    BY <1>1, <1>5
    DEF T!CancelTurn, T!InTurn, T!Abandoned, T!journalVars, T!historyVars, T!Delivering
  <1>6. CASE T!RouterFails
    BY <1>1, <1>6 DEF T!RouterFails, T!journalVars, T!historyVars, T!Delivering
  <1>7. CASE T!AbortedCheckout \/ T!Persist
    BY <1>1, <1>7
    DEF T!AbortedCheckout, T!Persist, T!journalVars, T!loopVars, T!historyVars, T!Delivering
  <1>8. ASSUME NEW m \in T!Message, T!Take(m) PROVE Accounted(u)'
    <2>1. /\ snapshot'.inbox = snapshot.inbox \ {m}
          /\ snapshot'.handles = snapshot.handles
      BY <1>0, <1>8, SnapshotFields DEF T!Take, T!Journal
    <2>2. T!Knows(snapshot, u) => T!Knows(snapshot, u)' \/ T!Delivering(u)'
      BY <1>8, <2>1 DEF T!Take, T!Knows, T!Delivering
    <2> QED
      BY <1>1, <1>8, <2>2 DEF T!Take, T!Delivering, T!historyVars
  <1>9. ASSUME NEW t \in Tasks, T!Register(t) PROVE Accounted(u)'
    <2>1. /\ snapshot'.inbox = snapshot.inbox
          /\ snapshot'.handles = snapshot.handles \cup {t}
      BY <1>0, <1>9, SnapshotFields DEF T!Register, T!Journal
    <2> QED
      BY <1>1, <1>9, <2>1
    DEF T!Register, T!TypeOK, T!Knows, T!Delivering, T!loopVars, T!historyVars
  <1>10. ASSUME NEW t \in Tasks, T!Send(t) PROVE Accounted(u)'
    BY <1>1, <1>10
    DEF T!Send, T!TypeOK, T!journalVars, T!loopVars, T!historyVars, T!Delivering
  <1>11. ASSUME NEW t \in Tasks, T!Answer(t) PROVE Accounted(u)'
    <2>1. /\ snapshot'.inbox = snapshot.inbox \cup {T!AReply(t)}
          /\ snapshot'.handles = snapshot.handles
      BY <1>0, <1>11, SnapshotFields DEF T!Answer, T!Journal
    <2> QED
      BY <1>1, <1>11, <2>1 DEF T!Answer, T!TypeOK, T!Knows, T!Delivering, T!historyVars
  <1>12. ASSUME NEW t \in Tasks, T!ExecEnds(t) PROVE Accounted(u)'
    <2>1. /\ snapshot'.inbox = snapshot.inbox
          /\ snapshot'.handles = snapshot.handles \ {t}
      BY <1>0, <1>12, SettleFields DEF T!ExecEnds
    <2> QED
      BY <1>1, <1>12, <2>1
      DEF T!ExecEnds, T!Settle, T!TypeOK, T!Knows, T!Delivering, T!loopVars, T!historyVars
  <1>12a. ASSUME NEW t \in Tasks, T!Announce(t) PROVE Accounted(u)'
    BY <1>1, <1>12a
    DEF T!Announce, T!TypeOK, T!Delivering, T!journalVars, T!loopVars, T!historyVars
  <1>13. ASSUME NEW t \in Tasks, T!PostResult(t) PROVE Accounted(u)'
    <2>1. /\ snapshot'.inbox = snapshot.inbox \cup {T!AResult(t)}
          /\ snapshot'.handles = snapshot.handles \ {t}
      BY <1>0, <1>13, PostFields
    <2> QED
      BY <1>1, <1>13, <2>1, MessageType
      DEF T!PostResult, T!TypeOK, T!Knows, T!Delivering, T!historyVars
  <1>14. ASSUME NEW t \in Tasks, T!Ask(t) \/ T!Extend(t) PROVE Accounted(u)'
    BY <1>1, <1>14
    DEF T!Ask, T!Extend, T!journalVars, T!loopVars, T!historyVars, T!Delivering
  <1>15. ASSUME NEW t \in Tasks, T!Fire(t) PROVE Accounted(u)'
    <2>1. /\ snapshot'.inbox = snapshot.inbox \cup {T!AnError(t)}
          /\ snapshot'.handles = snapshot.handles \ {t}
      BY <1>0, <1>15, FireFields
    <2> QED
      BY <1>1, <1>15, <2>1, MessageType
    DEF T!Fire, T!TypeOK, T!Knows, T!Delivering, T!historyVars
  <1>16. ASSUME NEW s \in taskRecoverable \cup {T!Empty}, NEW again, T!Restart(s, again)
         PROVE  Accounted(u)'
    <2>1. s \in T!Snapshots
      BY EmptySnapshot DEF T!TypeOK
    <2>2. T!Knows(s, u) \/ u \in told' \/ u \in forgotten'
      BY <1>16, <2>1, AfterwardsAccounts DEF T!Restart
    <2>3. T!Knows(s, u) => T!Knows(snapshot', u)
      BY <1>16, <2>1, RestoredType DEF T!Restart, T!Install
    <2> QED
      BY <2>2, <2>3 DEF T!Knows
  <1>17. ASSUME NEW s \in taskRecoverable \cup {T!Empty}, NEW again, T!Rewind(s, again)
         PROVE  Accounted(u)'
    <2>1. s \in T!Snapshots
      BY EmptySnapshot DEF T!TypeOK
    <2>2. T!Knows(s, u) \/ u \in told' \/ u \in forgotten'
      BY <1>17, <2>1, AfterwardsAccounts DEF T!Rewind
    <2> QED
      BY <1>17, <2>2 DEF T!Rewind, T!Install, T!Knows
  <1>18. CASE UNCHANGED T!vars
    BY <1>1, <1>18 DEF T!vars, T!Delivering
  <1> QED
    BY <1>2, <1>3, <1>4, <1>5, <1>6, <1>7, <1>8, <1>9, <1>10, <1>11, <1>12, <1>12a, <1>13,
       <1>14, <1>15, <1>16, <1>17, <1>18 DEF T!Next, T!Reset

LEMMA TasksInit ==
  ASSUME T!TaskAssumption
  PROVE  T!Init => TaskIInv
  BY TasksInitType
  DEF T!Init, TaskIInv, T!MemoryIsJournal, T!WatchIsForPending, SettlingIsTold,
      T!NeverForgotten, T!Unwatched, T!Empty

LEMMA TasksNext == TaskIInv /\ [T!Next]_T!vars => TaskIInv'
  BY TasksNextType, MemoryStep, WatchStep, SettlingStep, AccountedStep DEF TaskIInv

\* A started task is pending, or its outcome is under way or was told, or a
\* restart or rewind went back to where nothing of it is known: no cancelled
\* delivery, failing router, refused request or timeout loses one
\* (NeverForgotten).
THEOREM NoTaskIsForgotten ==
  ASSUME T!TaskAssumption
  PROVE  T!Spec => []NeverForgotten
  <1>1. TaskIInv => T!NeverForgotten
    BY DEF TaskIInv
  <1> QED
    BY <1>1, TasksInit, TasksNext, SamePromises, PTL DEF T!Spec
=============================================================================
