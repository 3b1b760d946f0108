--------------------------- MODULE RemindersProofs ---------------------------
(***************************************************************************)
(* Proofs about Reminders: types, nothing is marked that was not settled,  *)
(* and, when one request runs at a time, what repeats has its cause and a  *)
(* stopped task has no timers.                                             *)
(***************************************************************************)
EXTENDS Reminders, TLAPS

(***************************************************************************)
(* What the place of a request says of its locals.                         *)
(***************************************************************************)
\* A request that is to store a reminder has one, and any other one that
\* loads the reminders knows which to take out.
HasArguments(r) ==
    /\ op[r] \in {"create", "snooze", "allocate"} => arg[r] \in Item
    /\ pc[r] \in {"load", "save"} /\ op[r] \notin {"create", "allocate"} => target[r] # None

TypeInv == TypeOK /\ \A r \in Requests : HasArguments(r)

(***************************************************************************)
(* Type correctness.                                                       *)
(***************************************************************************)
LEMMA KeyOfItem == \A x \in Item : KeyOf(x) \in Key
  BY DEF Item, Key, KeyOf

LEMMA TypeInit == Init => TypeInv
  <1> SUFFICES ASSUME Init PROVE TypeInv
    OBVIOUS
  <1>1. 0 \in Times /\ 0 \in 0 .. MaxSnoozes /\ 0 \in 0 .. MaxSetbacks
    BY BoundsAreNatural DEF Times
  <1>2. TypeOK
    BY <1>1 DEF Init, TypeOK
  <1>3. \A r \in Requests : HasArguments(r)
    BY DEF Init, HasArguments
  <1> QED
    BY <1>2, <1>3 DEF TypeInv

\* The reminder lane keeps the types
LEMMA TypeLane ==
  ASSUME TypeInv, LaneStep \/ CycleFails
  PROVE  TypeInv'
  <1> USE DEF TypeInv
  <1>u. reqVars' = reqVars => \A r \in Requests : HasArguments(r)'
    BY DEF reqVars, HasArguments
  <1>1. CASE BeginCycle
    <2>1. TypeOK'
      BY <1>1 DEF BeginCycle, TypeOK, stored, reqVars, counts
    <2> QED
      BY <1>1, <1>u, <2>1 DEF BeginCycle
  <1>2. ASSUME NEW facts \in SUBSET FactKeys, Evaluate(facts)
        PROVE  TypeInv'
    <2>1. Due(clock, facts) \subseteq Key
      BY <1>2, KeyOfItem DEF Due, TypeOK, Key
    <2>2. TypeOK'
      BY <1>2, <2>1 DEF Evaluate, TypeOK, stored, reqVars, counts
    <2> QED
      BY <1>2, <1>u, <2>2 DEF Evaluate
  <1>3. CASE Filter
    <2>1. TypeOK'
      BY <1>3 DEF Filter, TypeOK, stored, reqVars, counts
    <2> QED
      BY <1>3, <1>u, <2>1 DEF Filter
  <1>4. ASSUME NEW k \in Key, ConsumeStale(k) \/ Send(k)
        PROVE  TypeInv'
    <2>1. [settled EXCEPT ![k] = @ + 1] \in [Key -> Nat]
      BY DEF TypeOK
    <2>2. TypeOK'
      BY <1>4, <2>1 DEF ConsumeStale, Send, First, TypeOK, stored, reqVars, counts
    <2> QED
      BY <1>4, <1>u, <2>2 DEF ConsumeStale, Send
  <1>5. CASE Mark
    <2>1. TypeOK'
      BY <1>5 DEF Mark, TypeOK, stored, reqVars, counts
    <2> QED
      BY <1>5, <1>u, <2>1 DEF Mark
  <1>6. CASE EndCycle
    <2>1. TypeOK'
      BY <1>6, BoundsAreNatural DEF EndCycle, LaneIsIdle, TypeOK, Times, stored, reqVars, counts
    <2> QED
      BY <1>6, <1>u, <2>1 DEF EndCycle
  <1>7. CASE CycleFails
    <2>1. faults' \in 0 .. MaxSetbacks
      BY <1>7, BoundsAreNatural DEF CycleFails, TypeOK
    <2>2. TypeOK'
      BY <1>7, <2>1, BoundsAreNatural
      DEF CycleFails, LaneIsIdle, TypeOK, Times, stored, reqVars
    <2> QED
      BY <1>7, <1>u, <2>2 DEF CycleFails
  <1> QED
    BY <1>1, <1>2, <1>3, <1>4, <1>5, <1>6, <1>7 DEF LaneStep

\* The requests' part of TypeInv
RequestTypes ==
    /\ pc \in [Requests -> {"idle", "list", "next", "resolve", "load", "save", "keys", "retain"}]
    /\ op \in [Requests -> {"none", "create", "snooze", "cancel", "allocate", "stop"}]
    /\ task \in [Requests -> Tasks \cup {None}]
    /\ arg \in [Requests -> Item \cup {None}]
    /\ target \in [Requests -> Ids \cup {None}]
    /\ queue \in [Requests -> SUBSET Ids]
    /\ copy \in [Requests -> SUBSET Item]
    /\ keys \in [Requests -> SUBSET Key]
    /\ \A r \in Requests : HasArguments(r)

LEMMA FinishTypes ==
  ASSUME RequestTypes, NEW r \in Requests, Finish(r)
  PROVE  RequestTypes'
  BY DEF RequestTypes, Finish, HasArguments

LEMMA BeginTypes ==
  ASSUME RequestTypes, NEW r \in Requests,
         NEW o \in {"create", "snooze", "cancel", "allocate", "stop"},
         NEW i \in Ids \cup {None}, NEW t \in Tasks \cup {None}, NEW x \in Item \cup {None},
         NEW first \in {"list", "resolve", "load"},
         o \in {"create", "snooze", "allocate"} => x \in Item,
         first = "load" => o = "create",
         Begin(r, o, i, t, x, first)
  PROVE  RequestTypes'
  BY DEF RequestTypes, Begin, HasArguments

\* A request that begins keeps the types
LEMMA TypeNewRequest ==
  ASSUME TypeInv, NEW r \in Requests, NewRequest(r)
  PROVE  TypeInv'
  <1>1. RequestTypes
    BY DEF TypeInv, TypeOK, RequestTypes
  <1>2. \A i \in Ids, w \in Times, t \in Tasks \cup {None} :
          [id |-> i, when |-> w, task |-> t] \in Item
    BY DEF Item
  <1> DEFINE Began ==
        /\ RequestTypes'
        /\ UNCHANGED <<stored, clock, laneVars, settled, faults, crashes>>
        /\ working' \in {working, None} /\ unused' \subseteq unused
        /\ snoozes' \in 0 .. MaxSnoozes
  <1>3. Began
    <2>t. snoozes \in 0 .. MaxSnoozes
      BY DEF TypeInv, TypeOK
    <2>1. ASSUME NEW i \in Ids, NEW w \in Times, Create(r, i, w)
          PROVE  Began
      <3>1. RequestTypes'
        BY <1>1, <1>2, <2>1, BeginTypes DEF Create
      <3> QED
        BY <2>t, <2>1, <3>1 DEF Create, Begin
    <2>2. ASSUME NEW i \in Ids, NEW w \in Times, Snooze(r, i, w)
          PROVE  Began
      <3>1. RequestTypes'
        BY <1>1, <1>2, <2>2, BeginTypes DEF Snooze
      <3>2. snoozes' \in 0 .. MaxSnoozes
        BY <2>t, <2>2, BoundsAreNatural DEF Snooze
      <3> QED
        BY <2>2, <3>1, <3>2 DEF Snooze, Begin
    <2>3. ASSUME NEW i \in Ids, Cancel(r, i)
          PROVE  Began
      <3>1. RequestTypes'
        BY <1>1, <2>3, BeginTypes DEF Cancel
      <3> QED
        BY <2>t, <2>3, <3>1 DEF Cancel, Begin
    <2>4. ASSUME NEW i \in Ids, NEW t \in Tasks, NEW w \in Times, Allocate(r, i, t, w)
          PROVE  Began
      <3>1. RequestTypes'
        BY <1>1, <1>2, <2>4, BeginTypes DEF Allocate
      <3> QED
        BY <2>t, <2>4, <3>1 DEF Allocate, Begin
    <2>5. ASSUME NEW t \in Tasks, Stop(r, t)
          PROVE  Began
      <3>1. RequestTypes'
        BY <1>1, <2>5, BeginTypes DEF Stop
      <3> QED
        BY <2>t, <2>5, <3>1 DEF Stop, Begin
    <2> QED
      BY <2>1, <2>2, <2>3, <2>4, <2>5 DEF NewRequest
  <1>4. TypeOK'
    BY <1>3 DEF TypeInv, TypeOK, RequestTypes, stored, laneVars
  <1> QED
    BY <1>3, <1>4 DEF TypeInv, RequestTypes

\* What a step of a request may do to the rest, and what it keeps
LEMMA TypeRequestStep ==
  ASSUME TypeInv, NEW r \in Requests, RequestStep(r)
  PROVE  TypeInv'
  <1>1. RequestTypes /\ items \subseteq Item /\ delivered \subseteq Key
    BY DEF TypeInv, TypeOK, RequestTypes
  <1>2. UNCHANGED Private
    BY DEF RequestStep, List, NextPeriod, PeriodsRemoved, Resolve, NotFound, Load, SaveNew,
           SaveSnoozed, SaveRemoved, ReadKeys, SaveKeys
  <1>3. RequestTypes' /\ items' \subseteq Item /\ delivered' \subseteq Key
    <2>1. CASE List(r)
      BY <1>1, <2>1 DEF List, RequestTypes, HasArguments, Item, stored
    <2>2. ASSUME NEW i \in Ids, NextPeriod(r, i)
          PROVE  RequestTypes' /\ items' \subseteq Item /\ delivered' \subseteq Key
      BY <1>1, <2>2 DEF NextPeriod, RequestTypes, HasArguments, stored
    <2>3. CASE PeriodsRemoved(r)
      <3>1. CASE Finish(r)
        BY <1>1, <2>3, <3>1, FinishTypes DEF PeriodsRemoved, stored
      <3>2. CASE op[r] = "allocate" /\ ~Finish(r)
        BY <1>1, <2>3, <3>2 DEF PeriodsRemoved, RequestTypes, HasArguments, stored
      <3> QED
        BY <2>3, <3>1, <3>2 DEF PeriodsRemoved
    <2>4. CASE Resolve(r)
      <3>1. PICK x \in items :
              /\ x.id = target[r]
              /\ arg' = IF op[r] = "snooze"
                           THEN [arg EXCEPT ![r] = [x EXCEPT !.when = arg[r].when]]
                           ELSE arg
        BY <2>4 DEF Resolve
      <3>2. op[r] = "snooze" => [x EXCEPT !.when = arg[r].when] \in Item
        BY <1>1 DEF RequestTypes, HasArguments, Item
      <3>3. target[r] # None
        BY <1>1, <3>1, NamesAreApart DEF Item
      <3> QED
        BY <1>1, <2>4, <3>1, <3>2, <3>3 DEF Resolve, RequestTypes, HasArguments, stored
    <2>5. CASE NotFound(r)
      BY <1>1, <2>5, FinishTypes DEF NotFound, stored
    <2>6. CASE Load(r)
      BY <1>1, <2>6 DEF Load, RequestTypes, HasArguments, stored
    <2>7. CASE SaveNew(r)
      <3>1. arg[r] \in Item
        BY <1>1, <2>7 DEF SaveNew, RequestTypes, HasArguments
      <3> QED
        BY <1>1, <2>7, <3>1, FinishTypes DEF SaveNew, RequestTypes
    <2>8. CASE SaveSnoozed(r)
      <3>1. arg[r] \in Item /\ copy[r] \subseteq Item
        BY <1>1, <2>8 DEF SaveSnoozed, RequestTypes, HasArguments
      <3>2. items' \subseteq Item /\ delivered' = delivered
        BY <2>8, <3>1 DEF SaveSnoozed
      <3>3. RequestTypes'
        BY <1>1, <2>8 DEF SaveSnoozed, RequestTypes, HasArguments
      <3> QED
        BY <1>1, <3>2, <3>3
    <2>9. CASE SaveRemoved(r)
      <3>1. items' \subseteq Item /\ delivered' = delivered
        BY <1>1, <2>9 DEF SaveRemoved, RequestTypes
      <3>2. CASE Finish(r)
        BY <1>1, <3>1, <3>2, FinishTypes
      <3>3. CASE ~Finish(r)
        BY <1>1, <2>9, <3>1, <3>3 DEF SaveRemoved, RequestTypes, HasArguments
      <3> QED
        BY <3>2, <3>3
    <2>10. CASE ReadKeys(r)
      <3>1. CASE Finish(r)
        BY <1>1, <2>10, <3>1, FinishTypes DEF ReadKeys, stored
      <3>2. CASE ~Finish(r)
        BY <1>1, <2>10, <3>2 DEF ReadKeys, RequestTypes, HasArguments, stored
      <3> QED
        BY <3>1, <3>2
    <2>11. CASE SaveKeys(r)
      BY <1>1, <2>11, FinishTypes DEF SaveKeys, RequestTypes
    <2> QED
      BY <2>1, <2>2, <2>3, <2>4, <2>5, <2>6, <2>7, <2>8, <2>9, <2>10, <2>11 DEF RequestStep
  <1>4. TypeOK'
    BY <1>2, <1>3 DEF TypeInv, TypeOK, RequestTypes, Private, laneVars, counts
  <1> QED
    BY <1>3, <1>4 DEF TypeInv, RequestTypes

LEMMA TypeStep == TypeInv /\ [Next]_vars => TypeInv'
  <1> SUFFICES ASSUME TypeInv, [Next]_vars PROVE TypeInv'
    OBVIOUS
  <1>u. reqVars' = reqVars => \A r \in Requests : HasArguments(r)'
    BY DEF reqVars, HasArguments, TypeInv
  <1>1. CASE UNCHANGED vars
    <2>1. TypeOK'
      BY <1>1 DEF vars, stored, laneVars, reqVars, counts, TypeInv, TypeOK
    <2> QED
      BY <1>1, <1>u, <2>1 DEF vars, TypeInv
  <1>2. CASE LaneStep \/ CycleFails
    BY <1>2, TypeLane
  <1>3. ASSUME NEW r \in Requests, NewRequest(r) \/ RequestStep(r)
        PROVE  TypeInv'
    BY <1>3, TypeNewRequest, TypeRequestStep
  <1>4. CASE Tick
    <2>1. clock' \in Times
      BY <1>4, BoundsAreNatural DEF Tick, Times, TypeInv, TypeOK
    <2>2. TypeOK'
      BY <1>4, <2>1 DEF Tick, TypeInv, TypeOK, stored, laneVars, reqVars, counts
    <2> QED
      BY <1>4, <1>u, <2>2 DEF Tick, TypeInv
  <1>5. ASSUME NEW t \in Tasks, StartWork(t)
        PROVE  TypeInv'
    <2>1. TypeOK'
      BY <1>5 DEF StartWork, TypeInv, TypeOK, stored, laneVars, reqVars, counts
    <2> QED
      BY <1>5, <1>u, <2>1 DEF StartWork, TypeInv
  <1>6. CASE Crash
    <2>1. crashes' \in 0 .. MaxSetbacks /\ 0 \in Times
      BY <1>6, BoundsAreNatural DEF Crash, Times, TypeInv, TypeOK
    <2>2. TypeOK'
      BY <1>6, <2>1 DEF Crash, LaneIsIdle, TypeInv, TypeOK, stored
    <2>3. \A r \in Requests : HasArguments(r)'
      BY <1>6 DEF Crash, HasArguments
    <2> QED
      BY <2>2, <2>3 DEF TypeInv
  <1> QED
    BY <1>1, <1>2, <1>3, <1>4, <1>5, <1>6 DEF Next

\* Every variable keeps its type: a snooze finds the time it was given, and a
\* list of keys stays a list of keys
THEOREM RemindersTypeCorrect == Spec => []TypeOK
  <1>1. TypeInv => TypeOK
    BY DEF TypeInv
  <1> QED
    BY <1>1, TypeInit, TypeStep, PTL DEF Spec

(***************************************************************************)
(* Nothing is marked that was not settled.                                 *)
(***************************************************************************)
\* Every key that is stored as delivered, or that somebody is going to store
Known == delivered \cup marks \cup UNION {keys[r] : r \in Requests}

\* MarkedIsSettled, for the keys held in memory as well
AllMarksSettled ==
    /\ \A k \in Known : settled[k] > 0
    /\ lane = "mark" => settled[sending] > 0

\* A step that settles nothing and stores or copies only keys already known
LEMMA NothingNewKnown ==
  ASSUME AllMarksSettled, UNCHANGED settled, Known' \subseteq Known,
         lane' = "mark" => lane = "mark" /\ sending' = sending
  PROVE  AllMarksSettled'
  BY DEF AllMarksSettled

LEMMA RequestKnowsNothingNew ==
  ASSUME TypeInv, AllMarksSettled, NEW r \in Requests, NewRequest(r) \/ RequestStep(r)
  PROVE  AllMarksSettled'
  <1>1. UNCHANGED <<settled, lane, sending, marks>>
    BY DEF NewRequest, Create, Snooze, Cancel, Allocate, Stop, Begin, RequestStep, List,
           NextPeriod, PeriodsRemoved, Resolve, NotFound, Load, SaveNew, SaveSnoozed,
           SaveRemoved, ReadKeys, SaveKeys, Private, laneVars
  <1>2. keys \in [Requests -> SUBSET Key]
    BY DEF TypeInv, TypeOK
  <1>3. \/ keys' = keys
        \/ keys' = [keys EXCEPT ![r] = {}]
        \/ keys' = [keys EXCEPT ![r] = delivered]
    BY DEF NewRequest, Create, Snooze, Cancel, Allocate, Stop, Begin, RequestStep, List,
           NextPeriod, PeriodsRemoved, Resolve, NotFound, Load, SaveNew, SaveSnoozed,
           SaveRemoved, ReadKeys, SaveKeys, Finish
  <1>4. delivered' \subseteq delivered \cup keys[r]
    BY DEF NewRequest, Create, Snooze, Cancel, Allocate, Stop, Begin, RequestStep, List,
           NextPeriod, PeriodsRemoved, Resolve, NotFound, Load, SaveNew, SaveSnoozed,
           SaveRemoved, ReadKeys, SaveKeys, stored
  <1>5. \A q \in Requests : keys'[q] \subseteq keys[q] \cup delivered
    BY <1>2, <1>3
  <1>6. Known' \subseteq Known
    BY <1>1, <1>4, <1>5 DEF Known
  <1> QED
    BY <1>1, <1>6, NothingNewKnown

LEMMA MarksInit == Init => AllMarksSettled
  BY DEF Init, AllMarksSettled, Known

LEMMA MarksStep == TypeInv /\ AllMarksSettled /\ [Next]_vars => AllMarksSettled'
  <1> SUFFICES ASSUME TypeInv, AllMarksSettled, [Next]_vars PROVE AllMarksSettled'
    OBVIOUS
  <1>t. /\ settled \in [Key -> Nat] /\ Known \subseteq Key
        /\ lane = "mark" => sending \in Key
    BY DEF TypeInv, TypeOK, Known
  <1>1. CASE UNCHANGED vars
    BY <1>1, NothingNewKnown DEF Known, vars, stored, laneVars, reqVars
  <1>2. CASE BeginCycle
    BY <1>2, NothingNewKnown DEF Known, BeginCycle, stored, reqVars
  <1>3. ASSUME NEW facts \in SUBSET FactKeys, Evaluate(facts)
        PROVE  AllMarksSettled'
    BY <1>3, NothingNewKnown DEF Known, Evaluate, stored, reqVars
  <1>4. CASE Filter
    BY <1>4, NothingNewKnown DEF Known, Filter, stored, reqVars
  <1>5. ASSUME NEW k \in Key, ConsumeStale(k)
        PROVE  AllMarksSettled'
    <2>1. /\ Known' \subseteq Known \cup {k} /\ lane' = "deliver"
          /\ settled' = [settled EXCEPT ![k] = @ + 1]
      BY <1>5 DEF ConsumeStale, First, Known, reqVars
    <2> QED
      BY <2>1, <1>t DEF AllMarksSettled
  <1>6. ASSUME NEW k \in Key, Send(k)
        PROVE  AllMarksSettled'
    <2>1. /\ Known' = Known /\ sending' = k
          /\ settled' = [settled EXCEPT ![k] = @ + 1]
      BY <1>6 DEF Send, Known, stored, reqVars
    <2> QED
      BY <2>1, <1>t DEF AllMarksSettled
  <1>7. CASE Mark
    <2>1. Known' \subseteq Known \cup {sending} /\ UNCHANGED settled /\ lane' = "deliver"
      BY <1>7 DEF Mark, Known, reqVars
    <2> QED
      BY <2>1, <1>7 DEF Mark, AllMarksSettled
  <1>8. CASE EndCycle
    BY <1>8, NothingNewKnown DEF Known, EndCycle, LaneIsIdle, stored, reqVars
  <1>9. CASE CycleFails
    BY <1>9, NothingNewKnown DEF Known, CycleFails, LaneIsIdle, stored, reqVars
  <1>10. ASSUME NEW r \in Requests, NewRequest(r) \/ RequestStep(r)
         PROVE  AllMarksSettled'
    BY <1>10, RequestKnowsNothingNew
  <1>11. CASE Tick
    BY <1>11, NothingNewKnown DEF Known, Tick, stored, laneVars, reqVars
  <1>12. ASSUME NEW t \in Tasks, StartWork(t)
         PROVE  AllMarksSettled'
    BY <1>12, NothingNewKnown DEF Known, StartWork, stored, laneVars, reqVars
  <1>13. CASE Crash
    BY <1>13, NothingNewKnown DEF Known, Crash, LaneIsIdle, stored
  <1> QED
    BY <1>1, <1>2, <1>3, <1>4, <1>5, <1>6, <1>7, <1>8, <1>9, <1>10, <1>11, <1>12, <1>13
    DEF Next, LaneStep

\* However requests, the lane, failures and restarts interleave, a key stored as
\* delivered stands for a notification that was handed over or was too old
THEOREM NothingIsSwallowed == Spec => []MarkedIsSettled
  <1>1. AllMarksSettled => MarkedIsSettled
    BY DEF AllMarksSettled, Known, MarkedIsSettled
  <1> QED
    BY <1>1, TypeInit, TypeStep, MarksInit, MarksStep, PTL DEF Spec

(***************************************************************************)
(* What repeats has its cause, when one request runs at a time.            *)
(***************************************************************************)
OneRequest == \A p, q \in Requests : p = q

\* A snooze that has not yet taken out its keys has its excuse still to use
Pending == IF \E r \in Requests : op[r] = "snooze" THEN 1 ELSE 0

Excuses == crashes + faults + snoozes - Pending

\* The lane may send k: it is going to, or it will find k unmarked
Open(k) ==
    \/ lane \in {"deliver", "mark"} /\ k \in todo
    \/ k \notin delivered /\ ~(lane = "mark" /\ sending = k)

RepeatsAccounted ==
    /\ lane # "idle" => delivered \subseteq marks
    /\ \A r \in Requests :
          /\ pc[r] = "idle" => op[r] = "none"
          /\ pc[r] \in {"keys", "retain"} => op[r] = "snooze"
          /\ pc[r] = "retain" => keys[r] \subseteq delivered
    /\ \A k \in Key :
          /\ settled[k] <= 1 + Excuses
          /\ Open(k) => settled[k] <= Excuses

LEMMA RepeatsInit == Init => RepeatsAccounted
  BY DEF Init, RepeatsAccounted, Excuses, Pending, Open

\* The lane sends k only when it is open, and closes it
LEMMA RepeatsLane ==
  ASSUME TypeInv, RepeatsAccounted, LaneStep \/ CycleFails
  PROVE  RepeatsAccounted'
  <1>t. /\ settled \in [Key -> Nat] /\ Pending \in {0, 1} /\ Excuses \in Int
        /\ crashes \in Nat /\ faults \in Nat /\ snoozes \in Nat
    BY BoundsAreNatural DEF TypeInv, TypeOK, Pending, Excuses
  <1>1. CASE BeginCycle
    <2>1. UNCHANGED <<delivered, settled, pc, op, keys, crashes, faults, snoozes>>
          /\ lane' = "evaluate" /\ marks' = delivered /\ lane = "idle"
      BY <1>1 DEF BeginCycle, stored, reqVars, counts
    <2> QED
      BY <2>1 DEF RepeatsAccounted, Excuses, Pending, Open
  <1>2. ASSUME NEW facts \in SUBSET FactKeys, Evaluate(facts)
        PROVE  RepeatsAccounted'
    <2>1. UNCHANGED <<delivered, marks, settled, pc, op, keys, crashes, faults, snoozes>>
          /\ lane' = "filter" /\ lane = "evaluate"
      BY <1>2 DEF Evaluate, stored, reqVars, counts
    <2> QED
      BY <2>1 DEF RepeatsAccounted, Excuses, Pending, Open
  <1>3. CASE Filter
    <2>1. UNCHANGED <<delivered, marks, settled, pc, op, keys, crashes, faults, snoozes>>
          /\ lane' = "deliver" /\ lane = "filter" /\ todo' = todo \ delivered
      BY <1>3 DEF Filter, stored, reqVars, counts
    <2> QED
      BY <2>1 DEF RepeatsAccounted, Excuses, Pending, Open
  <1>4. ASSUME NEW k \in Key, ConsumeStale(k) \/ Send(k)
        PROVE  RepeatsAccounted'
    <2>1. /\ UNCHANGED <<pc, op, keys, crashes, faults, snoozes>>
          /\ lane = "deliver" /\ k \in todo /\ todo' = todo \ {k}
          /\ settled' = [settled EXCEPT ![k] = @ + 1]
          /\ \/ lane' = lane /\ marks' = marks \cup {k} /\ delivered' = marks \cup {k}
             \/ lane' = "mark" /\ sending' = k /\ UNCHANGED <<marks, delivered>>
      BY <1>4 DEF ConsumeStale, Send, First, stored, reqVars, counts
    <2>2. delivered \subseteq marks /\ Excuses' = Excuses
      BY <2>1 DEF RepeatsAccounted, Excuses, Pending
    <2>3. \A q \in Key : Open(q)' => Open(q) /\ q # k
      BY <2>1, <2>2 DEF Open
    <2>4. \A q \in Key : settled'[q] = IF q = k THEN settled[k] + 1 ELSE settled[q]
      BY <2>1, <1>t
    <2>5. Open(k)
      BY <2>1 DEF Open
    <2>6. \A q \in Key :
            /\ settled'[q] <= 1 + Excuses'
            /\ Open(q)' => settled'[q] <= Excuses'
      BY <2>2, <2>3, <2>4, <2>5, <1>t DEF RepeatsAccounted
    <2> QED
      BY <2>1, <2>2, <2>6 DEF RepeatsAccounted
  <1>5. CASE Mark
    <2>1. /\ UNCHANGED <<settled, pc, op, keys, todo, crashes, faults, snoozes>>
          /\ lane = "mark" /\ lane' = "deliver"
          /\ marks' = marks \cup {sending} /\ delivered' = marks \cup {sending}
      BY <1>5 DEF Mark, stored, reqVars, counts
    <2>2. delivered \subseteq marks
      BY <2>1 DEF RepeatsAccounted
    <2>3. \A q \in Key : Open(q)' => Open(q)
      BY <2>1, <2>2 DEF Open
    <2> QED
      BY <2>1, <2>2, <2>3 DEF RepeatsAccounted, Excuses, Pending
  <1>6. CASE EndCycle
    <2>1. UNCHANGED <<delivered, settled, pc, op, keys, crashes, faults, snoozes>>
          /\ lane = "deliver" /\ lane' = "idle" /\ todo = {} /\ todo' = {}
      BY <1>6 DEF EndCycle, LaneIsIdle, stored, reqVars, counts
    <2> QED
      BY <2>1 DEF RepeatsAccounted, Excuses, Pending, Open
  <1>7. CASE CycleFails
    <2>1. UNCHANGED <<delivered, settled, pc, op, keys, crashes, snoozes>>
          /\ lane' = "idle" /\ faults' = faults + 1
      BY <1>7 DEF CycleFails, LaneIsIdle, stored, reqVars
    <2>2. Excuses' = Excuses + 1
      BY <2>1, <1>t DEF Excuses, Pending
    <2>3. \A q \in Key : settled[q] <= Excuses'
      BY <2>2, <1>t DEF RepeatsAccounted
    <2> QED
      BY <2>1, <2>2, <2>3, <1>t DEF RepeatsAccounted
  <1> QED
    BY <1>1, <1>2, <1>3, <1>4, <1>5, <1>6, <1>7 DEF LaneStep

\* A request opens keys only when it uses up its snooze
LEMMA RepeatsRequest ==
  ASSUME TypeInv, RepeatsAccounted, OneRequest,
         NEW r \in Requests, NewRequest(r) \/ RequestStep(r)
  PROVE  RepeatsAccounted'
  <1>t. /\ settled \in [Key -> Nat] /\ Pending \in {0, 1} /\ Excuses \in Int
        /\ crashes \in Nat /\ faults \in Nat /\ snoozes \in Nat
        /\ \A q \in Requests : q = r
        /\ DOMAIN pc = Requests /\ DOMAIN op = Requests /\ DOMAIN keys = Requests
    BY BoundsAreNatural DEF TypeInv, TypeOK, Pending, Excuses, OneRequest
  <1>u. UNCHANGED <<lane, marks, todo, sending, settled, crashes, faults>>
    BY DEF NewRequest, Create, Snooze, Cancel, Allocate, Stop, Begin, RequestStep, List,
           NextPeriod, PeriodsRemoved, Resolve, NotFound, Load, SaveNew, SaveSnoozed,
           SaveRemoved, ReadKeys, SaveKeys, Private, laneVars, counts
  <1>1. CASE NewRequest(r)
    <2>1. /\ pc[r] = "idle" /\ pc'[r] \in {"list", "resolve", "load"}
          /\ delivered' = delivered
          /\ \/ op'[r] = "snooze" /\ snoozes' = snoozes + 1
             \/ op'[r] # "snooze" /\ snoozes' = snoozes
      BY <1>1, <1>t DEF NewRequest, Create, Snooze, Cancel, Allocate, Stop, Begin, stored
    <2>2. Excuses' = Excuses
      BY <2>1, <1>t, <1>u DEF Excuses, Pending, RepeatsAccounted
    <2>3. \A k \in Key : Open(k)' = Open(k)
      BY <2>1, <1>u DEF Open
    <2> QED
      BY <2>1, <2>2, <2>3, <1>t, <1>u DEF RepeatsAccounted
  <1>2. CASE RequestStep(r) /\ ~Finish(r)
    <2>1. /\ delivered' = delivered /\ snoozes' = snoozes /\ op' = op
          /\ pc'[r] # "idle"
          /\ pc'[r] = "keys" => op[r] = "snooze"
          /\ pc'[r] = "retain" => pc[r] = "keys" /\ keys'[r] = delivered
      BY <1>2, <1>t DEF RequestStep, List, NextPeriod, PeriodsRemoved, Resolve, NotFound,
           Load, SaveNew, SaveSnoozed, SaveRemoved, ReadKeys, SaveKeys, Private, stored, counts
    <2>2. \A k \in Key : Open(k)' = Open(k)
      BY <2>1, <1>u DEF Open
    <2>3. Excuses' = Excuses
      BY <2>1, <1>u DEF Excuses, Pending
    <2> QED
      BY <2>1, <2>2, <2>3, <1>t, <1>u DEF RepeatsAccounted
  <1>3. CASE RequestStep(r) /\ Finish(r)
    <2>1. /\ snoozes' = snoozes /\ pc'[r] = "idle" /\ op'[r] = "none"
          /\ \/ delivered' = delivered
             \/ pc[r] = "retain" /\ delivered' \subseteq keys[r]
      BY <1>3, <1>t DEF Finish, RequestStep, List, NextPeriod, PeriodsRemoved, Resolve,
           NotFound, Load, SaveNew, SaveSnoozed, SaveRemoved, ReadKeys, SaveKeys, Private,
           stored, counts
    <2>2. Excuses' = Excuses + Pending
      BY <2>1, <1>t, <1>u DEF Excuses, Pending
    <2>3. CASE delivered' = delivered
      <3>1. \A k \in Key : Open(k)' = Open(k)
        BY <2>3, <1>u DEF Open
      <3> QED
        BY <2>1, <2>2, <2>3, <3>1, <1>t, <1>u DEF RepeatsAccounted
    <2>4. CASE pc[r] = "retain" /\ delivered' \subseteq keys[r]
      <3>1. delivered' \subseteq delivered /\ Pending = 1
        BY <2>4, <1>t DEF RepeatsAccounted, Pending
      <3>2. \A k \in Key : settled'[k] <= Excuses'
        BY <2>2, <3>1, <1>t, <1>u DEF RepeatsAccounted
      <3> QED
        BY <2>1, <3>1, <3>2, <2>2, <1>t, <1>u DEF RepeatsAccounted
    <2> QED
      BY <2>1, <2>3, <2>4
  <1> QED
    BY <1>1, <1>2, <1>3

LEMMA RepeatsStep ==
  ASSUME OneRequest
  PROVE  TypeInv /\ RepeatsAccounted /\ [Next]_vars => RepeatsAccounted'
  <1> SUFFICES ASSUME TypeInv, RepeatsAccounted, [Next]_vars PROVE RepeatsAccounted'
    OBVIOUS
  <1>1. CASE UNCHANGED <<delivered, laneVars, reqVars, settled, counts>>
    BY <1>1 DEF RepeatsAccounted, Excuses, Pending, Open, laneVars, reqVars, counts
  <1>2. CASE Crash
    <2>1. /\ UNCHANGED <<delivered, settled, faults, snoozes>>
          /\ crashes' = crashes + 1 /\ lane' = "idle" /\ Pending' = 0
          /\ \A r \in Requests : pc'[r] = "idle" /\ op'[r] = "none"
      BY <1>2 DEF Crash, LaneIsIdle, stored, Pending
    <2>2. Excuses' = Excuses + Pending + 1 /\ Pending \in {0, 1} /\ Excuses \in Int
      BY <2>1, BoundsAreNatural DEF Excuses, Pending, TypeInv, TypeOK
    <2>3. \A k \in Key : settled[k] \in Nat /\ settled[k] <= Excuses'
      BY <2>2 DEF RepeatsAccounted, TypeInv, TypeOK
    <2> QED
      BY <2>1, <2>2, <2>3 DEF RepeatsAccounted
  <1>3. CASE LaneStep \/ CycleFails
    BY <1>3, RepeatsLane
  <1>4. ASSUME NEW r \in Requests, NewRequest(r) \/ RequestStep(r)
        PROVE  RepeatsAccounted'
    BY <1>4, RepeatsRequest
  <1> QED
    BY <1>1, <1>2, <1>3, <1>4 DEF Next, Tick, StartWork, vars, stored

\* One request at a time: whatever fails and crashes, a notification is shown at
\* most once more than there were failures, restarts and snoozes
THEOREM RepeatsHaveCauses ==
  ASSUME OneRequest
  PROVE  Spec => []RepeatsAreExcused
  <1>1. TypeInv /\ RepeatsAccounted => RepeatsAreExcused
    <2> SUFFICES ASSUME TypeInv, RepeatsAccounted, NEW k \in Key
                 PROVE  settled[k] <= 1 + crashes + faults + snoozes
      BY DEF RepeatsAreExcused
    <2> QED
      BY BoundsAreNatural DEF TypeInv, TypeOK, RepeatsAccounted, Excuses, Pending
  <1>2. TypeInv /\ RepeatsAccounted /\ [Next]_vars => RepeatsAccounted'
    BY RepeatsStep
  <1> QED
    BY <1>1, <1>2, TypeInit, TypeStep, RepeatsInit, PTL DEF Spec

(***************************************************************************)
(* A stopped task has no timers, when one request runs at a time.          *)
(***************************************************************************)
Named(i) == \E x \in items : x.id = i

\* Request r is still going to remove x
WillRemove(r, x) ==
    /\ op[r] = "stop" /\ task[r] = x.task
    /\ \/ pc[r] = "list"
       \/ x.id \in queue[r]
       \/ pc[r] \in {"resolve", "load", "save"} /\ x.id = target[r]

\* What a request is about to store is for the current task, or for none
SavesCurrentWork(r) ==
    /\ pc[r] = "idle" <=> op[r] = "none"
    /\ op[r] = "create" => arg[r].task = None
    /\ op[r] = "allocate" => /\ task[r] # None /\ working = task[r]
                             /\ arg[r].task = task[r]
    /\ op[r] = "snooze" /\ pc[r] \in {"load", "save"} => arg[r].task \in {None, working}
    /\ pc[r] = "save" => copy[r] = items

\* A request that stopped a task goes through all of the task's timers
RemovesAll(r) ==
    op[r] = "stop" =>
        /\ pc[r] \in {"list", "next", "resolve", "load", "save"}
        /\ pc[r] # "list" =>
              /\ \A i \in queue[r] : Named(i)
              /\ pc[r] # "next" => target[r] \notin queue[r]
              /\ pc[r] = "resolve" => Named(target[r])

TimersAccounted ==
    crashes = 0 =>
        /\ \A x \in items : \/ x.task \in {None, working}
                            \/ \E r \in Requests : WillRemove(r, x)
        /\ \A r \in Requests : SavesCurrentWork(r) /\ RemovesAll(r)

LEMMA TimersInit == Init => TimersAccounted
  BY DEF Init, TimersAccounted, SavesCurrentWork, RemovesAll

\* A request that begins: a stop leaves the timers to itself
LEMMA TimersNewRequest ==
  ASSUME TypeInv, TimersAccounted, OneRequest, crashes = 0,
         NEW r \in Requests, NewRequest(r)
  PROVE  TimersAccounted'
  <1>t. /\ \A q \in Requests : q = r
        /\ op \in [Requests -> {"none", "create", "snooze", "cancel", "allocate", "stop"}]
        /\ DOMAIN pc = Requests /\ DOMAIN task = Requests
        /\ DOMAIN arg = Requests /\ DOMAIN target = Requests
    BY DEF TypeInv, TypeOK, OneRequest
  <1>b. /\ UNCHANGED <<items, queue, copy, crashes>>
        /\ pc[r] = "idle" /\ pc'[r] \in {"list", "resolve", "load"}
    BY <1>t DEF NewRequest, Create, Snooze, Cancel, Allocate, Stop, Begin, stored
  <1>c. \A x \in items : x.task \in {None, working}
    BY <1>t, <1>b DEF TimersAccounted, SavesCurrentWork, WillRemove
  <1>1. ASSUME NEW t \in Tasks, Stop(r, t)
        PROVE  TimersAccounted'
    <2>1. op'[r] = "stop" /\ task'[r] = t /\ pc'[r] = "list" /\ working = t
      BY <1>1, <1>t DEF Stop, Begin
    <2>2. \A x \in items : x.task = None \/ WillRemove(r, x)'
      BY <2>1, <1>c DEF WillRemove
    <2> QED
      BY <2>1, <2>2, <1>t, <1>b DEF TimersAccounted, SavesCurrentWork, RemovesAll
  <1>2. ASSUME ~ \E t \in Tasks : Stop(r, t)
        PROVE  TimersAccounted'
    <2>1. /\ working' = working
          /\ op'[r] \in {"create", "snooze", "cancel", "allocate"}
          /\ op'[r] = "create" => arg'[r].task = None
          /\ op'[r] = "allocate" => /\ task'[r] # None /\ task'[r] = working
                                    /\ arg'[r].task = task'[r]
          /\ op'[r] = "snooze" => pc'[r] = "resolve"
      BY <1>2, <1>t, NamesAreApart
      DEF NewRequest, Create, Snooze, Cancel, Allocate, Begin
    <2> QED
      BY <2>1, <1>t, <1>b, <1>c DEF TimersAccounted, SavesCurrentWork, RemovesAll
  <1> QED
    BY <1>1, <1>2

\* The steps of a request
LEMMA TimersRequestStep ==
  ASSUME TypeInv, TimersAccounted, OneRequest, crashes = 0,
         NEW r \in Requests, RequestStep(r)
  PROVE  TimersAccounted'
  <1>t. /\ \A q \in Requests : q = r
        /\ op \in [Requests -> {"none", "create", "snooze", "cancel", "allocate", "stop"}]
        /\ DOMAIN pc = Requests /\ DOMAIN task = Requests /\ DOMAIN queue = Requests
        /\ DOMAIN arg = Requests /\ DOMAIN target = Requests /\ DOMAIN copy = Requests
        /\ HasArguments(r) /\ items \subseteq Item
    BY DEF TypeInv, TypeOK, OneRequest
  <1>p. UNCHANGED <<working, crashes>>
    BY DEF RequestStep, List, NextPeriod, PeriodsRemoved, Resolve, NotFound, Load, SaveNew,
           SaveSnoozed, SaveRemoved, ReadKeys, SaveKeys, Private, counts
  <1>i. /\ \A x \in items : x.task \in {None, working} \/ WillRemove(r, x)
        /\ SavesCurrentWork(r) /\ RemovesAll(r)
    BY <1>t DEF TimersAccounted
  <1>q. ASSUME /\ \A x \in items' : x.task \in {None, working} \/ WillRemove(r, x)'
               /\ SavesCurrentWork(r)' /\ RemovesAll(r)'
        PROVE  TimersAccounted'
    BY <1>q, <1>t, <1>p DEF TimersAccounted
  \* A request that ends has removed what it was to remove
  <1>f. ASSUME Finish(r), \A x \in items' : x.task \in {None, working}
        PROVE  TimersAccounted'
    <2>1. pc'[r] = "idle" /\ op'[r] = "none"
      BY <1>f, <1>t DEF Finish
    <2>2. SavesCurrentWork(r)' /\ RemovesAll(r)'
      BY <2>1 DEF SavesCurrentWork, RemovesAll
    <2> QED
      BY <2>2, <1>f, <1>q
  <1>n. op[r] # "stop" => \A x \in items : x.task \in {None, working}
    BY <1>i DEF WillRemove
  <1>1. CASE List(r)
    <2>1. /\ UNCHANGED <<items, op, task, arg, target, copy>>
          /\ pc[r] = "list" /\ pc'[r] = "next"
          /\ queue'[r] = {x.id : x \in {y \in items : y.task = task[r]}}
      BY <1>1, <1>t DEF List, stored
    <2>2. \A x \in items : WillRemove(r, x) => WillRemove(r, x)'
      BY <2>1 DEF WillRemove
    <2>3. SavesCurrentWork(r)' /\ RemovesAll(r)'
      BY <2>1, <1>i, <1>p DEF SavesCurrentWork, RemovesAll, Named
    <2> QED
      BY <2>1, <2>2, <2>3, <1>i, <1>q
  <1>2. ASSUME NEW i \in Ids, NextPeriod(r, i)
        PROVE  TimersAccounted'
    <2>1. /\ UNCHANGED <<items, op, task, arg, copy>>
          /\ pc[r] = "next" /\ pc'[r] = "resolve" /\ i \in queue[r]
          /\ queue'[r] = queue[r] \ {i} /\ target'[r] = i
      BY <1>2, <1>t DEF NextPeriod, stored
    <2>2. \A x \in items : WillRemove(r, x) => WillRemove(r, x)'
      BY <2>1 DEF WillRemove
    <2>3. SavesCurrentWork(r)' /\ RemovesAll(r)'
      BY <2>1, <1>i, <1>p DEF SavesCurrentWork, RemovesAll, Named
    <2> QED
      BY <2>1, <2>2, <2>3, <1>i, <1>q
  <1>3. CASE PeriodsRemoved(r)
    <2>1. pc[r] = "next" /\ queue[r] = {} /\ items' = items
      BY <1>3 DEF PeriodsRemoved, stored
    <2>2. \A x \in items : x.task \in {None, working}
      BY <2>1, <1>i DEF WillRemove
    <2>3. CASE op[r] = "stop"
      BY <2>1, <2>2, <2>3, <1>3, <1>f DEF PeriodsRemoved
    <2>4. CASE op[r] # "stop"
      <3>1. UNCHANGED <<op, task, arg, target, queue, copy>> /\ pc'[r] = "load"
            /\ op[r] = "allocate"
        BY <1>3, <2>4, <1>t DEF PeriodsRemoved
      <3>2. SavesCurrentWork(r)' /\ RemovesAll(r)'
        BY <2>1, <3>1, <1>i, <1>p DEF SavesCurrentWork, RemovesAll
      <3> QED
        BY <2>1, <2>2, <3>2, <1>q
    <2> QED
      BY <2>3, <2>4
  <1>4. CASE Resolve(r)
    <2>1. /\ UNCHANGED <<items, op, task, target, queue, copy>>
          /\ pc[r] = "resolve" /\ pc'[r] = "load"
      BY <1>4, <1>t DEF Resolve, stored
    <2>2. \A x \in items : WillRemove(r, x) => WillRemove(r, x)'
      BY <2>1 DEF WillRemove
    <2>3. /\ op[r] = "snooze" => arg'[r].task \in {None, working}
          /\ op[r] # "snooze" => arg' = arg
      <3>1. PICK x \in items :
              arg' = IF op[r] = "snooze"
                        THEN [arg EXCEPT ![r] = [x EXCEPT !.when = arg[r].when]]
                        ELSE arg
        BY <1>4 DEF Resolve
      <3>2. [x EXCEPT !.when = arg[r].when].task = x.task
        BY <1>t DEF Item
      <3> QED
        BY <3>1, <3>2, <1>n, <1>t
    <2>4. SavesCurrentWork(r)' /\ RemovesAll(r)'
      BY <2>1, <2>3, <1>i, <1>p DEF SavesCurrentWork, RemovesAll, Named
    <2> QED
      BY <2>1, <2>2, <2>4, <1>i, <1>q
  <1>5. CASE NotFound(r)
    <2>1. op[r] # "stop" /\ items' = items /\ Finish(r)
      BY <1>5, <1>i DEF NotFound, RemovesAll, Named, stored
    <2> QED
      BY <2>1, <1>n, <1>f
  <1>6. CASE Load(r)
    <2>1. /\ UNCHANGED <<items, op, task, arg, target, queue>>
          /\ pc[r] = "load" /\ pc'[r] = "save" /\ copy'[r] = items
      BY <1>6, <1>t DEF Load, stored
    <2>2. \A x \in items : WillRemove(r, x) => WillRemove(r, x)'
      BY <2>1 DEF WillRemove
    <2>3. SavesCurrentWork(r)' /\ RemovesAll(r)'
      BY <2>1, <1>i, <1>p DEF SavesCurrentWork, RemovesAll, Named
    <2> QED
      BY <2>1, <2>2, <2>3, <1>i, <1>q
  <1>7. CASE SaveNew(r)
    <2>1. /\ pc[r] = "save" /\ Finish(r) /\ items' = items \cup {arg[r]}
          /\ op[r] \in {"create", "allocate"}
      BY <1>7, <1>t, <1>i DEF SaveNew, HasArguments, SavesCurrentWork
    <2>2. arg[r].task \in {None, working}
      BY <2>1, <1>i DEF SavesCurrentWork
    <2> QED
      BY <2>1, <2>2, <1>n, <1>f
  <1>8. CASE SaveSnoozed(r)
    <2>1. /\ pc[r] = "save" /\ op[r] = "snooze" /\ op' = op /\ pc'[r] = "keys"
          /\ items' = {IF x.id = target[r] THEN arg[r] ELSE x : x \in items}
      BY <1>8, <1>t, <1>i DEF SaveSnoozed, SavesCurrentWork
    <2>2. \A x \in items' : x.task \in {None, working}
      BY <2>1, <1>i, <1>n DEF SavesCurrentWork
    <2>3. SavesCurrentWork(r)' /\ RemovesAll(r)'
      BY <2>1 DEF SavesCurrentWork, RemovesAll
    <2> QED
      BY <2>2, <2>3, <1>q
  <1>9. CASE SaveRemoved(r)
    <2>1. pc[r] = "save" /\ items' = {x \in items : x.id # target[r]}
      BY <1>9, <1>i DEF SaveRemoved, SavesCurrentWork
    <2>2. CASE op[r] = "cancel"
      BY <2>1, <2>2, <1>9, <1>n, <1>f DEF SaveRemoved
    <2>3. CASE op[r] # "cancel"
      <3>1. /\ pc'[r] = "next" /\ UNCHANGED <<op, task, arg, queue>>
            /\ op[r] \in {"stop", "allocate"}
        BY <1>9, <2>3, <1>t DEF SaveRemoved
      <3>2. \A x \in items' : WillRemove(r, x) => WillRemove(r, x)'
        BY <2>1, <3>1 DEF WillRemove
      <3>3. SavesCurrentWork(r)' /\ RemovesAll(r)'
        BY <2>1, <3>1, <1>i, <1>p DEF SavesCurrentWork, RemovesAll, Named
      <3> QED
        BY <2>1, <3>2, <3>3, <1>i, <1>q
    <2> QED
      BY <2>2, <2>3
  <1>10. CASE ReadKeys(r)
    <2>1. pc[r] = "keys" /\ items' = items
      BY <1>10 DEF ReadKeys, stored
    <2>2. op[r] # "stop"
      BY <2>1, <1>i DEF RemovesAll
    <2>3. CASE Finish(r)
      BY <2>1, <2>2, <2>3, <1>n, <1>f
    <2>4. CASE ~Finish(r)
      <3>1. UNCHANGED <<op, task, arg>> /\ pc'[r] = "retain"
        BY <1>10, <2>4, <1>t DEF ReadKeys
      <3>2. SavesCurrentWork(r)' /\ RemovesAll(r)'
        BY <2>1, <2>2, <3>1, <1>i, <1>p DEF SavesCurrentWork, RemovesAll
      <3> QED
        BY <2>1, <2>2, <3>2, <1>n, <1>q
    <2> QED
      BY <2>3, <2>4
  <1>11. CASE SaveKeys(r)
    <2>1. pc[r] = "retain" /\ items' = items /\ Finish(r)
      BY <1>11 DEF SaveKeys
    <2>2. op[r] # "stop"
      BY <2>1, <1>i DEF RemovesAll
    <2> QED
      BY <2>1, <2>2, <1>n, <1>f
  <1> QED
    BY <1>1, <1>2, <1>3, <1>4, <1>5, <1>6, <1>7, <1>8, <1>9, <1>10, <1>11 DEF RequestStep

LEMMA TimersStep ==
  ASSUME OneRequest
  PROVE  TypeInv /\ TimersAccounted /\ [Next]_vars => TimersAccounted'
  <1> SUFFICES ASSUME TypeInv, TimersAccounted, [Next]_vars, crashes' = 0
               PROVE  TimersAccounted'
    BY DEF TimersAccounted
  <1>1. CASE UNCHANGED <<items, working, reqVars, crashes>>
    BY <1>1 DEF TimersAccounted, SavesCurrentWork, RemovesAll, WillRemove, Named, reqVars
  <1>2. ASSUME NEW r \in Requests, NewRequest(r) \/ RequestStep(r)
        PROVE  TimersAccounted'
    <2>1. crashes = 0
      BY <1>2 DEF NewRequest, Create, Snooze, Cancel, Allocate, Stop, Begin, RequestStep, List,
           NextPeriod, PeriodsRemoved, Resolve, NotFound, Load, SaveNew, SaveSnoozed,
           SaveRemoved, ReadKeys, SaveKeys, Private, counts
    <2> QED
      BY <1>2, <2>1, TimersNewRequest, TimersRequestStep
  <1>3. ASSUME NEW t \in Tasks, StartWork(t)
        PROVE  TimersAccounted'
    <2>1. UNCHANGED <<items, reqVars, crashes>> /\ working = None
      BY <1>3 DEF StartWork, stored, counts
    <2> QED
      BY <2>1 DEF TimersAccounted, SavesCurrentWork, RemovesAll, WillRemove, Named, reqVars
  <1>4. CASE Crash
    BY <1>4 DEF Crash, TypeInv, TypeOK
  <1> QED
    BY <1>1, <1>2, <1>3, <1>4
    DEF Next, LaneStep, BeginCycle, Evaluate, Filter, ConsumeStale, Send, Mark, EndCycle,
        CycleFails, Tick, vars, stored, counts

\* One request at a time: a task that stops leaves no timer behind, unless the
\* service dies while its timers are being removed
THEOREM TimersStopWithWork ==
  ASSUME OneRequest
  PROVE  Spec => []TimersAreForCurrentWork
  <1>1. TimersAccounted => TimersAreForCurrentWork
    BY DEF TimersAccounted, TimersAreForCurrentWork, WillRemove
  <1>2. TypeInv /\ TimersAccounted /\ [Next]_vars => TimersAccounted'
    BY TimersStep
  <1> QED
    BY <1>1, <1>2, TypeInit, TypeStep, TimersInit, PTL DEF Spec
=============================================================================
