------------------------ MODULE AnnouncementsProofs ------------------------
(***************************************************************************)
(* For any number of announcements, users, requests, worker cycles and     *)
(* faults: the types of Announcements, that nobody is notified of or marks *)
(* an announcement before its time, and that nobody gets more notices than *)
(* there were publications, nor, unless a worker dies, none.               *)
(***************************************************************************)
EXTENDS Announcements, FiniteSetTheorems, TLAPS

Out(a) == Due(a) /\ state[a] \in {"SCHEDULED", "PUBLISHED"}

(* What a task has found out stays true while it works: publication times  *)
(* never change, the clock never goes back and nothing returns to DRAFT.   *)
Founded ==
    \A w \in Workers :
        /\ task[w].at # "idle" /\ task[w].at # "loop" =>
              task[w].item \in Announcements /\ state[task[w].item] # "NONE"
        /\ task[w].at = "write" =>
              /\ task[w].target \in {"SCHEDULED", "PUBLISHED"}
              /\ task[w].target = "PUBLISHED" => Due(task[w].item)
        /\ task[w].at \in {"resolve", "enqueue", "mark"} => Out(task[w].item)
        /\ task[w].at = "mark" => task[w].mark \in Marks \X Users
        /\ \A a \in task[w].batch : Out(a)

Inv == TypeOK /\ Founded /\ NothingEarly

LEMMA IdleIsTask == Idle \in Task
  BY AnnouncementBounds DEF Idle, Task, States, EventKeys, StableKey, Never

LEMMA InitHolds == Init => Inv
  <1> SUFFICES ASSUME Init PROVE Inv
    OBVIOUS
  <1>1. TypeOK
    BY IdleIsTask, AnnouncementBounds DEF Init, TypeOK, States, Times, Never
  <1>2. Founded
    BY DEF Init, Founded, Idle
  <1>3. NothingEarly
    BY DEF Init, NothingEarly
  <1> QED
    BY <1>1, <1>2, <1>3 DEF Inv

(* A step that keeps the times, moves the clock only forward and states    *)
(* only between SCHEDULED and PUBLISHED, or out of NONE, keeps what is out.*)
LEMMA OutStays ==
    ASSUME TypeOK, NEW a \in Announcements, Out(a),
           now' \in Nat, now' >= now,
           publishAt'[a] = publishAt[a],
           state'[a] = state[a] \/ state'[a] \in {"SCHEDULED", "PUBLISHED"}
    PROVE  Out(a)'
  BY AnnouncementBounds DEF TypeOK, Out, Due, Times, Never

(* How the steps of Announcements change the record of a task.             *)
LEMMA TaskMoves ==
    ASSUME NEW t \in Task, NEW a \in Announcements, NEW us \in SUBSET Users
    PROVE  /\ [t EXCEPT !.batch = @ \ {a}] \in Task
           /\ [t EXCEPT !.at = "enqueue", !.todo = us] \in Task
           /\ [t EXCEPT !.todo = @ \ us] \in Task
  BY DEF Task

LEMMA NotifyIsTask ==
    ASSUME NEW a \in Announcements, NEW k \in EventKeys,
           NEW rest \in SUBSET Announcements
    PROVE  Notify(a, k, rest) \in Task
  BY DEF Task, Notify, States

LEMMA NotifyFields ==
    ASSUME NEW a, NEW k, NEW b
    PROVE  /\ Notify(a, k, b).at = "resolve"
           /\ Notify(a, k, b).item = a
           /\ Notify(a, k, b).batch = b
  BY DEF Notify

LEMMA TaskSet ==
    ASSUME task \in [Workers -> Task],
           \A w \in Workers : task[w].at = "idle" => task[w] = Idle,
           NEW w \in Workers, NEW t \in Task, t.at # "idle",
           task' = [task EXCEPT ![w] = t]
    PROVE  /\ task' \in [Workers -> Task]
           /\ \A v \in Workers : task'[v].at = "idle" => task'[v] = Idle
  OBVIOUS

LEMMA TypeKept == TypeOK /\ Founded /\ [Next]_vars => TypeOK'
  <1> SUFFICES ASSUME TypeOK, Founded, [Next]_vars PROVE TypeOK'
    OBVIOUS
  <1> USE AnnouncementBounds, IdleIsTask
  <1>1. ASSUME NEW a \in Announcements, NEW p \in Times \cup {Never},
               NEW e \in Times \cup {Never}, CreateAnnouncement(a, p, e)
        PROVE  TypeOK'
    BY <1>1 DEF TypeOK, CreateAnnouncement, history, States
  <1>2. ASSUME NEW r \in Requests, NEW a \in Announcements, BeginPublish(r, a)
        PROVE  TypeOK'
    BY <1>2 DEF TypeOK, BeginPublish, content, history, Workers, Idle, Task, States
  <1>3. ASSUME NEW r \in Requests, WriteState(r) PROVE TypeOK'
    <2> DEFINE t == Notify(task[r].item, drawn', {})
    <2>1. task[r] \in Task /\ task[r].item \in Announcements /\ task[r].target \in States
      BY <1>3 DEF TypeOK, WriteState, Workers, Founded, States
    <2>2. CASE task[r].target = "PUBLISHED"
      <3>1. drawn' \in 0..MaxPublications /\ task' = [task EXCEPT ![r] = t]
        BY <1>3, <2>2 DEF TypeOK, WriteState
      <3>2. t \in Task
        BY <2>1, <3>1, NotifyIsTask DEF EventKeys
      <3>2a. t.at # "idle"
        BY NotifyFields
      <3>3. /\ task' \in [Workers -> Task]
            /\ \A v \in Workers : task'[v].at = "idle" => task'[v] = Idle
        BY <3>1, <3>2, <3>2a, TaskSet DEF TypeOK, Workers
      <3> QED
        BY <1>3, <2>1, <2>2, <3>1, <3>3 DEF TypeOK, WriteState
    <2>3. CASE task[r].target # "PUBLISHED"
      BY <1>3, <2>1, <2>3 DEF TypeOK, WriteState, history, Workers
    <2> QED
      BY <2>2, <2>3
  <1>4. ASSUME NEW c \in Cycles, BeginCycle(c) PROVE TypeOK'
    BY <1>4 DEF TypeOK, BeginCycle, content, history, Workers, Idle, Task
  <1>5. ASSUME NEW c \in Cycles, NEW a \in Announcements, Claim(c, a) PROVE TypeOK'
    <2>1. task[c] \in Task /\ c \in Workers /\ task[c].at = "loop"
      BY <1>5 DEF TypeOK, Claim, Workers
    <2>2. CASE state[a] = "SCHEDULED"
      <3> DEFINE t == Notify(a, StableKey, task[c].batch \ {a})
      <3>1. t \in Task
        <4>1. task[c].batch \ {a} \in SUBSET Announcements
          BY <2>1 DEF Task
        <4>2. StableKey \in EventKeys
          BY DEF StableKey, EventKeys
        <4> QED
          BY <4>1, <4>2, NotifyIsTask
      <3>1a. t.at # "idle"
        BY NotifyFields
      <3>2. task' = [task EXCEPT ![c] = t]
        BY <1>5, <2>2 DEF Claim
      <3>3. /\ task' \in [Workers -> Task]
            /\ \A v \in Workers : task'[v].at = "idle" => task'[v] = Idle
        BY <2>1, <3>1, <3>1a, <3>2, TaskSet DEF TypeOK
      <3>4. /\ UNCHANGED <<now, publishAt, expiresAt, audience, jobs, marks, drawn, byHand, faults>>
            /\ state' = [state EXCEPT ![a] = "PUBLISHED"] /\ owed' = [owed EXCEPT ![a] = audience[a]]
        BY <1>5, <2>2 DEF Claim
      <3> QED
        BY <3>3, <3>4 DEF TypeOK, States
    <2>3. CASE state[a] # "SCHEDULED"
      <3> DEFINE t == [task[c] EXCEPT !.batch = @ \ {a}]
      <3>1. t \in Task /\ t.at # "idle"
        BY <2>1, TaskMoves DEF EventKeys, Task
      <3>2. task' = [task EXCEPT ![c] = t]
        BY <1>5, <2>3 DEF Claim
      <3> QED
        BY <1>5, <2>1, <2>3, <3>1, <3>2, TaskSet DEF TypeOK, Claim
    <2> QED
      BY <2>2, <2>3
  <1>6. ASSUME NEW c \in Cycles, EndCycle(c) PROVE TypeOK'
    BY <1>6 DEF TypeOK, EndCycle, content, history, Workers
  <1>7. ASSUME NEW w \in Workers, Resolve(w) PROVE TypeOK'
    <2> DEFINE t == [task[w] EXCEPT !.at = "enqueue", !.todo = audience[task[w].item]]
    <2>1. task[w] \in Task /\ audience[task[w].item] \in SUBSET Users
      BY <1>7 DEF TypeOK, Resolve, Founded
    <2>2. t \in Task /\ t.at # "idle"
      BY <2>1, TaskMoves DEF EventKeys, Task
    <2>3. task' = [task EXCEPT ![w] = t]
      BY <1>7 DEF Resolve
    <2> QED
      BY <1>7, <2>2, <2>3, TaskSet DEF TypeOK, Resolve, content, history
  <1>8. ASSUME NEW w \in Workers, NEW u \in Users, Upsert(w, u) PROVE TypeOK'
    <2> DEFINE t == [task[w] EXCEPT !.todo = @ \ {u}]
    <2>1. task[w] \in Task /\ task[w].at = "enqueue" /\ task[w].item \in Announcements
      BY <1>8 DEF TypeOK, Upsert, Founded
    <2>2. t \in Task /\ t.at # "idle"
      BY <2>1, TaskMoves DEF EventKeys, Task
    <2>3. task' = [task EXCEPT ![w] = t]
      BY <1>8 DEF Upsert
    <2>4. <<task[w].key, task[w].item, u>> \in EventKeys \X Announcements \X Users
      BY <2>1 DEF Task
    <2> QED
      BY <1>8, <2>2, <2>3, <2>4, TaskSet DEF TypeOK, Upsert, content, history
  <1>9. ASSUME NEW w \in Workers, EndEnqueue(w) PROVE TypeOK'
    BY <1>9 DEF TypeOK, EndEnqueue, content, history, Workers, Idle, Task
  <1>10. ASSUME NEW w \in Workers, Die(w) PROVE TypeOK'
    BY <1>10 DEF TypeOK, Die, content, history
  <1>11. ASSUME NEW r \in Requests, NEW a \in Announcements, NEW u \in Users,
                NEW kind \in Marks, BeginMark(r, u, a, kind)
         PROVE  TypeOK'
    BY <1>11 DEF TypeOK, BeginMark, content, history, Workers, Idle, Task
  <1>12. ASSUME NEW r \in Requests, EndMark(r) PROVE TypeOK'
    BY <1>12 DEF TypeOK, EndMark, content, history, Workers, Founded
  <1>13. ASSUME NEW a \in Announcements, NEW u \in Users, JoinAudience(a, u)
         PROVE  TypeOK'
    BY <1>13 DEF TypeOK, JoinAudience, content, history
  <1>14. ASSUME NEW a \in Announcements, NEW u \in Users, LeaveAudience(a, u)
         PROVE  TypeOK'
    BY <1>14 DEF TypeOK, LeaveAudience, content
  <1>15. CASE Tick
    BY <1>15 DEF TypeOK, Tick, content, history, Times
  <1>16. CASE UNCHANGED vars
    BY <1>16 DEF TypeOK, vars
  <1> QED
    BY <1>1, <1>2, <1>3, <1>4, <1>5, <1>6, <1>7, <1>8, <1>9, <1>10, <1>11,
       <1>12, <1>13, <1>14, <1>15, <1>16
       DEF Next, RequestStep, CycleStep, Workers

LEMMA FoundedKept == Inv /\ [Next]_vars => Founded'
  <1> SUFFICES ASSUME Inv, [Next]_vars PROVE Founded'
    OBVIOUS
  <1> USE DEF Inv
  <1>1. ASSUME NEW a \in Announcements, NEW p \in Times \cup {Never},
               NEW e \in Times \cup {Never}, CreateAnnouncement(a, p, e)
        PROVE  Founded'
    BY <1>1 DEF TypeOK, Founded, Out, Due, CreateAnnouncement, history
  <1>2. ASSUME NEW r \in Requests, NEW a \in Announcements, BeginPublish(r, a)
        PROVE  Founded'
    BY <1>2 DEF TypeOK, Founded, Out, Due, BeginPublish, content, Workers, Idle
  <1>3. ASSUME NEW r \in Requests, WriteState(r) PROVE Founded'
    <2> PICK a \in Announcements : a = task[r].item
      BY <1>3 DEF Founded, WriteState, Workers
    <2>1. task[r] \in Task /\ r \in Workers /\ task[r].at = "write" /\ a \in Announcements
      BY <1>3 DEF TypeOK, Founded, WriteState, Workers
    <2>2. task[r].target \in {"SCHEDULED", "PUBLISHED"}
          /\ (task[r].target = "PUBLISHED" => Due(a))
      BY <2>1 DEF Founded
    <2>3. \A b \in Announcements : (Out(b) => Out(b)') /\ (Due(b) => Due(b)')
                                /\ (state[b] # "NONE" => state'[b] # "NONE")
      BY <1>3, <2>2 DEF TypeOK, WriteState, Out, Due
    <2>4. \A w \in Workers : task[w].batch \subseteq Announcements
      BY DEF TypeOK, Task
    <2>5. \A w \in Workers \ {r} : task'[w] = task[w]
      BY <1>3 DEF TypeOK, WriteState, history
    <2>6. CASE task[r].target = "PUBLISHED"
      <3>1. task'[r].at = "resolve" /\ task'[r].item = a /\ task'[r].batch = {}
        <4>1. task'[r] = Notify(a, drawn', {})
          BY <1>3, <2>1, <2>6 DEF TypeOK, WriteState
        <4> QED
          BY <4>1, NotifyFields
      <3>2. state'[a] = "PUBLISHED" /\ Due(a)'
        BY <1>3, <2>1, <2>2, <2>3, <2>6 DEF TypeOK, WriteState
      <3> QED
        BY <2>1, <2>3, <2>4, <2>5, <3>1, <3>2 DEF Founded, Out
    <2>7. CASE task[r].target # "PUBLISHED"
      <3>1. task'[r] = Idle
        BY <1>3, <2>1, <2>7 DEF TypeOK, WriteState
      <3> QED
        BY <2>3, <2>4, <2>5, <3>1 DEF Founded, Idle
    <2> QED
      BY <2>6, <2>7
  <1>4. ASSUME NEW c \in Cycles, BeginCycle(c) PROVE Founded'
    BY <1>4 DEF TypeOK, Founded, Out, Due, BeginCycle, content, Workers, Idle
  <1>5. ASSUME NEW c \in Cycles, NEW a \in Announcements, Claim(c, a) PROVE Founded'
    <2>1. task[c] \in Task /\ c \in Workers /\ task[c].at = "loop" /\ Out(a)
      BY <1>5 DEF TypeOK, Founded, Claim, Workers
    <2>2. \A b \in Announcements : (Out(b) => Out(b)') /\ (Due(b) => Due(b)')
                                /\ (state[b] # "NONE" => state'[b] # "NONE")
      BY <1>5 DEF TypeOK, Claim, Out, Due
    <2>3. Out(a)'
      BY <2>1, <2>2
    <2>4. \A w \in Workers : task[w].batch \subseteq Announcements
      BY DEF TypeOK, Task
    <2>5. \A w \in Workers \ {c} : task'[w] = task[w]
      BY <1>5 DEF TypeOK, Claim
    <2>6. task'[c].at \in {"loop", "resolve"} /\ task'[c].batch = task[c].batch \ {a}
          /\ (task'[c].at = "resolve" => task'[c].item = a)
      <3>1. CASE state[a] = "SCHEDULED"
        <4>1. task'[c] = Notify(a, StableKey, task[c].batch \ {a})
          BY <1>5, <2>1, <3>1 DEF TypeOK, Claim
        <4> QED
          BY <4>1, NotifyFields
      <3>2. CASE state[a] # "SCHEDULED"
        <4>1. task'[c] = [task[c] EXCEPT !.batch = @ \ {a}]
          BY <1>5, <2>1, <3>2 DEF TypeOK, Claim
        <4>2. task'[c].at = task[c].at /\ task'[c].batch = task[c].batch \ {a}
          BY <2>1, <4>1 DEF Task
        <4> QED
          BY <2>1, <4>2
      <3> QED
        BY <3>1, <3>2
    <2>8. state'[a] # "NONE"
      BY <2>3 DEF Out
    <2> QED
      BY <2>1, <2>2, <2>3, <2>4, <2>5, <2>6, <2>8 DEF Founded
  <1>6. ASSUME NEW c \in Cycles, EndCycle(c) PROVE Founded'
    BY <1>6 DEF TypeOK, Founded, Out, Due, EndCycle, content, Workers, Idle
  <1>7. ASSUME NEW w \in Workers, Resolve(w) PROVE Founded'
    BY <1>7 DEF TypeOK, Founded, Out, Due, Resolve, content
  <1>8. ASSUME NEW w \in Workers, NEW u \in Users, Upsert(w, u) PROVE Founded'
    BY <1>8 DEF TypeOK, Founded, Out, Due, Upsert, content
  <1>9. ASSUME NEW w \in Workers, EndEnqueue(w) PROVE Founded'
    BY <1>9 DEF TypeOK, Founded, Out, Due, EndEnqueue, content, Idle
  <1>10. ASSUME NEW w \in Workers, Die(w) PROVE Founded'
    BY <1>10 DEF TypeOK, Founded, Out, Due, Die, content, Idle
  <1>11. ASSUME NEW r \in Requests, NEW a \in Announcements, NEW u \in Users,
                NEW kind \in Marks, BeginMark(r, u, a, kind)
         PROVE  Founded'
    BY <1>11 DEF TypeOK, Founded, Out, Due, Visible, BeginMark, content, Workers, Idle
  <1>12. ASSUME NEW r \in Requests, EndMark(r) PROVE Founded'
    BY <1>12 DEF TypeOK, Founded, Out, Due, EndMark, content, Workers, Idle
  <1>13. CASE (\E a \in Announcements, u \in Users :
                  JoinAudience(a, u) \/ LeaveAudience(a, u)) \/ UNCHANGED vars
    BY <1>13 DEF Founded, Out, Due, JoinAudience, LeaveAudience, content, vars
  <1>14. CASE Tick
    <2>1. /\ now' \in Nat /\ now' >= now /\ publishAt' = publishAt
          /\ state' = state /\ task' = task
      BY <1>14 DEF TypeOK, Tick, content, Times
    <2>2. \A a \in Announcements : Due(a) => Due(a)'
      BY <2>1 DEF TypeOK, Due, Times, Never
    <2>3. \A w \in Workers : task[w].batch \subseteq Announcements
      BY DEF TypeOK, Task
    <2> QED
      BY <2>1, <2>2, <2>3 DEF Founded, Out
  <1> QED
    BY <1>1, <1>2, <1>3, <1>4, <1>5, <1>6, <1>7, <1>8, <1>9, <1>10, <1>11,
       <1>12, <1>13, <1>14
       DEF Next, RequestStep, CycleStep, Workers

LEMMA NothingEarlyKept == Inv /\ [Next]_vars => NothingEarly'
  <1> SUFFICES ASSUME Inv, [Next]_vars PROVE NothingEarly'
    OBVIOUS
  <1> USE DEF Inv, NothingEarly
  <1>1. ASSUME NEW a \in Announcements, NEW p \in Times \cup {Never},
               NEW e \in Times \cup {Never}, CreateAnnouncement(a, p, e)
        PROVE  NothingEarly'
    BY <1>1 DEF TypeOK, Due, CreateAnnouncement
  <1>2. ASSUME NEW r \in Requests, WriteState(r) PROVE NothingEarly'
    BY <1>2 DEF TypeOK, Founded, Due, WriteState, Workers
  <1>3. ASSUME NEW c \in Cycles, NEW a \in Announcements, Claim(c, a)
        PROVE  NothingEarly'
    BY <1>3 DEF TypeOK, Due, Claim
  <1>4. ASSUME NEW w \in Workers, NEW u \in Users, Upsert(w, u)
        PROVE  NothingEarly'
    BY <1>4 DEF Founded, Out, Due, Upsert, content
  <1>5. ASSUME NEW r \in Requests, EndMark(r) PROVE NothingEarly'
    BY <1>5 DEF Founded, Out, Due, EndMark, content, Workers
  <1>6. CASE Tick
    BY <1>6 DEF TypeOK, Due, Tick, content, Times, Never
  <1>7. ASSUME UNCHANGED <<now, content, jobs, marks>> PROVE NothingEarly'
    BY <1>7 DEF Due, content
  <1> QED
    BY <1>1, <1>2, <1>3, <1>4, <1>5, <1>6, <1>7
       DEF Next, RequestStep, CycleStep, Workers, vars, content, BeginPublish,
           BeginCycle, EndCycle, Resolve, EndEnqueue, Die, BeginMark,
           JoinAudience, LeaveAudience

LEMMA InvKept == Inv /\ [Next]_vars => Inv'
  BY TypeKept, FoundedKept, NothingEarlyKept DEF Inv

THEOREM Invariant == Spec => []Inv
  BY InitHolds, InvKept, PTL DEF Spec

(* The types hold for every value of the constants.                        *)
THEOREM TypeCorrect == Spec => []TypeOK
  BY Invariant, PTL DEF Inv

(* Nobody is notified of, reads or acknowledges a draft or an announcement *)
(* whose time has not come, however publications by hand, cycles, deaths   *)
(* and enrolments interleave.                                              *)
THEOREM NothingEarlyHolds == Spec => []NothingEarly
  BY Invariant, PTL DEF Inv

-----------------------------------------------------------------------------
(* The budget of notices.  A fresh key is drawn for one announcement: some *)
(* assignment of the keys to announcements accounts for every job, every   *)
(* task that notifies, and every publication by hand.                      *)
Notifies(w) == task[w].at \in {"resolve", "enqueue"}
DrawnFor(f, a) == {k \in 1..drawn : f[k] = a}

Assigns(f) ==
    /\ f \in [1..drawn -> Announcements]
    /\ \A a \in Announcements : Cardinality(DrawnFor(f, a)) = byHand[a]
    /\ \A j \in jobs : j[1] # StableKey => j[1] \in 1..drawn /\ f[j[1]] = j[2]
    /\ \A w \in Workers : Notifies(w) /\ task[w].key # StableKey =>
          task[w].key \in 1..drawn /\ f[task[w].key] = task[w].item

(* Everyone addressed since the last publication has a job, or a task that *)
(* will queue it.                                                          *)
HasJob(a, u) == \E k \in EventKeys : <<k, a, u>> \in jobs
Coming(w, a, u) == task[w].item = a /\ (task[w].at = "resolve" \/ (task[w].at = "enqueue" /\ u \in task[w].todo))

Addressed == \A a \in Announcements : owed[a] \subseteq audience[a]
Reaching == faults = 0 =>
    \A a \in Announcements : \A u \in owed[a] : HasJob(a, u) \/ \E w \in Workers : Coming(w, a, u)

LEMMA KeysFinite ==
  ASSUME TypeOK, NEW f, NEW a
  PROVE  IsFiniteSet(DrawnFor(f, a)) /\ Cardinality(DrawnFor(f, a)) \in Nat
  <1>1. IsFiniteSet(1..drawn)
    BY AnnouncementBounds, FS_Interval DEF TypeOK
  <1>2. DrawnFor(f, a) \in SUBSET (1..drawn)
    BY DEF DrawnFor
  <1> QED
    BY <1>1, <1>2, FS_Subset, FS_CardinalityType

(* A step that draws no key and queues only what a task was notifying of.  *)
LEMMA SameKeys ==
  ASSUME NEW f, Assigns(f), UNCHANGED <<drawn, byHand>>,
         \A j \in jobs' : j \in jobs \/ \E w \in Workers :
              Notifies(w) /\ j[1] = task[w].key /\ j[2] = task[w].item,
         \A w \in Workers : Notifies(w)' /\ task'[w].key # StableKey =>
              Notifies(w) /\ task'[w].key = task[w].key /\ task'[w].item = task[w].item
  PROVE  Assigns(f)'
  <1>1. \A a \in Announcements : DrawnFor(f, a)' = DrawnFor(f, a)
    BY DEF DrawnFor
  <1> QED
    BY <1>1 DEF Assigns

(* A step that publishes announcement a by hand with the next key.         *)
LEMMA NextKey ==
  ASSUME TypeOK, NEW f, Assigns(f), NEW a \in Announcements, NEW r \in Workers,
         drawn' = drawn + 1, byHand' = [byHand EXCEPT ![a] = @ + 1], jobs' = jobs,
         \A w \in Workers \ {r} : task'[w] = task[w],
         task'[r].key = drawn + 1, task'[r].item = a
  PROVE  \E g : Assigns(g)'
  <1>1. drawn \in Nat /\ byHand \in [Announcements -> Nat]
    BY AnnouncementBounds DEF TypeOK
  <1> PICK n : n = drawn + 1
    OBVIOUS
  <1>2. \E g : /\ g \in [1..n -> Announcements] /\ g[n] = a
               /\ \A k \in 1..drawn : g[k] = f[k]
    <2> DEFINE g == [k \in 1..n |-> IF k = n THEN a ELSE f[k]]
    <2>1. g \in [1..n -> Announcements] /\ g[n] = a /\ \A k \in 1..drawn : g[k] = f[k]
      BY <1>1 DEF Assigns
    <2> QED
      BY <2>1
  <1> PICK g : /\ g \in [1..n -> Announcements] /\ g[n] = a
               /\ \A k \in 1..drawn : g[k] = f[k]
    BY <1>2
  <1>3. drawn' = n /\ n \in 1..n /\ n \notin 1..drawn /\ \A k : k \in 1..n <=> k = n \/ k \in 1..drawn
    BY <1>1
  <1>4. ASSUME NEW b \in Announcements PROVE Cardinality(DrawnFor(g, b)') = byHand'[b]
    <2>1. DrawnFor(g, b)' = {k \in 1..n : g[k] = b}
      BY <1>3 DEF DrawnFor
    <2>3. DrawnFor(g, b)' = IF b = a THEN DrawnFor(f, b) \cup {n} ELSE DrawnFor(f, b)
      BY <1>3, <2>1 DEF DrawnFor
    <2>4. n \notin DrawnFor(f, b)
      BY <1>3 DEF DrawnFor
    <2>5. IsFiniteSet(DrawnFor(f, b)) /\ Cardinality(DrawnFor(f, b)) = byHand[b]
      BY KeysFinite DEF Assigns
    <2>6. Cardinality(DrawnFor(f, b) \cup {n}) = byHand[b] + 1
      BY <2>4, <2>5, FS_AddElement
    <2> QED
      BY <1>1, <2>3, <2>5, <2>6
  <1>5. \A j \in jobs' : j[1] # StableKey => j[1] \in 1..drawn' /\ g[j[1]] = j[2]
    BY <1>3 DEF Assigns
  <1>6. ASSUME NEW w \in Workers, Notifies(w)', task'[w].key # StableKey
        PROVE  task'[w].key \in 1..drawn' /\ g[task'[w].key] = task'[w].item
    BY <1>3, <1>6 DEF Assigns, Notifies
  <1>7. Assigns(g)'
    BY <1>3, <1>4, <1>5, <1>6 DEF Assigns
  <1> QED
    BY <1>7

LEMMA AssignsKept ==
  ASSUME Inv, Inv', \E f : Assigns(f), [Next]_vars PROVE \E f : Assigns(f)'
  <1> PICK f : Assigns(f)
    OBVIOUS
  <1> USE DEF Inv
  <1>1. ASSUME NEW r \in Requests, WriteState(r), task[r].target = "PUBLISHED"
        PROVE  \E g : Assigns(g)'
    <2> DEFINE a == task[r].item
    <2>1. a \in Announcements /\ r \in Workers /\ drawn \in Nat
      BY <1>1, AnnouncementBounds DEF WriteState, Founded, Workers, TypeOK
    <2>2. /\ drawn' = drawn + 1 /\ byHand' = [byHand EXCEPT ![a] = @ + 1] /\ jobs' = jobs
          /\ task' = [task EXCEPT ![r] = Notify(a, drawn', {})]
      BY <1>1 DEF WriteState
    <2>3. task'[r].key = drawn + 1 /\ task'[r].item = a
      BY <2>1, <2>2 DEF TypeOK, Notify
    <2>4. \A w \in Workers \ {r} : task'[w] = task[w]
      BY <2>2 DEF TypeOK
    <2> HIDE DEF a
    <2> QED
      BY <2>1, <2>2, <2>3, <2>4, NextKey
  <1>2. ASSUME UNCHANGED <<drawn, byHand, task>>, jobs' = jobs PROVE Assigns(f)'
    BY <1>2, SameKeys DEF Notifies
  <1>3. ASSUME NEW w \in Workers, NEW t, task' = [task EXCEPT ![w] = t],
               t.at \in {"resolve", "enqueue"} /\ t.key # StableKey =>
                   Notifies(w) /\ t.key = task[w].key /\ t.item = task[w].item,
               UNCHANGED <<drawn, byHand>>, jobs' = jobs
        PROVE  Assigns(f)'
    BY <1>3, SameKeys DEF Notifies, TypeOK
  <1>4. ASSUME NEW w \in Workers, NEW u \in Users, Upsert(w, u) PROVE Assigns(f)'
    <2>1. /\ task' = [task EXCEPT ![w] = [task[w] EXCEPT !.todo = @ \ {u}]]
          /\ jobs' = jobs \cup {<<task[w].key, task[w].item, u>>}
          /\ UNCHANGED <<drawn, byHand>> /\ Notifies(w)
      BY <1>4 DEF Upsert, history, Notifies
    <2>2. \A v \in Workers : task'[v].at = task[v].at /\ task'[v].key = task[v].key /\ task'[v].item = task[v].item
      BY <2>1 DEF TypeOK, Task
    <2> QED
      BY <2>1, <2>2, SameKeys DEF Notifies
  <1>5. ASSUME NEW w \in Workers, Resolve(w) PROVE Assigns(f)'
    <2> DEFINE t == [task[w] EXCEPT !.at = "enqueue", !.todo = audience[task[w].item]]
    <2>1. task' = [task EXCEPT ![w] = t] /\ UNCHANGED <<drawn, byHand, jobs>> /\ Notifies(w)
      BY <1>5 DEF Resolve, history, Notifies
    <2>2. t.key = task[w].key /\ t.item = task[w].item
      BY DEF TypeOK, Task
    <2> HIDE DEF t
    <2> QED
      BY <1>3, <2>1, <2>2
  <1>6. ASSUME NEW w \in Workers, Die(w) \/ EndEnqueue(w) \/ EndCycle(w) \/ EndMark(w)
                  \/ (WriteState(w) /\ task[w].target # "PUBLISHED")
        PROVE  Assigns(f)'
    <2> DEFINE goesOn == [Idle EXCEPT !.at = "loop", !.batch = task[w].batch]
    <2>1. PICK t \in {Idle, goesOn} : task' = [task EXCEPT ![w] = t]
      BY <1>6 DEF Die, EndEnqueue, EndCycle, EndMark, WriteState
    <2>3. Idle.at = "idle" /\ goesOn.at = "loop"
      BY DEF Idle
    <2>4. t.at \in {"idle", "loop"}
      BY <2>3
    <2> HIDE DEF goesOn
    <2>2. UNCHANGED <<drawn, byHand, jobs>>
      BY <1>6 DEF Die, EndEnqueue, EndCycle, EndMark, WriteState, history
    <2> QED
      BY <1>3, <2>1, <2>2, <2>4
  <1>7. ASSUME NEW w \in Workers,
               \/ BeginCycle(w)
               \/ \E a \in Announcements : BeginPublish(w, a)
               \/ \E a \in Announcements, u \in Users, kind \in Marks : BeginMark(w, u, a, kind)
        PROVE  Assigns(f)'
    <2>1. ASSUME NEW a \in Announcements, BeginPublish(w, a) PROVE Assigns(f)'
      BY <1>3, <2>1 DEF BeginPublish, history, Idle
    <2>2. CASE BeginCycle(w)
      BY <1>3, <2>2 DEF BeginCycle, history, Idle
    <2>3. ASSUME NEW a \in Announcements, NEW u \in Users, NEW kind \in Marks, BeginMark(w, u, a, kind)
          PROVE  Assigns(f)'
      BY <1>3, <2>3 DEF BeginMark, history, Idle
    <2> QED
      BY <1>7, <2>1, <2>2, <2>3
  <1>8. ASSUME NEW c \in Cycles, NEW a \in Announcements, Claim(c, a) PROVE Assigns(f)'
    <2>1. c \in Workers /\ UNCHANGED <<drawn, byHand, jobs>> /\ task[c].at = "loop" /\ task[c] \in Task
      BY <1>8 DEF Workers, Claim, TypeOK
    <2>2. CASE state[a] = "SCHEDULED"
      <3>1. task' = [task EXCEPT ![c] = Notify(a, StableKey, task[c].batch \ {a})]
        BY <1>8, <2>2 DEF Claim
      <3>2. Notify(a, StableKey, task[c].batch \ {a}).key = StableKey
        BY DEF Notify
      <3> QED
        BY <1>3, <2>1, <3>1, <3>2
    <2>3. CASE state[a] # "SCHEDULED"
      <3> DEFINE t == [task[c] EXCEPT !.batch = @ \ {a}]
      <3>1. task' = [task EXCEPT ![c] = t] /\ t.at = "loop"
        BY <1>8, <2>1, <2>3 DEF Claim, Task
      <3> HIDE DEF t
      <3> QED
        BY <1>3, <2>1, <3>1
    <2> QED
      BY <2>2, <2>3
  <1>9. CASE \/ \E a \in Announcements, p, e \in Times \cup {Never} : CreateAnnouncement(a, p, e)
             \/ \E a \in Announcements, u \in Users : JoinAudience(a, u) \/ LeaveAudience(a, u)
             \/ Tick \/ UNCHANGED vars
    <2>1. UNCHANGED <<drawn, byHand, task, jobs>>
      BY <1>9 DEF CreateAnnouncement, JoinAudience, LeaveAudience, Tick, vars, history
    <2> QED
      BY <1>2, <2>1
  <1>10. ASSUME NEW r \in Requests, RequestStep(r) PROVE \E g : Assigns(g)'
    BY <1>1, <1>4, <1>5, <1>6, <1>10 DEF RequestStep, Workers
  <1>11. ASSUME NEW c \in Cycles, CycleStep(c) PROVE \E g : Assigns(g)'
    BY <1>4, <1>5, <1>6, <1>7, <1>8, <1>11 DEF CycleStep, Workers
  <1> QED
    BY <1>6, <1>7, <1>9, <1>10, <1>11 DEF Next, Workers

-----------------------------------------------------------------------------
(* Jobs stay, so what a step must show is where a coming notice goes.      *)
LEMMA ReachStep ==
  ASSUME Reaching, jobs \subseteq jobs', faults \in Nat, faults' \in {faults, faults + 1},
         \A a \in Announcements : \A u \in owed'[a] : faults' = 0 =>
            \/ HasJob(a, u)' \/ (\E w \in Workers : Coming(w, a, u)')
            \/ u \in owed[a] /\ \A w \in Workers : Coming(w, a, u) => Coming(w, a, u)'
  PROVE  Reaching'
  <1> SUFFICES ASSUME faults' = 0, NEW a \in Announcements, NEW u \in owed'[a],
                      u \in owed[a] /\ \A w \in Workers : Coming(w, a, u) => Coming(w, a, u)'
               PROVE  HasJob(a, u)' \/ \E w \in Workers : Coming(w, a, u)'
    BY DEF Reaching
  <1>1. HasJob(a, u) \/ \E w \in Workers : Coming(w, a, u)
    BY DEF Reaching
  <1>2. HasJob(a, u) => HasJob(a, u)'
    BY DEF HasJob
  <1> QED
    BY <1>1, <1>2

LEMMA ReachingKept == ASSUME Inv, Addressed, Reaching, [Next]_vars PROVE Addressed' /\ Reaching'
  <1> USE DEF Inv
  <1>0. faults \in Nat
    BY AnnouncementBounds DEF TypeOK
  <1>1. ASSUME NEW w \in Workers, ~Notifies(w), NEW t, task' = [task EXCEPT ![w] = t],
               UNCHANGED <<audience, owed, jobs, faults>>
        PROVE  Addressed' /\ Reaching'
    <2>1. \A a, u : ~Coming(w, a, u)
      BY <1>1 DEF Notifies, Coming
    <2>2. \A v \in Workers \ {w} : task'[v] = task[v]
      BY <1>1 DEF TypeOK
    <2>3. \A v \in Workers : \A a, u : Coming(v, a, u) => Coming(v, a, u)'
      BY <2>1, <2>2 DEF Coming
    <2> QED
      BY <1>0, <1>1, <2>3, ReachStep DEF Addressed
  <1>2. ASSUME NEW w \in Workers, ~Notifies(w), NEW b \in Announcements, NEW t,
               t.at = "resolve", t.item = b, task' = [task EXCEPT ![w] = t],
               owed' = [owed EXCEPT ![b] = audience[b]], UNCHANGED <<audience, jobs, faults>>
        PROVE  Addressed' /\ Reaching'
    <2>1. \A a, u : ~Coming(w, a, u)
      BY <1>2 DEF Notifies, Coming
    <2>2. (\A v \in Workers \ {w} : task'[v] = task[v]) /\ task'[w] = t
      BY <1>2 DEF TypeOK
    <2>3. \A v \in Workers : \A a, u : Coming(v, a, u) => Coming(v, a, u)'
      BY <2>1, <2>2 DEF Coming
    <2>4. \A u : Coming(w, b, u)'
      BY <1>2, <2>2 DEF Coming
    <2>5. Addressed'
      BY <1>2 DEF Addressed, TypeOK
    <2>6. \A a \in Announcements : \A u \in owed'[a] :
             (\E v \in Workers : Coming(v, a, u)') \/ u \in owed[a]
      BY <1>2, <2>4 DEF TypeOK
    <2> QED
      BY <1>0, <1>2, <2>3, <2>5, <2>6, ReachStep
  <1>3. ASSUME NEW r \in Workers, WriteState(r) PROVE Addressed' /\ Reaching'
    <2>1. ~Notifies(r) /\ task[r].item \in Announcements /\ UNCHANGED <<audience, jobs, faults>>
      BY <1>3 DEF WriteState, Notifies, Founded
    <2>2. CASE task[r].target = "PUBLISHED"
      <3>1. /\ owed' = [owed EXCEPT ![task[r].item] = audience[task[r].item]]
            /\ task' = [task EXCEPT ![r] = Notify(task[r].item, drawn', {})]
        BY <1>3, <2>2 DEF WriteState
      <3>2. /\ Notify(task[r].item, drawn', {}).at = "resolve"
            /\ Notify(task[r].item, drawn', {}).item = task[r].item
        BY DEF Notify
      <3> QED
        BY <1>2, <2>1, <3>1, <3>2
    <2>3. CASE task[r].target # "PUBLISHED"
      BY <1>1, <1>3, <2>1, <2>3 DEF WriteState, history
    <2> QED
      BY <2>2, <2>3
  <1>4. ASSUME NEW c \in Workers, NEW a \in Announcements, Claim(c, a) PROVE Addressed' /\ Reaching'
    <2>1. ~Notifies(c) /\ UNCHANGED <<audience, jobs, faults>>
      BY <1>4 DEF Claim, Notifies
    <2>2. CASE state[a] = "SCHEDULED"
      <3> DEFINE t == Notify(a, StableKey, task[c].batch \ {a})
      <3>1. owed' = [owed EXCEPT ![a] = audience[a]] /\ task' = [task EXCEPT ![c] = t]
        BY <1>4, <2>2 DEF Claim
      <3>2. t.at = "resolve" /\ t.item = a
        BY DEF Notify
      <3> HIDE DEF t
      <3> QED
        BY <1>2, <2>1, <3>1, <3>2
    <2>3. CASE state[a] # "SCHEDULED"
      BY <1>1, <1>4, <2>1, <2>3 DEF Claim
    <2> QED
      BY <2>2, <2>3
  <1>5. ASSUME NEW w \in Workers,
               \/ BeginCycle(w) \/ EndCycle(w) \/ EndMark(w)
               \/ \E a \in Announcements : BeginPublish(w, a)
               \/ \E a \in Announcements, u \in Users, kind \in Marks : BeginMark(w, u, a, kind)
        PROVE  Addressed' /\ Reaching'
    <2>1. PICK t : task' = [task EXCEPT ![w] = t]
      BY <1>5 DEF BeginPublish, BeginCycle, BeginMark, EndCycle, EndMark
    <2>2. ~Notifies(w) /\ UNCHANGED <<audience, owed, jobs, faults>>
      BY <1>5 DEF BeginPublish, BeginCycle, BeginMark, EndCycle, EndMark, Notifies, history
    <2> QED
      BY <1>1, <2>1, <2>2
  <1>6. ASSUME NEW w \in Workers, Resolve(w) PROVE Addressed' /\ Reaching'
    <2>1. /\ task' = [task EXCEPT ![w] = [task[w] EXCEPT !.at = "enqueue", !.todo = audience[task[w].item]]]
          /\ UNCHANGED <<audience, owed, jobs, faults>> /\ task[w] \in Task
      BY <1>6 DEF Resolve, history, TypeOK
    <2>2. /\ \A v \in Workers \ {w} : task'[v] = task[v]
          /\ task'[w].at = "enqueue" /\ task'[w].item = task[w].item /\ task'[w].todo = audience[task[w].item]
      BY <2>1 DEF TypeOK, Task
    <2>3. \A v \in Workers, a \in Announcements : \A u : u \in owed[a] /\ Coming(v, a, u) => Coming(v, a, u)'
      BY <2>2 DEF Coming, Addressed
    <2> QED
      BY <1>0, <2>1, <2>3, ReachStep DEF Addressed
  <1>7. ASSUME NEW w \in Workers, NEW x \in Users, Upsert(w, x) PROVE Addressed' /\ Reaching'
    <2>1. /\ task' = [task EXCEPT ![w] = [task[w] EXCEPT !.todo = @ \ {x}]]
          /\ jobs' = jobs \cup {<<task[w].key, task[w].item, x>>}
          /\ UNCHANGED <<audience, owed, faults>> /\ task[w] \in Task /\ task[w].at = "enqueue"
      BY <1>7 DEF Upsert, history, TypeOK
    <2>2. /\ \A v \in Workers \ {w} : task'[v] = task[v]
          /\ task'[w].at = "enqueue" /\ task'[w].item = task[w].item /\ task'[w].todo = task[w].todo \ {x}
      BY <2>1 DEF TypeOK, Task
    <2>3. HasJob(task[w].item, x)'
      BY <2>1 DEF HasJob, Task
    <2>4. \A v \in Workers, a \in Announcements : \A u : Coming(v, a, u) => Coming(v, a, u)' \/ HasJob(a, u)'
      BY <2>1, <2>2, <2>3 DEF Coming
    <2> QED
      BY <1>0, <2>1, <2>4, ReachStep DEF Addressed
  <1>8. ASSUME NEW w \in Workers, EndEnqueue(w) PROVE Addressed' /\ Reaching'
    <2>1. PICK t : task' = [task EXCEPT ![w] = t]
      BY <1>8 DEF EndEnqueue
    <2>2. UNCHANGED <<audience, owed, jobs, faults>> /\ task[w].at = "enqueue" /\ task[w].todo = {}
      BY <1>8 DEF EndEnqueue, history
    <2>3. (\A v \in Workers \ {w} : task'[v] = task[v]) /\ \A a, u : ~Coming(w, a, u)
      BY <2>1, <2>2 DEF TypeOK, Coming
    <2>4. \A v \in Workers : \A a, u : Coming(v, a, u) => Coming(v, a, u)'
      BY <2>3 DEF Coming
    <2> QED
      BY <1>0, <2>2, <2>4, ReachStep DEF Addressed
  <1>9. ASSUME NEW w \in Workers, Die(w) PROVE Addressed' /\ Reaching'
    BY <1>0, <1>9, ReachStep DEF Die, content, history, Addressed
  <1>10. ASSUME UNCHANGED <<task, jobs, faults>>, \A a \in Announcements : owed'[a] \subseteq owed[a], Addressed'
         PROVE  Addressed' /\ Reaching'
    BY <1>0, <1>10, ReachStep DEF Coming
  <1>11. CASE \/ \E a \in Announcements, p, e \in Times \cup {Never} : CreateAnnouncement(a, p, e)
              \/ \E a \in Announcements, u \in Users : JoinAudience(a, u) \/ LeaveAudience(a, u)
              \/ Tick \/ UNCHANGED vars
    <2>1. UNCHANGED <<task, jobs, faults>>
      BY <1>11 DEF CreateAnnouncement, JoinAudience, LeaveAudience, Tick, vars, history
    <2>2. \A a \in Announcements : owed'[a] \subseteq owed[a]
      BY <1>11 DEF CreateAnnouncement, JoinAudience, LeaveAudience, Tick, vars, history, content, TypeOK
    <2>3. Addressed'
      BY <1>11 DEF CreateAnnouncement, JoinAudience, LeaveAudience, Tick, vars, history, content, TypeOK, Addressed
    <2> QED
      BY <1>10, <2>1, <2>2, <2>3
  <1>12. ASSUME NEW r \in Requests, RequestStep(r) PROVE Addressed' /\ Reaching'
    BY <1>3, <1>5, <1>6, <1>7, <1>8, <1>12 DEF RequestStep, Workers
  <1>13. ASSUME NEW c \in Cycles, CycleStep(c) PROVE Addressed' /\ Reaching'
    BY <1>4, <1>5, <1>6, <1>7, <1>8, <1>13 DEF CycleStep, Workers
  <1> QED
    BY <1>5, <1>9, <1>11, <1>12, <1>13 DEF Next, Workers

-----------------------------------------------------------------------------
LEMMA OneNoticeAtLeast ==
  ASSUME TypeOK, NEW a \in Announcements, NEW u \in Users, HasJob(a, u)
  PROVE  Notices(a, u) > 0
  <1> DEFINE K == {k \in EventKeys : <<k, a, u>> \in jobs}
  <1>1. IsFiniteSet(EventKeys) /\ K \in SUBSET EventKeys
    BY AnnouncementBounds, FS_Interval DEF EventKeys
  <1>2. IsFiniteSet(K) /\ Cardinality(K) \in Nat
    BY <1>1, FS_Subset, FS_CardinalityType
  <1>3. K # {}
    BY DEF HasJob
  <1>4. Cardinality(K) # 0
    BY <1>2, <1>3, FS_EmptySet
  <1> QED
    BY <1>2, <1>4 DEF Notices

LEMMA NoticesWithinBudget ==
  ASSUME TypeOK, NEW f, Assigns(f), NEW a \in Announcements, NEW u \in Users
  PROVE  Notices(a, u) <= byHand[a] + 1
  <1> DEFINE K == {k \in EventKeys : <<k, a, u>> \in jobs}
             all == DrawnFor(f, a) \cup {StableKey}
  <1>1. K \in SUBSET all
    BY DEF Assigns, DrawnFor
  <1>2. IsFiniteSet(DrawnFor(f, a)) /\ Cardinality(DrawnFor(f, a)) = byHand[a] /\ byHand[a] \in Nat
    BY KeysFinite DEF Assigns
  <1>3. IsFiniteSet(all) /\ Cardinality(all) <= byHand[a] + 1
    BY <1>2, FS_AddElement
  <1>4. Cardinality(K) \in Nat /\ Cardinality(all) \in Nat /\ Cardinality(K) <= Cardinality(all)
    BY <1>1, <1>3, FS_Subset, FS_CardinalityType
  <1> HIDE DEF all
  <1> QED
    BY <1>2, <1>3, <1>4 DEF Notices

Budgeted == (\E f : Assigns(f)) /\ Addressed /\ Reaching

LEMMA BudgetStarts == Init => Budgeted
  <1> SUFFICES ASSUME Init PROVE Budgeted
    OBVIOUS
  <1> DEFINE f == [k \in {} |-> CHOOSE a \in Announcements : TRUE]
  <1>1. 1..drawn = {}
    BY DEF Init
  <1>2. \A a \in Announcements : DrawnFor(f, a) = {} /\ byHand[a] = 0
    BY <1>1 DEF DrawnFor, Init
  <1>3. f \in [1..drawn -> Announcements]
    BY <1>1
  <1>4. Assigns(f)
    BY <1>2, <1>3, FS_EmptySet DEF Assigns, Init, Notifies, Idle
  <1>5. Addressed /\ Reaching
    BY DEF Init, Addressed, Reaching
  <1> QED
    BY <1>4, <1>5 DEF Budgeted

LEMMA BudgetKept == Inv /\ Inv' /\ Budgeted /\ [Next]_vars => Budgeted'
  BY AssignsKept, ReachingKept DEF Budgeted

LEMMA BudgetMeans == Inv /\ Budgeted => NoticeBudget
  <1> SUFFICES ASSUME Inv, Budgeted PROVE NoticeBudget
    OBVIOUS
  <1>1. \A a \in Announcements, u \in Users : Notices(a, u) <= byHand[a] + 1
    BY NoticesWithinBudget DEF Inv, Budgeted
  <1>2. ASSUME faults = 0, NEW a \in Announcements, ~WorkedOn(a), NEW u \in owed[a]
        PROVE  Notices(a, u) > 0
    <2>1. u \in Users
      BY DEF Inv, TypeOK
    <2>2. \A w \in Workers : ~Coming(w, a, u)
      BY <1>2 DEF WorkedOn, Coming
    <2>3. HasJob(a, u)
      BY <1>2, <2>2 DEF Reaching, Budgeted
    <2> QED
      BY <2>1, <2>3, OneNoticeAtLeast DEF Inv
  <1> QED
    BY <1>1, <1>2 DEF NoticeBudget, PublishedAtomically

(* A user gets at most one notice per publication by hand and one from the *)
(* worker, and unless a worker dies nobody addressed since the last        *)
(* publication is left without one.                                        *)
THEOREM NoticeBudgetHolds == Spec => []NoticeBudget
  BY Invariant, BudgetStarts, BudgetKept, BudgetMeans, PTL DEF Spec
=============================================================================
