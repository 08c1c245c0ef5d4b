------------------------- MODULE SafeguardingProofs -------------------------
(***************************************************************************)
(* Guidance cases and safety reports, for any number of cases, reports,    *)
(* staff and overlapping requests: who does elevated work, what is audited,*)
(* that what is closed stays closed, that a report's status and count of   *)
(* copies are explained by its updates and by the reports before it.       *)
(***************************************************************************)
EXTENDS Safeguarding, FiniteSetTheorems, SequenceTheorems, WellFoundedInduction, TLAPS

Writers == {"create", "update", "note", "assign"}

(* What is left of the plan of a request at each of its calls.             *)
Suffixes(op, input) ==
    CASE op = "create" ->
           {<<"auth", "write", "audit">>, <<"write", "audit">>, <<"audit">>}
      [] op = "view" ->
           {<<"auth", "case", "audit", "return">>, <<"case", "audit", "return">>,
            <<"audit", "return">>, <<"return">>}
      [] op = "update" /\ input = "OPEN" ->
           {<<"auth", "elevated", "write", "audit">>, <<"elevated", "write", "audit">>,
            <<"write", "audit">>, <<"audit">>}
      [] op = "note" \/ (op = "update" /\ input # "OPEN") ->
           {<<"auth", "case", "write", "audit">>, <<"case", "write", "audit">>,
            <<"write", "audit">>, <<"audit">>}
      [] op = "assign" ->
           {<<"auth", "elevated", "auth", "member", "write", "audit">>,
            <<"elevated", "auth", "member", "write", "audit">>,
            <<"auth", "member", "write", "audit">>, <<"member", "write", "audit">>,
            <<"write", "audit">>, <<"audit">>}
      [] op = "export" ->
           {<<"auth", "case", "viewed", "auth", "elevated", "audit", "return">>,
            <<"case", "viewed", "auth", "elevated", "audit", "return">>,
            <<"viewed", "auth", "elevated", "audit", "return">>,
            <<"auth", "elevated", "audit", "return">>, <<"elevated", "audit", "return">>,
            <<"audit", "return">>, <<"return">>}

(* The call that comes when k are left.                                    *)
Call(op, input, k) ==
    CASE k = 1 -> IF op \in Writers THEN "audit" ELSE "return"
      [] k = 2 -> IF op \in Writers THEN "write" ELSE "audit"
      [] k = 3 -> CASE op = "create" -> "auth"
                    [] op = "assign" -> "member"
                    [] op = "export" \/ (op = "update" /\ input = "OPEN") -> "elevated"
                    [] OTHER -> "case"
      [] k = 4 -> "auth"
      [] k = 5 -> IF op = "assign" THEN "elevated" ELSE "viewed"
      [] k = 6 -> IF op = "assign" THEN "auth" ELSE "case"
      [] OTHER -> "auth"

(* A plan is walked through call by call.                                  *)
Walks(op, input, todo) ==
    /\ todo # <<>> /\ Len(todo) \in 1..7
    /\ Head(todo) = Call(op, input, Len(todo))
    /\ Len(todo) # 1 => /\ Tail(todo) \in Suffixes(op, input)
                        /\ Len(Tail(todo)) = Len(todo) - 1

LEMMA CreateWalks ==
  ASSUME NEW input, NEW todo \in Suffixes("create", input)
  PROVE  Walks("create", input, todo)
<1>1. CASE todo = <<"auth", "write", "audit">>
  <2>1. Tail(todo) = <<"write", "audit">> /\ Head(todo) = "auth"
        /\ Len(todo) = 3 /\ Len(Tail(todo)) = 2
    BY <1>1
  <2> QED  BY <1>1, <2>1 DEF Suffixes, Walks, Call, Writers
<1>2. CASE todo = <<"write", "audit">>
  <2>1. Tail(todo) = <<"audit">> /\ Head(todo) = "write"
        /\ Len(todo) = 2 /\ Len(Tail(todo)) = 1
    BY <1>2
  <2> QED  BY <1>2, <2>1 DEF Suffixes, Walks, Call, Writers
<1>3. CASE todo = <<"audit">>
  BY <1>3 DEF Walks, Call, Writers
<1> QED  BY <1>1, <1>2, <1>3 DEF Suffixes

LEMMA ViewWalks ==
  ASSUME NEW input, NEW todo \in Suffixes("view", input)
  PROVE  Walks("view", input, todo)
<1>1. CASE todo = <<"auth", "case", "audit", "return">>
  <2>1. Tail(todo) = <<"case", "audit", "return">> /\ Head(todo) = "auth"
        /\ Len(todo) = 4 /\ Len(Tail(todo)) = 3
    BY <1>1
  <2> QED  BY <1>1, <2>1 DEF Suffixes, Walks, Call, Writers
<1>2. CASE todo = <<"case", "audit", "return">>
  <2>1. Tail(todo) = <<"audit", "return">> /\ Head(todo) = "case"
        /\ Len(todo) = 3 /\ Len(Tail(todo)) = 2
    BY <1>2
  <2> QED  BY <1>2, <2>1 DEF Suffixes, Walks, Call, Writers
<1>3. CASE todo = <<"audit", "return">>
  <2>1. Tail(todo) = <<"return">> /\ Head(todo) = "audit"
        /\ Len(todo) = 2 /\ Len(Tail(todo)) = 1
    BY <1>3
  <2> QED  BY <1>3, <2>1 DEF Suffixes, Walks, Call, Writers
<1>4. CASE todo = <<"return">>
  BY <1>4 DEF Walks, Call, Writers
<1> QED  BY <1>1, <1>2, <1>3, <1>4 DEF Suffixes

LEMMA ReopenWalks ==
  ASSUME NEW input, input = "OPEN", NEW todo \in Suffixes("update", input)
  PROVE  Walks("update", input, todo)
<1>1. CASE todo = <<"auth", "elevated", "write", "audit">>
  <2>1. Tail(todo) = <<"elevated", "write", "audit">> /\ Head(todo) = "auth"
        /\ Len(todo) = 4 /\ Len(Tail(todo)) = 3
    BY <1>1
  <2> QED  BY <1>1, <2>1 DEF Suffixes, Walks, Call, Writers
<1>2. CASE todo = <<"elevated", "write", "audit">>
  <2>1. Tail(todo) = <<"write", "audit">> /\ Head(todo) = "elevated"
        /\ Len(todo) = 3 /\ Len(Tail(todo)) = 2
    BY <1>2
  <2> QED  BY <1>2, <2>1 DEF Suffixes, Walks, Call, Writers
<1>3. CASE todo = <<"write", "audit">>
  <2>1. Tail(todo) = <<"audit">> /\ Head(todo) = "write"
        /\ Len(todo) = 2 /\ Len(Tail(todo)) = 1
    BY <1>3
  <2> QED  BY <1>3, <2>1 DEF Suffixes, Walks, Call, Writers
<1>4. CASE todo = <<"audit">>
  BY <1>4 DEF Walks, Call, Writers
<1> QED  BY <1>1, <1>2, <1>3, <1>4 DEF Suffixes

LEMMA UpdateWalks ==
  ASSUME NEW input, input # "OPEN", NEW todo \in Suffixes("update", input)
  PROVE  Walks("update", input, todo)
<1>1. CASE todo = <<"auth", "case", "write", "audit">>
  <2>1. Tail(todo) = <<"case", "write", "audit">> /\ Head(todo) = "auth"
        /\ Len(todo) = 4 /\ Len(Tail(todo)) = 3
    BY <1>1
  <2> QED  BY <1>1, <2>1 DEF Suffixes, Walks, Call, Writers
<1>2. CASE todo = <<"case", "write", "audit">>
  <2>1. Tail(todo) = <<"write", "audit">> /\ Head(todo) = "case"
        /\ Len(todo) = 3 /\ Len(Tail(todo)) = 2
    BY <1>2
  <2> QED  BY <1>2, <2>1 DEF Suffixes, Walks, Call, Writers
<1>3. CASE todo = <<"write", "audit">>
  <2>1. Tail(todo) = <<"audit">> /\ Head(todo) = "write"
        /\ Len(todo) = 2 /\ Len(Tail(todo)) = 1
    BY <1>3
  <2> QED  BY <1>3, <2>1 DEF Suffixes, Walks, Call, Writers
<1>4. CASE todo = <<"audit">>
  BY <1>4 DEF Walks, Call, Writers
<1> QED  BY <1>1, <1>2, <1>3, <1>4 DEF Suffixes

LEMMA NoteWalks ==
  ASSUME NEW input, NEW todo \in Suffixes("note", input)
  PROVE  Walks("note", input, todo)
<1>1. CASE todo = <<"auth", "case", "write", "audit">>
  <2>1. Tail(todo) = <<"case", "write", "audit">> /\ Head(todo) = "auth"
        /\ Len(todo) = 4 /\ Len(Tail(todo)) = 3
    BY <1>1
  <2> QED  BY <1>1, <2>1 DEF Suffixes, Walks, Call, Writers
<1>2. CASE todo = <<"case", "write", "audit">>
  <2>1. Tail(todo) = <<"write", "audit">> /\ Head(todo) = "case"
        /\ Len(todo) = 3 /\ Len(Tail(todo)) = 2
    BY <1>2
  <2> QED  BY <1>2, <2>1 DEF Suffixes, Walks, Call, Writers
<1>3. CASE todo = <<"write", "audit">>
  <2>1. Tail(todo) = <<"audit">> /\ Head(todo) = "write"
        /\ Len(todo) = 2 /\ Len(Tail(todo)) = 1
    BY <1>3
  <2> QED  BY <1>3, <2>1 DEF Suffixes, Walks, Call, Writers
<1>4. CASE todo = <<"audit">>
  BY <1>4 DEF Walks, Call, Writers
<1> QED  BY <1>1, <1>2, <1>3, <1>4 DEF Suffixes

LEMMA AssignWalks ==
  ASSUME NEW input, NEW todo \in Suffixes("assign", input)
  PROVE  Walks("assign", input, todo)
<1>1. CASE todo = <<"auth", "elevated", "auth", "member", "write", "audit">>
  <2>1. Tail(todo) = <<"elevated", "auth", "member", "write", "audit">> /\ Head(todo) = "auth"
        /\ Len(todo) = 6 /\ Len(Tail(todo)) = 5
    BY <1>1
  <2> QED  BY <1>1, <2>1 DEF Suffixes, Walks, Call, Writers
<1>2. CASE todo = <<"elevated", "auth", "member", "write", "audit">>
  <2>1. Tail(todo) = <<"auth", "member", "write", "audit">> /\ Head(todo) = "elevated"
        /\ Len(todo) = 5 /\ Len(Tail(todo)) = 4
    BY <1>2
  <2> QED  BY <1>2, <2>1 DEF Suffixes, Walks, Call, Writers
<1>3. CASE todo = <<"auth", "member", "write", "audit">>
  <2>1. Tail(todo) = <<"member", "write", "audit">> /\ Head(todo) = "auth"
        /\ Len(todo) = 4 /\ Len(Tail(todo)) = 3
    BY <1>3
  <2> QED  BY <1>3, <2>1 DEF Suffixes, Walks, Call, Writers
<1>4. CASE todo = <<"member", "write", "audit">>
  <2>1. Tail(todo) = <<"write", "audit">> /\ Head(todo) = "member"
        /\ Len(todo) = 3 /\ Len(Tail(todo)) = 2
    BY <1>4
  <2> QED  BY <1>4, <2>1 DEF Suffixes, Walks, Call, Writers
<1>5. CASE todo = <<"write", "audit">>
  <2>1. Tail(todo) = <<"audit">> /\ Head(todo) = "write"
        /\ Len(todo) = 2 /\ Len(Tail(todo)) = 1
    BY <1>5
  <2> QED  BY <1>5, <2>1 DEF Suffixes, Walks, Call, Writers
<1>6. CASE todo = <<"audit">>
  BY <1>6 DEF Walks, Call, Writers
<1> QED  BY <1>1, <1>2, <1>3, <1>4, <1>5, <1>6 DEF Suffixes

LEMMA ExportWalks ==
  ASSUME NEW input, NEW todo \in Suffixes("export", input)
  PROVE  Walks("export", input, todo)
<1>1. CASE todo = <<"auth", "case", "viewed", "auth", "elevated", "audit", "return">>
  <2>1. Tail(todo) = <<"case", "viewed", "auth", "elevated", "audit", "return">> /\ Head(todo) = "auth"
        /\ Len(todo) = 7 /\ Len(Tail(todo)) = 6
    BY <1>1
  <2> QED  BY <1>1, <2>1 DEF Suffixes, Walks, Call, Writers
<1>2. CASE todo = <<"case", "viewed", "auth", "elevated", "audit", "return">>
  <2>1. Tail(todo) = <<"viewed", "auth", "elevated", "audit", "return">> /\ Head(todo) = "case"
        /\ Len(todo) = 6 /\ Len(Tail(todo)) = 5
    BY <1>2
  <2> QED  BY <1>2, <2>1 DEF Suffixes, Walks, Call, Writers
<1>3. CASE todo = <<"viewed", "auth", "elevated", "audit", "return">>
  <2>1. Tail(todo) = <<"auth", "elevated", "audit", "return">> /\ Head(todo) = "viewed"
        /\ Len(todo) = 5 /\ Len(Tail(todo)) = 4
    BY <1>3
  <2> QED  BY <1>3, <2>1 DEF Suffixes, Walks, Call, Writers
<1>4. CASE todo = <<"auth", "elevated", "audit", "return">>
  <2>1. Tail(todo) = <<"elevated", "audit", "return">> /\ Head(todo) = "auth"
        /\ Len(todo) = 4 /\ Len(Tail(todo)) = 3
    BY <1>4
  <2> QED  BY <1>4, <2>1 DEF Suffixes, Walks, Call, Writers
<1>5. CASE todo = <<"elevated", "audit", "return">>
  <2>1. Tail(todo) = <<"audit", "return">> /\ Head(todo) = "elevated"
        /\ Len(todo) = 3 /\ Len(Tail(todo)) = 2
    BY <1>5
  <2> QED  BY <1>5, <2>1 DEF Suffixes, Walks, Call, Writers
<1>6. CASE todo = <<"audit", "return">>
  <2>1. Tail(todo) = <<"return">> /\ Head(todo) = "audit"
        /\ Len(todo) = 2 /\ Len(Tail(todo)) = 1
    BY <1>6
  <2> QED  BY <1>6, <2>1 DEF Suffixes, Walks, Call, Writers
<1>7. CASE todo = <<"return">>
  BY <1>7 DEF Walks, Call, Writers
<1> QED  BY <1>1, <1>2, <1>3, <1>4, <1>5, <1>6, <1>7 DEF Suffixes

LEMMA EachWalks ==
  ASSUME NEW op \in Operations, NEW input, NEW todo \in Suffixes(op, input)
  PROVE  Walks(op, input, todo)
  BY CreateWalks, ViewWalks, ReopenWalks, UpdateWalks, NoteWalks, AssignWalks, ExportWalks DEF Operations

LEMMA PlanBegins ==
  ASSUME NEW op \in Operations, NEW input
  PROVE  /\ Plan(op, input) \in Suffixes(op, input) /\ Len(Plan(op, input)) >= 3
         /\ op \in {"update", "note"} => Len(Plan(op, input)) = 4
         /\ op = "assign" => Len(Plan(op, input)) = 6
         /\ op = "export" => Len(Plan(op, input)) = 7
  BY DEF Plan, Suffixes, Operations

-----------------------------------------------------------------------------
(* The invariant.                                                          *)

(* What a request with k calls left has done.                              *)
Deeds(op, k) == IF k # 1 THEN {} ELSE IF op \in Writers THEN {"written"} ELSE {"audited"}

Asks(q) ==
    /\ q.op \in Operations /\ q.case \in Cases /\ q.staff \in Staff /\ q.input \in Inputs(q.op)
    /\ q.todo \in Suffixes(q.op, q.input)
    /\ q.done = Deeds(q.op, Len(q.todo))

Fields == {"op", "case", "staff", "input", "todo", "done"}

Form ==
    /\ status \in [Cases -> Statuses \cup {"NONE"}]
    /\ closedAt \in [Cases -> BOOLEAN]
    /\ role \in [Cases -> [Staff -> {"none", "plain", "elevated"}]]
    /\ faults \in Nat
    /\ DOMAIN request = Requests
    /\ \A r \in Requests : Busy(r) => Asks(request[r]) /\ DOMAIN request[r] = Fields

(* A request that is past its check for the elevated assignment.           *)
Past(op, input, k) ==
    \/ op = "assign" /\ k <= 4
    \/ op = "update" /\ input = "OPEN" /\ k <= 2
    \/ op = "export" /\ k <= 2

(* Whoever is elevated, or was found to be, has been elevated.             *)
Elevation ==
    /\ \A c \in Cases, s \in Staff : role[c][s] = "elevated" => <<c, s>> \in everElevated
    /\ \A r \in Requests : LET q == request[r] IN
          Busy(r) /\ Past(q.op, q.input, Len(q.todo)) => <<q.case, q.staff>> \in everElevated

(* What was closed when a request in shut began is closed still, and only  *)
(* a reopening has passed the check of an update or a note.                *)
Closing ==
    /\ shut \subseteq Requests
    /\ \A c \in Cases : /\ status[c] = "CLOSED" => closedAt[c]
                        /\ status[c] \in {"NONE", "OPEN"} => ~closedAt[c]
    /\ \A r \in Requests : LET q == request[r] IN
          r \in shut /\ Busy(r) =>
             /\ status[q.case] = "CLOSED"
             /\ q.op \in {"update", "note"} /\ Len(q.todo) <= 2 => q.input = "OPEN"

IInv == Form /\ Elevation /\ Closing /\ CaseIsAudited

-----------------------------------------------------------------------------
(* How a request moves on.                                                 *)

Deed(next) ==
    CASE next = "write" -> {"written"} [] next = "audit" -> {"audited"}
      [] next = "return" -> {"returned"} [] OTHER -> {}

(* Request r has one call less to make, and is over after the last one.    *)
Advances(r) ==
    LET q == request[r] IN
    /\ silent' = silent
    /\ \/ Len(q.todo) = 1 /\ request' = [request EXCEPT ![r] = Idle]
       \/ \E new : /\ request' = [request EXCEPT ![r] = new] /\ DOMAIN new = Fields
                   /\ Asks(new) /\ new.todo # <<>> /\ Len(new.todo) = Len(q.todo) - 1
                   /\ new.op = q.op /\ new.case = q.case /\ new.staff = q.staff /\ new.input = q.input

LEMMA ChecksFirst ==
  ASSUME NEW op, NEW input, NEW k \in 3..7
  PROVE  Call(op, input, k) \in {"auth", "member", "elevated", "case", "viewed"}
<1>1. CASE k = 3
  BY <1>1 DEF Call
<1>2. CASE k = 4 \/ k = 7
  BY <1>2 DEF Call
<1>3. CASE k = 5 \/ k = 6
  BY <1>3 DEF Call
<1> QED  BY <1>1, <1>2, <1>3

LEMMA ContinueAdvances ==
  ASSUME Form, NEW r \in Requests, Busy(r),
         Continue(r, Deed(Call(request[r].op, request[r].input, Len(request[r].todo))))
  PROVE  Advances(r)
<1> DEFINE q == request[r]
           k == Len(q.todo)
           deed == Deed(Call(q.op, q.input, k))
           new == [q EXCEPT !.todo = Tail(@), !.done = q.done \cup deed]
<1>1. Asks(q) /\ DOMAIN q = Fields /\ DOMAIN request = Requests
  BY DEF Form
<1>2. Walks(q.op, q.input, q.todo)
  BY <1>1, EachWalks DEF Asks
<1>3. CASE k = 1
  <2>1. q.done \cup deed = IF q.op \in Writers THEN {"written", "audited"} ELSE {"audited", "returned"}
    BY <1>1, <1>3 DEF Asks, Deeds, Deed, Call
  <2>2. Unrecorded(q.done \cup deed) = {}
    BY <2>1 DEF Unrecorded
  <2>3. request' = [request EXCEPT ![r] = Idle] /\ silent' = silent
    BY <1>3, <2>2 DEF Continue, End
  <2> QED  BY <1>3, <2>3 DEF Advances
<1>4. CASE k # 1
  <2>1. k \in 2..7 /\ Tail(q.todo) \in Suffixes(q.op, q.input) /\ Len(Tail(q.todo)) = k - 1
    BY <1>2, <1>4 DEF Walks
  <2>2. Tail(q.todo) # <<>>
    BY <2>1, EachWalks, <1>1 DEF Walks, Asks
  <2>3. deed # {"returned"}
    <3>1. Call(q.op, q.input, k) # "return"
      BY <2>1 DEF Call
    <3> QED  BY <3>1 DEF Deed
  <2>4. request' = [request EXCEPT ![r] = new] /\ silent' = silent
    BY <1>4, <2>3 DEF Continue
  <2>5. /\ DOMAIN new = Fields /\ new.todo = Tail(q.todo) /\ new.done = q.done \cup deed
        /\ new.op = q.op /\ new.case = q.case /\ new.staff = q.staff /\ new.input = q.input
    BY <1>1 DEF Fields
  <2>6. q.done \cup deed = Deeds(q.op, k - 1)
    <3>1. q.done = {}
      BY <1>1, <1>4 DEF Asks, Deeds
    <3>2. CASE k = 2
      BY <2>1, <3>1, <3>2 DEF Deeds, Deed, Call
    <3>3. CASE k # 2
      <4>1. k \in 3..7
        BY <2>1, <3>3
      <4>2. deed = {}
        BY <4>1, ChecksFirst DEF Deed
      <4>3. Deeds(q.op, k - 1) = {}
        BY <2>1, <3>3 DEF Deeds
      <4> QED  BY <3>1, <4>2, <4>3
    <3> QED  BY <3>2, <3>3
  <2> HIDE DEF new
  <2>7. Asks(new)
    BY <1>1, <2>1, <2>5, <2>6 DEF Asks
  <2> QED  BY <2>1, <2>2, <2>4, <2>5, <2>7 DEF Advances
<1> QED  BY <1>3, <1>4

(* Request r is over before its last call.                                 *)
Leaves(r) == request' = [request EXCEPT ![r] = Idle]

LEMMA RefuseLeaves ==
  ASSUME Form, NEW r \in Requests, Busy(r), Len(request[r].todo) # 1, Refuse(r)
  PROVE  Leaves(r) /\ silent' = silent
<1>1. request[r].done = {}
  BY DEF Form, Asks, Deeds
<1> QED  BY <1>1 DEF Refuse, End, Unrecorded, Leaves

LEMMA IdleIsIdle == Idle.todo = <<>>
  BY DEF Idle

(* A request that leaves or advances keeps its form.                       *)
LEMMA FormKept ==
  ASSUME Form, NEW r \in Requests, Leaves(r) \/ Advances(r)
  PROVE  /\ DOMAIN request' = Requests
         /\ \A x \in Requests : Busy(x)' => Asks(request'[x]) /\ DOMAIN request'[x] = Fields
         /\ \A x \in Requests \ {r} : request'[x] = request[x]
         /\ Busy(r)' => /\ Advances(r) /\ Len(request'[r].todo) = Len(request[r].todo) - 1
                        /\ request'[r].op = request[r].op /\ request'[r].case = request[r].case
                        /\ request'[r].staff = request[r].staff /\ request'[r].input = request[r].input
<1>1. DOMAIN request = Requests
  BY DEF Form
<1>2. CASE request' = [request EXCEPT ![r] = Idle]
  <2>1. ~Busy(r)'
    BY <1>1, <1>2, IdleIsIdle DEF Busy
  <2> QED  BY <1>1, <1>2, <2>1 DEF Form, Busy
<1>3. ASSUME NEW new, request' = [request EXCEPT ![r] = new], DOMAIN new = Fields,
             Asks(new), new.todo # <<>>, Len(new.todo) = Len(request[r].todo) - 1,
             new.op = request[r].op, new.case = request[r].case, new.staff = request[r].staff,
             new.input = request[r].input, Advances(r)
      PROVE  /\ DOMAIN request' = Requests
             /\ \A x \in Requests : Busy(x)' => Asks(request'[x]) /\ DOMAIN request'[x] = Fields
             /\ \A x \in Requests \ {r} : request'[x] = request[x]
             /\ Busy(r)' => /\ Advances(r) /\ Len(request'[r].todo) = Len(request[r].todo) - 1
                            /\ request'[r].op = request[r].op /\ request'[r].case = request[r].case
                            /\ request'[r].staff = request[r].staff /\ request'[r].input = request[r].input
  <2>1. request'[r] = new /\ \A x \in Requests \ {r} : request'[x] = request[x]
    BY <1>1, <1>3
  <2> QED  BY <1>1, <1>3, <2>1 DEF Form, Busy
<1> QED  BY <1>2, <1>3 DEF Leaves, Advances

(* What a step of request r must see to.                                   *)
LEMMA StepKeeps ==
  ASSUME IInv, NEW r \in Requests, Leaves(r) \/ Advances(r), CaseIsAudited',
         status' \in [Cases -> Statuses \cup {"NONE"}], closedAt' \in [Cases -> BOOLEAN],
         role' \in [Cases -> [Staff -> {"none", "plain", "elevated"}]], faults' \in Nat,
         everElevated \subseteq everElevated',
         \A c \in Cases, s \in Staff : role'[c][s] = "elevated" => <<c, s>> \in everElevated',
         \A c \in Cases : /\ status'[c] = "CLOSED" => closedAt'[c]
                          /\ status'[c] \in {"NONE", "OPEN"} => ~closedAt'[c],
         shut' \subseteq shut,
         \A x \in Requests : x \in shut' /\ Busy(x) => status'[request[x].case] = "CLOSED",
         Busy(r),
         Busy(r)' /\ Past(request[r].op, request[r].input, Len(request[r].todo) - 1) =>
            <<request[r].case, request[r].staff>> \in everElevated',
         Busy(r)' /\ r \in shut' /\ request[r].op \in {"update", "note"} /\ Len(request[r].todo) - 1 <= 2 =>
            request[r].input = "OPEN"
  PROVE  IInv'
<1>1. Form
  BY DEF IInv
<1>2. Form'
  BY <1>1, FormKept DEF Form
<1>3. Elevation'
  <2>1. ASSUME NEW x \in Requests, Busy(x)', Past(request'[x].op, request'[x].input, Len(request'[x].todo))
        PROVE  <<request'[x].case, request'[x].staff>> \in everElevated'
    <3>1. CASE x = r
      BY <1>1, <2>1, <3>1, FormKept
    <3>2. CASE x # r
      <4>1. request'[x] = request[x] /\ Busy(x)
        BY <1>1, <2>1, <3>2, FormKept DEF Busy
      <4> QED  BY <2>1, <4>1 DEF IInv, Elevation
    <3> QED  BY <3>1, <3>2
  <2> QED  BY <2>1 DEF Elevation
<1>4. Closing'
  <2>1. ASSUME NEW x \in Requests, x \in shut', Busy(x)'
        PROVE  /\ status'[request'[x].case] = "CLOSED"
               /\ request'[x].op \in {"update", "note"} /\ Len(request'[x].todo) <= 2 =>
                     request'[x].input = "OPEN"
    <3>1. CASE x = r
      BY <1>1, <2>1, <3>1, FormKept
    <3>2. CASE x # r
      <4>1. request'[x] = request[x] /\ Busy(x) /\ x \in shut
        BY <1>1, <2>1, <3>2, FormKept DEF Busy
      <4> QED  BY <2>1, <4>1 DEF IInv, Closing
    <3> QED  BY <3>1, <3>2
  <2>2. shut' \subseteq Requests
    BY DEF IInv, Closing
  <2> QED  BY <2>1, <2>2 DEF Closing
<1> QED  BY <1>2, <1>3, <1>4 DEF IInv

LEMMA BeginStep ==
  ASSUME IInv, NEW r \in Requests, NEW s \in Staff, NEW c \in Cases, NEW op \in Operations,
         NEW input \in Inputs(op), Begin(r, s, c, op, input)
  PROVE  IInv'
<1> DEFINE new == [op |-> op, case |-> c, staff |-> s, input |-> input, todo |-> Plan(op, input),
                   done |-> {}]
<1>1. /\ request' = [request EXCEPT ![r] = new] /\ silent' = silent
      /\ shut' = IF status[c] = "CLOSED" THEN shut \cup {r} ELSE shut \ {r}
      /\ UNCHANGED <<status, closedAt, role, everElevated, faults>>
  BY DEF Begin
<1>2. /\ DOMAIN new = Fields /\ new.op = op /\ new.case = c /\ new.staff = s /\ new.input = input
      /\ new.todo = Plan(op, input) /\ new.done = {}
  BY DEF Fields
<1>3. Plan(op, input) \in Suffixes(op, input) /\ Len(Plan(op, input)) >= 3 /\ Len(Plan(op, input)) \in Nat
  BY PlanBegins, EachWalks DEF Walks
<1> HIDE DEF new
<1>4. Asks(new)
  <2>1. \A k \in Nat : k >= 3 => Deeds(op, k) = {}
    BY DEF Deeds
  <2>2. Deeds(op, Len(Plan(op, input))) = {}
    BY <1>3, <2>1
  <2> QED  BY <1>2, <1>3, <2>2 DEF Asks
<1>5. /\ DOMAIN request' = Requests /\ request'[r] = new
      /\ \A x \in Requests \ {r} : request'[x] = request[x]
  BY <1>1 DEF IInv, Form
<1>6. Form'
  BY <1>1, <1>2, <1>4, <1>5 DEF IInv, Form, Busy
<1>7. ~Past(op, input, Len(Plan(op, input)))
  <2>1. CASE op = "assign"
    <3>1. Len(Plan(op, input)) = 6
      BY <2>1, PlanBegins
    <3>2. ~Past("assign", input, 6)
      BY DEF Past
    <3> QED  BY <2>1, <3>1, <3>2
  <2>2. CASE op # "assign"
    BY <1>3, <2>2 DEF Past
  <2> QED  BY <2>1, <2>2
<1>8. Elevation'
  BY <1>1, <1>2, <1>5, <1>7 DEF IInv, Elevation, Busy
<1>9. Closing'
  <2>1. ASSUME NEW x \in Requests, x \in shut', Busy(x)'
        PROVE  /\ status'[request'[x].case] = "CLOSED"
               /\ request'[x].op \in {"update", "note"} /\ Len(request'[x].todo) <= 2 =>
                     request'[x].input = "OPEN"
    <3>1. CASE x = r
      BY <1>1, <1>2, <1>3, <1>5, <2>1, <3>1
    <3>2. CASE x # r
      <4>1. request'[x] = request[x] /\ Busy(x) /\ x \in shut
        BY <1>1, <1>5, <2>1, <3>2 DEF Busy
      <4> QED  BY <1>1, <4>1 DEF IInv, Closing
    <3> QED  BY <3>1, <3>2
  <2> QED  BY <1>1, <2>1 DEF IInv, Closing
<1> QED  BY <1>1, <1>6, <1>8, <1>9 DEF IInv, CaseIsAudited

-----------------------------------------------------------------------------
(* The calls.                                                              *)

(* What the call says about how many are left.                             *)
LEMMA CallAt ==
  ASSUME NEW op, NEW input, NEW k \in 1..7
  PROVE  /\ Call(op, input, k) \in {"auth", "member", "elevated", "case", "viewed"} <=> k \in 3..7
         /\ Call(op, input, k) = "write" <=> (k = 2 /\ op \in Writers)
         /\ Call(op, input, k) = "return" => k = 1
<1>1. CASE k \in 3..7
  <2>1. Call(op, input, k) \in {"auth", "member", "elevated", "case", "viewed"} /\ k # 2
    BY <1>1, ChecksFirst
  <2> QED  BY <1>1, <2>1
<1>2. CASE k = 2
  BY <1>2 DEF Call
<1>3. CASE k = 1
  BY <1>3 DEF Call
<1> QED  BY <1>1, <1>2, <1>3

LEMMA Where ==
  ASSUME Form, NEW r \in Requests, Busy(r)
  PROVE  /\ Asks(request[r]) /\ Len(request[r].todo) \in 1..7
         /\ Head(request[r].todo) = Call(request[r].op, request[r].input, Len(request[r].todo))
  BY EachWalks DEF Form, Asks, Walks

(* A request becomes past its elevation by that check alone, and an update *)
(* or a note comes to its write by its one check.                          *)
LEMMA OneCheck ==
  ASSUME NEW op \in Operations, NEW input \in Inputs(op), NEW k \in 1..7
  PROVE  /\ Past(op, input, k - 1) => Past(op, input, k) \/ Call(op, input, k) = "elevated"
         /\ op \in {"update", "note"} /\ k - 1 <= 2 /\ k > 2 =>
               \/ Call(op, input, k) = "case"
               \/ Call(op, input, k) = "elevated" /\ input = "OPEN"
<1>1. CASE k = 3
  BY <1>1 DEF Past, Call, Operations, Inputs, Unchanged
<1>2. CASE k = 5
  BY <1>2 DEF Past, Call, Operations
<1>3. CASE k \in {1, 2, 4, 6, 7}
  BY <1>3 DEF Past, Call, Operations
<1> QED  BY <1>1, <1>2, <1>3

LEMMA CheckStep ==
  ASSUME IInv, NEW r \in Requests, Auth(r) \/ Assigned(r) \/ Elevated(r) \/ Member(r)
  PROVE  IInv'
<1> DEFINE q == request[r]
           k == Len(q.todo)
<1>1. /\ Busy(r) /\ UNCHANGED <<status, closedAt, role, everElevated, shut, faults>>
      /\ Head(q.todo) \in {"auth", "case", "elevated", "member"}
      /\ Continue(r, {}) \/ Refuse(r)
  BY DEF Auth, Assigned, Elevated, Member, At, Check, case
<1>2. Form /\ Asks(q)
  BY <1>1, Where DEF IInv
<1>3. k \in 1..7 /\ Head(q.todo) = Call(q.op, q.input, k)
  BY <1>1, <1>2, Where
<1>4. Deed(Call(q.op, q.input, k)) = {}
  BY <1>1, <1>3 DEF Deed
<1>5. Continue(r, {}) => Advances(r)
  BY <1>1, <1>2, <1>4, ContinueAdvances
<1>6. Past(q.op, q.input, k) => <<q.case, q.staff>> \in everElevated
  BY <1>1 DEF IInv, Elevation
<1>7. ASSUME k # 1, Refuse(r) PROVE Leaves(r) /\ silent' = silent
  BY <1>1, <1>2, <1>7, RefuseLeaves
<1>8. ASSUME IInv, Past(q.op, q.input, k - 1) /\ Busy(r)' => <<q.case, q.staff>> \in everElevated,
             Busy(r)' /\ r \in shut /\ q.op \in {"update", "note"} /\ k - 1 <= 2 => q.input = "OPEN",
             Leaves(r) \/ Advances(r), silent' = silent
      PROVE  IInv'
  <2>1. CaseIsAudited'
    BY <1>1, <1>8 DEF IInv, CaseIsAudited
  <2> QED  BY <1>1, <1>8, <2>1, StepKeeps DEF IInv, Form, Elevation, Closing
<1> HIDE DEF k
<1>9. k \in 3..7
  BY <1>1, <1>3, CallAt
<1>10. k # 1
  BY <1>9
<1>11. (Leaves(r) \/ Advances(r)) /\ silent' = silent
  BY <1>1, <1>5, <1>7, <1>10 DEF Advances
<1>12. ~Busy(r)' \/ ~Refuse(r)
  BY <1>2, IdleIsIdle DEF Refuse, End, Busy, Form
<1>13. Past(q.op, q.input, k - 1) /\ Busy(r)' => <<q.case, q.staff>> \in everElevated
  <2>1. CASE Elevated(r)
    <3>1. role[q.case][q.staff] = "elevated" \/ Refuse(r)
      BY <2>1 DEF Elevated, Check
    <3> QED  BY <1>2, <1>12, <3>1 DEF IInv, Elevation, Asks
  <2>2. CASE ~Elevated(r)
    <3>1. Call(q.op, q.input, k) # "elevated"
      BY <1>1, <1>3, <2>2 DEF Auth, Assigned, Member, At
    <3>2. q.op \in Operations /\ q.input \in Inputs(q.op)
      BY <1>2 DEF Asks
    <3>3. Past(q.op, q.input, k - 1) => Past(q.op, q.input, k)
      BY <1>3, <3>1, <3>2, OneCheck
    <3> QED  BY <1>6, <3>3
  <2> QED  BY <2>1, <2>2
<1>14. Busy(r)' /\ r \in shut /\ q.op \in {"update", "note"} /\ k - 1 <= 2 => q.input = "OPEN"
  <2> SUFFICES ASSUME Busy(r)', r \in shut, q.op \in {"update", "note"}, k - 1 <= 2, q.input # "OPEN"
               PROVE  FALSE
    OBVIOUS
  <2>1. q.op \in Operations /\ q.input \in Inputs(q.op) /\ k > 2
    BY <1>2, <1>9 DEF Asks
  <2>2. Call(q.op, q.input, k) = "case"
    BY <1>3, <2>1, OneCheck
  <2>3. Assigned(r)
    BY <1>1, <1>3, <2>2 DEF Auth, Elevated, Member, At
  <2>4. status[q.case] = "CLOSED"
    BY <1>1 DEF IInv, Closing
  <2>5. ~StatusAllows(q)
    BY <2>4 DEF StatusAllows
  <2>6. Refuse(r)
    BY <2>3, <2>5 DEF Assigned, Check
  <2> QED  BY <1>12, <2>6
<1> QED  BY <1>8, <1>11, <1>13, <1>14

LEMMA AtWrite ==
  ASSUME IInv, NEW r \in Requests, At(r, "write")
  PROVE  /\ Busy(r) /\ Asks(request[r]) /\ request[r].op \in Writers /\ Len(request[r].todo) = 2
         /\ Call(request[r].op, request[r].input, Len(request[r].todo)) = "write"
<1> DEFINE k == Len(request[r].todo)
<1>1. /\ Busy(r) /\ Asks(request[r]) /\ k \in 1..7
      /\ Call(request[r].op, request[r].input, k) = "write"
  BY Where DEF IInv, At
<1> HIDE DEF k
<1>2. k = 2 /\ request[r].op \in Writers
  BY <1>1, CallAt
<1> QED  BY <1>1, <1>2 DEF k

(* What a write must see to.                                               *)
LEMMA WriteStep ==
  ASSUME IInv, NEW r \in Requests, At(r, "write"), Wrote(r),
         status' \in [Cases -> Statuses \cup {"NONE"}], closedAt' \in [Cases -> BOOLEAN],
         role' \in [Cases -> [Staff -> {"none", "plain", "elevated"}]],
         everElevated \subseteq everElevated',
         \A c \in Cases, s \in Staff : role'[c][s] = "elevated" => <<c, s>> \in everElevated',
         \A c \in Cases : /\ status'[c] = "CLOSED" => closedAt'[c]
                          /\ status'[c] \in {"NONE", "OPEN"} => ~closedAt'[c],
         shut' \subseteq shut,
         \A x \in Requests : x \in shut' /\ Busy(x) => status'[request[x].case] = "CLOSED"
  PROVE  IInv'
<1>1. /\ Busy(r) /\ Len(request[r].todo) = 2 /\ Form
      /\ Call(request[r].op, request[r].input, Len(request[r].todo)) = "write"
  BY AtWrite DEF IInv
<1>2. Continue(r, {"written"}) /\ faults' = faults
  BY DEF Wrote
<1>3. Advances(r) /\ CaseIsAudited' /\ faults' \in Nat
  <2>1. Advances(r)
    BY <1>1, <1>2, ContinueAdvances DEF Deed
  <2> QED  BY <1>2, <2>1 DEF Advances, IInv, CaseIsAudited, Form
<1>4. Past(request[r].op, request[r].input, 2) => <<request[r].case, request[r].staff>> \in everElevated
  BY <1>1 DEF IInv, Elevation
<1>5. r \in shut /\ request[r].op \in {"update", "note"} => request[r].input = "OPEN"
  <2>1. Len(request[r].todo) <= 2
    BY <1>1
  <2> QED  BY <1>1, <2>1 DEF IInv, Closing
<1>6. Past(request[r].op, request[r].input, 1) => Past(request[r].op, request[r].input, 2)
  BY DEF Past
<1>7. Len(request[r].todo) - 1 = 1
  BY <1>1
<1>8. Past(request[r].op, request[r].input, Len(request[r].todo) - 1) =>
         <<request[r].case, request[r].staff>> \in everElevated
  BY <1>4, <1>6, <1>7
<1> QED  BY <1>1, <1>3, <1>5, <1>8, StepKeeps

LEMMA CreateStep == ASSUME IInv, NEW r \in Requests, Create(r) PROVE IInv'
<1> DEFINE q == request[r]
<1>1. /\ At(r, "write") /\ UNCHANGED <<closedAt, shut>> /\ q.case \in Cases /\ q.staff \in Staff
      /\ Busy(r) /\ Len(q.todo) = 2 /\ Form
  BY AtWrite DEF Create, Asks, IInv
<1>2. CASE status[q.case] = "NONE"
  <2>1. /\ status' = [status EXCEPT ![q.case] = "OPEN"]
        /\ role' = [role EXCEPT ![q.case][q.staff] = "elevated"]
        /\ everElevated' = everElevated \cup {<<q.case, q.staff>>} /\ Wrote(r)
    BY <1>2 DEF Create
  <2>2. /\ status' \in [Cases -> Statuses \cup {"NONE"}] /\ closedAt' \in [Cases -> BOOLEAN]
        /\ role' \in [Cases -> [Staff -> {"none", "plain", "elevated"}]]
    BY <1>1, <2>1 DEF Form, Statuses
  <2>3. \A c \in Cases, s \in Staff : role'[c][s] = "elevated" => <<c, s>> \in everElevated'
    BY <1>1, <2>1 DEF Form, IInv, Elevation
  <2>4. \A c \in Cases : /\ status'[c] = "CLOSED" => closedAt'[c]
                         /\ status'[c] \in {"NONE", "OPEN"} => ~closedAt'[c]
    BY <1>1, <1>2, <2>1 DEF Form, IInv, Closing
  <2>5. \A x \in Requests : x \in shut' /\ Busy(x) => status'[request[x].case] = "CLOSED"
    BY <1>1, <1>2, <2>1 DEF Form, Asks, IInv, Closing
  <2> QED  BY <1>1, <2>1, <2>2, <2>3, <2>4, <2>5, WriteStep
<1>3. CASE status[q.case] # "NONE"
  <2>1. Refuse(r) /\ UNCHANGED <<status, role, everElevated, faults>>
    BY <1>3 DEF Create
  <2>2. Leaves(r) /\ silent' = silent
    BY <1>1, <2>1, RefuseLeaves
  <2>3. ~Busy(r)'
    BY <1>1, <2>2, IdleIsIdle DEF Leaves, Busy, Form
  <2>4. CaseIsAudited'
    BY <2>1, <2>2 DEF IInv, CaseIsAudited
  <2> QED  BY <1>1, <2>1, <2>2, <2>3, <2>4, StepKeeps DEF IInv, Form, Elevation, Closing
<1> QED  BY <1>2, <1>3

LEMMA UpdateStep == ASSUME IInv, NEW r \in Requests, Update(r) PROVE IInv'
<1> DEFINE q == request[r]
<1>1. /\ At(r, "write") /\ UNCHANGED <<role, everElevated>> /\ q.case \in Cases /\ Wrote(r) /\ Form
      /\ q.input \in Statuses \cup {Unchanged}
  BY AtWrite DEF Update, Asks, IInv, Inputs
<1>2. /\ status' = IF q.input = Unchanged THEN status ELSE [status EXCEPT ![q.case] = q.input]
      /\ closedAt' = [closedAt EXCEPT ![q.case] = CASE q.input = "CLOSED" -> TRUE
                                                   [] q.input = "OPEN" -> FALSE
                                                   [] OTHER -> @]
      /\ shut' = IF q.input \in {"OPEN", "IN_PROGRESS"}
                 THEN {x \in shut : request[x].case # q.case} ELSE shut
  BY DEF Update
<1>3. /\ status' \in [Cases -> Statuses \cup {"NONE"}] /\ closedAt' \in [Cases -> BOOLEAN]
  BY <1>1, <1>2 DEF Form
<1>4. \A c \in Cases : /\ status'[c] = "CLOSED" => closedAt'[c]
                       /\ status'[c] \in {"NONE", "OPEN"} => ~closedAt'[c]
  BY <1>1, <1>2 DEF Form, IInv, Closing, Unchanged, Statuses
<1>5. \A x \in Requests : x \in shut' /\ Busy(x) => status'[request[x].case] = "CLOSED"
  BY <1>1, <1>2 DEF Form, Asks, IInv, Closing, Unchanged, Statuses
<1> QED  BY <1>1, <1>2, <1>3, <1>4, <1>5, WriteStep DEF IInv, Form, Elevation

LEMMA NoteStep == ASSUME IInv, NEW r \in Requests, Note(r) PROVE IInv'
  BY WriteStep DEF Note, IInv, Form, Elevation, Closing

LEMMA AssignStep == ASSUME IInv, NEW r \in Requests, Assign(r) PROVE IInv'
<1> DEFINE q == request[r]
<1>1. /\ At(r, "write") /\ UNCHANGED <<status, closedAt, shut>> /\ q.case \in Cases /\ Wrote(r) /\ Form
      /\ q.input \in [to : Staff, level : {"plain", "elevated"}]
  BY AtWrite DEF Assign, Asks, IInv, Inputs
<1>2. /\ role' = [role EXCEPT ![q.case][q.input.to] = q.input.level]
      /\ everElevated' = IF q.input.level = "elevated"
                         THEN everElevated \cup {<<q.case, q.input.to>>} ELSE everElevated
  BY DEF Assign
<1>3. role' \in [Cases -> [Staff -> {"none", "plain", "elevated"}]]
  BY <1>1, <1>2 DEF Form
<1>4. \A c \in Cases, s \in Staff : role'[c][s] = "elevated" => <<c, s>> \in everElevated'
  BY <1>1, <1>2 DEF Form, IInv, Elevation
<1> QED  BY <1>1, <1>2, <1>3, <1>4, WriteStep DEF IInv, Form, Closing

LEMMA AuditStep == ASSUME IInv, NEW r \in Requests, Audit(r) \/ Return(r) PROVE IInv'
<1> DEFINE q == request[r]
           k == Len(q.todo)
           next == Call(q.op, q.input, k)
<1>1. /\ Busy(r) /\ UNCHANGED <<status, closedAt, role, everElevated, shut, faults>>
      /\ Head(q.todo) \in {"audit", "viewed", "return"}
      /\ Continue(r, CASE Head(q.todo) = "audit" -> {"audited"} [] Head(q.todo) = "viewed" -> {}
                       [] OTHER -> {"returned"})
  BY DEF Audit, Return, At, case
<1>2. Form /\ Asks(q) /\ k \in 1..7 /\ Head(q.todo) = next
  BY <1>1, Where DEF IInv
<1>3. Advances(r)
  <2>1. Continue(r, Deed(next))
    BY <1>1, <1>2 DEF Deed
  <2> QED  BY <1>1, <1>2, <2>1, ContinueAdvances
<1>4. CaseIsAudited'
  BY <1>1, <1>3 DEF IInv, CaseIsAudited, Advances
<1>5. Past(q.op, q.input, k) => <<q.case, q.staff>> \in everElevated
  BY <1>1 DEF IInv, Elevation
<1>6. r \in shut /\ q.op \in {"update", "note"} /\ k <= 2 => q.input = "OPEN"
  BY <1>1 DEF IInv, Closing
<1>7. ASSUME Past(q.op, q.input, k - 1) => Past(q.op, q.input, k),
             q.op \in {"update", "note"} => ~(k - 1 <= 2 /\ k > 2)
      PROVE  IInv'
  <2>1. r \in shut /\ q.op \in {"update", "note"} /\ k - 1 <= 2 => q.input = "OPEN"
    BY <1>2, <1>6, <1>7
  <2> QED  BY <1>1, <1>3, <1>4, <1>5, <1>7, <2>1, StepKeeps DEF IInv, Form, Elevation, Closing
<1> HIDE DEF k
<1>8. next # "elevated" /\ next # "case"
  BY <1>1, <1>2
<1>9. q.op \in Operations /\ q.input \in Inputs(q.op)
  BY <1>2 DEF Asks
<1>10. Past(q.op, q.input, k - 1) => Past(q.op, q.input, k)
  BY <1>2, <1>8, <1>9, OneCheck
<1>11. q.op \in {"update", "note"} => ~(k - 1 <= 2 /\ k > 2)
  BY <1>2, <1>8, <1>9, OneCheck
<1> QED  BY <1>7, <1>10, <1>11

LEMMA DieStep == ASSUME IInv, NEW r \in Requests, Die(r) PROVE IInv'
<1>1. /\ Busy(r) /\ UNCHANGED <<status, closedAt, role, everElevated, shut>> /\ Form
      /\ request' = [request EXCEPT ![r] = Idle] /\ faults' = faults + 1
      /\ silent' = silent \cup Unrecorded(request[r].done)
  BY DEF Die, Fault, End, case, IInv
<1>2. ~Busy(r)' /\ Leaves(r)
  BY <1>1, IdleIsIdle DEF Leaves, Busy, Form
<1>3. request[r].done \in {{}, {"written"}, {"audited"}}
  BY <1>1 DEF Form, Asks, Deeds
<1>4. "returned" \notin Unrecorded(request[r].done) /\ faults' \in Nat /\ faults' # 0
  BY <1>1, <1>3 DEF Unrecorded, Form
<1>5. CaseIsAudited'
  BY <1>1, <1>4 DEF IInv, CaseIsAudited
<1> QED  BY <1>1, <1>2, <1>4, <1>5, StepKeeps DEF IInv, Form, Elevation, Closing

LEMMA Starts == Init => IInv
<1> SUFFICES ASSUME Init PROVE IInv
  OBVIOUS
<1> USE DEF Init
<1>1. \A r \in Requests : ~Busy(r)
  BY IdleIsIdle DEF Busy
<1>2. Form
  BY <1>1 DEF Form, AccessInit
<1>3. Elevation /\ Closing
  BY <1>1 DEF Elevation, Closing
<1>4. CaseIsAudited
  BY DEF CaseIsAudited
<1> QED  BY <1>2, <1>3, <1>4 DEF IInv

LEMMA Inductive == IInv /\ [Next]_vars => IInv'
<1> SUFFICES ASSUME IInv, [Next]_vars PROVE IInv'
  OBVIOUS
<1>1. ASSUME NEW r \in Requests, NEW s \in Staff, NEW c \in Cases, NEW op \in Operations,
             NEW input \in Inputs(op), Begin(r, s, c, op, input)
      PROVE  IInv'
  BY <1>1, BeginStep
<1>2. ASSUME NEW r \in Requests, Step(r) PROVE IInv'
  BY <1>2, CheckStep, CreateStep, UpdateStep, NoteStep, AssignStep, AuditStep DEF Step
<1>3. ASSUME NEW r \in Requests, Die(r) PROVE IInv'
  BY <1>3, DieStep
<1>4. CASE UNCHANGED vars \/ \E s \in Staff : EndAccess(s)
  <2>1. UNCHANGED <<status, closedAt, role, everElevated, shut, silent, request, faults>>
    BY <1>4 DEF vars, caseVars, case, accessVars, EndAccess
  <2> QED  BY <2>1 DEF IInv, Form, Elevation, Closing, CaseIsAudited, Busy
<1> QED  BY <1>1, <1>2, <1>3, <1>4 DEF Next

LEMMA CasesMean == IInv => ElevatedWork /\ CaseIsAudited /\ ClosedIsKept
<1>1. IInv => ElevatedWork
  <2> SUFFICES ASSUME IInv, NEW r \in Requests,
                      \/ At(r, "write") /\ request[r].op = "assign"
                      \/ At(r, "write") /\ request[r].op = "update" /\ request[r].input = "OPEN"
                      \/ At(r, "return") /\ request[r].op = "export"
               PROVE  <<request[r].case, request[r].staff>> \in everElevated
    BY DEF ElevatedWork
  <2> DEFINE k == Len(request[r].todo)
  <2>1. Busy(r) /\ k \in 1..7 /\ Call(request[r].op, request[r].input, k) \in {"write", "return"}
    BY Where DEF IInv, At
  <2>2. Past(request[r].op, request[r].input, k) => <<request[r].case, request[r].staff>> \in everElevated
    BY <2>1 DEF IInv, Elevation
  <2> HIDE DEF k
  <2>3. k <= 2
    BY <2>1, CallAt
  <2>4. Past(request[r].op, request[r].input, k)
    BY <2>1, <2>3 DEF Past
  <2> QED  BY <2>2, <2>4
<1>2. IInv => ClosedIsKept
  <2> SUFFICES ASSUME IInv PROVE ClosedIsKept
    OBVIOUS
  <2>1. ASSUME NEW r \in shut, At(r, "write"), request[r].op \in {"update", "note"}
        PROVE  request[r].input = "OPEN"
    <3>1. r \in Requests
      BY DEF IInv, Closing
    <3>2. Busy(r) /\ Len(request[r].todo) = 2
      BY <2>1, <3>1, AtWrite
    <3>3. Len(request[r].todo) <= 2
      BY <3>2
    <3> QED  BY <2>1, <3>1, <3>2, <3>3 DEF IInv, Closing
  <2> QED  BY <2>1 DEF IInv, Closing, ClosedIsKept
<1>3. IInv => CaseIsAudited
  BY DEF IInv
<1> QED  BY <1>1, <1>2, <1>3


-----------------------------------------------------------------------------
(* Whoever is about to assign, reopen or export has been elevated on the   *)
(* case, however checks, elevations and demotions overlap (access).        *)
THEOREM ElevatedWorkHolds == Spec => []ElevatedWork
<1>1. IInv => ElevatedWork
  BY CasesMean
<1> QED  BY Starts, Inductive, <1>1, PTL DEF Spec

(* Nothing confidential is returned before it is audited, and unless a     *)
(* call fails nothing is changed without being audited (detail, export,    *)
(* create, update, note, assign).                                          *)
THEOREM CaseIsAuditedHolds == Spec => []CaseIsAudited
<1>1. IInv => CaseIsAudited
  BY CasesMean
<1> QED  BY Starts, Inductive, <1>1, PTL DEF Spec

(* Closed cases have their closing date, open ones none, and a case closed *)
(* before a request began gets nothing from it but its reopening (update,  *)
(* note).                                                                  *)
THEOREM ClosedIsKeptHolds == Spec => []ClosedIsKept
<1>1. IInv => ClosedIsKept
  BY CasesMean
<1> QED  BY Starts, Inductive, <1>1, PTL DEF Spec

-----------------------------------------------------------------------------
(* Steps on closed cases.                                                  *)

LEMMA WriteMoves ==
  ASSUME IInv, NEW r \in Requests, At(r, "write"), Wrote(r)
  PROVE  request'[r] # request[r]
<1>1. /\ Busy(r) /\ Len(request[r].todo) = 2 /\ Form
      /\ Call(request[r].op, request[r].input, Len(request[r].todo)) = "write"
  BY AtWrite DEF IInv
<1>2. Advances(r)
  BY <1>1, ContinueAdvances DEF Wrote, Deed
<1> PICK new : request' = [request EXCEPT ![r] = new] /\ Len(new.todo) = 1
  BY <1>1, <1>2 DEF Advances
<1>3. request'[r] = new
  BY <1>1 DEF Form
<1> QED  BY <1>1, <1>3

LEMMA OthersLeaveCases ==
  ASSUME [Next]_vars, ~(\E r \in Requests : Create(r) \/ Update(r) \/ Note(r))
  PROVE  UNCHANGED <<status, notes>>
<1>1. ASSUME NEW r \in Requests, NEW s \in Staff, NEW c \in Cases, NEW op \in Operations,
             NEW input \in Inputs(op), Begin(r, s, c, op, input)
      PROVE  UNCHANGED <<status, notes>>
  BY <1>1 DEF Begin
<1>2. ASSUME NEW r \in Requests,
             \/ Auth(r) \/ Assigned(r) \/ Elevated(r) \/ Member(r)
             \/ Assign(r) \/ Audit(r) \/ Return(r) \/ Die(r)
      PROVE  UNCHANGED <<status, notes>>
  BY <1>2 DEF Auth, Assigned, Elevated, Member, Check, Assign, Audit, Return, Die, case
<1>3. ASSUME NEW s \in Staff, EndAccess(s) PROVE UNCHANGED <<status, notes>>
  BY <1>3 DEF EndAccess, caseVars, case
<1>4. CASE UNCHANGED vars
  BY <1>4 DEF vars, caseVars, case
<1> QED  BY <1>1, <1>2, <1>3, <1>4 DEF Next, Step

LEMMA ClosedStep == IInv /\ [Next]_vars => ClosedRests
<1> SUFFICES ASSUME IInv, [Next]_vars PROVE ClosedRests
  OBVIOUS
<1>1. ASSUME NEW r \in Requests, Create(r) PROVE ClosedRests
  <2>1. notes' = notes /\ (status' = status \/
           (status[request[r].case] = "NONE" /\ status' = [status EXCEPT ![request[r].case] = "OPEN"]))
    BY <1>1 DEF Create
  <2>2. status \in [Cases -> Statuses \cup {"NONE"}]
    BY DEF IInv, Form
  <2> QED  BY <2>1, <2>2 DEF ClosedRests
<1>2. ASSUME NEW r \in Requests, Update(r) PROVE ClosedRests
  <2> DEFINE q == request[r]
  <2>1. /\ At(r, "write") /\ q.op = "update" /\ request'[r] # q /\ notes' = notes
        /\ status' = IF q.input = Unchanged THEN status ELSE [status EXCEPT ![q.case] = q.input]
    BY <1>2, WriteMoves DEF Update
  <2>2. r \in shut => q.input = "OPEN" /\ <<q.case, q.staff>> \in everElevated
    BY <2>1, CasesMean DEF ClosedIsKept, ElevatedWork
  <2>3. ASSUME NEW c \in Cases, status[c] = "CLOSED", status'[c] # "CLOSED"
        PROVE  c = q.case
    BY <2>1, <2>3 DEF IInv, Form
  <2> QED  BY <2>1, <2>2, <2>3 DEF ClosedRests, Writing
<1>3. ASSUME NEW r \in Requests, Note(r) PROVE ClosedRests
  <2> DEFINE q == request[r]
  <2>1. /\ At(r, "write") /\ q.op = "note" /\ request'[r] # q /\ status' = status
        /\ notes' = [notes EXCEPT ![q.case] = @ + 1]
    BY <1>3, WriteMoves DEF Note
  <2>2. r \notin shut
    <3>1. q.input = Unchanged
      BY <2>1, AtWrite DEF Asks, Inputs
    <3> QED  BY <2>1, <3>1, CasesMean DEF ClosedIsKept, Unchanged
  <2>3. \A c \in Cases : notes'[c] # notes[c] => c = q.case
    BY <2>1
  <2> QED  BY <2>1, <2>2, <2>3 DEF ClosedRests, Writing
<1>4. CASE UNCHANGED <<status, notes>>
  BY <1>4 DEF ClosedRests
<1> QED  BY <1>1, <1>2, <1>3, <1>4, OthersLeaveCases

-----------------------------------------------------------------------------
(* The rest of the types: what is left to do is the end of the plan, and a *)
(* case exists once somebody has been elevated on it.                      *)
EndOf(todo, plan) == \E k \in 0..6 : todo = SubSeq(plan, k + 1, Len(plan))

Existing ==
    /\ access \subseteq Staff /\ faults <= MaxFaults
    /\ notes \in [Cases -> 0..MaxNotes]
    /\ everElevated \subseteq Cases \X Staff
    /\ silent \subseteq {"written", "returned"}
    /\ \A c \in Cases : status[c] # "NONE" <=> \E s \in Staff : <<c, s>> \in everElevated
    /\ \A c \in Cases, s \in Staff : role[c][s] # "none" => status[c] # "NONE"
    /\ \A r \in Requests : Busy(r) => EndOf(request[r].todo, Plan(request[r].op, request[r].input))
    /\ \A r \in Requests : Busy(r) /\ request[r].op = "update" /\ Len(request[r].todo) <= 2 =>
                              status[request[r].case] # "NONE"

Calls == {"auth", "case", "write", "audit", "return", "elevated", "member", "viewed"}

LEMMA PlanIsShort ==
  ASSUME NEW op \in Operations, NEW input
  PROVE  Plan(op, input) \in Seq(Calls) /\ Len(Plan(op, input)) \in 1..7
<1>1. CASE op = "create"
  <2>1. Plan(op, input) = <<"auth", "write", "audit">>
    BY <1>1 DEF Plan
  <2> QED  BY <2>1 DEF Calls
<1>2. CASE op = "view"
  <2>1. Plan(op, input) = <<"auth", "case", "audit", "return">>
    BY <1>2 DEF Plan
  <2> QED  BY <2>1 DEF Calls
<1>3. CASE op = "update"
  <2>1. Plan(op, input) = <<"auth", IF input = "OPEN" THEN "elevated" ELSE "case", "write", "audit">>
    BY <1>3 DEF Plan
  <2>2. PICK check : check = IF input = "OPEN" THEN "elevated" ELSE "case"
    OBVIOUS
  <2>3. Plan(op, input) = <<"auth", check, "write", "audit">> /\ check \in {"elevated", "case"}
    BY <2>1, <2>2
  <2> QED  BY <2>3 DEF Calls
<1>4. CASE op = "note"
  <2>1. Plan(op, input) = <<"auth", "case", "write", "audit">>
    BY <1>4 DEF Plan
  <2> QED  BY <2>1 DEF Calls
<1>5. CASE op = "assign"
  <2>1. Plan(op, input) = <<"auth", "elevated", "auth", "member", "write", "audit">>
    BY <1>5 DEF Plan
  <2> QED  BY <2>1 DEF Calls
<1>6. CASE op = "export"
  <2>1. Plan(op, input) = <<"auth", "case", "viewed", "auth", "elevated", "audit", "return">>
    BY <1>6 DEF Plan
  <2> QED  BY <2>1 DEF Calls
<1> QED  BY <1>1, <1>2, <1>3, <1>4, <1>5, <1>6 DEF Operations

LEMMA EndMoves ==
  ASSUME NEW plan \in Seq(Calls), Len(plan) \in 1..7, NEW todo, todo # <<>>, Len(todo) # 1, EndOf(todo, plan)
  PROVE  EndOf(Tail(todo), plan)
<1>1. PICK k \in 0..6 : todo = SubSeq(plan, k + 1, Len(plan))
  BY DEF EndOf
<1>2. CASE k + 1 > Len(plan)
  <2>1. todo = <<>>
    BY <1>1, <1>2, SubSeqEmpty
  <2> QED  BY <2>1
<1>3. CASE k + 1 <= Len(plan)
  <2>1. k + 1 \in 1..Len(plan) /\ Len(plan) \in (k + 1)..Len(plan)
    BY <1>3
  <2>2. Tail(todo) = SubSeq(plan, k + 1 + 1, Len(plan))
    BY <1>1, <2>1, HeadTailOfSubSeq
  <2>3. Len(todo) = Len(plan) - (k + 1) + 1
    <3>1. \A i \in (k + 1)..Len(plan) : plan[i] \in Calls
      OBVIOUS
    <3> QED  BY <1>1, <1>3, <3>1, SubSeqProperties
  <2>4. k + 1 \in 0..6
    <3>1. PICK n \in 1..7 : n = Len(plan)
      OBVIOUS
    <3>2. n - (k + 1) + 1 # 1
      BY <1>1, <2>3, <3>1
    <3>3. k + 1 <= n
      BY <1>3, <3>1
    <3>4. n # k + 1
      BY <3>2
    <3> QED  BY <3>3, <3>4
  <2> QED  BY <2>2, <2>4 DEF EndOf
<1> QED  BY <1>2, <1>3

LEMMA RequestMoves ==
  ASSUME Form, NEW r \in Requests, Busy(r), NEW deed, NEW done, Continue(r, deed) \/ End(r, done)
  PROVE  /\ \A x \in Requests : x # r => request'[x] = request[x]
         /\ Busy(r)' => /\ request'[r].op = request[r].op /\ request'[r].case = request[r].case
                        /\ request'[r].input = request[r].input
                        /\ request'[r].todo = Tail(request[r].todo) /\ Len(request[r].todo) # 1
         /\ silent' \subseteq silent \cup {"written", "returned"}
<1>1. \A x : Unrecorded(x) \subseteq {"written", "returned"}
  BY DEF Unrecorded
<1>2. ASSUME NEW x, End(r, x)
      PROVE  ~Busy(r)' /\ (\A y \in Requests : y # r => request'[y] = request[y])
             /\ silent' \subseteq silent \cup {"written", "returned"}
  BY <1>1, <1>2, IdleIsIdle DEF End, Busy, Form
<1>3. CASE \E x : End(r, x)
  BY <1>2, <1>3
<1>4. CASE /\ Len(request[r].todo) # 1
           /\ request' = [request EXCEPT ![r].todo = Tail(@), ![r].done = request[r].done \cup deed]
           /\ silent' \subseteq silent \cup {"written", "returned"}
  <2>1. PICK new : new = [request[r] EXCEPT !.todo = Tail(request[r].todo), !.done = request[r].done \cup deed]
    OBVIOUS
  <2>2. /\ new.op = request[r].op /\ new.case = request[r].case /\ new.input = request[r].input
        /\ new.todo = Tail(request[r].todo)
    BY <2>1 DEF Form, Fields
  <2>3. request' = [request EXCEPT ![r] = new]
    BY <1>4, <2>1
  <2> QED  BY <1>4, <2>2, <2>3 DEF Form
<1> QED  BY <1>1, <1>3, <1>4 DEF Continue

(* What a step of request r must see to.                                   *)
LEMMA ExistingKept ==
  ASSUME IInv, Existing, NEW r \in Requests, Busy(r), NEW deed, NEW done, Continue(r, deed) \/ End(r, done),
         access' \subseteq Staff, faults' <= MaxFaults, notes' \in [Cases -> 0..MaxNotes],
         everElevated' \subseteq Cases \X Staff,
         \A c \in Cases : status'[c] # "NONE" <=> \E s \in Staff : <<c, s>> \in everElevated',
         \A c \in Cases, s \in Staff : role'[c][s] # "none" => status'[c] # "NONE",
         \A c \in Cases : status[c] # "NONE" => status'[c] # "NONE",
         /\ Busy(r)' /\ request[r].op = "update" /\ Len(request[r].todo) - 1 <= 2
         => status'[request[r].case] # "NONE"
  PROVE  Existing'
<1>1. Form /\ \A x \in Requests : Busy(x) => Asks(request[x]) /\ Len(request[x].todo) \in 1..7
  BY Where DEF IInv
<1>2. /\ \A x \in Requests : x # r => request'[x] = request[x]
      /\ Busy(r)' => /\ request'[r].op = request[r].op /\ request'[r].case = request[r].case
                     /\ request'[r].input = request[r].input
                     /\ request'[r].todo = Tail(request[r].todo) /\ Len(request[r].todo) # 1
      /\ silent' \subseteq silent \cup {"written", "returned"}
  BY <1>1, RequestMoves
<1>3. ASSUME NEW x \in Requests, Busy(x)'
      PROVE  /\ EndOf(request'[x].todo, Plan(request'[x].op, request'[x].input))
             /\ request'[x].op = "update" /\ Len(request'[x].todo) <= 2 => status'[request'[x].case] # "NONE"
  <2>1. CASE x # r
    <3>1. request'[x] = request[x] /\ Busy(x) /\ request[x].case \in Cases
      BY <1>1, <1>2, <1>3, <2>1 DEF Busy, Asks
    <3> QED  BY <3>1 DEF Existing
  <2>2. CASE x = r
    <3>1. EndOf(Tail(request[r].todo), Plan(request[r].op, request[r].input))
      <4>1. EndOf(request[r].todo, Plan(request[r].op, request[r].input)) /\ request[r].todo # <<>>
        BY DEF Existing, Busy
      <4>2. /\ Plan(request[r].op, request[r].input) \in Seq(Calls)
            /\ Len(Plan(request[r].op, request[r].input)) \in 1..7
        BY <1>1, PlanIsShort DEF Asks
      <4> QED  BY <1>2, <1>3, <2>2, <4>1, <4>2, EndMoves
    <3>2. Len(Tail(request[r].todo)) = Len(request[r].todo) - 1
      <4>1. Walks(request[r].op, request[r].input, request[r].todo)
        BY <1>1, EachWalks DEF Asks
      <4> QED  BY <1>2, <1>3, <2>2, <4>1 DEF Walks
    <3> QED  BY <1>2, <1>3, <2>2, <3>1, <3>2
  <2> QED  BY <2>1, <2>2
<1> QED  BY <1>2, <1>3 DEF Existing

LEMMA ExistingBegins ==
  ASSUME IInv, Existing, NEW r \in Requests, NEW s \in Staff, NEW c \in Cases, NEW op \in Operations,
         NEW input \in Inputs(op), Begin(r, s, c, op, input)
  PROVE  Existing'
<1>1. PICK new : new = [op |-> op, case |-> c, staff |-> s, input |-> input,
                       todo |-> Plan(op, input), done |-> {}]
  OBVIOUS
<1>2. /\ request' = [request EXCEPT ![r] = new] /\ silent' = silent
      /\ UNCHANGED <<status, closedAt, role, notes, everElevated, access, faults>>
  BY <1>1 DEF Begin
<1>3. new.op = op /\ new.input = input /\ new.todo = Plan(op, input)
  BY <1>1
<1>4. request'[r] = new /\ \A x \in Requests : x # r => request'[x] = request[x]
  BY <1>2 DEF IInv, Form
<1>5. EndOf(Plan(op, input), Plan(op, input))
  <2>1. SubSeq(Plan(op, input), 1, Len(Plan(op, input))) = Plan(op, input)
    BY PlanIsShort, SubSeqFull
  <2>2. 0 \in 0..6 /\ 0 + 1 = 1
    OBVIOUS
  <2>3. \E k \in 0..6 : k + 1 = 1
    BY <2>2
  <2>4. PICK plan : plan = Plan(op, input)
    OBVIOUS
  <2>5. \E k \in 0..6 : plan = SubSeq(plan, k + 1, Len(plan))
    BY <2>1, <2>3, <2>4
  <2> QED  BY <2>4, <2>5 DEF EndOf
<1>6. op = "update" => Len(Plan(op, input)) = 4
  BY PlanBegins
<1>7. ASSUME NEW x \in Requests, Busy(x)'
      PROVE  /\ EndOf(request'[x].todo, Plan(request'[x].op, request'[x].input))
             /\ request'[x].op = "update" /\ Len(request'[x].todo) <= 2 => status'[request'[x].case] # "NONE"
  <2>1. CASE x = r
    BY <1>3, <1>4, <1>5, <1>6, <2>1
  <2>2. CASE x # r
    <3>1. request'[x] = request[x] /\ Busy(x)
      BY <1>4, <1>7, <2>2 DEF Busy
    <3> QED  BY <1>2, <3>1 DEF Existing
  <2> QED  BY <2>1, <2>2
<1> QED  BY <1>2, <1>7 DEF Existing

LEMMA ExistingChecks ==
  ASSUME IInv, Existing, NEW r \in Requests, Auth(r) \/ Assigned(r) \/ Elevated(r) \/ Member(r)
  PROVE  Existing'
<1> DEFINE q == request[r]
           k == Len(q.todo)
<1>1. /\ Busy(r) /\ UNCHANGED <<status, closedAt, role, notes, everElevated, shut, access, faults>>
      /\ Head(q.todo) \in {"auth", "case", "elevated", "member"}
      /\ Continue(r, {}) \/ Refuse(r)
  BY DEF Auth, Assigned, Elevated, Member, At, Check, case
<1>2. Form /\ Asks(q) /\ k \in 1..7 /\ Head(q.todo) = Call(q.op, q.input, k)
  BY <1>1, Where DEF IInv
<1>3. ~Busy(r)' \/ ~Refuse(r)
  BY <1>2, IdleIsIdle DEF Refuse, End, Busy, Form
<1>4. ASSUME Busy(r)', q.op = "update", k - 1 <= 2 PROVE status[q.case] # "NONE"
  <2>1. k = 3
    <3> HIDE DEF k
    <3>1. k \in 3..7
      BY <1>1, <1>2, CallAt
    <3> QED  BY <1>4, <3>1
  <2>2. Head(q.todo) \in {"case", "elevated"}
    <3>1. Call(q.op, q.input, 3) \in {"case", "elevated"}
      BY <1>4 DEF Call
    <3> QED  BY <1>2, <2>1, <3>1
  <2>3. role[q.case][q.staff] # "none"
    <3>1. Assigned(r) \/ Elevated(r)
      BY <2>2 DEF Auth, Assigned, Elevated, Member, At
    <3> QED  BY <1>3, <1>4, <3>1 DEF Assigned, Elevated, Check
  <2> QED  BY <1>2, <2>3 DEF Existing, Asks
<1>5. \E deed, done : Continue(r, deed) \/ End(r, done)
  BY <1>1 DEF Refuse
<1> QED  BY <1>1, <1>4, <1>5, ExistingKept DEF Existing

LEMMA ExistingWrites ==
  ASSUME IInv, Existing, NEW r \in Requests, Create(r) \/ Update(r) \/ Note(r) \/ Assign(r)
  PROVE  Existing'
<1> DEFINE q == request[r]
<1>1. At(r, "write") /\ UNCHANGED <<access, faults>>
  BY DEF Create, Update, Note, Assign, Wrote
<1>2. /\ Busy(r) /\ Asks(q) /\ Len(q.todo) = 2 /\ q.case \in Cases /\ q.staff \in Staff /\ Form
  BY <1>1, AtWrite DEF Asks, IInv
<1>3. \E deed, done : Continue(r, deed) \/ End(r, done)
  BY DEF Create, Update, Note, Assign, Wrote, Refuse
<1>4. q.op = "update" => status[q.case] # "NONE"
  <2>1. Len(q.todo) <= 2
    BY <1>2
  <2> QED  BY <1>2, <2>1 DEF Existing
<1>5. CASE Create(r)
  <2>1. q.op # "update" /\ notes' = notes
    BY <1>5 DEF Create
  <2>2. CASE status[q.case] = "NONE"
    <3>1. /\ status' = [status EXCEPT ![q.case] = "OPEN"]
          /\ role' = [role EXCEPT ![q.case][q.staff] = "elevated"]
          /\ everElevated' = everElevated \cup {<<q.case, q.staff>>}
      BY <1>5, <2>2 DEF Create
    <3>2. \A c \in Cases : c # q.case => status'[c] = status[c] /\ role'[c] = role[c]
      BY <1>2, <3>1 DEF Form
    <3>3. status'[q.case] = "OPEN"
      BY <1>2, <3>1 DEF Form
    <3>4. \A c \in Cases : status'[c] # "NONE" <=> \E s \in Staff : <<c, s>> \in everElevated'
      BY <1>2, <3>1, <3>2, <3>3 DEF Existing
    <3>5. \A c \in Cases, s \in Staff : role'[c][s] # "none" => status'[c] # "NONE"
      BY <3>2, <3>3 DEF Existing
    <3>6. everElevated' \subseteq Cases \X Staff
      BY <1>2, <3>1 DEF Existing
    <3>7. \A c \in Cases : status[c] # "NONE" => status'[c] # "NONE"
      BY <2>2, <3>2
    <3> QED  BY <1>1, <1>2, <1>3, <2>1, <3>4, <3>5, <3>6, <3>7, ExistingKept DEF Existing
  <2>3. CASE status[q.case] # "NONE"
    <3>1. UNCHANGED <<status, role, everElevated>>
      BY <1>5, <2>3 DEF Create
    <3> QED  BY <1>1, <1>2, <1>3, <2>1, <3>1, ExistingKept DEF Existing
  <2> QED  BY <2>2, <2>3
<1>6. CASE Update(r)
  <2>1. /\ UNCHANGED <<role, notes, everElevated>> /\ q.op = "update"
        /\ status' = IF q.input = Unchanged THEN status ELSE [status EXCEPT ![q.case] = q.input]
    BY <1>6 DEF Update
  <2>2. \A c \in Cases : status'[c] # "NONE" <=> status[c] # "NONE"
    <3>1. q.input = Unchanged \/ q.input \in Statuses
      BY <1>2, <2>1 DEF Asks, Inputs
    <3>2. \A x \in Statuses : x # "NONE"
      BY DEF Statuses
    <3> QED  BY <1>2, <1>4, <2>1, <3>1, <3>2 DEF Form
  <2> QED  BY <1>1, <1>2, <1>3, <1>4, <2>1, <2>2, ExistingKept DEF Existing
<1>7. CASE Note(r)
  <2>1. /\ UNCHANGED <<status, role, everElevated>> /\ q.op = "note"
        /\ notes[q.case] < MaxNotes /\ notes' = [notes EXCEPT ![q.case] = @ + 1]
    BY <1>7 DEF Note
  <2>2. notes' \in [Cases -> 0..MaxNotes]
    BY <1>2, <2>1, GuidanceBounds DEF Existing
  <2> QED  BY <1>1, <1>2, <1>3, <2>1, <2>2, ExistingKept DEF Existing
<1>8. CASE Assign(r)
  <2>1. /\ UNCHANGED <<status, notes>> /\ q.op = "assign"
        /\ role' = [role EXCEPT ![q.case][q.input.to] = q.input.level]
        /\ everElevated' = IF q.input.level = "elevated"
                           THEN everElevated \cup {<<q.case, q.input.to>>} ELSE everElevated
    BY <1>8 DEF Assign
  <2>2. q.input.to \in Staff
    BY <1>2, <2>1 DEF Asks, Inputs
  <2>3. status[q.case] # "NONE"
    <3>1. Past(q.op, q.input, Len(q.todo))
      BY <1>2, <2>1 DEF Past
    <3>2. <<q.case, q.staff>> \in everElevated
      BY <1>2, <3>1 DEF IInv, Elevation
    <3> QED  BY <1>2, <3>2 DEF Existing
  <2>4. \A c \in Cases : c # q.case => role'[c] = role[c]
    BY <1>2, <2>1 DEF Form
  <2>5. \A c \in Cases : status'[c] # "NONE" <=> \E s \in Staff : <<c, s>> \in everElevated'
    BY <1>2, <2>1, <2>2, <2>3 DEF Existing
  <2>6. \A c \in Cases, s \in Staff : role'[c][s] # "none" => status'[c] # "NONE"
    BY <2>1, <2>3, <2>4 DEF Existing
  <2>7. everElevated' \subseteq Cases \X Staff
    BY <1>2, <2>1, <2>2 DEF Existing
  <2> QED  BY <1>1, <1>2, <1>3, <2>1, <2>5, <2>6, <2>7, ExistingKept DEF Existing
<1> QED  BY <1>5, <1>6, <1>7, <1>8

LEMMA ExistingEnds ==
  ASSUME IInv, Existing, NEW r \in Requests, Audit(r) \/ Return(r) \/ Die(r)
  PROVE  Existing'
<1> DEFINE q == request[r]
           k == Len(q.todo)
<1>1. /\ Busy(r) /\ UNCHANGED <<status, closedAt, role, notes, everElevated, shut, access>>
      /\ \E deed, done : Continue(r, deed) \/ End(r, done)
  BY DEF Audit, Return, Die, At, case
<1>2. Form /\ Asks(q) /\ k \in 1..7 /\ Head(q.todo) = Call(q.op, q.input, k)
  BY <1>1, Where DEF IInv
<1>3. faults' <= MaxFaults
  <2>1. faults' = faults \/ (faults < MaxFaults /\ faults' = faults + 1)
    BY DEF Audit, Return, Die, Fault
  <2> QED  BY <1>2, <2>1, FaultBound DEF Existing, Form
<1>4. Busy(r)' /\ q.op = "update" /\ k - 1 <= 2 => status[q.case] # "NONE"
  <2> SUFFICES ASSUME Busy(r)', q.op = "update", k - 1 <= 2 PROVE status[q.case] # "NONE"
    OBVIOUS
  <2>1. ~Die(r)
    BY <1>2, IdleIsIdle DEF Die, End, Busy, Form
  <2>2. Head(q.todo) \in {"audit", "viewed", "return"}
    BY <2>1 DEF Audit, Return, At
  <2>3. k # 3
    <3>1. Call(q.op, q.input, 3) \in {"case", "elevated"}
      BY DEF Call
    <3> QED  BY <1>2, <2>2, <3>1
  <2>4. k <= 2
    <3> HIDE DEF k
    <3>1. k \in 1..7 /\ k - 1 <= 2 /\ k # 3
      BY <1>2, <2>3
    <3> QED  BY <3>1
  <2> QED  BY <1>1, <2>4 DEF Existing
<1> QED  BY <1>1, <1>3, <1>4, ExistingKept DEF Existing

LEMMA ExistingInductive == IInv /\ Existing /\ Next => Existing'
<1> SUFFICES ASSUME IInv, Existing, Next PROVE Existing'
  OBVIOUS
<1>1. CASE \E s \in Staff : EndAccess(s)
  <2>1. /\ UNCHANGED <<status, role, notes, everElevated, silent, request, faults>>
        /\ access' \subseteq access
    BY <1>1 DEF EndAccess, Withdraw, caseVars, case
  <2> QED  BY <2>1 DEF Existing, Busy
<1>2. ASSUME NEW r \in Requests, Step(r) \/ Die(r) PROVE Existing'
  BY <1>2, ExistingChecks, ExistingWrites, ExistingEnds DEF Step
<1> QED  BY <1>1, <1>2, ExistingBegins DEF Next

LEMMA ExistingStarts == Init => Existing
<1> SUFFICES ASSUME Init PROVE Existing
  OBVIOUS
<1> USE DEF Init
<1>1. \A r \in Requests : ~Busy(r)
  BY IdleIsIdle DEF Busy
<1>2. access \subseteq Staff /\ faults <= MaxFaults
  BY FaultBound DEF AccessInit
<1>3. notes \in [Cases -> 0..MaxNotes]
  BY GuidanceBounds
<1> QED  BY <1>1, <1>2, <1>3 DEF Existing

(* The requests begun are counted. *)
Counted == begun \in 0..MaxBegun

LEMMA BegunCounted ==
  /\ Init => Counted
  /\ Counted /\ Next => Counted'
<1> USE DEF Counted
<1>1. Init => Counted
  BY GuidanceBounds DEF Init
<1>2. ASSUME Counted, Next PROVE Counted'
  <2>1. CASE begun' = begun + 1 /\ begun < MaxBegun
    BY <1>2, <2>1, GuidanceBounds
  <2>2. CASE begun' = begun
    BY <1>2, <2>2
  <2>3. ASSUME NEW r \in Requests, NEW s \in Staff, NEW c \in Cases, NEW op \in Operations,
               NEW input \in Inputs(op), Begin(r, s, c, op, input)
        PROVE  Counted'
    BY <2>1, <2>3 DEF Begin
  <2>4. ASSUME NEW r, NEW deed, Continue(r, deed) PROVE begun' = begun
    BY <2>4 DEF Continue, End
  <2>5. ASSUME NEW r, NEW done, End(r, done) PROVE begun' = begun
    BY <2>5 DEF End
  <2>6. ASSUME NEW r, Refuse(r) PROVE begun' = begun
    BY <2>5, <2>6 DEF Refuse
  <2>7. ASSUME NEW r, Auth(r) \/ Assigned(r) \/ Elevated(r) \/ Member(r) PROVE begun' = begun
    BY <2>4, <2>6, <2>7 DEF Auth, Assigned, Elevated, Member, Check
  <2>8. ASSUME NEW r, Create(r) \/ Update(r) \/ Note(r) \/ Assign(r) PROVE begun' = begun
    BY <2>4, <2>6, <2>8 DEF Create, Update, Note, Assign, Wrote
  <2>9. ASSUME NEW r, Audit(r) \/ Return(r) \/ Die(r) PROVE begun' = begun
    BY <2>4, <2>5, <2>9 DEF Audit, Return, Die
  <2>10. ASSUME NEW s, EndAccess(s) PROVE begun' = begun
    BY <2>10 DEF EndAccess, caseVars
  <2> QED  BY <1>2, <2>2, <2>3, <2>7, <2>8, <2>9, <2>10 DEF Next, Step
<1> QED  BY <1>1, <1>2

LEMMA TypesMean == IInv /\ Existing /\ Counted => TypeOK
<1> SUFFICES ASSUME IInv, Existing, Counted PROVE TypeOK
  OBVIOUS
<1>1. \A r \in Requests : Busy(r) =>
         LET q == request[r] IN
         \E k \in 0..6 : q.todo = SubSeq(Plan(q.op, q.input), k + 1, Len(Plan(q.op, q.input)))
  BY DEF Existing, EndOf
<1>2. faults \in 0..MaxFaults
  BY FaultBound DEF IInv, Form, Existing
<1> QED  BY <1>1, <1>2 DEF IInv, Form, Closing, Existing, Counted, TypeOK

-----------------------------------------------------------------------------
(* Safety reports: what the requests know, what the rows say, and how the  *)
(* records, notices and answers add up with what is still under way.       *)
CallStages == {"none", "reporter", "count", "create", "first", "access", "read", "records", "insert",
               "commit", "audit", "publish"}
SafRow == [text : Texts, evidence : BOOLEAN, status : ReportStatuses, copies : Nat, earlier : Nat]
SafUpdate == [id : Nat, status : ReportStatuses, in : {"transaction", "committed", "undone"},
              after : SUBSET Nat]
SafRequest == [at : CallStages, op : {"none", "submit", "intake", "sign", "evidence", "update"}, id : Nat,
               by : Staff \cup {"none"}, text : Texts \cup ReportStatuses \cup {"none"}, number : Nat,
               earlier : Nat, left : SUBSET Nat]

SafTypes ==
    /\ reports \in Seq(SafRow) /\ trail \in Seq(SafUpdate)
    /\ firstRow \subseteq DOMAIN reports /\ links \subseteq DOMAIN reports
    /\ call \in [Requests -> SafRequest]
    /\ recorded \in [Ids -> [changes : Nat, views : Nat]]
    /\ notified \in [Ids -> Nat] /\ shown \in [Ids -> Nat]
    /\ faults \in Nat

(* What a request q knows at each of its calls.                            *)
Submits(q) ==
    /\ q.at \in {"reporter", "count", "create"} =>
          q.op = "submit" /\ q.id = 0 /\ q.text \in Texts /\ q.earlier <= Copies(q.text)
    /\ q.at = "create" => q.earlier <= q.number /\ q.number <= Copies(q.text)
    /\ q.at = "first" => q.op = "submit"
Views(q) ==
    /\ q.at \in {"access", "read", "records"} =>
          /\ q.id \in DOMAIN reports \cup {0} /\ q.op \notin {"none", "submit"}
          /\ q.id = 0 => q.op = "intake"
    /\ q.at \in {"read", "records"} => q.op # "update"
    /\ q.at = "records" => /\ q.number \in 0..Len(reports)
                           /\ q.left \subseteq IF q.id = 0 THEN 1..q.number ELSE {q.id}
Updates(q) ==
    /\ q.at \in {"first", "insert", "commit", "audit", "publish"} => q.id \in DOMAIN reports
    /\ q.at \in {"insert", "commit"} \/ (q.at = "access" /\ q.op = "update") =>
          q.op = "update" /\ q.text \in ReportStatuses
Commits(q) ==
    q.at = "commit" => /\ q.number \in DOMAIN trail
                       /\ trail[q.number].id = q.id /\ trail[q.number].status = q.text
                       /\ trail[q.number].in = "transaction"

Knowing ==
    \A r \in Requests : /\ Submits(call[r]) /\ Views(call[r]) /\ Updates(call[r]) /\ Commits(call[r])
                        /\ call[r].at = "none" => call[r].op = "none"
Apart ==
    \A r, s \in Requests : r # s /\ call[r].at = "commit" /\ call[s].at = "commit" =>
                              call[r].number # call[s].number
SafCalls == Knowing /\ Apart

(* A committed update stays so, and rows remember only committed ones.     *)
Follows(k) ==
    \A l \in trail[k].after : /\ l \in DOMAIN trail /\ trail[l].id = trail[k].id
                             /\ trail[l].in = "committed"
Trailed ==
    /\ \A k \in DOMAIN trail : trail[k].id \in DOMAIN reports /\ Follows(k)
    /\ \A i \in DOMAIN reports :
          IF Committed(i) = {} THEN reports[i].status = "SUBMITTED"
          ELSE \E k \in Committed(i) : /\ reports[i].status = trail[k].status
                                       /\ \A l \in Committed(i) : k \notin trail[l].after
    /\ faults = 0 => \A i \in DOMAIN reports :
                        i \in firstRow \/ \E r \in Requests : call[r].at = "first" /\ call[r].id = i
    /\ \A i \in DOMAIN reports :
          /\ reports[i].earlier <= reports[i].copies
          /\ reports[i].copies <= Cardinality({j \in 1..(i - 1) : reports[j].text = reports[i].text})

(* A request that may still create a report, that has recorded its view of *)
(* report i, that has yet to record a change of it, to tell of one.        *)
WillCreate(q) == q.op = "submit" /\ q.id = 0
HasSeen(q, i) == q.at = "records" /\ (q.id = i \/ (q.id = 0 /\ i <= q.number)) /\ i \notin q.left
WillRecord(q, i) == q.at \in {"first", "audit"} /\ q.id = i
WillTell(q, i) == q.op = "update" /\ q.at \in {"audit", "publish"} /\ q.id = i
Seeing(i) == {r \in Requests : HasSeen(call[r], i)}
Recording(i) == {r \in Requests : WillRecord(call[r], i)}
Telling(i) == {r \in Requests : WillTell(call[r], i)}
One(b) == IF b THEN 1 ELSE 0

Room ==
    /\ IsFiniteSet(Submitting)
    /\ Len(reports) + Cardinality(Submitting) <= MaxReports
Seen == \A i \in Ids : IsFiniteSet(Seeing(i)) /\ shown[i] + Cardinality(Seeing(i)) <= recorded[i].views
Changed ==
    \A i \in Ids : LET made == Cardinality(Committed(i)) + One(i \in DOMAIN reports) IN
        /\ IsFiniteSet(Recording(i))
        /\ recorded[i].changes + Cardinality(Recording(i)) <= made
        /\ faults = 0 => recorded[i].changes + Cardinality(Recording(i)) = made
Told ==
    \A i \in Ids :
        /\ IsFiniteSet(Telling(i))
        /\ notified[i] + Cardinality(Telling(i)) <= Cardinality(Committed(i))
        /\ faults = 0 => notified[i] + Cardinality(Telling(i)) = Cardinality(Committed(i))

SafInv == SafTypes /\ SafCalls /\ Trailed /\ Room /\ Seen /\ Changed /\ Told

LEMMA SafStarts == SafetyInit => SafInv
<1> SUFFICES ASSUME SafetyInit PROVE SafInv
  OBVIOUS
<1> USE DEF SafetyInit
<1>1. \A r \in Requests : call[r] = NoCall /\ call[r].at = "none" /\ call[r].op = "none"
  BY DEF NoCall
<1>2. SafTypes
  BY DEF SafTypes, NoCall, SafRequest, CallStages, AccessInit
<1>3. SafCalls
  BY <1>1 DEF SafCalls, Knowing, Apart, Submits, Views, Updates, Commits
<1>4. DOMAIN reports = {} /\ DOMAIN trail = {} /\ Len(reports) = 0
  OBVIOUS
<1>5. Trailed
  BY <1>4 DEF Trailed, Follows
<1>6. /\ Submitting = {} /\ \A i : Seeing(i) = {} /\ Recording(i) = {} /\ Telling(i) = {} /\ Committed(i) = {}
  BY <1>1, <1>4 DEF Submitting, Seeing, Recording, Telling, Committed, HasSeen, WillRecord, WillTell
<1>7. Room
  BY <1>4, <1>6, FS_EmptySet, SafetyBounds DEF Room
<1>8. \A i \in Ids : recorded[i].views = 0 /\ recorded[i].changes = 0 /\ shown[i] = 0 /\ notified[i] = 0
  OBVIOUS
<1>12. ASSUME NEW i \in Ids
       PROVE  /\ IsFiniteSet(Seeing(i)) /\ IsFiniteSet(Recording(i)) /\ IsFiniteSet(Telling(i))
              /\ Cardinality(Seeing(i)) = 0 /\ Cardinality(Recording(i)) = 0
              /\ Cardinality(Telling(i)) = 0 /\ Cardinality(Committed(i)) = 0
  <2>1. IsFiniteSet({}) /\ Cardinality({}) = 0
    BY FS_EmptySet
  <2>2. Seeing(i) = {} /\ Recording(i) = {} /\ Telling(i) = {} /\ Committed(i) = {}
    BY <1>6
  <2> HIDE DEF SafetyInit
  <2> QED  BY <2>1, <2>2
<1>9. Seen
  BY <1>8, <1>12 DEF Seen
<1>10. Changed
  BY <1>4, <1>8, <1>12 DEF Changed, One
<1>11. Told
  BY <1>8, <1>12 DEF Told
<1> QED  BY <1>2, <1>3, <1>5, <1>7, <1>9, <1>10, <1>11 DEF SafInv

-----------------------------------------------------------------------------
(* Counting when one member may change.                                    *)
LEMMA SafSet ==
  ASSUME NEW S, NEW T, NEW x, IsFiniteSet(S), T \ {x} = S \ {x}
  PROVE  /\ IsFiniteSet(T) /\ Cardinality(S) \in Nat /\ Cardinality(T) \in Nat
         /\ Cardinality(T) + One(x \in S) = Cardinality(S) + One(x \in T)
<1>1. IsFiniteSet(S \ {x}) /\ Cardinality(S) \in Nat
      /\ Cardinality(S \ {x}) = IF x \in S THEN Cardinality(S) - 1 ELSE Cardinality(S)
  BY FS_RemoveElement, FS_CardinalityType
<1>2. IsFiniteSet(T)
  <2>1. IsFiniteSet((T \ {x}) \cup {x})
    BY <1>1, FS_AddElement
  <2>2. T \subseteq (T \ {x}) \cup {x}
    OBVIOUS
  <2> QED  BY <2>1, <2>2, FS_Subset
<1>3. Cardinality(T) \in Nat /\ Cardinality(T \ {x}) = IF x \in T THEN Cardinality(T) - 1 ELSE Cardinality(T)
  BY <1>2, FS_RemoveElement, FS_CardinalityType
<1> QED  BY <1>1, <1>2, <1>3 DEF One

(* What a step of one request does to the counts.                          *)
Tallied(r, q) ==
    \A i \in Ids :
        /\ IsFiniteSet(Seeing(i)') /\ Cardinality(Seeing(i)) \in Nat /\ Cardinality(Seeing(i)') \in Nat
        /\ Cardinality(Seeing(i)') + One(HasSeen(call[r], i)) = Cardinality(Seeing(i)) + One(HasSeen(q, i))
        /\ IsFiniteSet(Recording(i)')
        /\ Cardinality(Recording(i)) \in Nat /\ Cardinality(Recording(i)') \in Nat
        /\ Cardinality(Recording(i)') + One(WillRecord(call[r], i)) =
              Cardinality(Recording(i)) + One(WillRecord(q, i))
        /\ IsFiniteSet(Telling(i)') /\ Cardinality(Telling(i)) \in Nat /\ Cardinality(Telling(i)') \in Nat
        /\ Cardinality(Telling(i)') + One(WillTell(call[r], i)) = Cardinality(Telling(i)) + One(WillTell(q, i))

LEMMA SafCounts ==
  ASSUME SafInv, NEW r \in Requests, NEW q \in SafRequest, call' = [call EXCEPT ![r] = q]
  PROVE  /\ call' \in [Requests -> SafRequest] /\ call'[r] = q
         /\ \A s \in Requests : s # r => call'[s] = call[s]
         /\ IsFiniteSet(Submitting') /\ Cardinality(Submitting) \in Nat /\ Cardinality(Submitting') \in Nat
         /\ Cardinality(Submitting') + One(WillCreate(call[r])) = Cardinality(Submitting) + One(WillCreate(q))
         /\ Tallied(r, q)
<1>1. /\ call' \in [Requests -> SafRequest] /\ call'[r] = q
      /\ \A s \in Requests : s # r => call'[s] = call[s]
  BY DEF SafInv, SafTypes
<1>2. /\ IsFiniteSet(Submitting') /\ Cardinality(Submitting) \in Nat /\ Cardinality(Submitting') \in Nat
      /\ Cardinality(Submitting') + One(WillCreate(call[r])) = Cardinality(Submitting) + One(WillCreate(q))
  <2>1. /\ IsFiniteSet(Submitting) /\ Submitting' \ {r} = Submitting \ {r}
        /\ r \in Submitting <=> WillCreate(call[r])
        /\ r \in Submitting' <=> WillCreate(q)
    BY <1>1 DEF SafInv, Room, Submitting, WillCreate
  <2>2. /\ IsFiniteSet(Submitting') /\ Cardinality(Submitting) \in Nat /\ Cardinality(Submitting') \in Nat
        /\ Cardinality(Submitting') + One(r \in Submitting) = Cardinality(Submitting) + One(r \in Submitting')
    BY <2>1, SafSet
  <2> QED  BY <2>1, <2>2 DEF One
<1>3. ASSUME NEW i \in Ids
      PROVE  /\ IsFiniteSet(Seeing(i)') /\ Cardinality(Seeing(i)) \in Nat /\ Cardinality(Seeing(i)') \in Nat
             /\ Cardinality(Seeing(i)') + One(HasSeen(call[r], i)) = Cardinality(Seeing(i)) + One(HasSeen(q, i))
  <2>1. /\ IsFiniteSet(Seeing(i)) /\ Seeing(i)' \ {r} = Seeing(i) \ {r}
        /\ r \in Seeing(i) <=> HasSeen(call[r], i)
        /\ r \in Seeing(i)' <=> HasSeen(q, i)
    BY <1>1 DEF SafInv, Seen, Seeing, HasSeen
  <2>2. /\ IsFiniteSet(Seeing(i)') /\ Cardinality(Seeing(i)) \in Nat /\ Cardinality(Seeing(i)') \in Nat
        /\ Cardinality(Seeing(i)') + One(r \in Seeing(i)) = Cardinality(Seeing(i)) + One(r \in Seeing(i)')
    BY <2>1, SafSet
  <2> QED  BY <2>1, <2>2 DEF One
<1>4. ASSUME NEW i \in Ids
      PROVE  /\ IsFiniteSet(Recording(i)') /\ Cardinality(Recording(i)) \in Nat
             /\ Cardinality(Recording(i)') \in Nat
             /\ Cardinality(Recording(i)') + One(WillRecord(call[r], i)) =
                   Cardinality(Recording(i)) + One(WillRecord(q, i))
  <2>1. /\ IsFiniteSet(Recording(i)) /\ Recording(i)' \ {r} = Recording(i) \ {r}
        /\ r \in Recording(i) <=> WillRecord(call[r], i)
        /\ r \in Recording(i)' <=> WillRecord(q, i)
    BY <1>1 DEF SafInv, Changed, Recording, WillRecord
  <2>2. /\ IsFiniteSet(Recording(i)') /\ Cardinality(Recording(i)) \in Nat
        /\ Cardinality(Recording(i)') \in Nat
        /\ Cardinality(Recording(i)') + One(r \in Recording(i)) =
              Cardinality(Recording(i)) + One(r \in Recording(i)')
    BY <2>1, SafSet
  <2> QED  BY <2>1, <2>2 DEF One
<1>5. ASSUME NEW i \in Ids
      PROVE  /\ IsFiniteSet(Telling(i)') /\ Cardinality(Telling(i)) \in Nat /\ Cardinality(Telling(i)') \in Nat
             /\ Cardinality(Telling(i)') + One(WillTell(call[r], i)) =
                   Cardinality(Telling(i)) + One(WillTell(q, i))
  <2>1. /\ IsFiniteSet(Telling(i)) /\ Telling(i)' \ {r} = Telling(i) \ {r}
        /\ r \in Telling(i) <=> WillTell(call[r], i)
        /\ r \in Telling(i)' <=> WillTell(q, i)
    BY <1>1 DEF SafInv, Told, Telling, WillTell
  <2>2. /\ IsFiniteSet(Telling(i)') /\ Cardinality(Telling(i)) \in Nat /\ Cardinality(Telling(i)') \in Nat
        /\ Cardinality(Telling(i)') + One(r \in Telling(i)) = Cardinality(Telling(i)) + One(r \in Telling(i)')
    BY <2>1, SafSet
  <2> QED  BY <2>1, <2>2 DEF One
<1> QED  BY <1>1, <1>2, <1>3, <1>4, <1>5 DEF Tallied


(* Copies are counted among the reports there are.                         *)
LEMMA SafCopied ==
  ASSUME reports \in Seq(SafRow), NEW text
  PROVE  /\ IsFiniteSet({i \in DOMAIN reports : reports[i].text = text})
         /\ Copies(text) \in Nat /\ DOMAIN reports = 1..Len(reports) /\ Len(reports) \in Nat
<1>1. DOMAIN reports = 1..Len(reports) /\ Len(reports) \in Nat
  OBVIOUS
<1>2. IsFiniteSet(DOMAIN reports)
  BY <1>1, FS_Interval
<1>3. IsFiniteSet({i \in DOMAIN reports : reports[i].text = text})
  BY <1>2, FS_Subset
<1> QED  BY <1>1, <1>3, FS_CardinalityType DEF Copies

LEMMA SafCommitted ==
  ASSUME trail \in Seq(SafUpdate), NEW i
  PROVE  IsFiniteSet(Committed(i)) /\ Cardinality(Committed(i)) \in Nat
<1>1. DOMAIN trail = 1..Len(trail) /\ Len(trail) \in Nat
  OBVIOUS
<1>2. IsFiniteSet(DOMAIN trail)
  BY <1>1, FS_Interval
<1>3. IsFiniteSet(Committed(i))
  BY <1>2, FS_Subset DEF Committed
<1> QED  BY <1>3, FS_CardinalityType

(* What the other requests know stays true while the tables grow.          *)
LEMMA SafOthers ==
  ASSUME SafInv, SafTypes', NEW r \in Requests, NEW q \in SafRequest, call'[r] = q,
         \A s \in Requests : s # r => call'[s] = call[s],
         Len(reports) <= Len(reports'), \A text \in Texts : Copies(text) <= Copies(text)',
         \A s \in Requests : s # r /\ call[s].at = "commit" =>
            /\ call[s].number \in DOMAIN trail' /\ trail'[call[s].number] = trail[call[s].number]
            /\ q.at = "commit" => q.number # call[s].number,
         Submits(q)', Views(q)', Updates(q)', Commits(q)', q.at = "none" => q.op = "none"
  PROVE  SafCalls'
<1>1. /\ DOMAIN reports = 1..Len(reports) /\ DOMAIN reports' = 1..Len(reports')
      /\ Len(reports) \in Nat /\ Len(reports') \in Nat
      /\ \A text : Copies(text) \in Nat /\ Copies(text)' \in Nat
  <2>1. reports \in Seq(SafRow) /\ reports' \in Seq(SafRow)
    BY DEF SafInv, SafTypes
  <2>2. \A text : Copies(text) \in Nat
    BY <2>1, SafCopied
  <2>3. ASSUME NEW text PROVE Copies(text)' \in Nat
    <3>1. IsFiniteSet({i \in DOMAIN reports' : reports'[i].text = text})
      <4>1. DOMAIN reports' = 1..Len(reports') /\ Len(reports') \in Nat
        BY <2>1
      <4>2. IsFiniteSet(DOMAIN reports')
        BY <4>1, FS_Interval
      <4> QED  BY <4>2, FS_Subset
    <3> QED  BY <3>1, FS_CardinalityType DEF Copies
  <2> QED  BY <2>1, <2>2, <2>3
<1>2. ASSUME NEW s \in Requests, s # r
      PROVE  \E c \in SafRequest :
                /\ c = call[s] /\ c = call'[s] /\ Submits(c)' /\ Views(c)' /\ Updates(c)' /\ Commits(c)'
                /\ c.at = "none" => c.op = "none"
  <2>1. PICK c \in SafRequest : c = call[s]
    BY DEF SafInv, SafTypes
  <2>2. /\ c = call'[s] /\ Submits(c) /\ Views(c) /\ Updates(c) /\ Commits(c)
        /\ c.at = "none" => c.op = "none"
    BY <1>2, <2>1 DEF SafInv, SafCalls, Knowing, Apart
  <2>3. Submits(c)'
    BY <1>1, <2>1, <2>2 DEF Submits, SafRequest
  <2>4. Views(c)'
    BY <1>1, <2>1, <2>2 DEF Views, SafRequest
  <2>5. Updates(c)'
    BY <1>1, <2>1, <2>2 DEF Updates, SafRequest
  <2>6. Commits(c)'
    BY <1>2, <2>1, <2>2 DEF Commits
  <2> QED  BY <2>1, <2>2, <2>3, <2>4, <2>5, <2>6
<1>3. Knowing'
  <2> SUFFICES ASSUME NEW s \in Requests
               PROVE  /\ Submits(call[s])' /\ Views(call[s])' /\ Updates(call[s])' /\ Commits(call[s])'
                      /\ call'[s].at = "none" => call'[s].op = "none"
    BY DEF Knowing, Submits, Views, Updates, Commits
  <2>1. CASE s = r
    <3>1. call'[s] = q
      BY <2>1
    <3> QED  BY <3>1 DEF Submits, Views, Updates, Commits, Copies
  <2>2. CASE s # r
    <3>1. PICK c \in SafRequest :
              /\ c = call[s] /\ c = call'[s] /\ Submits(c)' /\ Views(c)' /\ Updates(c)' /\ Commits(c)'
              /\ c.at = "none" => c.op = "none"
      BY <1>2, <2>2
    <3> QED  BY <3>1 DEF Submits, Views, Updates, Commits, Copies
  <2> QED  BY <2>1, <2>2
<1>4. \A s, t \in Requests : s # t /\ call'[s].at = "commit" /\ call'[t].at = "commit" =>
                                call'[s].number # call'[t].number
  <2>1. \A s, t \in Requests : s # t /\ call[s].at = "commit" /\ call[t].at = "commit" =>
                                call[s].number # call[t].number
    BY DEF SafInv, SafCalls, Knowing, Apart
  <2> QED  BY <2>1
<1> QED  BY <1>3, <1>4 DEF SafCalls, Apart

(* What must hold of a step for the counts to keep their relations.        *)
BalancedAt(r, q, i) ==
    /\ shown'[i] + One(HasSeen(q, i)) + recorded[i].views <=
          shown[i] + One(HasSeen(call[r], i)) + recorded'[i].views
    /\ LET made == Cardinality(Committed(i)) + One(i \in DOMAIN reports)
           after == recorded'[i].changes + One(WillRecord(q, i)) + made
           before == recorded[i].changes + One(WillRecord(call[r], i)) +
                        Cardinality(Committed(i)') + One(i \in DOMAIN reports')
       IN after <= before /\ (faults' = 0 => faults = 0 /\ after = before)
    /\ LET after == notified'[i] + One(WillTell(q, i)) + Cardinality(Committed(i))
           before == notified[i] + One(WillTell(call[r], i)) + Cardinality(Committed(i)')
       IN after <= before /\ (faults' = 0 => faults = 0 /\ after = before)
Balanced(r, q) == \A i \in Ids : BalancedAt(r, q, i)

LEMMA SafSums ==
  ASSUME SafInv, NEW r \in Requests, NEW q \in SafRequest, call' = [call EXCEPT ![r] = q],
         SafTypes', Balanced(r, q)
  PROVE  Seen' /\ Changed' /\ Told'
<1>1. Tallied(r, q)
  BY SafCounts
<1>2. \A b : One(b) \in Nat
  BY DEF One
<1>3. ASSUME NEW i \in Ids
      PROVE  /\ Cardinality(Committed(i)) \in Nat /\ Cardinality(Committed(i)') \in Nat
             /\ shown[i] \in Nat /\ shown'[i] \in Nat /\ notified[i] \in Nat /\ notified'[i] \in Nat
             /\ recorded[i].views \in Nat /\ recorded'[i].views \in Nat
             /\ recorded[i].changes \in Nat /\ recorded'[i].changes \in Nat
  <2>1. Cardinality(Committed(i)) \in Nat
    BY SafCommitted DEF SafInv, SafTypes
  <2>2. Cardinality(Committed(i)') \in Nat
    <3>1. trail' \in Seq(SafUpdate)
      BY DEF SafTypes
    <3>2. DOMAIN trail' = 1..Len(trail') /\ Len(trail') \in Nat
      BY <3>1
    <3>3. IsFiniteSet(DOMAIN trail')
      BY <3>2, FS_Interval
    <3>4. IsFiniteSet(Committed(i)')
      BY <3>3, FS_Subset DEF Committed
    <3> QED  BY <3>4, FS_CardinalityType
  <2> QED  BY <2>1, <2>2 DEF SafInv, SafTypes
<1>4. Seen'
  <2> SUFFICES ASSUME NEW i \in Ids
               PROVE  IsFiniteSet(Seeing(i)') /\ shown'[i] + Cardinality(Seeing(i)') <= recorded'[i].views
    BY DEF Seen
  <2>1. /\ IsFiniteSet(Seeing(i)') /\ Cardinality(Seeing(i)) \in Nat /\ Cardinality(Seeing(i)') \in Nat
        /\ Cardinality(Seeing(i)') + One(HasSeen(call[r], i)) = Cardinality(Seeing(i)) + One(HasSeen(q, i))
    BY <1>1 DEF Tallied
  <2>2. shown[i] + Cardinality(Seeing(i)) <= recorded[i].views
    BY DEF SafInv, Seen
  <2>3. shown'[i] + One(HasSeen(q, i)) + recorded[i].views <=
           shown[i] + One(HasSeen(call[r], i)) + recorded'[i].views
    BY DEF Balanced, BalancedAt
  <2> QED  BY <1>2, <1>3, <2>1, <2>2, <2>3
<1>5. Changed'
  <2> SUFFICES ASSUME NEW i \in Ids
               PROVE  LET made == Cardinality(Committed(i)') + One(i \in DOMAIN reports') IN
                      /\ IsFiniteSet(Recording(i)')
                      /\ recorded'[i].changes + Cardinality(Recording(i)') <= made
                      /\ faults' = 0 => recorded'[i].changes + Cardinality(Recording(i)') = made
    BY DEF Changed
  <2>1. /\ IsFiniteSet(Recording(i)') /\ Cardinality(Recording(i)) \in Nat /\ Cardinality(Recording(i)') \in Nat
        /\ Cardinality(Recording(i)') + One(WillRecord(call[r], i)) =
              Cardinality(Recording(i)) + One(WillRecord(q, i))
    BY <1>1 DEF Tallied
  <2>2. LET made == Cardinality(Committed(i)) + One(i \in DOMAIN reports) IN
        /\ recorded[i].changes + Cardinality(Recording(i)) <= made
        /\ faults = 0 => recorded[i].changes + Cardinality(Recording(i)) = made
    BY DEF SafInv, Changed
  <2>3. LET made == Cardinality(Committed(i)) + One(i \in DOMAIN reports)
            after == recorded'[i].changes + One(WillRecord(q, i)) + made
            before == recorded[i].changes + One(WillRecord(call[r], i)) +
                         Cardinality(Committed(i)') + One(i \in DOMAIN reports')
        IN after <= before /\ (faults' = 0 => faults = 0 /\ after = before)
    BY DEF Balanced, BalancedAt
  <2> QED  BY <1>2, <1>3, <2>1, <2>2, <2>3
<1>6. Told'
  <2> SUFFICES ASSUME NEW i \in Ids
               PROVE  /\ IsFiniteSet(Telling(i)')
                      /\ notified'[i] + Cardinality(Telling(i)') <= Cardinality(Committed(i)')
                      /\ faults' = 0 => notified'[i] + Cardinality(Telling(i)') = Cardinality(Committed(i)')
    BY DEF Told
  <2>1. /\ IsFiniteSet(Telling(i)') /\ Cardinality(Telling(i)) \in Nat /\ Cardinality(Telling(i)') \in Nat
        /\ Cardinality(Telling(i)') + One(WillTell(call[r], i)) =
              Cardinality(Telling(i)) + One(WillTell(q, i))
    BY <1>1 DEF Tallied
  <2>2. /\ notified[i] + Cardinality(Telling(i)) <= Cardinality(Committed(i))
        /\ faults = 0 => notified[i] + Cardinality(Telling(i)) = Cardinality(Committed(i))
    BY DEF SafInv, Told
  <2>3. LET after == notified'[i] + One(WillTell(q, i)) + Cardinality(Committed(i))
            before == notified[i] + One(WillTell(call[r], i)) + Cardinality(Committed(i)')
        IN after <= before /\ (faults' = 0 => faults = 0 /\ after = before)
    BY DEF Balanced, BalancedAt
  <2> QED  BY <1>2, <1>3, <2>1, <2>2, <2>3
<1> QED  BY <1>4, <1>5, <1>6

(* A step keeps the balance if it moves a change or a notice between what  *)
(* a request has still to do and what is done, and changes no row.         *)
LEMMA Evenly ==
  ASSUME NEW r, NEW q, NEW i, faults' = faults,
         shown'[i] + One(HasSeen(q, i)) + recorded[i].views <=
            shown[i] + One(HasSeen(call[r], i)) + recorded'[i].views,
         recorded'[i].changes + One(WillRecord(q, i)) = recorded[i].changes + One(WillRecord(call[r], i)),
         notified'[i] + One(WillTell(q, i)) = notified[i] + One(WillTell(call[r], i)),
         Cardinality(Committed(i)') = Cardinality(Committed(i)),
         One(i \in DOMAIN reports') = One(i \in DOMAIN reports),
         Cardinality(Committed(i)) \in Nat, One(i \in DOMAIN reports) \in Nat,
         One(WillRecord(call[r], i)) \in Nat, One(WillTell(call[r], i)) \in Nat,
         recorded[i].changes \in Nat, notified[i] \in Nat
  PROVE  BalancedAt(r, q, i)
<1>1. \A m, n, k \in Nat : (m + n) + k = m + (n + k) /\ m <= m
  OBVIOUS
<1>2. /\ recorded[i].changes + One(WillRecord(call[r], i)) \in Nat
      /\ notified[i] + One(WillTell(call[r], i)) \in Nat
  OBVIOUS
<1> QED  BY <1>1, <1>2 DEF BalancedAt

(* A step that changes no row.                                             *)
LEMMA SafSteady ==
  ASSUME SafInv, NEW r \in Requests, NEW q \in SafRequest, call' = [call EXCEPT ![r] = q],
         UNCHANGED <<rows, faults>>,
         links' \subseteq DOMAIN reports, shown' \in [Ids -> Nat], notified' \in [Ids -> Nat],
         recorded' \in [Ids -> [changes : Nat, views : Nat]],
         Submits(q), Views(q), Updates(q), Commits(q), q.at = "none" => q.op = "none",
         q.at # "commit", call[r].at # "first",
         WillCreate(q) => WillCreate(call[r]) \/ Len(reports) + Cardinality(Submitting) < MaxReports,
         \A i \in Ids :
            /\ shown'[i] + One(HasSeen(q, i)) + recorded[i].views <=
                  shown[i] + One(HasSeen(call[r], i)) + recorded'[i].views
            /\ recorded'[i].changes + One(WillRecord(q, i)) = recorded[i].changes + One(WillRecord(call[r], i))
            /\ notified'[i] + One(WillTell(q, i)) = notified[i] + One(WillTell(call[r], i))
  PROVE  SafInv'
<1> USE DEF rows
<1>2. /\ call' \in [Requests -> SafRequest] /\ call'[r] = q /\ \A s \in Requests : s # r => call'[s] = call[s]
      /\ IsFiniteSet(Submitting') /\ Cardinality(Submitting) \in Nat /\ Cardinality(Submitting') \in Nat
      /\ Cardinality(Submitting') + One(WillCreate(call[r])) = Cardinality(Submitting) + One(WillCreate(q))
  BY SafCounts
<1>1. SafTypes'
  BY <1>2 DEF SafInv, SafTypes
<1>3. SafCalls'
  <2>1. /\ reports \in Seq(SafRow) /\ \A text : Copies(text)' = Copies(text)
        /\ Len(reports) <= Len(reports')
    BY DEF SafInv, SafTypes, Copies
  <2>2. \A text : Copies(text) \in Nat
    BY <2>1, SafCopied
  <2>3. \A text : Copies(text) <= Copies(text)'
    <3>1. \A n \in Nat : n <= n
      OBVIOUS
    <3> QED  BY <2>1, <2>2, <3>1
  <2>4. \A s \in Requests : s # r /\ call[s].at = "commit" =>
            /\ call[s].number \in DOMAIN trail' /\ trail'[call[s].number] = trail[call[s].number]
            /\ q.at = "commit" => q.number # call[s].number
    BY DEF SafInv, SafCalls, Knowing, Commits
  <2>5. Submits(q)' /\ Views(q)' /\ Updates(q)' /\ Commits(q)'
    BY DEF Submits, Views, Updates, Commits, Copies
  <2> QED  BY <1>1, <1>2, <2>1, <2>3, <2>4, <2>5, SafOthers
<1>4. \A i : Committed(i)' = Committed(i)
  BY DEF Committed
<1>5. Trailed'
  <2>1. \A s \in Requests : call[s].at = "first" => call'[s] = call[s]
    BY <1>2
  <2>2. \A k \in DOMAIN trail : Follows(k) => Follows(k)'
    BY DEF Follows
  <2>3. Trailed
    BY DEF SafInv
  <2>4. \A k \in DOMAIN trail' : trail'[k].id \in DOMAIN reports' /\ Follows(k)'
    BY <2>2, <2>3 DEF Trailed
  <2>5. \A i \in DOMAIN reports' :
           IF Committed(i)' = {} THEN reports'[i].status = "SUBMITTED"
           ELSE \E k \in Committed(i)' : /\ reports'[i].status = trail'[k].status
                                         /\ \A l \in Committed(i)' : k \notin trail'[l].after
    BY <1>4, <2>3 DEF Trailed
  <2>6. faults' = 0 => \A i \in DOMAIN reports' :
                          i \in firstRow' \/ \E s \in Requests : call'[s].at = "first" /\ call'[s].id = i
    BY <2>1, <2>3 DEF Trailed
  <2>7. \A i \in DOMAIN reports' :
           /\ reports'[i].earlier <= reports'[i].copies
           /\ reports'[i].copies <= Cardinality({j \in 1..(i - 1) : reports'[j].text = reports'[i].text})
    BY <2>3 DEF Trailed
  <2> QED  BY <2>4, <2>5, <2>6, <2>7 DEF Trailed
<1>6. Room'
  BY <1>2, SafetyBounds DEF SafInv, Room, One, SafTypes
<1>7. Balanced(r, q)
  <2> SUFFICES ASSUME NEW i \in Ids PROVE BalancedAt(r, q, i)
    BY DEF Balanced
  <2>1. /\ Cardinality(Committed(i)') = Cardinality(Committed(i)) /\ faults' = faults
        /\ One(i \in DOMAIN reports') = One(i \in DOMAIN reports)
    BY <1>4
  <2>2. /\ Cardinality(Committed(i)) \in Nat /\ One(i \in DOMAIN reports) \in Nat
        /\ One(WillRecord(call[r], i)) \in Nat /\ One(WillTell(call[r], i)) \in Nat
    BY SafCommitted DEF SafInv, SafTypes, One
  <2>3. recorded[i].changes \in Nat /\ notified[i] \in Nat
    BY DEF SafInv, SafTypes
  <2> QED  BY <2>1, <2>2, <2>3, Evenly
<1> QED  BY <1>1, <1>3, <1>5, <1>6, <1>7, SafSums DEF SafInv

(* A step that takes no record either changes what the requests know and,  *)
(* at an answer, what has been shown.                                      *)
LEMMA SafQuiet ==
  ASSUME SafInv, NEW r \in Requests, NEW q \in SafRequest, call' = [call EXCEPT ![r] = q],
         UNCHANGED <<rows, recorded, notified, faults>>,
         links' \subseteq DOMAIN reports, shown' \in [Ids -> Nat],
         Submits(q), Views(q), Updates(q), Commits(q), q.at = "none" => q.op = "none",
         q.at # "commit", call[r].at # "first",
         WillCreate(q) => WillCreate(call[r]) \/ Len(reports) + Cardinality(Submitting) < MaxReports,
         \A i \in Ids : /\ WillRecord(q, i) = WillRecord(call[r], i) /\ WillTell(q, i) = WillTell(call[r], i)
                        /\ shown'[i] + One(HasSeen(q, i)) <= shown[i] + One(HasSeen(call[r], i))
  PROVE  SafInv'
<1>1. /\ recorded \in [Ids -> [changes : Nat, views : Nat]] /\ notified \in [Ids -> Nat]
      /\ shown \in [Ids -> Nat]
  BY DEF SafInv, SafTypes
<1>2. \A i \in Ids :
         /\ shown'[i] + One(HasSeen(q, i)) + recorded[i].views <=
               shown[i] + One(HasSeen(call[r], i)) + recorded'[i].views
         /\ recorded'[i].changes + One(WillRecord(q, i)) = recorded[i].changes + One(WillRecord(call[r], i))
         /\ notified'[i] + One(WillTell(q, i)) = notified[i] + One(WillTell(call[r], i))
  BY <1>1 DEF One
<1> QED  BY <1>1, <1>2, SafSteady

-----------------------------------------------------------------------------
(* The calls that change no table.                                         *)
LEMMA SafBegun ==
  ASSUME SafInv, NEW r \in Requests, NEW q \in SafRequest, BeginCall(r, q),
         Submits(q), Views(q), Updates(q), q.at \in {"reporter", "access"},
         WillCreate(q) => Len(reports) + Cardinality(Submitting) < MaxReports
  PROVE  SafInv'
<1>1. /\ call[r].at = "none" /\ call[r].op = "none" /\ call' = [call EXCEPT ![r] = q]
      /\ UNCHANGED <<rows, links, recorded, notified, shown, faults>>
  BY DEF BeginCall, Calling, SafInv, SafCalls, Knowing, records, accessVars
<1>2. Commits(q)
  BY DEF Commits
<1>3. shown \in [Ids -> Nat] /\ links \subseteq DOMAIN reports
  BY DEF SafInv, SafTypes
<1>4. \A i \in Ids : /\ WillRecord(q, i) = WillRecord(call[r], i) /\ WillTell(q, i) = WillTell(call[r], i)
                     /\ ~HasSeen(q, i) /\ ~HasSeen(call[r], i)
  BY <1>1 DEF WillRecord, WillTell, HasSeen
<1>5. \A i \in Ids : shown'[i] + One(HasSeen(q, i)) <= shown[i] + One(HasSeen(call[r], i))
  BY <1>1, <1>3, <1>4 DEF One
<1> QED  BY <1>1, <1>2, <1>3, <1>4, <1>5, SafQuiet

LEMMA SafBeginSubmit ==
  ASSUME SafInv, NEW r \in Requests, NEW text \in Texts, BeginSubmit(r, text)
  PROVE  SafInv'
<1>1. Copies(text) \in Nat
  BY SafCopied DEF SafInv, SafTypes
<1>2. PICK q : q = [NoCall EXCEPT !.at = "reporter", !.op = "submit", !.text = text, !.earlier = Copies(text)]
  OBVIOUS
<1>3. /\ q \in SafRequest /\ q.at = "reporter" /\ q.op = "submit" /\ q.text = text /\ q.id = 0
      /\ q.earlier = Copies(text)
  BY <1>1, <1>2 DEF NoCall, SafRequest, CallStages
<1>4. BeginCall(r, q) /\ Len(reports) + Cardinality(Submitting) < MaxReports
  BY <1>2 DEF BeginSubmit
<1>5. Submits(q) /\ Views(q) /\ Updates(q)
  BY <1>1, <1>3 DEF Submits, Views, Updates
<1> QED  BY <1>3, <1>4, <1>5, SafBegun

LEMMA SafBeginView ==
  ASSUME SafInv, NEW r \in Requests, NEW s \in Staff, NEW op \in {"intake", "sign", "evidence"},
         NEW i \in DOMAIN reports \cup {0}, BeginView(r, s, op, i)
  PROVE  SafInv'
<1>1. PICK q : q = [NoCall EXCEPT !.at = "access", !.op = op, !.by = s, !.id = i]
  OBVIOUS
<1>2. i \in Nat
  BY DEF SafInv, SafTypes
<1>3. q \in SafRequest /\ q.at = "access" /\ q.op = op /\ q.id = i
  BY <1>1, <1>2 DEF NoCall, SafRequest, CallStages
<1>4. BeginCall(r, q) /\ (op = "intake" \/ i \in DOMAIN reports)
  BY <1>1 DEF BeginView
<1>5. Submits(q) /\ Views(q) /\ Updates(q) /\ ~WillCreate(q)
  <2>1. i = 0 => i \notin DOMAIN reports
    BY DEF SafInv, SafTypes
  <2> QED  BY <1>3, <1>4, <2>1 DEF Submits, Views, Updates, WillCreate
<1> QED  BY <1>3, <1>4, <1>5, SafBegun

LEMMA SafBeginUpdate ==
  ASSUME SafInv, NEW r \in Requests, NEW s \in Staff, NEW i \in DOMAIN reports, NEW new \in ReportStatuses,
         BeginUpdate(r, s, i, new)
  PROVE  SafInv'
<1>1. PICK q : q = [NoCall EXCEPT !.at = "access", !.op = "update", !.by = s, !.id = i, !.text = new]
  OBVIOUS
<1>2. i \in Nat /\ i # 0
  BY DEF SafInv, SafTypes
<1>3. q \in SafRequest /\ q.at = "access" /\ q.op = "update" /\ q.id = i /\ q.text = new
  BY <1>1, <1>2 DEF NoCall, SafRequest, CallStages
<1>4. BeginCall(r, q)
  BY <1>1 DEF BeginUpdate
<1>5. Submits(q) /\ Views(q) /\ Updates(q) /\ ~WillCreate(q)
  BY <1>2, <1>3 DEF Submits, Views, Updates, WillCreate
<1> QED  BY <1>3, <1>4, <1>5, SafBegun

(* A call that passes on, gives up, or is refused before anything is done. *)
Early == {"reporter", "count", "access", "read"}

LEMMA SafMoved ==
  ASSUME SafInv, NEW r \in Requests, NEW q \in SafRequest, call' = [call EXCEPT ![r] = q],
         UNCHANGED <<rows, links, records, faults>>,
         call[r].at \in Early, q.at \notin {"first", "commit", "audit", "publish"},
         q.at = "none" => q.op = "none", q.op # "none" => q.op = call[r].op /\ q.id = call[r].id,
         Submits(q), Views(q), Updates(q), \A i \in Ids : ~HasSeen(q, i)
  PROVE  SafInv'
<1>1. Commits(q)
  BY DEF Commits
<1>2. shown \in [Ids -> Nat] /\ links \subseteq DOMAIN reports
  BY DEF SafInv, SafTypes
<1>3. \A i \in Ids : /\ WillRecord(q, i) = WillRecord(call[r], i) /\ WillTell(q, i) = WillTell(call[r], i)
                     /\ ~HasSeen(q, i) /\ ~HasSeen(call[r], i)
  BY DEF WillRecord, WillTell, HasSeen, Early
<1>4. \A i \in Ids : shown'[i] + One(HasSeen(q, i)) <= shown[i] + One(HasSeen(call[r], i))
  BY <1>2, <1>3 DEF One, records
<1>5. WillCreate(q) => WillCreate(call[r])
  BY DEF WillCreate
<1>6. /\ UNCHANGED <<rows, recorded, notified, faults>>
      /\ links' \subseteq DOMAIN reports /\ shown' \in [Ids -> Nat]
      /\ call[r].at # "first" /\ q.at # "commit"
  BY <1>2 DEF records, Early
<1> QED  BY <1>1, <1>3, <1>4, <1>5, <1>6, SafQuiet

LEMMA SafNone ==
  /\ NoCall \in SafRequest /\ NoCall.at = "none" /\ NoCall.op = "none" /\ NoCall.id = 0
  /\ Submits(NoCall) /\ Views(NoCall) /\ Updates(NoCall) /\ Commits(NoCall) /\ ~WillCreate(NoCall)
  /\ \A i : ~HasSeen(NoCall, i) /\ ~WillRecord(NoCall, i) /\ ~WillTell(NoCall, i)
<1>1. NoCall \in SafRequest /\ NoCall.at = "none" /\ NoCall.op = "none" /\ NoCall.id = 0
  BY DEF NoCall, SafRequest, CallStages
<1> QED
  BY <1>1 DEF Submits, Views, Updates, Commits, WillCreate, HasSeen, WillRecord, WillTell

LEMMA SafGivesUp ==
  ASSUME SafInv, NEW r \in Requests, call[r].at \in Early, Hang(r), UNCHANGED <<rows, links, records, faults>>
  PROVE  SafInv'
<1>1. call' = [call EXCEPT ![r] = NoCall]
  BY DEF Hang
<1> QED  BY <1>1, SafNone, SafMoved

LEMMA SafFindReporter ==
  ASSUME SafInv, NEW r \in Requests, FindReporter(r)
  PROVE  SafInv'
<1>1. call[r].at = "reporter" /\ UNCHANGED <<rows, links, records, faults>>
  BY DEF FindReporter, accessVars
<1>2. CASE Hang(r)
  BY <1>1, <1>2, SafGivesUp DEF Early
<1>3. CASE Move(r, "count")
  <2>1. call[r] \in SafRequest /\ Submits(call[r])
    BY DEF SafInv, SafTypes, SafCalls, Knowing
  <2>2. PICK q : q = [call[r] EXCEPT !.at = "count"]
    OBVIOUS
  <2>3. /\ q \in SafRequest /\ q.at = "count" /\ q.op = call[r].op /\ q.id = call[r].id
        /\ q.text = call[r].text /\ q.earlier = call[r].earlier
    BY <2>1, <2>2 DEF SafRequest, CallStages
  <2>4. call' = [call EXCEPT ![r] = q]
    BY <1>3, <2>2 DEF Move
  <2>5. Submits(q) /\ Views(q) /\ Updates(q) /\ \A i \in Ids : ~HasSeen(q, i)
    BY <1>1, <2>1, <2>3 DEF Submits, Views, Updates, HasSeen
  <2> QED  BY <1>1, <2>3, <2>4, <2>5, SafMoved DEF Early
<1> QED  BY <1>2, <1>3 DEF FindReporter

LEMMA SafCountCopies ==
  ASSUME SafInv, NEW r \in Requests, CountCopies(r)
  PROVE  SafInv'
<1>1. call[r].at = "count" /\ UNCHANGED <<rows, links, records, faults>>
  BY DEF CountCopies, accessVars
<1>2. call[r] \in SafRequest /\ Submits(call[r])
  BY DEF SafInv, SafTypes, SafCalls, Knowing
<1>3. Copies(call[r].text) \in Nat
  BY SafCopied DEF SafInv, SafTypes
<1>4. PICK q : q = [call[r] EXCEPT !.at = "create", !.number = Copies(call[r].text)]
  OBVIOUS
<1>5. /\ q \in SafRequest /\ q.at = "create" /\ q.op = call[r].op /\ q.id = call[r].id
      /\ q.text = call[r].text /\ q.earlier = call[r].earlier /\ q.number = Copies(call[r].text)
  BY <1>2, <1>3, <1>4 DEF SafRequest, CallStages
<1>6. call' = [call EXCEPT ![r] = q]
  BY <1>4 DEF CountCopies
<1>7. Submits(q) /\ Views(q) /\ Updates(q) /\ \A i \in Ids : ~HasSeen(q, i)
  BY <1>1, <1>2, <1>3, <1>5 DEF Submits, Views, Updates, HasSeen
<1> QED  BY <1>1, <1>5, <1>6, <1>7, SafMoved DEF Early

LEMMA SafSafeguardingCheck ==
  ASSUME SafInv, NEW r \in Requests, SafeguardingCheck(r)
  PROVE  SafInv'
<1>1. call[r].at = "access" /\ UNCHANGED <<rows, links, records, faults>>
  BY DEF SafeguardingCheck, accessVars
<1>2. CASE Hang(r)
  BY <1>1, <1>2, SafGivesUp DEF Early
<1>3. CASE call' = [call EXCEPT ![r].at = IF call[r].op = "update" THEN "insert" ELSE "read", ![r].by = "none"]
  <2>1. call[r] \in SafRequest /\ Views(call[r]) /\ Updates(call[r])
    BY DEF SafInv, SafTypes, SafCalls, Knowing
  <2>2. PICK q : q = [call[r] EXCEPT !.at = IF call[r].op = "update" THEN "insert" ELSE "read", !.by = "none"]
    OBVIOUS
  <2>3. /\ q \in SafRequest /\ q.at = IF call[r].op = "update" THEN "insert" ELSE "read"
        /\ q.op = call[r].op /\ q.id = call[r].id /\ q.text = call[r].text
    BY <2>1, <2>2 DEF SafRequest, CallStages
  <2>4. call' = [call EXCEPT ![r] = q]
    BY <1>3, <2>2
  <2>5. Submits(q) /\ Views(q) /\ Updates(q) /\ \A i \in Ids : ~HasSeen(q, i)
    BY <1>1, <2>1, <2>3 DEF Submits, Views, Updates, HasSeen
  <2> QED  BY <1>1, <2>3, <2>4, <2>5, SafMoved DEF Early
<1> QED  BY <1>2, <1>3 DEF SafeguardingCheck

LEMMA SafRead ==
  ASSUME SafInv, NEW r \in Requests, Read(r)
  PROVE  SafInv'
<1>1. call[r].at = "read" /\ UNCHANGED <<rows, links, records, faults>>
  BY DEF Read, accessVars
<1>2. CASE Hang(r)
  BY <1>1, <1>2, SafGivesUp DEF Early
<1>3. CASE call' = [call EXCEPT ![r].at = "records", ![r].number = Len(reports),
                                ![r].left = IF call[r].id = 0 THEN DOMAIN reports ELSE {call[r].id}]
  <2>1. call[r] \in SafRequest /\ Views(call[r])
    BY DEF SafInv, SafTypes, SafCalls, Knowing
  <2>2. PICK q : q = [call[r] EXCEPT !.at = "records", !.number = Len(reports),
                                     !.left = IF call[r].id = 0 THEN DOMAIN reports ELSE {call[r].id}]
    OBVIOUS
  <2>3. DOMAIN reports = 1..Len(reports) /\ Len(reports) \in Nat
    BY DEF SafInv, SafTypes
  <2>4. /\ q \in SafRequest /\ q.at = "records" /\ q.op = call[r].op /\ q.id = call[r].id
        /\ q.number = Len(reports) /\ q.left = IF q.id = 0 THEN 1..Len(reports) ELSE {q.id}
    <3>1. (IF call[r].id = 0 THEN DOMAIN reports ELSE {call[r].id}) \in SUBSET Nat
      BY <2>1, <2>3 DEF SafRequest
    <3> QED  BY <2>1, <2>2, <2>3, <3>1 DEF SafRequest, CallStages
  <2>5. call' = [call EXCEPT ![r] = q]
    BY <1>3, <2>2
  <2>6. Submits(q) /\ Views(q) /\ Updates(q)
    BY <1>1, <2>1, <2>3, <2>4 DEF Submits, Views, Updates
  <2>7. \A i \in Ids : ~HasSeen(q, i)
    BY <2>3, <2>4 DEF HasSeen, Ids
  <2> QED  BY <1>1, <2>4, <2>5, <2>6, <2>7, SafMoved DEF Early
<1> QED  BY <1>2, <1>3 DEF Read

LEMMA SafAnswer ==
  ASSUME SafInv, NEW r \in Requests, Answer(r)
  PROVE  SafInv'
<1>1. /\ call[r].at = "records" /\ call[r].left = {} /\ call' = [call EXCEPT ![r] = NoCall]
      /\ UNCHANGED <<rows, recorded, notified, faults>>
  BY DEF Answer, Hang, accessVars
<1>2. shown \in [Ids -> Nat] /\ links \subseteq DOMAIN reports /\ Views(call[r])
  BY DEF SafInv, SafTypes, SafCalls, Knowing
<1>3. ASSUME NEW i \in Ids
      PROVE  HasSeen(call[r], i) <=> call[r].id = i \/ (call[r].id = 0 /\ i <= call[r].number)
  BY <1>1 DEF HasSeen
<1>4. \A i \in Ids : /\ WillRecord(NoCall, i) = WillRecord(call[r], i)
                    /\ WillTell(NoCall, i) = WillTell(call[r], i)
                     /\ ~HasSeen(NoCall, i)
  BY <1>1, SafNone DEF WillRecord, WillTell
<1>5. links' \subseteq DOMAIN reports /\ shown' \in [Ids -> Nat]
      /\ \A i \in Ids : shown'[i] <= shown[i] + One(HasSeen(call[r], i))
  <2>1. CASE call[r].op = "sign"
    <3>1. call[r].id \in DOMAIN reports
      BY <1>1, <1>2, <2>1 DEF Views
    <3> QED  BY <1>2, <2>1, <3>1 DEF Answer, One
  <2>2. CASE call[r].op # "sign"
    <3>1. shown' = [i \in Ids |-> shown[i] +
                      IF i = call[r].id \/ (call[r].id = 0 /\ i <= call[r].number) THEN 1 ELSE 0]
          /\ links' = links
      BY <2>2 DEF Answer
    <3>2. ASSUME NEW i \in Ids PROVE shown'[i] \in Nat /\ shown'[i] = shown[i] + One(HasSeen(call[r], i))
      BY <1>2, <1>3, <3>1 DEF One
    <3> QED  BY <1>2, <3>1, <3>2 DEF One
  <2> QED  BY <2>1, <2>2
<1>6. \A i \in Ids : shown'[i] + One(HasSeen(NoCall, i)) <= shown[i] + One(HasSeen(call[r], i))
  BY <1>4, <1>5 DEF One
<1> QED  BY <1>1, <1>4, <1>5, <1>6, SafNone, SafQuiet

-----------------------------------------------------------------------------
(* The calls that write.                                                   *)

(* Among numbers up to n one is the greatest.                              *)
LEMMA SafGreatest ==
  ASSUME NEW n \in Nat, NEW S, S \subseteq 1..n, S # {}
  PROVE  \E i \in S : \A j \in S : i >= j
<1> DEFINE T == {n - j : j \in S}
<1>0. \A j \in S : j \in Nat /\ n - j \in Nat
  BY 1..n \subseteq Nat
<1>1. T \subseteq Nat /\ T # {}
  <2>1. PICK j : j \in S
    OBVIOUS
  <2>2. n - j \in T
    BY <2>1
  <2> QED  BY <1>0, <2>2
<1>2. \E x \in T : \A y \in T : <<y, x>> \notin OpToRel(<, Nat)
  <2> HIDE DEF T
  <2> QED  BY <1>1, NatLessThanWellFounded, WFMin
<1>3. PICK x \in T : \A y \in T : ~(y < x)
  BY <1>1, <1>2 DEF OpToRel
<1>4. PICK i \in S : x = n - i
  BY <1>3
<1>5. ASSUME NEW j \in S PROVE i >= j
  <2>1. n - j \in T
    OBVIOUS
  <2>2. ~(n - j < n - i)
    BY <1>3, <1>4, <2>1
  <2> QED  BY <1>0, <2>2
<1> QED  BY <1>5

LEMMA SafRecordView ==
  ASSUME SafInv, NEW r \in Requests, RecordView(r)
  PROVE  SafInv'
<1>1. call[r].at = "records" /\ call[r].left # {} /\ UNCHANGED <<calls, rows, links, notified, shown, faults>>
  BY DEF RecordView, accessVars
<1>2. /\ call[r] \in SafRequest /\ Submits(call[r]) /\ Views(call[r]) /\ Updates(call[r])
      /\ reports \in Seq(SafRow) /\ Len(reports) \in Nat /\ DOMAIN reports = 1..Len(reports)
      /\ links \subseteq DOMAIN reports /\ shown \in [Ids -> Nat] /\ notified \in [Ids -> Nat]
      /\ recorded \in [Ids -> [changes : Nat, views : Nat]]
  BY DEF SafInv, SafTypes, SafCalls, Knowing
<1>3. Len(reports) <= MaxReports
  BY <1>2, FS_CardinalityType, SafetyBounds DEF SafInv, Room
<1>4. PICK i : /\ i \in call[r].left
               /\ recorded' = [recorded EXCEPT ![i].views = @ + 1]
               /\ call' = [call EXCEPT ![r].left = @ \ {i}]
  <2>1. call[r].left \subseteq 1..Len(reports)
    BY <1>1, <1>2 DEF Views, SafRequest
  <2>2. \E k \in call[r].left : \A j \in call[r].left : k >= j
    BY <1>1, <1>2, <2>1, SafGreatest
  <2> QED  BY <2>2 DEF RecordView
<1>5. i \in Ids /\ ~HasSeen(call[r], i) /\ (call[r].id = i \/ (call[r].id = 0 /\ i <= call[r].number))
  <2>1. call[r].id \in 1..Len(reports) \cup {0} /\ call[r].number \in 0..Len(reports)
        /\ i \in IF call[r].id = 0 THEN 1..call[r].number ELSE {call[r].id}
    BY <1>1, <1>2, <1>4 DEF Views
  <2>2. i \in 1..Len(reports) /\ (call[r].id = i \/ (call[r].id = 0 /\ i <= call[r].number))
    BY <1>2, <2>1
  <2> QED  BY <1>2, <1>3, <1>4, <2>2, SafetyBounds DEF HasSeen, Ids
<1>6. PICK q : q = [call[r] EXCEPT !.left = @ \ {i}]
  OBVIOUS
<1>7. /\ q \in SafRequest /\ q.at = "records" /\ q.op = call[r].op /\ q.id = call[r].id /\ q.text = call[r].text
      /\ q.number = call[r].number /\ q.left = call[r].left \ {i} /\ call' = [call EXCEPT ![r] = q]
  <2>1. call[r].left \ {i} \in SUBSET Nat
    BY <1>2 DEF SafRequest
  <2> QED  BY <1>1, <1>2, <1>4, <1>6, <2>1 DEF SafRequest
<1>8. Submits(q) /\ Views(q) /\ Updates(q) /\ Commits(q)
  BY <1>1, <1>2, <1>7 DEF Submits, Views, Updates, Commits
<1>9. HasSeen(q, i) /\ \A j \in Ids : j # i => (HasSeen(q, j) <=> HasSeen(call[r], j))
  BY <1>1, <1>5, <1>7 DEF HasSeen
<1>10. \A j \in Ids : ~WillRecord(q, j) /\ ~WillRecord(call[r], j) /\ ~WillTell(q, j) /\ ~WillTell(call[r], j)
  BY <1>1, <1>7 DEF WillRecord, WillTell
<1>11. /\ recorded' \in [Ids -> [changes : Nat, views : Nat]]
       /\ \A j \in Ids : /\ recorded'[j].changes = recorded[j].changes
                         /\ recorded'[j].views = recorded[j].views + One(j = i)
  BY <1>2, <1>4, <1>5 DEF One
<1>12. ASSUME NEW j \in Ids
       PROVE  /\ shown'[j] + One(HasSeen(q, j)) + recorded[j].views <=
                    shown[j] + One(HasSeen(call[r], j)) + recorded'[j].views
              /\ recorded'[j].changes + One(WillRecord(q, j)) = recorded[j].changes + One(WillRecord(call[r], j))
              /\ notified'[j] + One(WillTell(q, j)) = notified[j] + One(WillTell(call[r], j))
  <2>1. recorded[j].views \in Nat /\ recorded[j].changes \in Nat /\ shown[j] \in Nat /\ notified[j] \in Nat
    BY <1>2
  <2>2. CASE j = i
    BY <1>1, <1>5, <1>9, <1>10, <1>11, <2>1, <2>2 DEF One
  <2>3. CASE j # i
    BY <1>1, <1>9, <1>10, <1>11, <2>1, <2>3 DEF One
  <2> QED  BY <2>2, <2>3
<1>13. UNCHANGED <<rows, faults>> /\ shown' \in [Ids -> Nat] /\ notified' \in [Ids -> Nat]
       /\ links' \subseteq DOMAIN reports
  BY <1>1, <1>2
<1>14. WillCreate(q) => WillCreate(call[r])
  BY <1>7 DEF WillCreate
<1> QED  BY <1>1, <1>7, <1>8, <1>11, <1>12, <1>13, <1>14, SafSteady

LEMMA ChangeIsRecorded ==
  ASSUME recorded \in [Ids -> [changes : Nat, views : Nat]], NEW i \in Ids,
         recorded' = [recorded EXCEPT ![i].changes = @ + 1]
  PROVE  /\ recorded' \in [Ids -> [changes : Nat, views : Nat]]
         /\ \A j \in Ids : /\ recorded'[j].views = recorded[j].views
                           /\ recorded'[j].changes = recorded[j].changes + One(j = i)
<1>1. recorded' \in [Ids -> [changes : Nat, views : Nat]]
  OBVIOUS
<1>2. ASSUME NEW j \in Ids
      PROVE  recorded'[j].views = recorded[j].views /\ recorded'[j].changes = recorded[j].changes + One(j = i)
  <2>1. CASE j = i
    BY <2>1 DEF One
  <2>2. CASE j # i
    <3>1. recorded'[j] = recorded[j] /\ recorded[j].changes \in Nat
      BY <2>2
    <3> QED  BY <2>2, <3>1 DEF One
  <2> QED  BY <2>1, <2>2
<1> QED  BY <1>1, <1>2

LEMMA SafRecordChange ==
  ASSUME SafInv, NEW r \in Requests, RecordChange(r)
  PROVE  SafInv'
<1>1. call[r].at = "audit" /\ UNCHANGED <<calls, rows, links, notified, shown, faults>>
      /\ recorded' = [recorded EXCEPT ![call[r].id].changes = @ + 1]
  BY DEF RecordChange, accessVars
<1>2. /\ call[r] \in SafRequest /\ Updates(call[r])
      /\ reports \in Seq(SafRow) /\ Len(reports) \in Nat /\ DOMAIN reports = 1..Len(reports)
      /\ links \subseteq DOMAIN reports /\ shown \in [Ids -> Nat] /\ notified \in [Ids -> Nat]
      /\ recorded \in [Ids -> [changes : Nat, views : Nat]]
  BY DEF SafInv, SafTypes, SafCalls, Knowing
<1>3. Len(reports) <= MaxReports
  BY <1>2, FS_CardinalityType, SafetyBounds DEF SafInv, Room
<1>4. PICK i \in Ids : i = call[r].id
  BY <1>1, <1>2, <1>3, SafetyBounds DEF Updates, Ids
<1>5. PICK q : q = [call[r] EXCEPT !.at = "publish"]
  OBVIOUS
<1>6. /\ q \in SafRequest /\ q.at = "publish" /\ q.op = call[r].op /\ q.id = i
      /\ call' = [call EXCEPT ![r] = q]
  BY <1>2, <1>4, <1>5 DEF RecordChange, Move, SafRequest, CallStages
<1>7. Submits(q) /\ Views(q) /\ Updates(q) /\ Commits(q)
  BY <1>1, <1>2, <1>4, <1>6 DEF Submits, Views, Updates, Commits
<1>8. \A j \in Ids : /\ ~HasSeen(q, j) /\ ~HasSeen(call[r], j) /\ ~WillRecord(q, j)
                     /\ WillRecord(call[r], j) <=> j = i
                     /\ WillTell(q, j) <=> WillTell(call[r], j)
  BY <1>1, <1>4, <1>6 DEF HasSeen, WillRecord, WillTell
<1>9. /\ recorded' \in [Ids -> [changes : Nat, views : Nat]]
      /\ \A j \in Ids : /\ recorded'[j].views = recorded[j].views
                        /\ recorded'[j].changes = recorded[j].changes + One(j = i)
  <2>1. recorded \in [Ids -> [changes : Nat, views : Nat]] /\ recorded' = [recorded EXCEPT ![i].changes = @ + 1]
    BY <1>1, <1>2, <1>4
  <2> QED  BY <2>1, ChangeIsRecorded
<1>10. ASSUME NEW j \in Ids
       PROVE  /\ shown'[j] + One(HasSeen(q, j)) + recorded[j].views <=
                    shown[j] + One(HasSeen(call[r], j)) + recorded'[j].views
              /\ recorded'[j].changes + One(WillRecord(q, j)) = recorded[j].changes + One(WillRecord(call[r], j))
              /\ notified'[j] + One(WillTell(q, j)) = notified[j] + One(WillTell(call[r], j))
  <2>1. recorded[j].views \in Nat /\ recorded[j].changes \in Nat /\ shown[j] \in Nat /\ notified[j] \in Nat
    BY <1>2
  <2> QED  BY <1>1, <1>8, <1>9, <2>1 DEF One
<1>11. UNCHANGED <<rows, faults>> /\ shown' \in [Ids -> Nat] /\ notified' \in [Ids -> Nat]
       /\ links' \subseteq DOMAIN reports
  BY <1>1, <1>2
<1>12. WillCreate(q) => WillCreate(call[r])
  BY <1>4, <1>6 DEF WillCreate
<1> QED  BY <1>1, <1>6, <1>7, <1>9, <1>10, <1>11, <1>12, SafSteady

LEMMA SafPublishStatus ==
  ASSUME SafInv, NEW r \in Requests, PublishStatus(r)
  PROVE  SafInv'
<1>1. call[r].at = "publish" /\ UNCHANGED <<calls, rows, links, recorded, shown, faults>>
      /\ notified' = [notified EXCEPT ![call[r].id] = @ + IF call[r].op = "update" THEN 1 ELSE 0]
      /\ call' = [call EXCEPT ![r] = NoCall]
  BY DEF PublishStatus, Hang, accessVars
<1>2. /\ call[r] \in SafRequest /\ Updates(call[r])
      /\ reports \in Seq(SafRow) /\ Len(reports) \in Nat /\ DOMAIN reports = 1..Len(reports)
      /\ links \subseteq DOMAIN reports /\ shown \in [Ids -> Nat] /\ notified \in [Ids -> Nat]
      /\ recorded \in [Ids -> [changes : Nat, views : Nat]]
  BY DEF SafInv, SafTypes, SafCalls, Knowing
<1>3. Len(reports) <= MaxReports
  BY <1>2, FS_CardinalityType, SafetyBounds DEF SafInv, Room
<1>4. PICK i \in Ids : i = call[r].id
  BY <1>1, <1>2, <1>3, SafetyBounds DEF Updates, Ids
<1>5. \A j \in Ids : /\ ~HasSeen(call[r], j) /\ ~WillRecord(call[r], j)
                     /\ WillTell(call[r], j) <=> j = i /\ call[r].op = "update"
  BY <1>1, <1>4 DEF HasSeen, WillRecord, WillTell
<1>6. /\ notified' \in [Ids -> Nat]
      /\ \A j \in Ids : notified'[j] = notified[j] + One(j = i /\ call[r].op = "update")
  BY <1>1, <1>2, <1>4 DEF One
<1>7. ASSUME NEW j \in Ids
      PROVE  /\ shown'[j] + One(HasSeen(NoCall, j)) + recorded[j].views <=
                   shown[j] + One(HasSeen(call[r], j)) + recorded'[j].views
             /\ recorded'[j].changes + One(WillRecord(NoCall, j)) =
                   recorded[j].changes + One(WillRecord(call[r], j))
             /\ notified'[j] + One(WillTell(NoCall, j)) = notified[j] + One(WillTell(call[r], j))
  <2>1. recorded[j].views \in Nat /\ recorded[j].changes \in Nat /\ shown[j] \in Nat /\ notified[j] \in Nat
    BY <1>2
  <2>2. ~HasSeen(NoCall, j) /\ ~WillRecord(NoCall, j) /\ ~WillTell(NoCall, j)
    BY SafNone
  <2> QED  BY <1>1, <1>5, <1>6, <2>1, <2>2 DEF One
<1>8. UNCHANGED <<rows, faults>> /\ shown' \in [Ids -> Nat] /\ links' \subseteq DOMAIN reports
      /\ recorded' \in [Ids -> [changes : Nat, views : Nat]]
  BY <1>1, <1>2
<1> QED  BY <1>1, <1>6, <1>7, <1>8, SafNone, SafSteady

LEMMA SafAside ==
  ASSUME SafInv, (\E i \in links : LinkExpires(i)) \/ (\E s \in Staff : LoseAccess(s))
  PROVE  SafInv'
<1>1. UNCHANGED <<rows, call, calls, records, faults>> /\ links' \subseteq links
  BY DEF LinkExpires, LoseAccess, safetyVars, accessVars
<1> USE <1>1 DEF rows, records
<1>2. SafTypes'
  BY DEF SafInv, SafTypes
<1>3. SafCalls'
  BY DEF SafInv, SafCalls, Knowing, Apart, Submits, Views, Updates, Commits, Copies
<1>4. Trailed'
  BY DEF SafInv, Trailed, Follows, Committed
<1>5. Room'
  BY DEF SafInv, Room, Submitting
<1>6. Seen'
  BY DEF SafInv, Seen, Seeing, HasSeen
<1>7. Changed'
  BY DEF SafInv, Changed, Committed, Recording, WillRecord
<1>8. Told'
  BY DEF SafInv, Told, Committed, Telling, WillTell
<1> QED  BY <1>2, <1>3, <1>4, <1>5, <1>6, <1>7, <1>8 DEF SafInv

(* While no text of a report changes, its copies stay counted.             *)
LEMMA SafSameCopies ==
  ASSUME reports \in Seq(SafRow), DOMAIN reports' = DOMAIN reports,
         \A i \in DOMAIN reports : reports'[i].text = reports[i].text
  PROVE  /\ \A text : Copies(text) <= Copies(text)'
         /\ \A i \in DOMAIN reports :
               {j \in 1..(i - 1) : reports'[j].text = reports'[i].text} =
                  {j \in 1..(i - 1) : reports[j].text = reports[i].text}
<1>1. ASSUME NEW text PROVE Copies(text) <= Copies(text)'
  <2>1. {i \in DOMAIN reports' : reports'[i].text = text} = {i \in DOMAIN reports : reports[i].text = text}
    OBVIOUS
  <2>2. Copies(text)' = Copies(text)
    BY <2>1 DEF Copies
  <2>3. Copies(text) \in Nat
    BY SafCopied
  <2> QED  BY <2>2, <2>3
<1>2. \A i \in DOMAIN reports : 1..(i - 1) \subseteq DOMAIN reports
  OBVIOUS
<1> QED  BY <1>1, <1>2

LEMMA SafInsertFirstRow ==
  ASSUME SafInv, NEW r \in Requests, InsertFirstRow(r)
  PROVE  SafInv'
<1>1. /\ call[r].at = "first" /\ firstRow' = firstRow \cup {call[r].id}
      /\ UNCHANGED <<reports, trail, links, records, faults>>
  BY DEF InsertFirstRow, accessVars
<1>2. /\ call[r] \in SafRequest /\ Updates(call[r]) /\ Submits(call[r])
      /\ reports \in Seq(SafRow) /\ DOMAIN reports = 1..Len(reports) /\ Len(reports) \in Nat
  BY DEF SafInv, SafTypes, SafCalls, Knowing
<1>3. PICK q : q = [call[r] EXCEPT !.at = "audit"]
  OBVIOUS
<1>4. /\ q \in SafRequest /\ q.at = "audit" /\ q.op = "submit" /\ q.id = call[r].id
      /\ q.id \in DOMAIN reports /\ q.id # 0 /\ call' = [call EXCEPT ![r] = q]
  BY <1>1, <1>2, <1>3 DEF InsertFirstRow, Move, SafRequest, CallStages, Submits, Updates
<1>5. /\ call' \in [Requests -> SafRequest] /\ call'[r] = q /\ \A s \in Requests : s # r => call'[s] = call[s]
      /\ IsFiniteSet(Submitting') /\ Cardinality(Submitting) \in Nat /\ Cardinality(Submitting') \in Nat
      /\ Cardinality(Submitting') + One(WillCreate(call[r])) = Cardinality(Submitting) + One(WillCreate(q))
  BY <1>4, SafCounts
<1>6. SafTypes'
  BY <1>1, <1>4, <1>5 DEF SafInv, SafTypes, records
<1>7. SafCalls'
  <2>1. \A text : Copies(text) <= Copies(text)'
    BY <1>1, <1>2, SafSameCopies
  <2>2. \A s \in Requests : s # r /\ call[s].at = "commit" =>
            /\ call[s].number \in DOMAIN trail' /\ trail'[call[s].number] = trail[call[s].number]
            /\ q.at = "commit" => q.number # call[s].number
    BY <1>1, <1>4 DEF SafInv, SafCalls, Knowing, Commits
  <2>3. Submits(q)' /\ Views(q)' /\ Updates(q)' /\ Commits(q)'
    BY <1>1, <1>4 DEF Submits, Views, Updates, Commits
  <2>4. Len(reports) <= Len(reports')
    BY <1>1, <1>2
  <2> QED  BY <1>4, <1>5, <1>6, <2>1, <2>2, <2>3, <2>4, SafOthers
<1>8. \A i : Committed(i)' = Committed(i)
  BY <1>1 DEF Committed
<1>9. Trailed'
  <2>1. ASSUME NEW i \in DOMAIN reports, faults = 0
        PROVE  i \in firstRow' \/ \E s \in Requests : call'[s].at = "first" /\ call'[s].id = i
    <3>1. i \in firstRow \/ \E s \in Requests : call[s].at = "first" /\ call[s].id = i
      BY <2>1 DEF SafInv, Trailed
    <3> QED  BY <1>1, <1>4, <1>5, <3>1
  <2> QED  BY <1>1, <1>8, <2>1 DEF SafInv, Trailed, Follows
<1>10. Room'
  BY <1>1, <1>2, <1>4, <1>5, SafetyBounds DEF SafInv, Room, One, WillCreate
<1>11. Balanced(r, q)
  <2> SUFFICES ASSUME NEW i \in Ids PROVE BalancedAt(r, q, i)
    BY DEF Balanced
  <2>1. /\ Cardinality(Committed(i)') = Cardinality(Committed(i)) /\ Cardinality(Committed(i)) \in Nat
        /\ One(i \in DOMAIN reports') = One(i \in DOMAIN reports) /\ One(i \in DOMAIN reports) \in Nat
    BY <1>1, <1>8, SafCommitted DEF SafInv, SafTypes, One
  <2>2. /\ One(HasSeen(q, i)) = 0 /\ One(HasSeen(call[r], i)) = 0
        /\ One(WillRecord(q, i)) = One(WillRecord(call[r], i)) /\ One(WillRecord(q, i)) \in Nat
        /\ One(WillTell(q, i)) = 0 /\ One(WillTell(call[r], i)) = 0
    BY <1>1, <1>4 DEF One, HasSeen, WillRecord, WillTell
  <2>3. /\ UNCHANGED <<recorded, notified, shown, faults>> /\ recorded[i].views \in Nat
        /\ recorded[i].changes \in Nat /\ notified[i] \in Nat /\ shown[i] \in Nat
    BY <1>1 DEF SafInv, SafTypes, records
  <2> QED  BY <2>1, <2>2, <2>3 DEF BalancedAt
<1>12. Seen' /\ Changed' /\ Told'
  BY <1>4, <1>6, <1>11, SafSums
<1> QED  BY <1>6, <1>7, <1>9, <1>10, <1>12 DEF SafInv

LEMMA SafCreateReport ==
  ASSUME SafInv, NEW r \in Requests, NEW evidence \in BOOLEAN, CreateReport(r, evidence)
  PROVE  SafInv'
<1>1. /\ call[r].at = "create"
      /\ UNCHANGED <<trail, firstRow, links, records, faults>>
  BY DEF CreateReport, accessVars
<1>2. /\ call[r] \in SafRequest /\ Submits(call[r]) /\ trail \in Seq(SafUpdate)
      /\ reports \in Seq(SafRow) /\ DOMAIN reports = 1..Len(reports) /\ Len(reports) \in Nat
  BY DEF SafInv, SafTypes, SafCalls, Knowing
<1> DEFINE n == Len(reports) + 1
<1>3. PICK row : row = [text |-> call[r].text, evidence |-> evidence, status |-> "SUBMITTED",
                        copies |-> call[r].number, earlier |-> call[r].earlier]
  OBVIOUS
<1>4. /\ row \in SafRow /\ row.text = call[r].text /\ row.status = "SUBMITTED" /\ row.earlier <= row.copies
      /\ row.copies <= Copies(row.text)
  BY <1>1, <1>2, <1>3, StatusOfANewReport DEF SafRow, SafRequest, Submits
<1>5. /\ reports' = Append(reports, row) /\ reports' \in Seq(SafRow) /\ Len(reports') = n
      /\ DOMAIN reports' = 1..n /\ reports'[n] = row /\ n \in DOMAIN reports' /\ n \notin DOMAIN reports
      /\ \A i \in DOMAIN reports : i \in DOMAIN reports' /\ i # n /\ reports'[i] = reports[i]
  BY <1>2, <1>3, <1>4 DEF CreateReport
<1>6. PICK q : q = [NoCall EXCEPT !.at = "first", !.op = "submit", !.id = n]
  OBVIOUS
<1>7. /\ q \in SafRequest /\ q.at = "first" /\ q.op = "submit" /\ q.id = n /\ n \in Nat /\ n # 0
      /\ call' = [call EXCEPT ![r] = q]
  <2>1. n \in Nat /\ n # 0
    BY <1>2
  <2>2. call' = [call EXCEPT ![r] = q]
    BY <1>6 DEF CreateReport
  <2> HIDE DEF n
  <2> QED  BY <1>6, <2>1, <2>2 DEF NoCall, SafRequest, CallStages
<1>8. /\ call' \in [Requests -> SafRequest] /\ call'[r] = q /\ \A s \in Requests : s # r => call'[s] = call[s]
      /\ IsFiniteSet(Submitting') /\ Cardinality(Submitting) \in Nat /\ Cardinality(Submitting') \in Nat
      /\ Cardinality(Submitting') + One(WillCreate(call[r])) = Cardinality(Submitting) + One(WillCreate(q))
  BY <1>7, SafCounts
<1> HIDE DEF n
<1>9. SafTypes'
  BY <1>1, <1>2, <1>5, <1>8 DEF SafInv, SafTypes, records
<1>10. ASSUME NEW text PROVE Copies(text) <= Copies(text)'
  <2>1. {i \in DOMAIN reports : reports[i].text = text}
        \subseteq {i \in DOMAIN reports' : reports'[i].text = text}
    BY <1>5
  <2>2. IsFiniteSet({i \in DOMAIN reports' : reports'[i].text = text})
    <3>1. DOMAIN reports' = 1..n /\ n \in Nat
      BY <1>5, <1>7
    <3>2. IsFiniteSet(DOMAIN reports')
      BY <3>1, FS_Interval
    <3> QED  BY <3>2, FS_Subset
  <2> QED  BY <2>1, <2>2, FS_Subset DEF Copies
<1>11. SafCalls'
  <2>1. \A s \in Requests : s # r /\ call[s].at = "commit" =>
            /\ call[s].number \in DOMAIN trail' /\ trail'[call[s].number] = trail[call[s].number]
            /\ q.at = "commit" => q.number # call[s].number
    BY <1>1, <1>7 DEF SafInv, SafCalls, Knowing, Commits
  <2>2. Submits(q)' /\ Views(q)' /\ Updates(q)' /\ Commits(q)'
    BY <1>5, <1>7 DEF Submits, Views, Updates, Commits
  <2>3. Len(reports) <= Len(reports')
    BY <1>2, <1>5 DEF n
  <2> QED  BY <1>7, <1>8, <1>9, <1>10, <2>1, <2>2, <2>3, SafOthers
<1>12. /\ \A i : Committed(i)' = Committed(i)
       /\ Committed(n) = {}
  <2>1. \A k \in DOMAIN trail : trail[k].id \in DOMAIN reports
    BY DEF SafInv, Trailed
  <2> QED  BY <1>1, <1>5, <2>1 DEF Committed
<1>13. Trailed'
  <2>1. \A k \in DOMAIN trail' : trail'[k].id \in DOMAIN reports' /\ Follows(k)'
    BY <1>1, <1>5 DEF SafInv, Trailed, Follows
  <2>2. ASSUME NEW i \in DOMAIN reports'
        PROVE  IF Committed(i) = {} THEN reports'[i].status = "SUBMITTED"
               ELSE \E k \in Committed(i) : /\ reports'[i].status = trail[k].status
                                            /\ \A l \in Committed(i) : k \notin trail[l].after
    <3>1. CASE i = n
      BY <1>4, <1>5, <1>12, <3>1
    <3>2. CASE i # n
      <4>1. i \in DOMAIN reports
        BY <1>2, <1>5, <3>2 DEF n
      <4> QED  BY <1>5, <4>1 DEF SafInv, Trailed
    <3> QED  BY <3>1, <3>2
  <2>3. ASSUME NEW i \in DOMAIN reports', faults = 0
        PROVE  i \in firstRow' \/ \E s \in Requests : call'[s].at = "first" /\ call'[s].id = i
    <3>1. CASE i = n
      BY <1>7, <1>8, <3>1
    <3>2. CASE i # n
      <4>1. i \in DOMAIN reports
        BY <1>2, <1>5, <3>2 DEF n
      <4>2. i \in firstRow \/ \E s \in Requests : call[s].at = "first" /\ call[s].id = i
        BY <2>3, <4>1 DEF SafInv, Trailed
      <4> QED  BY <1>1, <1>8, <4>2
    <3> QED  BY <3>1, <3>2
  <2>4. ASSUME NEW i \in DOMAIN reports'
        PROVE  /\ reports'[i].earlier <= reports'[i].copies
               /\ reports'[i].copies <= Cardinality({j \in 1..(i - 1) : reports'[j].text = reports'[i].text})
    <3>1. CASE i = n
      <4>1. {j \in 1..(i - 1) : reports'[j].text = reports'[i].text} =
               {j \in DOMAIN reports : reports[j].text = row.text}
        BY <1>2, <1>5, <3>1 DEF n
      <4>2. Cardinality({j \in 1..(i - 1) : reports'[j].text = reports'[i].text}) = Copies(row.text)
        BY <4>1 DEF Copies
      <4> QED  BY <1>4, <1>5, <3>1, <4>2
    <3>2. CASE i # n
      <4>1. i \in DOMAIN reports /\ 1..(i - 1) \subseteq DOMAIN reports
        BY <1>2, <1>5, <3>2 DEF n
      <4>2. {j \in 1..(i - 1) : reports'[j].text = reports'[i].text} =
               {j \in 1..(i - 1) : reports[j].text = reports[i].text}
        BY <1>5, <4>1
      <4>3. /\ reports[i].earlier <= reports[i].copies
            /\ reports[i].copies <= Cardinality({j \in 1..(i - 1) : reports[j].text = reports[i].text})
        BY <4>1 DEF SafInv, Trailed
      <4> QED  BY <1>5, <4>1, <4>2, <4>3
    <3> QED  BY <3>1, <3>2
  <2> QED  BY <1>1, <1>12, <2>1, <2>2, <2>3, <2>4 DEF Trailed
<1>14. Room'
  <2>1. WillCreate(call[r]) /\ ~WillCreate(q)
    BY <1>1, <1>2, <1>7 DEF WillCreate, Submits
  <2>2. Cardinality(Submitting') + 1 = Cardinality(Submitting)
    BY <1>8, <2>1 DEF One
  <2>3. Len(reports') + Cardinality(Submitting') <= MaxReports
    BY <1>2, <1>5, <1>8, <2>2, SafetyBounds DEF SafInv, Room, n
  <2> QED  BY <1>8, <2>3 DEF Room
<1>15. Balanced(r, q)
  <2> SUFFICES ASSUME NEW i \in Ids PROVE BalancedAt(r, q, i)
    BY DEF Balanced
  <2>1. /\ Cardinality(Committed(i)') = Cardinality(Committed(i)) /\ Cardinality(Committed(i)) \in Nat
    BY <1>2, <1>12, SafCommitted
  <2>2. One(i \in DOMAIN reports') = One(i \in DOMAIN reports) + One(i = n) /\ One(i \in DOMAIN reports) \in Nat
    BY <1>2, <1>5 DEF One, n
  <2>3. /\ One(HasSeen(q, i)) = 0 /\ One(HasSeen(call[r], i)) = 0
        /\ One(WillRecord(q, i)) = One(i = n) /\ One(WillRecord(call[r], i)) = 0 /\ One(i = n) \in Nat
        /\ One(WillTell(q, i)) = 0 /\ One(WillTell(call[r], i)) = 0
    BY <1>1, <1>7 DEF One, HasSeen, WillRecord, WillTell
  <2>4. /\ UNCHANGED <<recorded, notified, shown, faults>> /\ recorded[i].views \in Nat
        /\ recorded[i].changes \in Nat /\ notified[i] \in Nat /\ shown[i] \in Nat
    BY <1>1 DEF SafInv, SafTypes, records
  <2> QED  BY <2>1, <2>2, <2>3, <2>4 DEF BalancedAt
<1>16. Seen' /\ Changed' /\ Told'
  BY <1>7, <1>9, <1>15, SafSums
<1> QED  BY <1>9, <1>11, <1>13, <1>14, <1>16 DEF SafInv

LEMMA SafInsertRow ==
  ASSUME SafInv, NEW r \in Requests, InsertRow(r)
  PROVE  SafInv'
<1>1. call[r].at = "insert" /\ UNCHANGED <<reports, firstRow, links, records, faults>>
  BY DEF InsertRow, accessVars
<1>2. /\ call[r] \in SafRequest /\ Updates(call[r]) /\ trail \in Seq(SafUpdate) /\ Len(trail) \in Nat
      /\ DOMAIN trail = 1..Len(trail)
      /\ reports \in Seq(SafRow) /\ DOMAIN reports = 1..Len(reports) /\ Len(reports) \in Nat
  BY DEF SafInv, SafTypes, SafCalls, Knowing
<1> DEFINE n == Len(trail) + 1
<1>3. PICK u : u = [id |-> call[r].id, status |-> call[r].text, in |-> "transaction",
                    after |-> Committed(call[r].id)]
  OBVIOUS
<1>4. u \in SafUpdate /\ u.id \in DOMAIN reports
  <2>1. call[r].id \in DOMAIN reports /\ call[r].text \in ReportStatuses
    BY <1>1, <1>2 DEF Updates
  <2>2. Committed(call[r].id) \in SUBSET Nat
    BY <1>2 DEF Committed
  <2>3. call[r].id \in Nat
    BY <1>2, <2>1
  <2> HIDE DEF n
  <2> QED  BY <1>3, <2>1, <2>2, <2>3 DEF SafUpdate
<1>5. /\ trail' = Append(trail, u) /\ trail' \in Seq(SafUpdate) /\ DOMAIN trail' = 1..n
      /\ trail'[n] = u /\ n \notin DOMAIN trail
      /\ \A k \in DOMAIN trail : k \in DOMAIN trail' /\ k # n /\ trail'[k] = trail[k]
      /\ \A k \in DOMAIN trail' : k = n \/ k \in DOMAIN trail
  <2>1. trail' = Append(trail, u)
    BY <1>3 DEF InsertRow
  <2> QED  BY <1>2, <1>4, <2>1
<1>6. PICK q : q = [call[r] EXCEPT !.at = "commit", !.number = n]
  OBVIOUS
<1>7. /\ q \in SafRequest /\ q.at = "commit" /\ q.op = "update" /\ q.op = call[r].op /\ q.id = call[r].id
      /\ q.text = call[r].text /\ q.number = n
  <2>1. n \in Nat /\ call[r].op = "update"
    BY <1>1, <1>2 DEF Updates
  <2> HIDE DEF n
  <2> QED  BY <1>2, <1>6, <2>1 DEF SafRequest, CallStages
<1>8. call' = [call EXCEPT ![r] = q]
  BY <1>6 DEF InsertRow
<1> HIDE DEF n
<1>9. /\ call' \in [Requests -> SafRequest] /\ call'[r] = q /\ \A s \in Requests : s # r => call'[s] = call[s]
      /\ IsFiniteSet(Submitting') /\ Cardinality(Submitting) \in Nat /\ Cardinality(Submitting') \in Nat
      /\ Cardinality(Submitting') + One(WillCreate(call[r])) = Cardinality(Submitting) + One(WillCreate(q))
  BY <1>7, <1>8, SafCounts
<1>10. SafTypes'
  BY <1>1, <1>5, <1>9 DEF SafInv, SafTypes, records
<1>11. u.id = call[r].id /\ u.status = call[r].text /\ u.in = "transaction" /\ u.after = Committed(u.id)
  BY <1>3
<1>12. SafCalls'
  <2>1. \A text : Copies(text) <= Copies(text)'
    BY <1>1, <1>2, SafSameCopies
  <2>2. \A s \in Requests : s # r /\ call[s].at = "commit" =>
            /\ call[s].number \in DOMAIN trail' /\ trail'[call[s].number] = trail[call[s].number]
            /\ q.at = "commit" => q.number # call[s].number
    BY <1>5, <1>7 DEF SafInv, SafCalls, Knowing, Commits
  <2>3. Submits(q)' /\ Views(q)' /\ Updates(q)'
    BY <1>1, <1>2, <1>7 DEF Submits, Views, Updates
  <2>4. Commits(q)'
    <3>1. n \in DOMAIN trail'
      BY <1>2, <1>5 DEF n
    <3> QED  BY <1>5, <1>7, <1>11, <3>1 DEF Commits
  <2>5. Len(reports) <= Len(reports')
    BY <1>1, <1>2
  <2> QED  BY <1>7, <1>9, <1>10, <2>1, <2>2, <2>3, <2>4, <2>5, SafOthers
<1>13. \A i : Committed(i)' = Committed(i)
  BY <1>5, <1>11 DEF Committed
<1>14. Trailed'
  <2>1. ASSUME NEW k \in DOMAIN trail'
        PROVE  trail'[k].id \in DOMAIN reports' /\ Follows(k)'
    <3>1. CASE k = n
      <4>1. \A l \in Committed(u.id) : l \in DOMAIN trail /\ trail[l].id = u.id /\ trail[l].in = "committed"
        BY DEF Committed
      <4> QED  BY <1>1, <1>4, <1>5, <1>11, <3>1, <4>1 DEF Follows
    <3>2. CASE k # n
      BY <1>1, <1>5, <2>1, <3>2 DEF SafInv, Trailed, Follows
    <3> QED  BY <3>1, <3>2
  <2>2. ASSUME NEW i \in DOMAIN reports'
        PROVE  IF Committed(i) = {} THEN reports'[i].status = "SUBMITTED"
               ELSE \E k \in Committed(i) : /\ reports'[i].status = trail'[k].status
                                            /\ \A l \in Committed(i) : k \notin trail'[l].after
    <3>1. \A k \in Committed(i) : trail'[k] = trail[k]
      BY <1>5 DEF Committed
    <3>2. IF Committed(i) = {} THEN reports[i].status = "SUBMITTED"
          ELSE \E k \in Committed(i) : /\ reports[i].status = trail[k].status
                                       /\ \A l \in Committed(i) : k \notin trail[l].after
      BY <1>1 DEF SafInv, Trailed
    <3> QED  BY <1>1, <3>1, <3>2
  <2>3. ASSUME NEW i \in DOMAIN reports', faults = 0
        PROVE  i \in firstRow' \/ \E s \in Requests : call'[s].at = "first" /\ call'[s].id = i
    <3>1. i \in firstRow \/ \E s \in Requests : call[s].at = "first" /\ call[s].id = i
      BY <1>1, <2>3 DEF SafInv, Trailed
    <3> QED  BY <1>1, <1>9, <3>1
  <2> QED  BY <1>1, <1>13, <2>1, <2>2, <2>3 DEF SafInv, Trailed
<1>15. Room'
  <2>1. ~WillCreate(call[r]) /\ ~WillCreate(q)
    BY <1>7 DEF WillCreate
  <2> QED  BY <1>1, <1>9, <2>1 DEF SafInv, Room, One
<1>16. Balanced(r, q)
  <2> SUFFICES ASSUME NEW i \in Ids PROVE BalancedAt(r, q, i)
    BY DEF Balanced
  <2>1. /\ Cardinality(Committed(i)') = Cardinality(Committed(i)) /\ Cardinality(Committed(i)) \in Nat
    BY <1>2, <1>13, SafCommitted
  <2>2. One(i \in DOMAIN reports') = One(i \in DOMAIN reports) /\ One(i \in DOMAIN reports) \in Nat
    BY <1>1 DEF One
  <2>3. /\ One(HasSeen(q, i)) = 0 /\ One(HasSeen(call[r], i)) = 0
        /\ One(WillRecord(q, i)) = 0 /\ One(WillRecord(call[r], i)) = 0
        /\ One(WillTell(q, i)) = 0 /\ One(WillTell(call[r], i)) = 0
    BY <1>1, <1>7 DEF One, HasSeen, WillRecord, WillTell
  <2>4. /\ UNCHANGED <<recorded, notified, shown, faults>> /\ recorded[i].views \in Nat
        /\ recorded[i].changes \in Nat /\ notified[i] \in Nat /\ shown[i] \in Nat
    BY <1>1 DEF SafInv, SafTypes, records
  <2> QED  BY <2>1, <2>2, <2>3, <2>4 DEF BalancedAt
<1>17. Seen' /\ Changed' /\ Told'
  BY <1>7, <1>8, <1>10, <1>16, SafSums
<1> QED  BY <1>10, <1>12, <1>14, <1>15, <1>17 DEF SafInv

(* One row of the trail changes whether it is committed.                   *)
LEMMA SafSettled ==
  ASSUME trail \in Seq(SafUpdate), NEW n \in DOMAIN trail, NEW how \in {"transaction", "committed", "undone"},
         trail' = [trail EXCEPT ![n].in = how]
  PROVE  /\ trail' \in Seq(SafUpdate) /\ DOMAIN trail' = DOMAIN trail
         /\ \A k \in DOMAIN trail : /\ trail'[k].id = trail[k].id /\ trail'[k].status = trail[k].status
                                    /\ trail'[k].after = trail[k].after
                                    /\ k # n => trail'[k] = trail[k]
         /\ trail'[n].in = how
<1>1. DOMAIN trail = 1..Len(trail) /\ Len(trail) \in Nat /\ \A k \in DOMAIN trail : trail[k] \in SafUpdate
  OBVIOUS
<1>2. PICK u : u = [trail[n] EXCEPT !.in = how]
  OBVIOUS
<1>3. /\ u \in SafUpdate /\ u.id = trail[n].id /\ u.status = trail[n].status /\ u.after = trail[n].after
      /\ u.in = how
  <2>1. trail[n] \in SafUpdate
    BY <1>1
  <2> QED  BY <1>2, <2>1 DEF SafUpdate
<1>4. /\ trail' = [k \in 1..Len(trail) |-> trail'[k]] /\ trail'[n] = u
      /\ \A k \in DOMAIN trail : k # n => trail'[k] = trail[k]
  BY <1>1, <1>2
<1>5. trail' \in Seq(SafUpdate)
  <2>1. trail' \in [1..Len(trail) -> SafUpdate]
    BY <1>1, <1>3, <1>4
  <2> QED  BY <1>1, <2>1, SeqDef
<1> QED  BY <1>1, <1>3, <1>4, <1>5

LEMMA SafCommitUpdate ==
  ASSUME SafInv, NEW r \in Requests, CommitUpdate(r)
  PROVE  SafInv'
<1>1. call[r].at = "commit" /\ UNCHANGED <<firstRow, links, records, faults>>
  BY DEF CommitUpdate, accessVars
<1>2. /\ call[r] \in SafRequest /\ Updates(call[r]) /\ Commits(call[r]) /\ trail \in Seq(SafUpdate)
      /\ reports \in Seq(SafRow) /\ DOMAIN reports = 1..Len(reports) /\ Len(reports) \in Nat
      /\ \A k \in DOMAIN reports : reports[k] \in SafRow
  BY DEF SafInv, SafTypes, SafCalls, Knowing
<1>3. PICK n \in DOMAIN trail : n = call[r].number
  BY <1>1, <1>2 DEF Commits
<1>4. PICK o \in DOMAIN reports : o = call[r].id
  BY <1>1, <1>2 DEF Updates
<1>5. trail[n].id = o /\ trail[n].status = call[r].text /\ trail[n].in = "transaction"
      /\ call[r].op = "update" /\ call[r].text \in ReportStatuses
  BY <1>1, <1>2, <1>3, <1>4 DEF Commits, Updates
<1>6. /\ trail' \in Seq(SafUpdate) /\ DOMAIN trail' = DOMAIN trail
      /\ \A k \in DOMAIN trail : /\ trail'[k].id = trail[k].id /\ trail'[k].status = trail[k].status
                                 /\ trail'[k].after = trail[k].after
                                 /\ k # n => trail'[k] = trail[k]
      /\ trail'[n].in = "committed"
  <2>1. trail' = [trail EXCEPT ![n].in = "committed"]
    BY <1>3 DEF CommitUpdate
  <2> QED  BY <1>2, <2>1, SafSettled
<1>7. /\ reports' \in Seq(SafRow) /\ DOMAIN reports' = DOMAIN reports /\ Len(reports') = Len(reports)
      /\ \A k \in DOMAIN reports :
            /\ reports'[k].text = reports[k].text /\ reports'[k].copies = reports[k].copies
            /\ reports'[k].earlier = reports[k].earlier
            /\ k # o => reports'[k].status = reports[k].status
      /\ reports'[o].status = trail[n].status
  <2>1. PICK row : row = [reports[o] EXCEPT !.status = call[r].text]
    OBVIOUS
  <2>2. /\ row \in SafRow /\ row.text = reports[o].text /\ row.copies = reports[o].copies
        /\ row.earlier = reports[o].earlier /\ row.status = trail[n].status
    <3>1. reports[o] \in SafRow
      BY <1>2
    <3> QED  BY <1>5, <2>1, <3>1 DEF SafRow
  <2>3. /\ reports' = [k \in 1..Len(reports) |-> reports'[k]] /\ reports'[o] = row
        /\ \A k \in DOMAIN reports : k # o => reports'[k] = reports[k]
    BY <1>2, <1>4, <2>1 DEF CommitUpdate
  <2>4. reports' \in [1..Len(reports) -> SafRow]
    BY <1>2, <2>2, <2>3
  <2>5. reports' \in Seq(SafRow)
    BY <1>2, <2>4, SeqDef
  <2> QED  BY <1>2, <2>2, <2>3, <2>5
<1>8. PICK q : q = [call[r] EXCEPT !.at = "audit"]
  OBVIOUS
<1>9. /\ q \in SafRequest /\ q.at = "audit" /\ q.op = "update" /\ q.id = o /\ o # 0
  <2>1. o \in Nat /\ o # 0
    BY <1>2, <1>4
  <2>2. q \in SafRequest /\ q.at = "audit" /\ q.op = call[r].op /\ q.id = call[r].id
    BY <1>2, <1>8 DEF SafRequest, CallStages
  <2> QED  BY <1>4, <1>5, <2>1, <2>2
<1>10. call' = [call EXCEPT ![r] = q]
  BY <1>8 DEF CommitUpdate, Move
<1>11. /\ call' \in [Requests -> SafRequest] /\ call'[r] = q /\ \A s \in Requests : s # r => call'[s] = call[s]
       /\ IsFiniteSet(Submitting') /\ Cardinality(Submitting) \in Nat /\ Cardinality(Submitting') \in Nat
       /\ Cardinality(Submitting') + One(WillCreate(call[r])) = Cardinality(Submitting) + One(WillCreate(q))
  BY <1>9, <1>10, SafCounts
<1>12. SafTypes'
  BY <1>1, <1>6, <1>7, <1>11 DEF SafInv, SafTypes, records
<1>13. SafCalls'
  <2>1. \A text : Copies(text) <= Copies(text)'
    BY <1>2, <1>7, SafSameCopies
  <2>2. \A s \in Requests : s # r /\ call[s].at = "commit" =>
            /\ call[s].number \in DOMAIN trail' /\ trail'[call[s].number] = trail[call[s].number]
            /\ q.at = "commit" => q.number # call[s].number
    <3>1. \A s \in Requests : s # r /\ call[s].at = "commit" => call[s].number \in DOMAIN trail
      BY DEF SafInv, SafCalls, Knowing, Commits
    <3>2. \A s \in Requests : s # r /\ call[s].at = "commit" => call[s].number # n
      BY <1>1, <1>3 DEF SafInv, SafCalls, Apart
    <3> QED  BY <1>6, <1>9, <3>1, <3>2
  <2>3. Submits(q)' /\ Views(q)' /\ Updates(q)' /\ Commits(q)'
    BY <1>7, <1>9 DEF Submits, Views, Updates, Commits
  <2>4. Len(reports) <= Len(reports')
    BY <1>2, <1>7
  <2> QED  BY <1>9, <1>11, <1>12, <2>1, <2>2, <2>3, <2>4, SafOthers
<1>14. /\ n \notin Committed(o) /\ \A i : Committed(i)' = Committed(i) \cup IF i = o THEN {n} ELSE {}
  BY <1>5, <1>6 DEF Committed
<1>15. Trailed'
  <2>1. ASSUME NEW k \in DOMAIN trail'
        PROVE  trail'[k].id \in DOMAIN reports' /\ Follows(k)'
    <3>1. trail[k].id \in DOMAIN reports /\ Follows(k)
      BY <1>6, <2>1 DEF SafInv, Trailed
    <3>2. \A l \in DOMAIN trail : trail[l].in = "committed" => trail'[l].in = "committed"
      BY <1>6
    <3> QED  BY <1>6, <1>7, <2>1, <3>1, <3>2 DEF Follows
  <2>2. ASSUME NEW i \in DOMAIN reports'
        PROVE  IF Committed(i)' = {} THEN reports'[i].status = "SUBMITTED"
               ELSE \E k \in Committed(i)' : /\ reports'[i].status = trail'[k].status
                                             /\ \A l \in Committed(i)' : k \notin trail'[l].after
    <3>1. /\ i \in DOMAIN reports
          /\ IF Committed(i) = {} THEN reports[i].status = "SUBMITTED"
             ELSE \E k \in Committed(i) : /\ reports[i].status = trail[k].status
                                          /\ \A l \in Committed(i) : k \notin trail[l].after
      BY <1>7 DEF SafInv, Trailed
    <3>2. Committed(i) \subseteq DOMAIN trail
      BY DEF Committed
    <3>3. CASE i = o
      <4>1. n \in Committed(o)'
        BY <1>14
      <4>2. \A l \in DOMAIN trail : trail[l].id = o => trail[l].after \subseteq Committed(o)
        BY DEF SafInv, Trailed, Follows, Committed
      <4>3. \A l \in Committed(o)' : n \notin trail'[l].after
        <5>1. \A l \in Committed(o)' : l \in DOMAIN trail /\ trail[l].id = o
          BY <1>6 DEF Committed
        <5> QED  BY <1>6, <1>14, <4>2, <5>1
      <4> QED  BY <1>6, <1>7, <3>3, <4>1, <4>3
    <3>4. CASE i # o
      <4>1. Committed(i)' = Committed(i)
        BY <1>14, <3>4
      <4>2. \A k \in Committed(i) : trail'[k].status = trail[k].status /\ trail'[k].after = trail[k].after
        BY <1>6, <3>2
      <4> QED  BY <1>7, <3>1, <3>4, <4>1, <4>2
    <3> QED  BY <3>3, <3>4
  <2>3. ASSUME NEW i \in DOMAIN reports', faults = 0
        PROVE  i \in firstRow' \/ \E s \in Requests : call'[s].at = "first" /\ call'[s].id = i
    <3>1. i \in firstRow \/ \E s \in Requests : call[s].at = "first" /\ call[s].id = i
      BY <1>7, <2>3 DEF SafInv, Trailed
    <3> QED  BY <1>1, <1>11, <3>1
  <2>4. ASSUME NEW i \in DOMAIN reports'
        PROVE  /\ reports'[i].earlier <= reports'[i].copies
               /\ reports'[i].copies <= Cardinality({j \in 1..(i - 1) : reports'[j].text = reports'[i].text})
    <3>1. {j \in 1..(i - 1) : reports'[j].text = reports'[i].text} =
             {j \in 1..(i - 1) : reports[j].text = reports[i].text}
      BY <1>2, <1>7, SafSameCopies
    <3>2. /\ reports[i].earlier <= reports[i].copies
          /\ reports[i].copies <= Cardinality({j \in 1..(i - 1) : reports[j].text = reports[i].text})
      BY <1>7 DEF SafInv, Trailed
    <3> QED  BY <1>7, <3>1, <3>2
  <2> QED  BY <1>1, <2>1, <2>2, <2>3, <2>4 DEF Trailed
<1>16. Room'
  <2>1. ~WillCreate(call[r]) /\ ~WillCreate(q)
    BY <1>5, <1>9 DEF WillCreate
  <2> QED  BY <1>7, <1>11, <2>1 DEF SafInv, Room, One
<1>17. Balanced(r, q)
  <2> SUFFICES ASSUME NEW i \in Ids PROVE BalancedAt(r, q, i)
    BY DEF Balanced
  <2>1. Cardinality(Committed(i)') = Cardinality(Committed(i)) + One(i = o) /\ Cardinality(Committed(i)) \in Nat
    <3>1. IsFiniteSet(Committed(i)) /\ Cardinality(Committed(i)) \in Nat
      BY <1>2, SafCommitted
    <3>2. CASE i = o
      <4>1. Cardinality(Committed(i) \cup {n}) = Cardinality(Committed(i)) + 1
        BY <1>14, <3>1, <3>2, FS_AddElement
      <4>2. Committed(i)' = Committed(i) \cup {n}
        BY <1>14, <3>2
      <4> QED  BY <3>1, <3>2, <4>1, <4>2 DEF One
    <3>3. CASE i # o
      <4>1. Committed(i)' = Committed(i)
        BY <1>14, <3>3
      <4>2. Cardinality(Committed(i)') = Cardinality(Committed(i))
        BY <4>1
      <4> QED  BY <3>1, <3>3, <4>2 DEF One
    <3> QED  BY <3>2, <3>3
  <2>2. One(i \in DOMAIN reports') = One(i \in DOMAIN reports) /\ One(i \in DOMAIN reports) \in Nat
    BY <1>7 DEF One
  <2>3. /\ One(HasSeen(q, i)) = 0 /\ One(HasSeen(call[r], i)) = 0
        /\ One(WillRecord(q, i)) = One(i = o) /\ One(WillRecord(call[r], i)) = 0 /\ One(i = o) \in Nat
        /\ One(WillTell(q, i)) = One(i = o) /\ One(WillTell(call[r], i)) = 0
    BY <1>1, <1>9 DEF One, HasSeen, WillRecord, WillTell
  <2>4. /\ UNCHANGED <<recorded, notified, shown, faults>> /\ recorded[i].views \in Nat
        /\ recorded[i].changes \in Nat /\ notified[i] \in Nat /\ shown[i] \in Nat
    BY <1>1 DEF SafInv, SafTypes, records
  <2> QED  BY <2>1, <2>2, <2>3, <2>4 DEF BalancedAt
<1>18. Seen' /\ Changed' /\ Told'
  BY <1>9, <1>10, <1>12, <1>17, SafSums
<1> QED  BY <1>12, <1>13, <1>15, <1>16, <1>18 DEF SafInv

LEMMA SafBreak ==
  ASSUME SafInv, NEW r \in Requests, Break(r)
  PROVE  SafInv'
<1>1. /\ UNCHANGED <<reports, firstRow, links, records>> /\ call' = [call EXCEPT ![r] = NoCall]
      /\ faults' \in Nat /\ faults' # 0
  BY DEF Break, Hang, Fault, SafInv, SafTypes
<1>2. /\ call[r] \in SafRequest /\ Commits(call[r]) /\ trail \in Seq(SafUpdate)
      /\ reports \in Seq(SafRow) /\ DOMAIN reports = 1..Len(reports) /\ Len(reports) \in Nat
  BY DEF SafInv, SafTypes, SafCalls, Knowing
<1>3. /\ trail' \in Seq(SafUpdate) /\ DOMAIN trail' = DOMAIN trail
      /\ \A k \in DOMAIN trail : /\ trail'[k].id = trail[k].id /\ trail'[k].status = trail[k].status
                                 /\ trail'[k].after = trail[k].after
                                 /\ trail'[k].in = "committed" <=> trail[k].in = "committed"
                                 /\ trail'[k] = trail[k] \/ (call[r].at = "commit" /\ k = call[r].number)
  <2>1. CASE call[r].at = "commit" /\ trail[call[r].number].in = "transaction"
    <3>1. PICK n \in DOMAIN trail : n = call[r].number
      BY <1>2, <2>1 DEF Commits
    <3>2. trail' = [trail EXCEPT ![n].in = "undone"]
      BY <2>1, <3>1 DEF Break
    <3>3. /\ trail' \in Seq(SafUpdate) /\ DOMAIN trail' = DOMAIN trail
          /\ \A k \in DOMAIN trail : /\ trail'[k].id = trail[k].id /\ trail'[k].status = trail[k].status
                                     /\ trail'[k].after = trail[k].after
                                     /\ k # n => trail'[k] = trail[k]
          /\ trail'[n].in = "undone"
      BY <1>2, <3>2, SafSettled
    <3> QED  BY <2>1, <3>1, <3>3
  <2>2. CASE ~(call[r].at = "commit" /\ trail[call[r].number].in = "transaction")
    BY <1>2, <2>2 DEF Break
  <2> QED  BY <2>1, <2>2
<1>4. /\ call' \in [Requests -> SafRequest] /\ call'[r] = NoCall
      /\ \A s \in Requests : s # r => call'[s] = call[s]
      /\ IsFiniteSet(Submitting') /\ Cardinality(Submitting) \in Nat /\ Cardinality(Submitting') \in Nat
      /\ Cardinality(Submitting') + One(WillCreate(call[r])) =
            Cardinality(Submitting) + One(WillCreate(NoCall))
  BY <1>1, SafNone, SafCounts
<1>5. SafTypes'
  BY <1>1, <1>3, <1>4 DEF SafInv, SafTypes, records
<1>6. SafCalls'
  <2>1. \A text : Copies(text) <= Copies(text)'
    BY <1>1, <1>2, SafSameCopies
  <2>2. \A s \in Requests : s # r /\ call[s].at = "commit" =>
            /\ call[s].number \in DOMAIN trail' /\ trail'[call[s].number] = trail[call[s].number]
            /\ NoCall.at = "commit" => NoCall.number # call[s].number
    <3>1. \A s \in Requests : s # r /\ call[s].at = "commit" =>
             /\ call[s].number \in DOMAIN trail
             /\ call[r].at = "commit" => call[s].number # call[r].number
      BY DEF SafInv, SafCalls, Knowing, Apart, Commits
    <3> QED  BY <1>3, <3>1, SafNone
  <2>3. Submits(NoCall)' /\ Views(NoCall)' /\ Updates(NoCall)' /\ Commits(NoCall)'
    BY SafNone DEF Submits, Views, Updates, Commits
  <2>4. Len(reports) <= Len(reports')
    BY <1>1, <1>2
  <2> QED  BY <1>4, <1>5, <2>1, <2>2, <2>3, <2>4, SafNone, SafOthers
<1>7. \A i : Committed(i)' = Committed(i)
  BY <1>3 DEF Committed
<1>8. Trailed'
  <2>1. ASSUME NEW k \in DOMAIN trail'
        PROVE  trail'[k].id \in DOMAIN reports' /\ Follows(k)'
    BY <1>1, <1>3, <2>1 DEF SafInv, Trailed, Follows
  <2>2. ASSUME NEW i \in DOMAIN reports'
        PROVE  IF Committed(i) = {} THEN reports'[i].status = "SUBMITTED"
               ELSE \E k \in Committed(i) : /\ reports'[i].status = trail'[k].status
                                            /\ \A l \in Committed(i) : k \notin trail'[l].after
    <3>1. \A k \in Committed(i) : trail'[k].status = trail[k].status /\ trail'[k].after = trail[k].after
      BY <1>3 DEF Committed
    <3>2. IF Committed(i) = {} THEN reports[i].status = "SUBMITTED"
          ELSE \E k \in Committed(i) : /\ reports[i].status = trail[k].status
                                       /\ \A l \in Committed(i) : k \notin trail[l].after
      BY <1>1 DEF SafInv, Trailed
    <3> QED  BY <1>1, <3>1, <3>2
  <2> QED  BY <1>1, <1>7, <2>1, <2>2 DEF SafInv, Trailed
<1>9. Room'
  <2>1. One(WillCreate(NoCall)) = 0 /\ One(WillCreate(call[r])) \in Nat
    BY SafNone DEF One
  <2>2. Cardinality(Submitting') <= Cardinality(Submitting)
    BY <1>4, <2>1
  <2>3. Len(reports) + Cardinality(Submitting) <= MaxReports
    BY DEF SafInv, Room
  <2>4. Len(reports') + Cardinality(Submitting') <= MaxReports
    BY <1>1, <1>2, <1>4, <2>2, <2>3, SafetyBounds
  <2> QED  BY <1>4, <2>4 DEF Room
<1>10. Balanced(r, NoCall)
  <2> SUFFICES ASSUME NEW i \in Ids PROVE BalancedAt(r, NoCall, i)
    BY DEF Balanced
  <2>1. /\ Cardinality(Committed(i)') = Cardinality(Committed(i)) /\ Cardinality(Committed(i)) \in Nat
    BY <1>2, <1>7, SafCommitted
  <2>2. One(i \in DOMAIN reports') = One(i \in DOMAIN reports) /\ One(i \in DOMAIN reports) \in Nat
    BY <1>1 DEF One
  <2>3. /\ One(HasSeen(NoCall, i)) = 0 /\ One(HasSeen(call[r], i)) \in Nat
        /\ One(WillRecord(NoCall, i)) = 0 /\ One(WillRecord(call[r], i)) \in Nat
        /\ One(WillTell(NoCall, i)) = 0 /\ One(WillTell(call[r], i)) \in Nat
    BY SafNone DEF One
  <2>4. /\ UNCHANGED <<recorded, notified, shown>> /\ recorded[i].views \in Nat
        /\ recorded[i].changes \in Nat /\ notified[i] \in Nat /\ shown[i] \in Nat
    BY <1>1 DEF SafInv, SafTypes, records
  <2> QED  BY <1>1, <2>1, <2>2, <2>3, <2>4 DEF BalancedAt
<1>11. Seen' /\ Changed' /\ Told'
  BY <1>1, <1>5, <1>10, SafNone, SafSums
<1> QED  BY <1>5, <1>6, <1>8, <1>9, <1>11 DEF SafInv

LEMMA SafInductive == SafInv /\ SafetyNext => SafInv'
<1> SUFFICES ASSUME SafInv, SafetyNext PROVE SafInv'
  OBVIOUS
<1>1. ASSUME NEW r \in Requests,
             \/ \E text \in Texts : BeginSubmit(r, text)
             \/ \E s \in Staff, i \in DOMAIN reports \cup {0} : BeginView(r, s, "intake", i)
             \/ \E s \in Staff, i \in DOMAIN reports, op \in {"sign", "evidence"} : BeginView(r, s, op, i)
             \/ \E s \in Staff, i \in DOMAIN reports, new \in ReportStatuses : BeginUpdate(r, s, i, new)
      PROVE  SafInv'
  BY <1>1, SafBeginSubmit, SafBeginView, SafBeginUpdate
<1>2. ASSUME NEW r \in Requests,
             \/ \E evidence \in BOOLEAN : CreateReport(r, evidence)
             \/ FindReporter(r) \/ CountCopies(r) \/ InsertFirstRow(r)
      PROVE  SafInv'
  BY <1>2, SafCreateReport, SafFindReporter, SafCountCopies, SafInsertFirstRow
<1>3. ASSUME NEW r \in Requests, SafeguardingCheck(r) \/ Read(r) \/ RecordView(r) \/ Answer(r)
      PROVE  SafInv'
  BY <1>3, SafSafeguardingCheck, SafRead, SafRecordView, SafAnswer
<1>4. ASSUME NEW r \in Requests,
             InsertRow(r) \/ CommitUpdate(r) \/ RecordChange(r) \/ PublishStatus(r) \/ Break(r)
      PROVE  SafInv'
  BY <1>4, SafInsertRow, SafCommitUpdate, SafRecordChange, SafPublishStatus, SafBreak
<1> QED  BY <1>1, <1>2, <1>3, <1>4, SafAside DEF SafetyNext

(* Failures elsewhere change nothing here.                                 *)
LEMMA SafBeside ==
  ASSUME SafInv, UNCHANGED safetyVars, faults' \in Nat, faults' = 0 => faults = 0
  PROVE  SafInv'
<1>1. UNCHANGED <<rows, links, call, calls, records>>
  BY DEF safetyVars
<1> USE <1>1 DEF rows, records
<1>2. SafTypes'
  BY DEF SafInv, SafTypes
<1>3. SafCalls'
  BY DEF SafInv, SafCalls, Knowing, Apart, Submits, Views, Updates, Commits, Copies
<1>4. Trailed'
  BY DEF SafInv, Trailed, Follows, Committed
<1>5. Room'
  BY DEF SafInv, Room, Submitting
<1>6. Seen'
  BY DEF SafInv, Seen, Seeing, HasSeen
<1>7. Changed'
  BY DEF SafInv, Changed, Committed, Recording, WillRecord
<1>8. Told'
  BY DEF SafInv, Told, Committed, Telling, WillTell
<1> QED  BY <1>2, <1>3, <1>4, <1>5, <1>6, <1>7, <1>8 DEF SafInv

LEMMA SafMeans == SafInv => SafetyTypeOK /\ StatusExplained /\ DisclosureAudited
<1> SUFFICES ASSUME SafInv PROVE SafetyTypeOK /\ StatusExplained /\ DisclosureAudited
  OBVIOUS
<1>1. /\ reports \in Seq(SafRow) /\ DOMAIN reports = 1..Len(reports) /\ Len(reports) \in Nat
      /\ trail \in Seq(SafUpdate) /\ \A k \in DOMAIN trail : trail[k] \in SafUpdate
      /\ \A i \in DOMAIN reports : reports[i] \in SafRow
  BY DEF SafInv, SafTypes
<1>2. Len(reports) <= MaxReports
  BY <1>1, FS_CardinalityType, SafetyBounds DEF SafInv, Room
<1>3. \A i \in DOMAIN reports : i \in Ids /\ i <= MaxReports
  BY <1>1, <1>2, SafetyBounds DEF Ids
<1>4. ASSUME NEW i \in DOMAIN reports
      PROVE  reports[i].copies \in 0..MaxReports /\ reports[i].earlier \in 0..MaxReports
  <2>1. /\ reports[i].earlier <= reports[i].copies
        /\ reports[i].copies <= Cardinality({j \in 1..(i - 1) : reports[j].text = reports[i].text})
    BY DEF SafInv, Trailed
  <2>2. i \in Nat /\ i <= MaxReports /\ i >= 1
    BY <1>1, <1>3
  <2>3. IsFiniteSet(1..(i - 1)) /\ Cardinality(1..(i - 1)) = i - 1
    <3>1. 1 \in Int /\ i - 1 \in Int
      BY <2>2
    <3>2. /\ IsFiniteSet(1..(i - 1))
          /\ Cardinality(1..(i - 1)) = IF 1 > i - 1 THEN 0 ELSE (i - 1) - 1 + 1
      BY <3>1, FS_Interval
    <3> QED  BY <2>2, <3>2
  <2>4. Cardinality({j \in 1..(i - 1) : reports[j].text = reports[i].text}) <= i - 1
        /\ Cardinality({j \in 1..(i - 1) : reports[j].text = reports[i].text}) \in Nat
    BY <2>3, FS_Subset, FS_CardinalityType
  <2>5. reports[i].copies \in Nat /\ reports[i].earlier \in Nat
    BY <1>1 DEF SafRow
  <2> QED  BY <2>1, <2>2, <2>4, <2>5, SafetyBounds
<1>5. SafetyTypeOK
  <2>1. \A i \in DOMAIN reports : reports[i] \in ReportRow
    BY <1>1, <1>4 DEF SafRow, ReportRow
  <2>2. reports \in Seq(ReportRow)
    <3>1. reports \in [1..Len(reports) -> ReportRow]
      BY <1>1, <2>1
    <3> QED  BY <1>1, <3>1, SeqDef
  <2>3. \A k \in DOMAIN trail : /\ trail[k].id \in DOMAIN reports
                                /\ trail[k].status \in ReportStatuses
                                /\ trail[k].in \in {"transaction", "committed", "undone"}
    BY <1>1 DEF SafInv, Trailed, SafUpdate
  <2>4. \A r \in Requests :
           call[r].at \in {"first", "commit", "audit", "publish"} => call[r].id \in DOMAIN reports
    BY DEF SafInv, SafCalls, Knowing, Updates
  <2> QED  BY <1>2, <2>2, <2>3, <2>4 DEF SafInv, SafTypes, SafetyTypeOK
<1>6. ASSUME AtRest, NEW i \in DOMAIN reports
      PROVE  i \in firstRow /\ Recording(i) = {} /\ Telling(i) = {} /\ faults = 0
  <2>1. faults = 0 /\ \A r \in Requests : call[r].at = "none"
    BY <1>6 DEF AtRest, Calling
  <2> QED  BY <2>1 DEF SafInv, Trailed, Recording, Telling, WillRecord, WillTell
<1>7. StatusExplained
  BY <1>6 DEF SafInv, Trailed, StatusExplained
<1>8. DisclosureAudited
  <2> SUFFICES ASSUME NEW i \in DOMAIN reports
               PROVE  LET changes == Cardinality(Committed(i)) IN
                      /\ shown[i] <= recorded[i].views
                      /\ recorded[i].changes <= changes + 1 /\ notified[i] <= changes
                      /\ AtRest => recorded[i].changes = changes + 1 /\ notified[i] = changes
    BY DEF DisclosureAudited
  <2>1. i \in Ids /\ One(i \in DOMAIN reports) = 1
    BY <1>3 DEF One
  <2>2. /\ shown[i] \in Nat /\ notified[i] \in Nat /\ recorded[i].views \in Nat /\ recorded[i].changes \in Nat
        /\ Cardinality(Committed(i)) \in Nat
    BY <1>1, <2>1, SafCommitted DEF SafInv, SafTypes
  <2>3. shown[i] <= recorded[i].views
    <3>1. Cardinality(Seeing(i)) \in Nat /\ shown[i] + Cardinality(Seeing(i)) <= recorded[i].views
      BY <2>1, FS_CardinalityType DEF SafInv, Seen
    <3> QED  BY <2>2, <3>1
  <2>4. LET made == Cardinality(Committed(i)) + 1 IN
        /\ Cardinality(Recording(i)) \in Nat
        /\ recorded[i].changes + Cardinality(Recording(i)) <= made
        /\ faults = 0 => recorded[i].changes + Cardinality(Recording(i)) = made
    BY <2>1, FS_CardinalityType DEF SafInv, Changed
  <2>5. /\ Cardinality(Telling(i)) \in Nat
        /\ notified[i] + Cardinality(Telling(i)) <= Cardinality(Committed(i))
        /\ faults = 0 => notified[i] + Cardinality(Telling(i)) = Cardinality(Committed(i))
    BY <2>1, FS_CardinalityType DEF SafInv, Told
  <2>6. AtRest => faults = 0 /\ Cardinality(Recording(i)) = 0 /\ Cardinality(Telling(i)) = 0
    BY <1>6, FS_EmptySet
  <2> QED  BY <2>2, <2>3, <2>4, <2>5, <2>6
<1> QED  BY <1>5, <1>7, <1>8

-----------------------------------------------------------------------------
(* Cases and reports side by side: each sees of the other only that calls  *)
(* fail and that access is withdrawn.                                      *)
SafeguardingInv == IInv /\ Existing /\ Counted /\ SafInv

(* What a step of either does to what they share.                          *)
Sharing ==
    /\ access' \subseteq access
    /\ \/ faults' = faults
       \/ faults < MaxFaults /\ faults' = faults + 1

LEMMA CasesShare == Next => Sharing
<1> SUFFICES ASSUME Next PROVE Sharing
  OBVIOUS
<1> USE DEF Sharing
<1>1. ASSUME NEW r \in Requests, NEW s \in Staff, NEW c \in Cases, NEW op \in Operations,
             NEW input \in Inputs(op), Begin(r, s, c, op, input)
      PROVE  Sharing
  BY <1>1 DEF Begin
<1>2. ASSUME NEW r \in Requests, Auth(r) \/ Assigned(r) \/ Elevated(r) \/ Member(r) PROVE Sharing
  BY <1>2 DEF Auth, Assigned, Elevated, Member, Check
<1>3. ASSUME NEW r \in Requests, Create(r) \/ Update(r) \/ Note(r) \/ Assign(r) PROVE Sharing
  BY <1>3 DEF Create, Update, Note, Assign, Wrote
<1>4. ASSUME NEW r \in Requests, Audit(r) \/ Return(r) \/ Die(r) PROVE Sharing
  BY <1>4 DEF Audit, Return, Die, Fault
<1>5. ASSUME NEW s \in Staff, EndAccess(s) PROVE Sharing
  BY <1>5 DEF EndAccess, Withdraw
<1> QED  BY <1>1, <1>2, <1>3, <1>4, <1>5 DEF Next, Step

LEMMA ReportsShare == SafetyNext => Sharing
<1> SUFFICES ASSUME SafetyNext PROVE Sharing
  OBVIOUS
<1> USE DEF Sharing
<1>1. ASSUME NEW r \in Requests,
             \/ \E text \in Texts : BeginSubmit(r, text)
             \/ \E s \in Staff, i \in DOMAIN reports \cup {0} : BeginView(r, s, "intake", i)
             \/ \E s \in Staff, i \in DOMAIN reports, op \in {"sign", "evidence"} : BeginView(r, s, op, i)
             \/ \E s \in Staff, i \in DOMAIN reports, new \in ReportStatuses : BeginUpdate(r, s, i, new)
      PROVE  Sharing
  BY <1>1 DEF BeginSubmit, BeginView, BeginUpdate, BeginCall, accessVars
<1>2. ASSUME NEW r \in Requests,
             \/ \E evidence \in BOOLEAN : CreateReport(r, evidence)
             \/ FindReporter(r) \/ CountCopies(r) \/ InsertFirstRow(r)
      PROVE  Sharing
  BY <1>2 DEF CreateReport, FindReporter, CountCopies, InsertFirstRow, accessVars
<1>3. ASSUME NEW r \in Requests, SafeguardingCheck(r) \/ Read(r) \/ RecordView(r) \/ Answer(r)
      PROVE  Sharing
  BY <1>3 DEF SafeguardingCheck, Read, RecordView, Answer, accessVars
<1>4. ASSUME NEW r \in Requests, InsertRow(r) \/ CommitUpdate(r) \/ RecordChange(r) \/ PublishStatus(r)
      PROVE  Sharing
  BY <1>4 DEF InsertRow, CommitUpdate, RecordChange, PublishStatus, accessVars
<1>5. ASSUME NEW r \in Requests, Break(r) PROVE Sharing
  BY <1>5 DEF Break, Fault
<1>6. ASSUME \/ \E i \in links : LinkExpires(i)
             \/ \E s \in Staff : LoseAccess(s)
      PROVE  Sharing
  BY <1>6 DEF LinkExpires, LoseAccess, Withdraw, accessVars
<1> QED  BY <1>1, <1>2, <1>3, <1>4, <1>5, <1>6 DEF SafetyNext

LEMMA CasesBeside ==
  IInv /\ Existing /\ Counted /\ Sharing /\ UNCHANGED caseVars => IInv' /\ Existing' /\ Counted'
<1> SUFFICES ASSUME IInv, Existing, Counted, Sharing, UNCHANGED caseVars
             PROVE  IInv' /\ Existing' /\ Counted'
  OBVIOUS
<1>1. UNCHANGED <<status, closedAt, role, notes, everElevated, shut, request, begun, silent>>
  BY DEF caseVars, case
<1>2. faults \in Nat /\ faults' \in Nat /\ faults' <= MaxFaults /\ (faults' = 0 => faults = 0)
  BY FaultBound DEF IInv, Form, Existing, Sharing
<1>3. access' \subseteq Staff
  BY DEF Existing, Sharing
<1> USE <1>1, <1>2, <1>3
<1>4. Form'
  BY DEF IInv, Form, Asks, Busy
<1>5. Elevation' /\ Closing'
  BY DEF IInv, Elevation, Closing, Busy
<1>6. CaseIsAudited'
  BY DEF IInv, CaseIsAudited
<1>7. Existing'
  BY DEF Existing, Busy
<1>8. Counted'
  BY DEF Counted
<1> QED  BY <1>4, <1>5, <1>6, <1>7, <1>8 DEF IInv

LEMMA SafeguardingStarts == SafeguardingInit => SafeguardingInv
  BY Starts, ExistingStarts, BegunCounted, SafStarts DEF SafeguardingInit, SafeguardingInv

LEMMA SafeguardingInductive == SafeguardingInv /\ [SafeguardingNext]_safeguardingVars => SafeguardingInv'
<1> SUFFICES ASSUME SafeguardingInv, [SafeguardingNext]_safeguardingVars PROVE SafeguardingInv'
  OBVIOUS
<1>1. IInv /\ Existing /\ Counted /\ SafInv /\ faults \in Nat
  BY DEF SafeguardingInv, IInv, Form
<1>2. CASE Next /\ UNCHANGED safetyVars
  <2>1. IInv' /\ Existing' /\ Counted'
    BY <1>1, <1>2, Inductive, ExistingInductive, BegunCounted
  <2>2. faults' \in Nat /\ (faults' = 0 => faults = 0)
    BY <1>1, <1>2, CasesShare DEF Sharing
  <2> QED  BY <1>1, <1>2, <2>1, <2>2, SafBeside DEF SafeguardingInv
<1>3. CASE SafetyNext /\ UNCHANGED caseVars
  BY <1>1, <1>3, ReportsShare, CasesBeside, SafInductive DEF SafeguardingInv
<1>4. CASE UNCHANGED safeguardingVars
  <2>1. UNCHANGED caseVars /\ UNCHANGED safetyVars /\ UNCHANGED accessVars
    BY <1>4 DEF safeguardingVars
  <2>2. Sharing /\ faults' = faults
    BY <2>1 DEF accessVars, Sharing
  <2> QED  BY <1>1, <2>1, <2>2, CasesBeside, SafBeside DEF SafeguardingInv
<1> QED  BY <1>2, <1>3, <1>4 DEF SafeguardingNext

-----------------------------------------------------------------------------
(* Guidance cases and safety reports keep their types: statuses, dates,    *)
(* assignments and bounds, a request has the end of its handler's calls    *)
(* left, a case exists exactly if somebody has been elevated on it, and    *)
(* every report, update and link is of a report that exists (guidance and  *)
(* safety services).                                                       *)
THEOREM SafeguardingTypesHold == SafeguardingSpec => []SafeguardingTypeOK
<1>1. SafeguardingInv => SafeguardingTypeOK
  BY TypesMean, SafMeans DEF SafeguardingInv, SafeguardingTypeOK
<1> QED  BY SafeguardingStarts, SafeguardingInductive, <1>1, PTL DEF SafeguardingSpec

(* Who does elevated work has been elevated, what leaves or changes a case *)
(* is audited and what is closed stays closed, also while safety reports   *)
(* share the staff and the failures (guidance service).                    *)
THEOREM CasesHold == SafeguardingSpec => [](ElevatedWork /\ CaseIsAudited /\ ClosedIsKept)
<1>1. SafeguardingInv => ElevatedWork /\ CaseIsAudited /\ ClosedIsKept
  BY CasesMean DEF SafeguardingInv
<1> QED  BY SafeguardingStarts, SafeguardingInductive, <1>1, PTL DEF SafeguardingSpec

(* A case leaves CLOSED only by an update that began before it was closed  *)
(* or by a reopening of somebody who has been elevated on it, and gets a   *)
(* note only from a request that began before, also while safety reports   *)
(* share the staff and the failures (guidance service).                    *)
THEOREM ClosedCasesRestHolds == SafeguardingSpec => ClosedCasesRest
<1>1. SafeguardingInv /\ [SafeguardingNext]_safeguardingVars => [ClosedRests]_vars
  <2> SUFFICES ASSUME SafeguardingInv, [SafeguardingNext]_safeguardingVars PROVE ClosedRests
    OBVIOUS
  <2>1. CASE Next
    BY <2>1, ClosedStep DEF SafeguardingInv
  <2>2. CASE UNCHANGED caseVars
    BY <2>2 DEF caseVars, case, ClosedRests
  <2> QED  BY <2>1, <2>2 DEF SafeguardingNext, safeguardingVars
<1> QED  BY SafeguardingStarts, SafeguardingInductive, <1>1, PTL DEF SafeguardingSpec, ClosedCasesRest

(* A report's status is that of a committed update which no later one      *)
(* follows, its first row is missing only if a call failed, and it counts  *)
(* the copies before it, none of those missing that existed when its       *)
(* submission began (submit, update).                                      *)
THEOREM StatusExplainedHolds == SafeguardingSpec => []StatusExplained
<1>1. SafeguardingInv => StatusExplained
  BY SafMeans DEF SafeguardingInv
<1> QED  BY SafeguardingStarts, SafeguardingInductive, <1>1, PTL DEF SafeguardingSpec

(* Confidential content is shown at most as often as it is recorded, no    *)
(* change is recorded or announced that was not committed, and unless a    *)
(* call failed every change is both (intake, evidence, submit, update).    *)
THEOREM DisclosureAuditedHolds == SafeguardingSpec => []DisclosureAudited
<1>1. SafeguardingInv => DisclosureAudited
  BY SafMeans DEF SafeguardingInv
<1> QED  BY SafeguardingStarts, SafeguardingInductive, <1>1, PTL DEF SafeguardingSpec
=============================================================================
