---------------------------- MODULE OutboxProofs ----------------------------
(***************************************************************************)
(* What holds of the write queue for every set of writes and goroutines,   *)
(* every lease, budget and queue length.                                   *)
(***************************************************************************)
EXTENDS Outbox, SequenceTheorems, TLAPS

USE DEF Ids

\* A row stays a row under every statement of state.go.
LEMMA StatementsKeepRows ==
    ASSUME NEW r \in Row
    PROVE  /\ LeaseOutbox(r) \in Row
           /\ ReleaseOutbox(r) \in Row
           /\ MarkOutboxDone(r) \in Row
           /\ MarkOutboxFailed(r) \in Row
           /\ MarkOutboxPermanentlyFailed(r) \in Row
           /\ r.attempts \in Nat
  <1> USE TimesAssumption DEF Row
  <1>2. \A q \in Row : LeaseOutbox(q) \in Row
    BY DEF LeaseOutbox
  <1>3. ReleaseOutbox(r) \in Row
    BY DEF Present, ReleaseOutbox
  <1>4. MarkOutboxDone(r) \in Row
    BY DEF Present, MarkOutboxDone
  <1>5. r.attempts \in Nat
    OBVIOUS
  <1> DEFINE n == r.attempts + 1
  <1>6. n \in Nat
    BY <1>5
  <1> HIDE DEF n
  <1>7. \A q \in Row : [q EXCEPT !.attempts = n, !.lease = 0] \in Row
    <2>1. \A q \in Row : [q EXCEPT !.attempts = n] \in Row
      BY <1>6
    <2>2. \A q \in Row : [q EXCEPT !.lease = 0] \in Row
      OBVIOUS
    <2>3. QED
      BY <2>1, <2>2
  <1>8. \A q \in Row : [q EXCEPT !.attempts = n, !.status = "failed"] \in Row
    <2>1. \A q \in Row : [q EXCEPT !.attempts = n] \in Row
      BY <1>6
    <2>2. \A q \in Row : [q EXCEPT !.status = "failed"] \in Row
      OBVIOUS
    <2>3. QED
      BY <2>1, <2>2
  <1>9. MarkOutboxFailed(r) \in Row
    <2>1. MarkOutboxFailed(r) = IF Present(r) THEN [r EXCEPT !.attempts = n, !.lease = 0] ELSE r
      BY Zenon DEF MarkOutboxFailed, n
    <2>2. QED
      BY <1>7, <2>1
  <1>10. MarkOutboxPermanentlyFailed(r) \in Row
    <2>1. \/ MarkOutboxPermanentlyFailed(r) = [r EXCEPT !.attempts = n, !.status = "failed"]
          \/ MarkOutboxPermanentlyFailed(r) = r
      BY Zenon DEF MarkOutboxPermanentlyFailed, n
    <2>2. QED
      BY <1>8, <2>1
  <1> QED
    BY <1>2, <1>3, <1>4, <1>5, <1>9, <1>10

\* Every row a write starts with is a row.
LEMMA NewRowsAreRows ==
    /\ NoRow \in Row
    /\ \A w \in Writes : EnqueueOutbox(w) \in Row /\ LeaseOutbox(EnqueueOutbox(w)) \in Row
  <1>1. NoRow \in Row /\ \A w \in Writes : EnqueueOutbox(w) \in Row
    BY TimesAssumption DEF Row, NoRow, EnqueueOutbox
  <1> QED
    BY <1>1, StatementsKeepRows

\* The absent item is an item.
LEMMA NoItemIsItem == NoItem \in Item
  BY TimesAssumption DEF NoItem, Item

\* A backoff is a time the timers can hold.
LEMMA BackoffBounded == \A n : Backoff(n) \in 0..BackoffCap
  BY TimesAssumption DEF Backoff

\* Counting a minute down stays between nothing and the bound.
LEMMA LessBounded ==
    ASSUME NEW m \in Nat, NEW n \in 0..m
    PROVE  Less(n) \in 0..m
  BY DEF Less

\* The initial states are typed.
LEMMA TypeInit == Init => TypeOK
  <1> SUFFICES ASSUME Init PROVE TypeOK
    OBVIOUS
  <1>1. rows \in [Ids -> Row]
    BY NewRowsAreRows DEF Init
  <1>2. item \in [Workers -> Item]
    BY NoItemIsItem DEF Init
  <1>3. deferQ \in [Procs -> Seq(Item)]
    <2>1. << >> \in Seq(Item)
      OBVIOUS
    <2>. QED BY <2>1 DEF Init
  <1>4. /\ left \in [Workers -> 0..PushMax]
        /\ retryAt \in [Procs -> [Ids -> 0..BackoffCap]]
        /\ crashes \in 0..MaxCrashes /\ suspends \in 0..MaxSuspends /\ drops \in 0..MaxDrops
    BY TimesAssumption, BoundsAssumption DEF Init
  <1>5. QED
    BY <1>1, <1>2, <1>3, <1>4 DEF Init, TypeOK, Outcomes

\* Starting a call and resting keep a goroutine's own variables typed.
LEMMA StartCallTyped ==
    ASSUME TypeOK, NEW g \in Workers, NEW it \in Item, NEW d \in 0..PushMax,
           StartCall(g, it, d)
    PROVE  /\ pc' \in [Workers -> {"idle", "handoff", "calling", "answered", "passing"}]
           /\ item' \in [Workers -> Item]
           /\ left' \in [Workers -> 0..PushMax]
  BY DEF TypeOK, StartCall

\* A worker that comes to rest keeps the types.
LEMMA RestTyped ==
    ASSUME TypeOK, NEW g \in Workers, NEW where \in {"idle", "passing"}, Rest(g, where)
    PROVE  /\ pc' \in [Workers -> {"idle", "handoff", "calling", "answered", "passing"}]
           /\ item' \in [Workers -> Item]
           /\ left' \in [Workers -> 0..PushMax]
           /\ outcome' \in [Workers -> Outcomes]
  BY NoItemIsItem, TimesAssumption DEF TypeOK, Rest, Outcomes

\* A table in which one row is replaced by a row is a table.
LEMMA RowsTyped ==
    ASSUME TypeOK, NEW i \in Ids, NEW r \in Row, rows' = [rows EXCEPT ![i] = r]
    PROVE  rows' \in [Ids -> Row]
  BY DEF TypeOK

Tellings == {"unasked", "asked", "done", "queued", "failed"}

\* Every step of the queue keeps every variable in its type.
LEMMA TypeStep == TypeOK /\ [Next]_vars => TypeOK'
  <1> SUFFICES ASSUME TypeOK, [Next]_vars PROVE TypeOK'
    OBVIOUS
  <1> USE TimesAssumption, BoundsAssumption, WorkersAssumption, WritesAssumption
  <1>r. ASSUME NEW i \in Ids PROVE rows[i] \in Row
    BY DEF TypeOK
  <1>i. ASSUME NEW g \in Workers PROVE item[g] \in Item /\ item[g].id \in Ids
    BY DEF TypeOK, Item
  <1>w. /\ Callers \subseteq Workers /\ Deferrers \subseteq Workers /\ Passers \subseteq Workers
        /\ \A g \in Workers : ProcOf[g] \in Procs
    BY DEF Workers
  <1>1. ASSUME NEW c \in Callers, NEW w \in Writes, NEW id \in Ids, Apply(c, w, id)
        PROVE TypeOK'
    <2>1. rows' \in [Ids -> Row] /\ told' \in [Writes -> Tellings]
      BY <1>1, NewRowsAreRows DEF Apply, Enqueue, TypeOK, Tellings
    <2>2. [id |-> id, write |-> w, attempts |-> 0] \in Item
      BY DEF Item
    <2>3. /\ pc' \in [Workers -> {"idle", "handoff", "calling", "answered", "passing"}]
          /\ item' \in [Workers -> Item]
          /\ left' \in [Workers -> 0..PushMax]
      BY <1>1, <1>w, <2>2, StartCallTyped DEF Apply
    <2>4. QED
      BY <1>1, <2>1, <2>3 DEF Apply, TypeOK, passVars, bounds, Tellings
  <1>2. ASSUME NEW c \in Callers, NEW w \in Writes, NEW id \in Ids, ApplyLater(c, w, id)
        PROVE TypeOK'
    <2>1. rows' \in [Ids -> Row] /\ told' \in [Writes -> Tellings]
      BY <1>2, NewRowsAreRows DEF ApplyLater, Enqueue, TypeOK, Tellings
    <2>2. [id |-> id, write |-> w, attempts |-> 0] \in Item
      BY DEF Item
    <2>3. QED
      BY <1>2, <2>1, <2>2, <1>w DEF ApplyLater, TypeOK, passVars, bounds, Tellings
  <1>3. ASSUME NEW c \in Callers, HandOff(c) PROVE TypeOK'
    <2>1. deferQ' \in [Procs -> Seq(Item)]
      <3>1. Append(deferQ[ProcOf[c]], item[c]) \in Seq(Item)
        BY <1>w, <1>i DEF TypeOK
      <3>2. QED
        BY <1>3, <1>w, <3>1 DEF HandOff, TypeOK
    <2>2. rows' \in [Ids -> Row] /\ told' \in [Writes -> Tellings]
      <3>1. ReleaseOutbox(rows[item[c].id]) \in Row
        BY <1>w, <1>i, <1>r, StatementsKeepRows
      <3>2. CASE UNCHANGED <<rows, told>>
        BY <3>2 DEF TypeOK, Tellings
      <3>3. CASE /\ rows' = [rows EXCEPT ![item[c].id] = ReleaseOutbox(@)]
                 /\ told' = [told EXCEPT ![item[c].write] = "queued"]
        BY <3>3, <3>1, <1>w, <1>i DEF TypeOK, Tellings
      <3>4. QED
        BY <1>3, <3>2, <3>3 DEF HandOff
    <2>3. QED
      BY <1>3, <1>w, <2>1, <2>2, RestTyped DEF HandOff, TypeOK, passVars, bounds, Tellings
  <1>4. ASSUME NEW d \in Deferrers, Dequeue(d) PROVE TypeOK'
    <2>1. /\ Head(deferQ[ProcOf[d]]) \in Item
          /\ Tail(deferQ[ProcOf[d]]) \in Seq(Item)
      BY <1>4, <1>w DEF Dequeue, TypeOK
    <2>2. /\ pc' \in [Workers -> {"idle", "handoff", "calling", "answered", "passing"}]
          /\ item' \in [Workers -> Item]
          /\ left' \in [Workers -> 0..PushMax]
      BY <1>4, <1>w, <2>1, StartCallTyped DEF Dequeue
    <2>3. QED
      BY <1>4, <1>w, <2>1, <2>2 DEF Dequeue, TypeOK, passVars, bounds, history
  <1>5. ASSUME NEW g \in Workers, NEW o \in Outcomes, Answer(g, o) PROVE TypeOK'
    <2>1. applied' \in [Writes -> Nat]
      <3>1. PICK n \in {0, 1} : applied' = [applied EXCEPT ![item[g].write] = @ + n]
        BY <1>5 DEF Answer
      <3>2. \A w \in Writes : applied[w] + n \in Nat
        BY DEF TypeOK
      <3>3. QED
        BY <3>1, <3>2 DEF TypeOK
    <2>2. QED
      BY <1>5, <2>1 DEF Answer, TypeOK, passVars, bounds
  <1>s. ASSUME NEW g \in Workers
        PROVE  /\ MarkOutboxDone(rows[item[g].id]) \in Row
               /\ MarkOutboxFailed(rows[item[g].id]) \in Row
               /\ MarkOutboxPermanentlyFailed(rows[item[g].id]) \in Row
    BY <1>i, <1>r, StatementsKeepRows
  <1>6. ASSUME NEW g \in Workers, Settle(g) PROVE TypeOK'
    <2> DEFINE i == item[g].id
    <2>1. PICK r \in Row, t \in Tellings :
             /\ rows' = [rows EXCEPT ![i] = r]
             /\ told' = [told EXCEPT ![item[g].write] = t]
      <3>1. CASE outcome[g] = "ok"
        BY <1>6, <1>s, <3>1 DEF Settle, Retryable, Tellings
      <3>2. CASE outcome[g] # "ok" /\ Retryable(item[g].write, outcome[g])
        BY <1>6, <1>s, <3>2 DEF Settle, Tellings
      <3>3. CASE outcome[g] # "ok" /\ ~Retryable(item[g].write, outcome[g])
        BY <1>6, <1>s, <3>3 DEF Settle, Tellings
      <3>4. QED
        BY <3>1, <3>2, <3>3
    <2>2. rows' \in [Ids -> Row] /\ told' \in [Writes -> Tellings]
      BY <2>1, <1>i DEF TypeOK, Tellings
    <2>3. QED
      BY <1>6, <2>2, RestTyped DEF Settle, TypeOK, passVars, bounds, Tellings
  <1>7. ASSUME NEW g \in Workers, SettleUnderDeadContext(g) PROVE TypeOK'
    <2>1. lost' \in [Writes -> Nat] /\ told' \in [Writes -> Tellings]
      <3>1. \A w \in Writes : lost[w] + 1 \in Nat
        BY DEF TypeOK
      <3>2. QED
        BY <1>7, <3>1 DEF SettleUnderDeadContext, TypeOK, Tellings
    <2>2. QED
      BY <1>7, <2>1, RestTyped DEF SettleUnderDeadContext, TypeOK, passVars, bounds, Tellings
  <1>8. ASSUME NEW g \in Passers, StartPass(g) PROVE TypeOK'
    <2>1. \A j \in Ids : [id |-> j, write |-> rows[j].write, attempts |-> rows[j].attempts] \in Item
      BY <1>r DEF Item, Row
    <2>2. todo' \in [Passers -> SUBSET Item]
      BY <1>8, <2>1 DEF StartPass, TypeOK
    <2>3. listed' \in [Passers -> SUBSET Ids]
      BY <1>8 DEF StartPass, TypeOK
    <2>4. QED
      BY <1>8, <1>w, <2>2, <2>3 DEF StartPass, TypeOK, bounds, history
  <1>t. ASSUME NEW p \in Procs, NEW j \in Ids, NEW n \in 0..BackoffCap, SetTimer(p, j, n)
        PROVE  retryAt' \in [Procs -> [Ids -> 0..BackoffCap]]
    BY <1>t DEF SetTimer, TypeOK
  <1>n. ASSUME NEW g \in Passers, NEW it \in todo[g], Look(g, it)
        PROVE  it \in Item /\ it.id \in Ids /\ todo' \in [Passers -> SUBSET Item]
    BY <1>n DEF Look, TypeOK, Item
  <1>9. ASSUME NEW g \in Passers, NEW it \in todo[g], GiveUp(g, it) PROVE TypeOK'
    <2>1. it.id \in Ids /\ todo' \in [Passers -> SUBSET Item]
      BY <1>9, <1>n DEF GiveUp
    <2>2. rows' \in [Ids -> Row]
      BY <1>9, <2>1, <1>r, StatementsKeepRows, RowsTyped DEF GiveUp
    <2>3. retryAt' \in [Procs -> [Ids -> 0..BackoffCap]]
      BY <1>9, <2>1, <1>t, <1>w DEF GiveUp
    <2>4. QED
      BY <1>9, <2>1, <2>2, <2>3 DEF GiveUp, TypeOK, pushVars, bounds, history
  <1>10. ASSUME NEW g \in Passers, NEW it \in todo[g], Skip(g, it) PROVE TypeOK'
    BY <1>10, <1>n DEF Skip, TypeOK, pushVars, bounds, history
  <1>11. ASSUME NEW g \in Passers, NEW it \in todo[g], Claim(g, it) PROVE TypeOK'
    <2>1. it \in Item /\ it.id \in Ids /\ todo' \in [Passers -> SUBSET Item]
      BY <1>11, <1>n DEF Claim
    <2>2. rows' \in [Ids -> Row]
      BY <1>11, <2>1, <1>r, StatementsKeepRows, RowsTyped DEF Claim
    <2>3. /\ pc' \in [Workers -> {"idle", "handoff", "calling", "answered", "passing"}]
          /\ item' \in [Workers -> Item]
          /\ left' \in [Workers -> 0..PushMax]
      BY <1>11, <1>w, <2>1, StartCallTyped DEF Claim
    <2>4. QED
      BY <1>11, <2>1, <2>2, <2>3 DEF Claim, TypeOK, bounds, history
  <1>12. ASSUME NEW g \in Passers, SettlePass(g) PROVE TypeOK'
    <2> DEFINE i == item[g].id
               p == ProcOf[g]
    <2>1. PICK r \in Row, n \in 0..BackoffCap :
             /\ rows' = [rows EXCEPT ![i] = r]
             /\ SetTimer(p, i, n)
      BY <1>12, <1>s, <1>w, BackoffBounded DEF SettlePass
    <2>2. rows' \in [Ids -> Row] /\ retryAt' \in [Procs -> [Ids -> 0..BackoffCap]]
      BY <2>1, <1>i, <1>t, <1>w, RowsTyped
    <2>3. todo' \in [Passers -> SUBSET Item]
      BY <1>12 DEF SettlePass, TypeOK
    <2>4. QED
      BY <1>12, <1>w, <2>2, <2>3, RestTyped DEF SettlePass, TypeOK, bounds, history
  <1>13. ASSUME NEW g \in Passers, EndPass(g) PROVE TypeOK'
    <2>1. retryAt' \in [Procs -> [Ids -> 0..BackoffCap]]
      BY <1>13, <1>w DEF EndPass, TypeOK
    <2>2. listed' \in [Passers -> SUBSET Ids]
      BY <1>13 DEF EndPass, TypeOK
    <2>3. QED
      BY <1>13, <1>w, <2>1, <2>2, RestTyped DEF EndPass, TypeOK, bounds, history
  <1>14. ASSUME Tick PROVE TypeOK'
    <2>1. rows' \in [Ids -> Row]
      <3>1. ASSUME NEW j \in Ids PROVE [rows[j] EXCEPT !.lease = Less(rows[j].lease)] \in Row
        <4>1. rows[j].lease \in 0..Lease
          BY <1>r DEF Row
        <4>2. Less(rows[j].lease) \in 0..Lease
          BY <4>1, LessBounded
        <4>3. QED
          BY <1>r, <4>2 DEF Row
      <3>2. QED
        BY <1>14, <3>1 DEF Tick
    <2>2. left' \in [Workers -> 0..PushMax]
      BY <1>14, LessBounded DEF Tick, TypeOK
    <2>3. retryAt' \in [Procs -> [Ids -> 0..BackoffCap]]
      BY <1>14, LessBounded DEF Tick, TypeOK
    <2>4. QED
      BY <1>14, <2>1, <2>2, <2>3 DEF Tick, TypeOK, passVars, bounds, history
  <1>15. ASSUME NEW p \in Procs, Crash(p) PROVE TypeOK'
    <2>1. /\ pc' \in [Workers -> {"idle", "handoff", "calling", "answered", "passing"}]
          /\ item' \in [Workers -> Item]
          /\ left' \in [Workers -> 0..PushMax]
          /\ outcome' \in [Workers -> Outcomes]
      BY <1>15, NoItemIsItem DEF Crash, TypeOK, Outcomes
    <2>2. /\ todo' \in [Passers -> SUBSET Item]
          /\ listed' \in [Passers -> SUBSET Ids]
      BY <1>15 DEF Crash, TypeOK
    <2>3. deferQ' \in [Procs -> Seq(Item)]
      <3>1. << >> \in Seq(Item)
        OBVIOUS
      <3>2. QED
        BY <1>15, <3>1 DEF Crash, TypeOK
    <2>4. retryAt' \in [Procs -> [Ids -> 0..BackoffCap]]
      BY <1>15 DEF Crash, TypeOK
    <2>5. lost' \in [Writes -> Nat] /\ crashes' \in 0..MaxCrashes
      BY <1>15 DEF Crash, TypeOK
    <2>6. QED
      BY <1>15, <2>1, <2>2, <2>3, <2>4, <2>5 DEF Crash, TypeOK
  <1>16. ASSUME Suspend PROVE TypeOK'
    <2>1. rows' \in [Ids -> Row]
      <3>1. \A j \in Ids : [rows[j] EXCEPT !.lease = 0] \in Row
        BY <1>r DEF Row
      <3>2. QED
        BY <1>16, <3>1 DEF Suspend
    <2>2. suspends' \in 0..MaxSuspends
      BY <1>16 DEF Suspend, TypeOK
    <2>3. QED
      BY <1>16, <2>1, <2>2 DEF Suspend, TypeOK, pushVars, passVars, history
  <1>17. ASSUME NEW id \in Ids, DropOutbox(id) PROVE TypeOK'
    <2>1. rows' \in [Ids -> Row]
      BY <1>17, NewRowsAreRows, RowsTyped DEF DropOutbox
    <2>2. QED
      BY <1>17, <2>1 DEF DropOutbox, TypeOK, pushVars, passVars, history
  <1>18. CASE UNCHANGED vars
    BY <1>18 DEF vars, TypeOK
  <1>19. QED
    BY <1>1, <1>2, <1>3, <1>4, <1>5, <1>6, <1>7, <1>8, <1>9, <1>10, <1>11, <1>12,
       <1>13, <1>14, <1>15, <1>16, <1>17, <1>18
    DEF Next, Ask, System, Push, Pass, Faults

\* Every variable keeps its type for any number of writes, goroutines and
\* rows and any choice of times.
THEOREM TypeCorrect == Spec => []TypeOK
  BY TypeInit, TypeStep, PTL DEF Spec

-----------------------------------------------------------------------------
(***************************************************************************)
(* Everything in memory that names a row, a listing or a queue of another  *)
(* process included, names the one row its write was recorded in: a write  *)
(* has a home.  That holds whatever is dropped and whoever sleeps, also    *)
(* when a dropped row's id is given to the next write: what a step of the  *)
(* old write then meets is told apart by it.                               *)
(***************************************************************************)

Busy == {"handoff", "calling", "answered"}

\* The item belongs to a write that was asked for, and names its home.
Knows(home, it) ==
    it.write \in Writes /\ told[it.write] # "unasked" /\ home[it.write] = it.id

\* A row that is there carries a write, and stands where that write is at home.
RowsAtHome(home) == \A i \in Ids :
    /\ rows[i].status = "absent" <=> rows[i].write \notin Writes
    /\ rows[i].write \in Writes => told[rows[i].write] # "unasked" /\ home[rows[i].write] = i

\* Whatever is held in memory names the home of its write.
ItemsAtHome(home) ==
    /\ \A g \in Workers : pc[g] \in Busy => Knows(home, item[g])
    /\ \A g \in Workers : pc[g] = "handoff" => item[g].write \in Deferrable
    /\ \A g \in Passers : \A it \in todo[g] : Knows(home, it)
    /\ \A p \in Procs : \A k \in 1..Len(deferQ[p]) :
           Knows(home, deferQ[p][k]) /\ deferQ[p][k].write \in Deferrable

\* Only a drop takes a write's row away.
NobodyMovedOut(home) ==
    drops = 0 => \A w \in Writes : told[w] # "unasked" => rows[home[w]].write = w

Homed == \E home \in [Writes -> Ids] :
             RowsAtHome(home) /\ ItemsAtHome(home) /\ NobodyMovedOut(home)

Names(it) == it.write \in Writes /\ rows[it.id].write = it.write

\* No write has two rows.
RowsNamed ==
    /\ \A i \in Ids : rows[i].status = "absent" <=> rows[i].write \notin Writes
    /\ \A i, j \in Ids : rows[i].write \in Writes /\ rows[i].write = rows[j].write => i = j

\* Whatever is held in memory names its row: as long as no row is dropped.
ItemsNamed ==
    /\ \A g \in Workers : pc[g] \in Busy => Names(item[g])
    /\ \A g \in Workers : pc[g] = "handoff" => item[g].write \in Deferrable
    /\ \A g \in Passers : \A it \in todo[g] : Names(it)
    /\ \A p \in Procs : \A k \in 1..Len(deferQ[p]) :
           Names(deferQ[p][k]) /\ deferQ[p][k].write \in Deferrable

\* Every write with a row of its own: what Homed says of the rows and of the items in hand.
LEMMA HomesAreNames ==
    ASSUME TypeOK, Homed
    PROVE  /\ RowsNamed /\ (drops = 0 => ItemsNamed)
           /\ \A i \in Ids : rows[i].write \in Writes => told[rows[i].write] # "unasked"
  <1>1. PICK home \in [Writes -> Ids] :
           RowsAtHome(home) /\ ItemsAtHome(home) /\ NobodyMovedOut(home)
    BY DEF Homed
  <1>2. RowsNamed /\ \A i \in Ids : rows[i].write \in Writes => told[rows[i].write] # "unasked"
    BY <1>1 DEF RowsAtHome, RowsNamed
  <1>3. ASSUME drops = 0, NEW it, Knows(home, it) PROVE Names(it)
    BY <1>1, <1>3 DEF NobodyMovedOut, Knows, Names
  <1>4. drops = 0 => ItemsNamed
    BY <1>1, <1>3 DEF ItemsAtHome, ItemsNamed
  <1>5. QED
    BY <1>2, <1>4

\* No statement of state.go renames a row, inserts one or deletes one.
LEMMA StatementsKeepNames ==
    ASSUME NEW r \in Row
    PROVE  /\ LeaseOutbox(r).write = r.write /\ LeaseOutbox(r).status = r.status
           /\ ReleaseOutbox(r).write = r.write /\ ReleaseOutbox(r).status = r.status
           /\ MarkOutboxDone(r).write = r.write
           /\ MarkOutboxDone(r).status = "absent" <=> r.status = "absent"
           /\ MarkOutboxFailed(r).write = r.write /\ MarkOutboxFailed(r).status = r.status
           /\ MarkOutboxPermanentlyFailed(r).write = r.write
           /\ MarkOutboxPermanentlyFailed(r).status = "absent" <=> r.status = "absent"
           /\ MarkOutboxPermanentlyFailed(r).lease = r.lease
  BY DEF Row, LeaseOutbox, ReleaseOutbox, MarkOutboxDone, MarkOutboxFailed,
     MarkOutboxPermanentlyFailed, Present

SameNames ==
    \A i \in Ids : /\ rows'[i].write = rows[i].write
                   /\ rows'[i].status = "absent" <=> rows[i].status = "absent"

\* Replacing one row by the result of a statement on it keeps every name.
LEMMA OneRowKeepsNames ==
    ASSUME TypeOK, NEW i \in Ids, NEW r, rows' = [rows EXCEPT ![i] = r],
           r.write = rows[i].write, r.status = "absent" <=> rows[i].status = "absent"
    PROVE  SameNames
  BY DEF TypeOK, SameNames

\* A time that changes renames nothing.
LEMMA LeaseKeepsNames ==
    ASSUME TypeOK, NEW l, \A i \in Ids : rows'[i] = [rows[i] EXCEPT !.lease = l[i]]
    PROVE  SameNames /\ \A i \in Ids : rows'[i].lease = l[i] /\ rows'[i].status = rows[i].status
  <1>1. ASSUME NEW q \in Row, NEW n
        PROVE  /\ [q EXCEPT !.lease = n].write = q.write
               /\ [q EXCEPT !.lease = n].status = q.status
               /\ [q EXCEPT !.lease = n].lease = n
    BY DEF Row
  <1>2. ASSUME NEW i \in Ids
        PROVE  /\ rows'[i].write = rows[i].write /\ rows'[i].status = rows[i].status
               /\ rows'[i].lease = l[i]
    <2> DEFINE q == rows[i]
               n == l[i]
    <2>1. q \in Row /\ rows'[i] = [q EXCEPT !.lease = n]
      BY DEF TypeOK
    <2> HIDE DEF q, n
    <2>2. rows'[i].write = q.write /\ rows'[i].status = q.status /\ rows'[i].lease = n
      BY <1>1, <2>1
    <2>3. QED
      BY <2>2 DEF q, n
  <1>3. QED
    BY <1>2 DEF SameNames

\* A row recorded for a new write, in the first free place.
LEMMA EnqueueNames ==
    ASSUME TypeOK, NEW c \in Callers, NEW w \in Writes, NEW id \in Ids, Enqueue(c, w, id)
    PROVE  /\ rows[id].status = "absent" /\ told[w] = "unasked" /\ pc[c] = "idle"
           /\ rows'[id] = [status |-> "pending", write |-> w, attempts |-> 0, lease |-> Lease]
           /\ \A i \in Ids : i # id => rows'[i] = rows[i]
           /\ told'[w] = "asked" /\ \A v \in Writes : v # w => told'[v] = told[v]
  <1>1. rows[id].status = "absent" /\ pc[c] = "idle"
    BY DEF Enqueue, NextId, Present
  <1>2. LeaseOutbox(EnqueueOutbox(w)) = [status |-> "pending", write |-> w, attempts |-> 0, lease |-> Lease]
    BY DEF LeaseOutbox, EnqueueOutbox
  <1>3. rows' = [rows EXCEPT ![id] = [status |-> "pending", write |-> w, attempts |-> 0, lease |-> Lease]]
    BY <1>2 DEF Enqueue
  <1>4. told[w] = "unasked" /\ told' = [told EXCEPT ![w] = "asked"]
    BY DEF Enqueue, Enqueued
  <1>5. QED
    BY <1>1, <1>3, <1>4 DEF TypeOK

\* A write moves in: its row is new, and so is its home.
LEMMA MovesIn ==
    ASSUME TypeOK, Homed, NEW c \in Callers, NEW w \in Writes, NEW id \in Ids, Enqueue(c, w, id),
           item'[c].id = id, item'[c].write = w, pc'[c] = "handoff" => w \in Deferrable,
           \A g \in Workers : g # c => pc'[g] = pc[g] /\ item'[g] = item[g],
           UNCHANGED <<todo, deferQ, drops>>
    PROVE  Homed'
  <1>1. PICK home \in [Writes -> Ids] :
           RowsAtHome(home) /\ ItemsAtHome(home) /\ NobodyMovedOut(home)
    BY DEF Homed
  <1> DEFINE new == [home EXCEPT ![w] = id]
  <1>2. /\ rows[id].status = "absent" /\ told[w] = "unasked" /\ pc[c] = "idle"
        /\ rows'[id].write = w /\ rows'[id].status = "pending"
        /\ \A i \in Ids : i # id => rows'[i] = rows[i]
        /\ told'[w] = "asked" /\ \A v \in Writes : v # w => told'[v] = told[v]
    <2>1. /\ rows[id].status = "absent" /\ told[w] = "unasked" /\ pc[c] = "idle"
          /\ rows'[id] = [status |-> "pending", write |-> w, attempts |-> 0, lease |-> Lease]
          /\ \A i \in Ids : i # id => rows'[i] = rows[i]
          /\ told'[w] = "asked" /\ \A v \in Writes : v # w => told'[v] = told[v]
      BY EnqueueNames
    <2>2. QED
      BY <2>1
  <1>3. new \in [Writes -> Ids] /\ new[w] = id /\ \A v \in Writes : v # w => new[v] = home[v]
    OBVIOUS
  <1> HIDE DEF new
  <1>4. ASSUME NEW it, Knows(home, it)
        PROVE  it.write # w /\ new[it.write] = it.id /\ told'[it.write] # "unasked"
    BY <1>2, <1>3, <1>4 DEF Knows
  <1>5. RowsAtHome(new)'
    BY <1>1, <1>2, <1>3 DEF RowsAtHome
  <1>6. ItemsAtHome(new)'
    <2>1. \A g \in Workers : pc'[g] \in Busy => Knows(new, item[g])'
      <3> SUFFICES ASSUME NEW g \in Workers, pc'[g] \in Busy
                   PROVE  /\ item'[g].write \in Writes /\ told'[item'[g].write] # "unasked"
                          /\ new[item'[g].write] = item'[g].id
        BY DEF Knows
      <3>1. CASE g = c
        BY <1>2, <1>3, <3>1
      <3>2. CASE g # c
        BY <1>1, <1>4, <3>2 DEF ItemsAtHome, Knows
      <3>3. QED
        BY <3>1, <3>2
    <2>2. \A g \in Workers : pc'[g] = "handoff" => item'[g].write \in Deferrable
      BY <1>1 DEF ItemsAtHome
    <2>3. \A g \in Passers : \A it \in todo'[g] : Knows(new, it)'
      BY <1>1, <1>4 DEF ItemsAtHome, Knows
    <2>4. \A p \in Procs : \A k \in 1..Len(deferQ'[p]) :
             Knows(new, deferQ[p][k])' /\ deferQ'[p][k].write \in Deferrable
      BY <1>1, <1>4 DEF ItemsAtHome, Knows
    <2>5. QED
      BY <2>1, <2>2, <2>3, <2>4 DEF ItemsAtHome
  <1>7. NobodyMovedOut(new)'
    BY <1>1, <1>2, <1>3 DEF NobodyMovedOut, RowsAtHome
  <1>8. QED
    BY <1>3, <1>5, <1>6, <1>7 DEF Homed

\* Nobody moves while rows keep their writes or lose them to a drop, nothing is
\* asked for, and every item is an old one.
LEMMA NobodyMoves ==
    ASSUME TypeOK, Homed,
           \A i \in Ids : /\ rows'[i].status = "absent" <=> rows'[i].write \notin Writes
                          /\ rows'[i].write = rows[i].write \/ rows'[i].write \notin Writes,
           drops' = 0 => drops = 0 /\ \A i \in Ids : rows'[i].write = rows[i].write,
           \A w \in Writes : told'[w] = "unasked" <=> told[w] = "unasked",
           \A g \in Workers : pc'[g] \in Busy =>
               \/ pc[g] \in Busy /\ item'[g] = item[g] /\ (pc'[g] = "handoff" => pc[g] = "handoff")
               \/ pc'[g] # "handoff" /\ \E p \in Procs : \E k \in 1..Len(deferQ[p]) : item'[g] = deferQ[p][k]
               \/ pc'[g] # "handoff" /\ \E h \in Passers : item'[g] \in todo[h],
           \A g \in Passers : \A it \in todo'[g] :
               \/ it \in todo[g]
               \/ it.id \in Ids /\ Pending(rows[it.id]) /\ it.write = rows[it.id].write,
           \A p \in Procs : \A k \in 1..Len(deferQ'[p]) :
               \/ \E m \in 1..Len(deferQ[p]) : deferQ'[p][k] = deferQ[p][m]
               \/ \E g \in Workers : pc[g] = "handoff" /\ deferQ'[p][k] = item[g]
    PROVE  Homed'
  <1>1. PICK home \in [Writes -> Ids] :
           RowsAtHome(home) /\ ItemsAtHome(home) /\ NobodyMovedOut(home)
    BY DEF Homed
  <1>2. ASSUME NEW it, Knows(home, it) PROVE Knows(home, it)'
    BY <1>2 DEF Knows
  <1>3. RowsAtHome(home)'
    BY <1>1 DEF RowsAtHome
  <1>4. NobodyMovedOut(home)'
    BY <1>1 DEF NobodyMovedOut
  <1>5. \A g \in Workers : pc'[g] \in Busy => Knows(home, item[g])'
    <2> SUFFICES ASSUME NEW g \in Workers, pc'[g] \in Busy
                 PROVE  /\ item'[g].write \in Writes /\ told'[item'[g].write] # "unasked"
                        /\ home[item'[g].write] = item'[g].id
      BY DEF Knows
    <2>1. Knows(home, item'[g])
      BY <1>1 DEF ItemsAtHome
    <2>2. QED
      BY <2>1 DEF Knows
  <1>6. \A g \in Workers : pc'[g] = "handoff" => item'[g].write \in Deferrable
    BY <1>1 DEF ItemsAtHome, Busy
  <1>7. \A g \in Passers : \A it \in todo'[g] : Knows(home, it)'
    <2> SUFFICES ASSUME NEW g \in Passers, NEW it \in todo'[g] PROVE Knows(home, it)
      BY <1>2
    <2>1. CASE it \in todo[g]
      BY <1>1, <2>1 DEF ItemsAtHome
    <2>2. CASE it.id \in Ids /\ Pending(rows[it.id]) /\ it.write = rows[it.id].write
      BY <1>1, <2>2 DEF RowsAtHome, Knows, Pending
    <2>3. QED
      BY <2>1, <2>2
  <1>8. \A p \in Procs : \A k \in 1..Len(deferQ'[p]) :
           Knows(home, deferQ[p][k])' /\ deferQ'[p][k].write \in Deferrable
    <2> SUFFICES ASSUME NEW p \in Procs, NEW k \in 1..Len(deferQ'[p])
                 PROVE  Knows(home, deferQ'[p][k]) /\ deferQ'[p][k].write \in Deferrable
      BY DEF Knows
    <2>1. CASE \E m \in 1..Len(deferQ[p]) : deferQ'[p][k] = deferQ[p][m]
      BY <1>1, <2>1 DEF ItemsAtHome
    <2>2. CASE \E g \in Workers : pc[g] = "handoff" /\ deferQ'[p][k] = item[g]
      BY <1>1, <2>2 DEF ItemsAtHome, Busy
    <2>3. QED
      BY <2>1, <2>2
  <1>9. QED
    BY <1>1, <1>3, <1>4, <1>5, <1>6, <1>7, <1>8 DEF Homed, ItemsAtHome

\* The write a busy goroutine has was asked for.
LEMMA BusyAsked ==
    ASSUME TypeOK, Homed, NEW g \in Workers, pc[g] \in Busy
    PROVE  item[g].write \in Writes /\ told[item[g].write] # "unasked"
  BY DEF Homed, ItemsAtHome, Knows

\* Every step leaves every write at home.
LEMMA HomeStep == TypeOK /\ Homed /\ [Next]_vars => Homed'
  <1> SUFFICES ASSUME TypeOK, Homed, [Next]_vars PROVE Homed'
    OBVIOUS
  <1> USE WorkersAssumption, WritesAssumption
  <1>r. ASSUME NEW i \in Ids PROVE rows[i] \in Row
    BY DEF TypeOK
  <1>i. ASSUME NEW g \in Workers PROVE item[g] \in Item /\ item[g].id \in Ids
    BY DEF TypeOK, Item
  <1>w. /\ Callers \subseteq Workers /\ Deferrers \subseteq Workers /\ Passers \subseteq Workers
        /\ \A g \in Workers : ProcOf[g] \in Procs
    BY DEF Workers
  <1>n. \A i \in Ids : rows[i].status = "absent" <=> rows[i].write \notin Writes
    BY DEF Homed, RowsAtHome
  <1>k. SameNames => \A i \in Ids : /\ rows'[i].status = "absent" <=> rows'[i].write \notin Writes
                                    /\ rows'[i].write = rows[i].write
    BY <1>n DEF SameNames
  <1>1. ASSUME NEW c \in Callers, NEW w \in Writes, NEW id \in Ids, Apply(c, w, id)
        PROVE  Homed'
    <2>1. Enqueue(c, w, id) /\ UNCHANGED <<todo, deferQ, drops>>
      BY <1>1 DEF Apply, passVars, bounds
    <2>2. /\ item'[c].id = id /\ item'[c].write = w /\ pc'[c] = "calling"
          /\ \A g \in Workers : g # c => pc'[g] = pc[g] /\ item'[g] = item[g]
      BY <1>1, <1>w DEF Apply, StartCall, TypeOK
    <2>3. QED
      BY <2>1, <2>2, MovesIn
  <1>2. ASSUME NEW c \in Callers, NEW w \in Writes, NEW id \in Ids, ApplyLater(c, w, id)
        PROVE  Homed'
    <2>1. Enqueue(c, w, id) /\ w \in Deferrable /\ UNCHANGED <<todo, deferQ, drops>>
      BY <1>2 DEF ApplyLater, Deferred, passVars, bounds
    <2>2. /\ item'[c].id = id /\ item'[c].write = w
          /\ \A g \in Workers : g # c => pc'[g] = pc[g] /\ item'[g] = item[g]
      BY <1>2, <1>w DEF ApplyLater, TypeOK
    <2>3. QED
      BY <2>1, <2>2, MovesIn
  <1>3. ASSUME NEW c \in Callers, HandOff(c) PROVE Homed'
    <2>1. /\ pc[c] = "handoff" /\ Rest(c, "idle") /\ c \in Workers
          /\ UNCHANGED <<todo, drops>>
      BY <1>3, <1>w DEF HandOff, passVars, bounds
    <2>2. item[c].write \in Writes /\ told[item[c].write] # "unasked"
      BY <2>1, BusyAsked DEF Busy
    <2>3. \A g \in Workers : pc'[g] \in Busy => pc'[g] = pc[g] /\ item'[g] = item[g]
      BY <2>1 DEF Rest, TypeOK, Busy
    <2>4. CASE /\ deferQ' = [deferQ EXCEPT ![ProcOf[c]] = Append(@, item[c])]
               /\ UNCHANGED <<rows, told>>
      <3>1. SameNames
        BY <2>4 DEF SameNames
      <3>2. ASSUME NEW p \in Procs, NEW k \in 1..Len(deferQ'[p])
            PROVE  \/ \E m \in 1..Len(deferQ[p]) : deferQ'[p][k] = deferQ[p][m]
                   \/ deferQ'[p][k] = item[c]
        <4>1. CASE p # ProcOf[c]
          BY <2>4, <4>1, <3>2 DEF TypeOK
        <4>2. CASE p = ProcOf[c]
          <5>1. deferQ[p] \in Seq(Item) /\ item[c] \in Item
            BY <1>i, <2>1 DEF TypeOK
          <5>2. deferQ'[p] = Append(deferQ[p], item[c])
            BY <2>4, <4>2 DEF TypeOK
          <5>3. CASE k \in 1..Len(deferQ[p])
            BY <5>1, <5>2, <5>3
          <5>4. CASE k = Len(deferQ[p]) + 1
            BY <5>1, <5>2, <5>4
          <5>5. QED
            BY <5>1, <5>2, <5>3, <5>4, <3>2
        <4>3. QED
          BY <4>1, <4>2
      <3>3. QED
        BY <1>k, <2>1, <2>3, <2>4, <3>1, <3>2, NobodyMoves
    <2>5. CASE /\ rows' = [rows EXCEPT ![item[c].id] = ReleaseOutbox(@)]
               /\ told' = [told EXCEPT ![item[c].write] = "queued"]
               /\ UNCHANGED deferQ
      <3>1. SameNames
        BY <1>i, <1>r, <2>1, <2>5, OneRowKeepsNames, StatementsKeepNames
      <3>2. \A w \in Writes : told'[w] = "unasked" <=> told[w] = "unasked"
        BY <2>2, <2>5 DEF TypeOK
      <3>3. QED
        BY <1>k, <2>1, <2>3, <2>5, <3>1, <3>2, NobodyMoves
    <2>6. QED
      BY <1>3, <2>4, <2>5 DEF HandOff
  <1>4. ASSUME NEW d \in Deferrers, Dequeue(d) PROVE Homed'
    <2> DEFINE p == ProcOf[d]
    <2>1. /\ p \in Procs /\ d \in Workers /\ deferQ[p] \in Seq(Item) /\ deferQ[p] # <<>>
          /\ 1 \in 1..Len(deferQ[p]) /\ Head(deferQ[p]) = deferQ[p][1]
      BY <1>4, <1>w DEF Dequeue, TypeOK
    <2>2. /\ UNCHANGED <<rows, told, todo, drops>>
          /\ deferQ' = [deferQ EXCEPT ![p] = Tail(@)]
      BY <1>4 DEF Dequeue, passVars, history, bounds
    <2>3. /\ item'[d] = deferQ[p][1] /\ pc'[d] = "calling"
          /\ \A g \in Workers : g # d => pc'[g] = pc[g] /\ item'[g] = item[g]
      BY <1>4, <2>1 DEF Dequeue, StartCall, TypeOK
    <2>4. SameNames
      BY <2>2 DEF SameNames
    <2>5. ASSUME NEW q \in Procs, NEW k \in 1..Len(deferQ'[q])
          PROVE  \E m \in 1..Len(deferQ[q]) : deferQ'[q][k] = deferQ[q][m]
      <3>1. CASE q # p
        BY <3>1, <2>2, <2>5 DEF TypeOK
      <3>2. CASE q = p
        <4>1. deferQ'[q] = Tail(deferQ[q])
          BY <3>2, <2>2 DEF TypeOK
        <4>2. k \in 1..Len(Tail(deferQ[q])) /\ deferQ[q] \in Seq(Item) /\ deferQ[q] # <<>>
          BY <4>1, <2>5, <2>1, <3>2
        <4>3. k + 1 \in 1..Len(deferQ[q]) /\ Tail(deferQ[q])[k] = deferQ[q][k + 1]
          BY <4>2
        <4>4. QED
          BY <4>1, <4>3
      <3>3. QED
        BY <3>1, <3>2
    <2>6. QED
      BY <1>k, <2>1, <2>2, <2>3, <2>4, <2>5, NobodyMoves
  <1>5. ASSUME NEW g \in Workers, NEW o \in Outcomes, Answer(g, o) PROVE Homed'
    <2>1. /\ UNCHANGED <<rows, told, todo, deferQ, item, drops>>
          /\ pc[g] = "calling" /\ pc'[g] = "answered"
          /\ \A h \in Workers : h # g => pc'[h] = pc[h]
      BY <1>5 DEF Answer, passVars, bounds, TypeOK
    <2>2. SameNames
      BY <2>1 DEF SameNames
    <2>3. QED
      BY <1>k, <2>1, <2>2, NobodyMoves DEF Busy
  <1>f. ASSUME NEW g \in Workers, pc[g] = "answered", NEW where \in {"idle", "passing"}, Rest(g, where),
               SameNames, UNCHANGED <<deferQ, drops>>,
               \A w \in Writes : told'[w] = "unasked" <=> told[w] = "unasked",
               \A h \in Passers : todo'[h] \subseteq todo[h]
        PROVE  Homed'
    <2>1. \A h \in Workers : pc'[h] \in Busy => pc'[h] = pc[h] /\ item'[h] = item[h]
      BY <1>f DEF Rest, TypeOK, Busy
    <2>2. QED
      BY <1>f, <1>k, <2>1, NobodyMoves
  <1>6. ASSUME NEW g \in Workers, Settle(g) PROVE Homed'
    <2> DEFINE i == item[g].id
               r == rows[i]
    <2>1. pc[g] = "answered" /\ Rest(g, "idle") /\ UNCHANGED <<todo, deferQ, drops>>
      BY <1>6 DEF Settle, passVars, bounds
    <2>2. PICK q \in {MarkOutboxDone(r), MarkOutboxFailed(r), MarkOutboxPermanentlyFailed(r)} :
             rows' = [rows EXCEPT ![i] = q]
      BY <1>6 DEF Settle
    <2>3. PICK t \in Tellings \ {"unasked"} : told' = [told EXCEPT ![item[g].write] = t]
      <3>1. \A t \in {"done", "queued", "failed"} : t \in Tellings \ {"unasked"}
        BY DEF Tellings
      <3>2. QED
        BY <1>6, <3>1 DEF Settle
    <2>4. i \in Ids /\ q.write = r.write /\ (q.status = "absent" <=> r.status = "absent")
      BY <2>2, <1>i, <1>r, StatementsKeepNames
    <2>5. SameNames
      BY <2>2, <2>4, OneRowKeepsNames
    <2>6. \A w \in Writes : told'[w] = "unasked" <=> told[w] = "unasked"
      BY <2>1, <2>3, BusyAsked DEF TypeOK, Busy
    <2>7. QED
      BY <1>f, <2>1, <2>5, <2>6
  <1>7. ASSUME NEW g \in Workers, SettleUnderDeadContext(g) PROVE Homed'
    <2>1. pc[g] = "answered" /\ Rest(g, "idle") /\ UNCHANGED <<rows, todo, deferQ, drops>>
      BY <1>7 DEF SettleUnderDeadContext, passVars, bounds
    <2>2. \A w \in Writes : told'[w] = "unasked" <=> told[w] = "unasked"
      BY <1>7, <2>1, BusyAsked DEF SettleUnderDeadContext, TypeOK, Busy
    <2>3. SameNames
      BY <2>1 DEF SameNames
    <2>4. QED
      BY <1>f, <2>1, <2>2, <2>3
  <1>8. ASSUME NEW g \in Passers, StartPass(g) PROVE Homed'
    <2>1. /\ UNCHANGED <<rows, told, item, deferQ, drops>>
          /\ \A h \in Workers : pc'[h] \in Busy => pc'[h] = pc[h]
      BY <1>8, <1>w DEF StartPass, history, bounds, TypeOK, Busy
    <2>2. ASSUME NEW h \in Passers, NEW it \in todo'[h]
          PROVE  it \in todo[h] \/ (it.id \in Ids /\ Pending(rows[it.id]) /\ it.write = rows[it.id].write)
      <3>1. CASE h # g
        BY <1>8, <2>2, <3>1 DEF StartPass, TypeOK
      <3>2. CASE h = g
        <4>1. PICK i \in Ids : /\ Pending(rows[i])
                              /\ it = [id |-> i, write |-> rows[i].write, attempts |-> rows[i].attempts]
          BY <1>8, <2>2, <3>2 DEF StartPass, TypeOK
        <4>2. it.id = i /\ it.write = rows[i].write
          BY <4>1
        <4>3. QED
          BY <4>1, <4>2
      <3>3. QED
        BY <3>1, <3>2
    <2>3. SameNames
      BY <2>1 DEF SameNames
    <2>4. QED
      BY <1>k, <2>1, <2>2, <2>3, NobodyMoves
  <1>p. ASSUME NEW g \in Passers, NEW it \in todo[g], Look(g, it)
        PROVE  /\ it.id \in Ids /\ g \in Workers /\ pc[g] = "passing"
               /\ \A h \in Passers : todo'[h] \subseteq todo[h]
    BY <1>p, <1>w DEF Look, TypeOK, Item
  <1>9. ASSUME NEW g \in Passers, NEW it \in todo[g], GiveUp(g, it) PROVE Homed'
    <2>1. /\ it.id \in Ids /\ \A h \in Passers : todo'[h] \subseteq todo[h]
      BY <1>9, <1>p DEF GiveUp
    <2>2. /\ UNCHANGED <<pc, item, told, deferQ, drops>>
          /\ rows' = [rows EXCEPT ![it.id] = MarkOutboxPermanentlyFailed(@)]
      BY <1>9 DEF GiveUp, pushVars, history, bounds
    <2>3. SameNames
      BY <1>r, <2>1, <2>2, OneRowKeepsNames, StatementsKeepNames
    <2>4. QED
      BY <1>k, <2>1, <2>2, <2>3, NobodyMoves
  <1>10. ASSUME NEW g \in Passers, NEW it \in todo[g], Skip(g, it) PROVE Homed'
    <2>1. \A h \in Passers : todo'[h] \subseteq todo[h]
      BY <1>10, <1>p DEF Skip
    <2>2. UNCHANGED <<rows, pc, item, told, deferQ, drops>>
      BY <1>10 DEF Skip, pushVars, history, bounds
    <2>3. SameNames
      BY <2>2 DEF SameNames
    <2>4. QED
      BY <1>k, <2>1, <2>2, <2>3, NobodyMoves
  <1>11. ASSUME NEW g \in Passers, NEW it \in todo[g], Claim(g, it) PROVE Homed'
    <2>1. it.id \in Ids /\ g \in Workers /\ \A h \in Passers : todo'[h] \subseteq todo[h]
      BY <1>11, <1>p DEF Claim
    <2>2. /\ UNCHANGED <<told, deferQ, drops>>
          /\ rows' = [rows EXCEPT ![it.id] = LeaseOutbox(@)]
      BY <1>11 DEF Claim, history, bounds
    <2>3. /\ item'[g] = it /\ pc'[g] = "calling"
          /\ \A h \in Workers : h # g => pc'[h] = pc[h] /\ item'[h] = item[h]
      BY <1>11, <2>1 DEF Claim, StartCall, TypeOK
    <2>4. SameNames
      BY <1>r, <2>1, <2>2, OneRowKeepsNames, StatementsKeepNames
    <2>5. QED
      BY <1>k, <2>1, <2>2, <2>3, <2>4, NobodyMoves
  <1>12. ASSUME NEW g \in Passers, SettlePass(g) PROVE Homed'
    <2> DEFINE i == item[g].id
               r == rows[i]
    <2>1. /\ g \in Workers /\ pc[g] = "answered" /\ Rest(g, "passing")
          /\ UNCHANGED <<told, deferQ, drops>>
      BY <1>12, <1>w DEF SettlePass, history, bounds
    <2>2. PICK q : /\ rows' = [rows EXCEPT ![i] = q]
                   /\ q \in {MarkOutboxDone(r), MarkOutboxFailed(r), MarkOutboxPermanentlyFailed(r)}
      BY <1>12 DEF SettlePass
    <2>3. i \in Ids /\ q.write = r.write /\ (q.status = "absent" <=> r.status = "absent")
      BY <2>1, <2>2, <1>i, <1>r, StatementsKeepNames
    <2>4. SameNames
      BY <2>2, <2>3, OneRowKeepsNames
    <2>5. \A h \in Passers : todo'[h] \subseteq todo[h]
      BY <1>12 DEF SettlePass, TypeOK
    <2>6. QED
      BY <1>f, <2>1, <2>4, <2>5
  <1>13. ASSUME NEW g \in Passers, EndPass(g) PROVE Homed'
    <2>1. /\ g \in Workers /\ Rest(g, "idle") /\ UNCHANGED <<rows, told, todo, deferQ, drops>>
      BY <1>13, <1>w DEF EndPass, history, bounds
    <2>2. \A h \in Workers : pc'[h] \in Busy => pc'[h] = pc[h] /\ item'[h] = item[h]
      BY <2>1 DEF Rest, TypeOK, Busy
    <2>3. SameNames
      BY <2>1 DEF SameNames
    <2>4. QED
      BY <1>k, <2>1, <2>2, <2>3, NobodyMoves
  <1>14. ASSUME Tick PROVE Homed'
    <2> DEFINE l == [i \in Ids |-> Less(rows[i].lease)]
    <2>1. UNCHANGED <<pc, item, told, todo, deferQ, drops>>
      BY <1>14 DEF Tick, passVars, history, bounds
    <2>2. \A i \in Ids : rows'[i] = [rows[i] EXCEPT !.lease = l[i]]
      BY <1>14 DEF Tick
    <2>3. SameNames
      BY <2>2, LeaseKeepsNames
    <2>4. QED
      BY <1>k, <2>1, <2>3, NobodyMoves
  <1>15. ASSUME NEW p \in Procs, Crash(p) PROVE Homed'
    <2>1. UNCHANGED <<rows, told, drops>>
      BY <1>15 DEF Crash
    <2>2. \A g \in Workers : pc'[g] \in Busy => pc'[g] = pc[g] /\ item'[g] = item[g]
      BY <1>15 DEF Crash, Busy
    <2>3. \A g \in Passers : todo'[g] \subseteq todo[g]
      BY <1>15 DEF Crash
    <2>4. ASSUME NEW q \in Procs, NEW k \in 1..Len(deferQ'[q])
          PROVE  \E m \in 1..Len(deferQ[q]) : deferQ'[q][k] = deferQ[q][m]
      BY <1>15, <2>4 DEF Crash, TypeOK
    <2>5. SameNames
      BY <2>1 DEF SameNames
    <2>6. QED
      BY <1>k, <2>1, <2>2, <2>3, <2>4, <2>5, NobodyMoves
  <1>16. ASSUME Suspend PROVE Homed'
    <2> DEFINE l == [i \in Ids |-> 0]
    <2>1. UNCHANGED <<pc, item, told, todo, deferQ, drops>>
      BY <1>16 DEF Suspend, pushVars, passVars, history
    <2>2. \A i \in Ids : rows'[i] = [rows[i] EXCEPT !.lease = l[i]]
      BY <1>16 DEF Suspend
    <2>3. SameNames
      BY <2>2, LeaseKeepsNames
    <2>4. QED
      BY <1>k, <2>1, <2>3, NobodyMoves
  <1>17. ASSUME NEW id \in Ids, DropOutbox(id) PROVE Homed'
    <2>1. UNCHANGED <<pc, item, told, todo, deferQ>>
      BY <1>17 DEF DropOutbox, pushVars, passVars, history
    <2>2. rows'[id] = NoRow /\ \A i \in Ids : i # id => rows'[i] = rows[i]
      BY <1>17 DEF DropOutbox, TypeOK
    <2>3. drops \in Nat /\ drops' = drops + 1
      BY <1>17, BoundsAssumption DEF DropOutbox, TypeOK
    <2>4. \A i \in Ids : /\ rows'[i].status = "absent" <=> rows'[i].write \notin Writes
                         /\ rows'[i].write = rows[i].write \/ rows'[i].write \notin Writes
      BY <1>n, <2>2 DEF NoRow
    <2>5. QED
      BY <2>1, <2>3, <2>4, NobodyMoves
  <1>18. CASE UNCHANGED vars
    <2>1. UNCHANGED <<rows, told, drops, pc, item, todo, deferQ>>
      BY <1>18 DEF vars
    <2>2. SameNames
      BY <2>1 DEF SameNames
    <2>3. QED
      BY <1>k, <2>1, <2>2, NobodyMoves
  <1>19. QED
    BY <1>1, <1>2, <1>3, <1>4, <1>5, <1>6, <1>7, <1>8, <1>9, <1>10, <1>11, <1>12,
       <1>13, <1>14, <1>15, <1>16, <1>17, <1>18
    DEF Next, Ask, System, Push, Pass, Faults

\* In the initial states every row is at home.
LEMMA HomeInit == Init => Homed
  <1> SUFFICES ASSUME Init PROVE Homed
    OBVIOUS
  <1>1. PICK home : home = [w \in Writes |-> 1]
    OBVIOUS
  <1>2. home \in [Writes -> Ids]
    BY <1>1, TimesAssumption
  <1>3. RowsAtHome(home) /\ NobodyMovedOut(home)
    BY WritesAssumption DEF Init, RowsAtHome, NobodyMovedOut, NoRow
  <1>4. ItemsAtHome(home)
    <2>1. Len(<<>>) = 0
      OBVIOUS
    <2>2. \A p \in Procs : 1..Len(deferQ[p]) = {}
      BY <2>1 DEF Init
    <2>3. QED
      BY <2>2 DEF Init, ItemsAtHome, Busy
  <1>5. QED
    BY <1>2, <1>3, <1>4 DEF Homed

-----------------------------------------------------------------------------
(***************************************************************************)
(* The lease keeps two goroutines off one write.  SingleHolder alone is    *)
(* not inductive: it says nothing of the leases that make it true.  What   *)
(* is inductive is that the push of a row ends before the row's lease      *)
(* does, and that no two pushes share a row, where every item still names  *)
(* the row its write was recorded in.                                      *)
(***************************************************************************)

\* A push that started when its row was leased.
Guarded(g) == Holding(g) /\ item[g].write \notin Deferrable

\* Such a push is over before the lease is.
InsideLease ==
    \A g \in Workers : Guarded(g) =>
        /\ rows[item[g].id].lease > 0
        /\ pc[g] = "calling" => left[g] < rows[item[g].id].lease

\* No two of them share a row.
Apart == \A g, h \in Workers : Guarded(g) /\ Guarded(h) /\ item[g].id = item[h].id => g = h

IInv == TypeOK /\ Homed /\ (Quiet => InsideLease /\ Apart)

\* A step of goroutine x that leaves it without a guarded push disturbs
\* nobody, as long as the leases of the others' rows stay.
LEMMA LeasesStay ==
    ASSUME TypeOK, InsideLease, Apart, NEW x \in Workers,
           \A g \in Workers : g # x => pc'[g] = pc[g] /\ item'[g] = item[g] /\ left'[g] = left[g],
           ~Guarded(x)',
           \A g \in Workers : g # x /\ Guarded(g) =>
               rows'[item[g].id].lease = rows[item[g].id].lease
    PROVE  InsideLease' /\ Apart'
  <1>1. \A g \in Workers : g # x => (Guarded(g)' <=> Guarded(g))
    BY DEF Guarded, Holding
  <1>2. \A g \in Workers : Guarded(g)' => g # x /\ Guarded(g)
    BY <1>1
  <1>3. Apart'
    BY <1>2 DEF Apart
  <1>4. InsideLease'
    BY <1>2 DEF InsideLease
  <1>5. QED
    BY <1>3, <1>4

\* A push that starts on a row nobody else guards, freshly leased, is inside
\* its lease and alone with its row.
LEMMA PushStarts ==
    ASSUME TypeOK, InsideLease, Apart, NEW x \in Workers, NEW i \in Ids,
           \A g \in Workers : g # x => pc'[g] = pc[g] /\ item'[g] = item[g] /\ left'[g] = left[g],
           ~Guarded(x), item'[x].id = i, left'[x] = PushMax, rows'[i].lease = Lease,
           \A g \in Workers : Guarded(g) =>
               item[g].id # i /\ rows'[item[g].id].lease = rows[item[g].id].lease
    PROVE  InsideLease' /\ Apart'
  <1>1. \A g \in Workers : g # x => (Guarded(g)' <=> Guarded(g))
    BY DEF Guarded, Holding
  <1>2. Apart'
    BY <1>1 DEF Apart
  <1>3. InsideLease'
    BY <1>1, TimesAssumption DEF InsideLease
  <1>4. QED
    BY <1>2, <1>3

\* The row of a goroutine with work is not the row of another's guarded push.
LEMMA OthersRows ==
    ASSUME TypeOK, ItemsNamed, Apart, NEW x \in Workers, pc[x] \in Busy,
           NEW g \in Workers, g # x, Guarded(g)
    PROVE  item[g].id # item[x].id
  <1>1. Names(item[x]) /\ Names(item[g])
    BY DEF ItemsNamed, Busy, Guarded, Holding
  <1>2. CASE item[x].write \in Deferrable
    BY <1>1, <1>2 DEF Names, Guarded
  <1>3. CASE item[x].write \notin Deferrable
    <2>1. Guarded(x)
      BY <1>3 DEF Guarded, Holding, ItemsNamed, Busy
    <2>2. QED
      BY <2>1 DEF Apart
  <1>4. QED
    BY <1>2, <1>3

\* A goroutine that is through with its row, and touched no other, disturbs
\* none of the pushes of the others.
LEMMA Finishes ==
    ASSUME TypeOK, ItemsNamed, InsideLease, Apart,
           NEW x \in Workers, pc[x] \in Busy, NEW where \in {"idle", "passing"}, Rest(x, where),
           \A i \in Ids : i # item[x].id => rows'[i] = rows[i]
    PROVE  InsideLease' /\ Apart'
  <1>1. /\ pc'[x] = where
        /\ \A g \in Workers : g # x => pc'[g] = pc[g] /\ item'[g] = item[g] /\ left'[g] = left[g]
    BY DEF Rest, TypeOK
  <1>2. \A g \in Workers : g # x /\ Guarded(g) => rows'[item[g].id].lease = rows[item[g].id].lease
    <2>1. \A g \in Workers : item[g].id \in Ids
      BY DEF TypeOK, Item
    <2>2. QED
      BY <2>1, OthersRows
  <1>3. ~Guarded(x)'
    BY <1>1 DEF Guarded, Holding
  <1>4. QED
    BY <1>1, <1>2, <1>3, LeasesStay

\* Drops and sleeps are counted up, never down.
LEMMA QuietBefore == TypeOK /\ [Next]_vars /\ Quiet' => Quiet
  <1> SUFFICES ASSUME TypeOK, [Next]_vars, Quiet' PROVE Quiet
    OBVIOUS
  <1>1. suspends \in Nat /\ drops \in Nat
    BY BoundsAssumption DEF TypeOK
  <1>2. CASE \E d \in Ids : DropOutbox(d)
    BY <1>1, <1>2 DEF DropOutbox, Quiet
  <1>3. CASE Suspend
    BY <1>1, <1>3 DEF Suspend, Quiet
  <1>4. CASE UNCHANGED <<suspends, drops>>
    BY <1>4 DEF Quiet
  <1>5. \/ UNCHANGED <<suspends, drops>>
        \/ Suspend
        \/ \E d \in Ids : DropOutbox(d)
    <2>1. CASE UNCHANGED vars
      BY <2>1 DEF vars
    <2>2. CASE Ask
      BY <2>2 DEF Ask, Apply, ApplyLater, HandOff, bounds
    <2>3. CASE System
      <3>1. ASSUME NEW g \in Workers, Push(g) PROVE UNCHANGED <<suspends, drops>>
        BY <3>1 DEF Push, Answer, Settle, SettleUnderDeadContext, bounds
      <3>2. ASSUME NEW c \in Callers, HandOff(c) PROVE UNCHANGED <<suspends, drops>>
        BY <3>2 DEF HandOff, bounds
      <3>3. ASSUME NEW d \in Deferrers, Dequeue(d) PROVE UNCHANGED <<suspends, drops>>
        BY <3>3 DEF Dequeue, bounds
      <3>4. ASSUME NEW g \in Passers, Pass(g) PROVE UNCHANGED <<suspends, drops>>
        BY <3>4 DEF Pass, StartPass, GiveUp, Skip, Claim, SettlePass, EndPass, bounds
      <3>5. QED
        BY <2>3, <3>1, <3>2, <3>3, <3>4 DEF System
    <2>4. CASE Tick
      BY <2>4 DEF Tick, bounds
    <2>5. CASE Faults
      BY <2>5 DEF Faults, Crash
    <2>6. QED
      BY <2>1, <2>2, <2>3, <2>4, <2>5 DEF Next
  <1>6. QED
    BY <1>2, <1>3, <1>4, <1>5

\* While no row is dropped and the clock does not outrun the contexts, every
\* step leaves the pushes inside their leases and apart.
LEMMA LeaseStep ==
    TypeOK /\ Homed /\ InsideLease /\ Apart /\ [Next]_vars /\ Quiet' => InsideLease' /\ Apart'
  <1> SUFFICES ASSUME TypeOK, Homed, InsideLease, Apart, [Next]_vars, Quiet'
               PROVE  InsideLease' /\ Apart'
    OBVIOUS
  <1> USE WorkersAssumption, WritesAssumption
  <1>a. ItemsNamed /\ RowsNamed
    BY QuietBefore, HomesAreNames DEF Quiet
  <1>r. ASSUME NEW i \in Ids PROVE rows[i] \in Row
    BY DEF TypeOK
  <1>i. ASSUME NEW g \in Workers PROVE item[g] \in Item /\ item[g].id \in Ids
    BY DEF TypeOK, Item
  <1>w. /\ Callers \subseteq Workers /\ Deferrers \subseteq Workers /\ Passers \subseteq Workers
        /\ \A g \in Workers : ProcOf[g] \in Procs
    BY DEF Workers
  <1>e. ASSUME NEW c \in Callers, NEW w \in Writes, NEW id \in Ids, Enqueue(c, w, id)
        PROVE  /\ rows'[id].lease = Lease /\ ~Guarded(c)
               /\ \A g \in Workers : Guarded(g) =>
                      item[g].id # id /\ rows'[item[g].id].lease = rows[item[g].id].lease
    <2>1. /\ rows[id].status = "absent" /\ pc[c] = "idle"
          /\ rows'[id] = [status |-> "pending", write |-> w, attempts |-> 0, lease |-> Lease]
          /\ \A i \in Ids : i # id => rows'[i] = rows[i]
      BY <1>e, EnqueueNames
    <2>2. rows'[id].lease = Lease
      BY <2>1
    <2>3. \A g \in Workers : Guarded(g) => item[g].id # id
      BY <1>a, <2>1 DEF Guarded, Holding, ItemsNamed, Busy, Names, RowsNamed
    <2>4. QED
      BY <1>i, <2>1, <2>2, <2>3 DEF Guarded, Holding
  <1>1. ASSUME NEW c \in Callers, NEW w \in Writes, NEW id \in Ids, Apply(c, w, id)
        PROVE  InsideLease' /\ Apart'
    <2>1. Enqueue(c, w, id)
      BY <1>1 DEF Apply
    <2>2. /\ item'[c].id = id /\ left'[c] = PushMax
          /\ \A g \in Workers : g # c => pc'[g] = pc[g] /\ item'[g] = item[g] /\ left'[g] = left[g]
      BY <1>1, <1>w DEF Apply, StartCall, TypeOK
    <2>3. QED
      BY <1>e, <1>w, <2>1, <2>2, PushStarts
  <1>2. ASSUME NEW c \in Callers, NEW w \in Writes, NEW id \in Ids, ApplyLater(c, w, id)
        PROVE  InsideLease' /\ Apart'
    <2>1. Enqueue(c, w, id)
      BY <1>2 DEF ApplyLater
    <2>2. /\ pc'[c] = "handoff"
          /\ \A g \in Workers : g # c => pc'[g] = pc[g] /\ item'[g] = item[g] /\ left'[g] = left[g]
      BY <1>2, <1>w DEF ApplyLater, TypeOK
    <2>3. ~Guarded(c)'
      BY <2>2 DEF Guarded, Holding
    <2>4. QED
      BY <1>e, <1>w, <2>1, <2>2, <2>3, LeasesStay
  <1>3. ASSUME NEW c \in Callers, HandOff(c) PROVE InsideLease' /\ Apart'
    <2>1. pc[c] = "handoff" /\ Rest(c, "idle") /\ c \in Workers
      BY <1>3, <1>w DEF HandOff
    <2>2. \A i \in Ids : i # item[c].id => rows'[i] = rows[i]
      BY <1>3 DEF HandOff, TypeOK
    <2>3. QED
      BY <1>a, <2>1, <2>2, Finishes DEF Busy
  <1>4. ASSUME NEW d \in Deferrers, Dequeue(d) PROVE InsideLease' /\ Apart'
    <2> DEFINE p == ProcOf[d]
    <2>1. /\ p \in Procs /\ d \in Workers /\ deferQ[p] \in Seq(Item) /\ deferQ[p] # <<>>
          /\ 1 \in 1..Len(deferQ[p]) /\ Head(deferQ[p]) = deferQ[p][1]
      BY <1>4, <1>w DEF Dequeue, TypeOK
    <2>2. UNCHANGED rows
      BY <1>4 DEF Dequeue
    <2>3. /\ item'[d] = deferQ[p][1]
          /\ \A g \in Workers : g # d => pc'[g] = pc[g] /\ item'[g] = item[g] /\ left'[g] = left[g]
      BY <1>4, <2>1 DEF Dequeue, StartCall, TypeOK
    <2>4. ~Guarded(d)'
      BY <1>a, <2>1, <2>3 DEF ItemsNamed, Guarded
    <2>5. QED
      BY <2>1, <2>2, <2>3, <2>4, LeasesStay
  <1>5. ASSUME NEW g \in Workers, NEW o \in Outcomes, Answer(g, o) PROVE InsideLease' /\ Apart'
    <2>1. /\ UNCHANGED <<rows, item, left>>
          /\ pc[g] = "calling" /\ pc'[g] = "answered"
          /\ \A h \in Workers : h # g => pc'[h] = pc[h]
      BY <1>5 DEF Answer, TypeOK
    <2>2. \A h \in Workers : Guarded(h)' => Guarded(h)
      BY <2>1 DEF Guarded, Holding
    <2>3. QED
      BY <2>1, <2>2 DEF InsideLease, Apart
  <1>6. ASSUME NEW g \in Workers, Settle(g) PROVE InsideLease' /\ Apart'
    <2>1. pc[g] = "answered" /\ Rest(g, "idle")
      BY <1>6 DEF Settle
    <2>2. \A j \in Ids : j # item[g].id => rows'[j] = rows[j]
      BY <1>6 DEF Settle, TypeOK
    <2>3. QED
      BY <1>a, <2>1, <2>2, Finishes DEF Busy
  <1>7. ASSUME NEW g \in Workers, SettleUnderDeadContext(g) PROVE InsideLease' /\ Apart'
    <2>1. pc[g] = "answered" /\ Rest(g, "idle") /\ UNCHANGED rows
      BY <1>7 DEF SettleUnderDeadContext
    <2>2. QED
      BY <1>a, <2>1, Finishes DEF Busy
  <1>8. ASSUME NEW g \in Passers, StartPass(g) PROVE InsideLease' /\ Apart'
    <2>1. /\ UNCHANGED <<rows, item, left>>
          /\ g \in Workers /\ pc'[g] = "passing"
          /\ \A h \in Workers : h # g => pc'[h] = pc[h]
      BY <1>8, <1>w DEF StartPass, TypeOK
    <2>2. ~Guarded(g)'
      BY <2>1 DEF Guarded, Holding
    <2>3. QED
      BY <2>1, <2>2, LeasesStay
  <1>n. ASSUME NEW g \in Passers, NEW it \in todo[g], Look(g, it)
        PROVE  it.id \in Ids /\ g \in Workers /\ pc[g] = "passing"
    BY <1>n, <1>w DEF Look, TypeOK, Item
  <1>9. ASSUME NEW g \in Passers, NEW it \in todo[g], GiveUp(g, it) PROVE InsideLease' /\ Apart'
    <2>1. it.id \in Ids /\ g \in Workers /\ pc[g] = "passing"
      BY <1>9, <1>n DEF GiveUp
    <2>2. /\ UNCHANGED <<pc, item, left>>
          /\ rows' = [rows EXCEPT ![it.id] = MarkOutboxPermanentlyFailed(@)]
      BY <1>9 DEF GiveUp, pushVars
    <2>3. \A i \in Ids : rows'[i].lease = rows[i].lease
      BY <1>r, <2>1, <2>2, StatementsKeepNames DEF TypeOK
    <2>4. ~Guarded(g)'
      BY <2>1, <2>2 DEF Guarded, Holding
    <2>5. QED
      BY <1>i, <2>1, <2>2, <2>3, <2>4, LeasesStay
  <1>10. ASSUME NEW g \in Passers, NEW it \in todo[g], Skip(g, it) PROVE InsideLease' /\ Apart'
    <2>1. UNCHANGED <<rows, pc, item, left>>
      BY <1>10 DEF Skip, pushVars
    <2>2. QED
      BY <2>1 DEF InsideLease, Apart, Guarded, Holding
  <1>11. ASSUME NEW g \in Passers, NEW it \in todo[g], Claim(g, it) PROVE InsideLease' /\ Apart'
    <2>1. it.id \in Ids /\ g \in Workers /\ pc[g] = "passing"
      BY <1>11, <1>n DEF Claim
    <2>2. rows[it.id].lease = 0 /\ rows' = [rows EXCEPT ![it.id] = LeaseOutbox(@)]
      BY <1>11 DEF Claim, Leasable
    <2>3. /\ item'[g] = it /\ left'[g] = PushMax
          /\ \A h \in Workers : h # g => pc'[h] = pc[h] /\ item'[h] = item[h] /\ left'[h] = left[h]
      BY <1>11, <2>1 DEF Claim, StartCall, TypeOK
    <2>4. \A h \in Workers : Guarded(h) =>
             item[h].id # it.id /\ rows'[item[h].id].lease = rows[item[h].id].lease
      BY <1>i, <2>2 DEF InsideLease, TypeOK
    <2>5. ~Guarded(g)
      BY <2>1 DEF Guarded, Holding
    <2>6. rows'[it.id].lease = Lease
      <3>1. LeaseOutbox(rows[it.id]).lease = Lease
        BY <1>r, <2>1 DEF LeaseOutbox, Row
      <3>2. QED
        BY <2>1, <2>2, <3>1 DEF TypeOK
    <2>7. QED
      BY <2>1, <2>3, <2>4, <2>5, <2>6, PushStarts
  <1>12. ASSUME NEW g \in Passers, SettlePass(g) PROVE InsideLease' /\ Apart'
    <2>1. g \in Workers /\ pc[g] = "answered" /\ Rest(g, "passing")
      BY <1>12, <1>w DEF SettlePass
    <2>2. \A j \in Ids : j # item[g].id => rows'[j] = rows[j]
      BY <1>12 DEF SettlePass, TypeOK
    <2>3. QED
      BY <1>a, <2>1, <2>2, Finishes DEF Busy
  <1>13. ASSUME NEW g \in Passers, EndPass(g) PROVE InsideLease' /\ Apart'
    <2>1. g \in Workers /\ Rest(g, "idle") /\ UNCHANGED rows
      BY <1>13, <1>w DEF EndPass
    <2>2. /\ pc'[g] = "idle"
          /\ \A h \in Workers : h # g => pc'[h] = pc[h] /\ item'[h] = item[h] /\ left'[h] = left[h]
      BY <2>1 DEF Rest, TypeOK
    <2>3. ~Guarded(g)'
      BY <2>2 DEF Guarded, Holding
    <2>4. QED
      BY <2>1, <2>2, <2>3, LeasesStay
  <1>14. ASSUME Tick PROVE InsideLease' /\ Apart'
    <2> DEFINE l == [i \in Ids |-> Less(rows[i].lease)]
    <2>1. UNCHANGED <<pc, item>>
      BY <1>14 DEF Tick
    <2>2. \A i \in Ids : rows'[i].lease = Less(rows[i].lease) /\ rows[i].lease \in Nat
      <3>1. \A i \in Ids : rows'[i] = [rows[i] EXCEPT !.lease = l[i]]
        BY <1>14 DEF Tick
      <3>2. \A i \in Ids : rows'[i].lease = l[i]
        BY <3>1, LeaseKeepsNames
      <3>3. QED
        BY <1>r, <3>2, TimesAssumption DEF Row
    <2>3. Apart'
      BY <2>1 DEF Apart, Guarded, Holding
    <2>4. InsideLease'
      <3> SUFFICES ASSUME NEW g \in Workers, Guarded(g)'
                   PROVE  /\ rows'[item'[g].id].lease > 0
                          /\ pc'[g] = "calling" => left'[g] < rows'[item'[g].id].lease
        BY DEF InsideLease
      <3>1. pc[g] = "calling" /\ Guarded(g)
        BY <1>14, <2>1 DEF Tick, Guarded, Holding
      <3>2. left[g] \in Nat /\ left[g] > 0 /\ left'[g] = Less(left[g])
        BY <1>14, <3>1, TimesAssumption DEF Tick, TypeOK
      <3>3. left[g] < rows[item[g].id].lease
        BY <3>1 DEF InsideLease
      <3>4. QED
        BY <1>i, <2>1, <2>2, <3>2, <3>3 DEF Less
    <2>5. QED
      BY <2>3, <2>4
  <1>15. ASSUME NEW p \in Procs, Crash(p) PROVE InsideLease' /\ Apart'
    <2>1. UNCHANGED rows
      BY <1>15 DEF Crash
    <2>2. \A g \in Workers : Guarded(g)' =>
             Guarded(g) /\ pc'[g] = pc[g] /\ item'[g] = item[g] /\ left'[g] = left[g]
      BY <1>15 DEF Crash, Guarded, Holding
    <2>3. QED
      BY <2>1, <2>2 DEF InsideLease, Apart
  <1>16. ~Suspend /\ \A id \in Ids : ~DropOutbox(id)
    <2>1. suspends \in Nat /\ drops \in Nat
      BY BoundsAssumption DEF TypeOK
    <2>2. suspends' # suspends + 1 /\ drops' # drops + 1
      BY <2>1 DEF Quiet
    <2>3. QED
      BY <2>2 DEF Suspend, DropOutbox
  <1>17. CASE UNCHANGED vars
    BY <1>17 DEF vars, InsideLease, Apart, Guarded, Holding
  <1>18. QED
    BY <1>1, <1>2, <1>3, <1>4, <1>5, <1>6, <1>7, <1>8, <1>9, <1>10, <1>11, <1>12,
       <1>13, <1>14, <1>15, <1>16, <1>17
    DEF Next, Ask, System, Push, Pass, Faults

\* The initial states have the invariant of the leases.
LEMMA IInvInit == Init => IInv
  <1> SUFFICES ASSUME Init PROVE InsideLease /\ Apart
    BY TypeInit, HomeInit DEF IInv
  <1>1. QED
    BY DEF Init, InsideLease, Apart, Guarded, Holding

\* Every step keeps the invariant of the leases.
LEMMA IInvStep == IInv /\ [Next]_vars => IInv'
  BY TypeStep, HomeStep, QuietBefore, LeaseStep DEF IInv

\* The invariant of the leases holds in every reachable state.
LEMMA IInvHolds == Spec => []IInv
  BY IInvInit, IInvStep, PTL DEF Spec

\* Two guarded pushes of one write are pushes of one row.
LEMMA ApartMeansSingleHolder == IInv => SingleHolder
  <1> SUFFICES ASSUME IInv, Quiet, NEW g \in Workers, NEW h \in Workers,
                      Holding(g), Holding(h), item[g].write = item[h].write,
                      item[g].write \notin Deferrable
               PROVE  g = h
    BY DEF SingleHolder
  <1>1. RowsNamed /\ ItemsNamed /\ Apart
    BY HomesAreNames DEF IInv, Quiet
  <1>2. Names(item[g]) /\ Names(item[h]) /\ item[g].id \in Ids /\ item[h].id \in Ids
    BY <1>1 DEF IInv, ItemsNamed, Busy, Holding, TypeOK, Item
  <1>3. item[g].id = item[h].id
    BY <1>1, <1>2 DEF RowsNamed, Names
  <1>4. QED
    BY <1>1, <1>3 DEF Apart, Guarded

\* As long as nobody has dropped a row and the machine has not slept, no write
\* is in two goroutines' hands, however many goroutines, processes, crashes
\* and passes there are.  Writes that wait in the deferred queue are left out.
THEOREM LeaseKeepsApart == Spec => []SingleHolder
  BY IInvHolds, ApartMeansSingleHolder, PTL

-----------------------------------------------------------------------------
(***************************************************************************)
(* What the provider carried out, and what the user was told.  That a send *)
(* goes out once says nothing of the moments before: what is inductive is  *)
(* who may still send it.  A send that may be pushed again, because its    *)
(* row waits and nobody holds it, has not been carried out but for pushes  *)
(* that were cut off; nor has one whose push has not reached the server.   *)
(***************************************************************************)

\* A call that may have carried its write out.
Reached(g) == pc[g] = "answered" /\ outcome[g] \in {"ok", "offline", "deadline"}

Unspent(w) == applied[w] <= lost[w]

\* The push that is under way, and the one that may still come, are the first.
OnceSoFar ==
    /\ \A w \in SingleShot : applied[w] <= 1 + lost[w]
    /\ \A g \in Workers : Holding(g) /\ item[g].write \in SingleShot /\ ~Reached(g)
                              => Unspent(item[g].write)
    /\ \A i \in Ids : rows[i].write \in SingleShot /\ Pending(rows[i]) /\ ~Pushed(rows[i].write)
                              => Unspent(rows[i].write)

\* A write that was told to have failed is in nobody's hands and waits in no row.
Over(w) == ~Pushed(w) /\ \A i \in Ids : rows[i].write = w => ~Pending(rows[i])

FailureStands == \A w \in Writes \ Deferrable : told[w] = "failed" /\ lost[w] = 0 => Over(w)

\* Nothing happens to a write nobody asked for.
UnaskedIdle == \A w \in Writes : told[w] = "unasked" => applied[w] = 0

\* An answer of success is one.
OkCounts == \A g \in Workers :
    pc[g] = "answered" /\ outcome[g] = "ok" => applied[item[g].write] > 0

EInv == /\ IInv /\ UnaskedIdle /\ OkCounts /\ DoneMeansApplied
        /\ Quiet => OnceSoFar /\ FailureStands

\* A step that starts no push keeps the account, if a push it ends leaves its
\* row retired or its send unspent, and a failure it tells is the end.
LEMMA NoneStarts ==
    ASSUME TypeOK, TypeOK', OnceSoFar, FailureStands, UNCHANGED applied,
           \A w \in Writes : lost[w] <= lost'[w],
           \A g \in Workers : Holding(g)' =>
               Holding(g) /\ item'[g] = item[g] /\ pc'[g] = pc[g] /\ outcome'[g] = outcome[g],
           \A i \in Ids : Pending(rows[i])' => Pending(rows[i]) /\ rows'[i].write = rows[i].write,
           \A i \in Ids : /\ Pending(rows[i])' /\ rows[i].write \in SingleShot
                          /\ Pushed(rows[i].write) /\ ~Pushed(rows[i].write)'
                          => applied[rows[i].write] <= lost'[rows[i].write],
           \A w \in Writes \ Deferrable : told'[w] = "failed" /\ lost'[w] = 0 =>
               told[w] = "failed" \/ Over(w)'
    PROVE  OnceSoFar' /\ FailureStands'
  <1> USE WritesAssumption
  <1>t. \A w \in Writes : applied[w] \in Nat /\ lost[w] \in Nat /\ lost'[w] \in Nat
    BY DEF TypeOK
  <1>p. \A w : Pushed(w)' => Pushed(w)
    BY DEF Pushed
  <1>1. (\A w \in SingleShot : applied[w] <= 1 + lost[w])'
    BY <1>t DEF OnceSoFar
  <1>2. (\A g \in Workers : Holding(g) /\ item[g].write \in SingleShot /\ ~Reached(g)
                              => Unspent(item[g].write))'
    <2> SUFFICES ASSUME NEW g \in Workers, Holding(g)', item'[g].write \in SingleShot, ~Reached(g)'
                 PROVE  applied'[item'[g].write] <= lost'[item'[g].write]
      BY DEF Unspent
    <2>1. Holding(g) /\ item'[g] = item[g] /\ ~Reached(g)
      BY DEF Reached
    <2>2. applied[item[g].write] <= lost[item[g].write]
      BY <2>1 DEF OnceSoFar, Unspent
    <2>3. QED
      BY <1>t, <2>1, <2>2
  <1>3. (\A i \in Ids : rows[i].write \in SingleShot /\ Pending(rows[i]) /\ ~Pushed(rows[i].write)
                              => Unspent(rows[i].write))'
    <2> SUFFICES ASSUME NEW i \in Ids, rows'[i].write \in SingleShot, Pending(rows[i])',
                        ~Pushed(rows[i].write)'
                 PROVE  applied'[rows'[i].write] <= lost'[rows'[i].write]
      BY DEF Unspent
    <2>1. Pending(rows[i]) /\ rows'[i].write = rows[i].write
      OBVIOUS
    <2>2. CASE Pushed(rows[i].write)
      <3>1. ~Pushed(rows[i].write)' /\ applied[rows[i].write] <= lost'[rows[i].write]
        BY <2>1, <2>2 DEF Pushed
      <3>2. QED
        BY <2>1, <3>1
    <2>3. CASE ~Pushed(rows[i].write)
      <3>1. applied[rows[i].write] <= lost[rows[i].write]
        BY <2>1, <2>3 DEF OnceSoFar, Unspent
      <3>2. QED
        BY <1>t, <2>1, <3>1
    <2>4. QED
      BY <2>2, <2>3
  <1>4. FailureStands'
    <2> SUFFICES ASSUME NEW w \in Writes \ Deferrable, told'[w] = "failed", lost'[w] = 0
                 PROVE  Over(w)'
      BY DEF FailureStands
    <2>1. CASE told[w] = "failed"
      <3>1. lost[w] = 0
        BY <1>t
      <3>2. Over(w)
        BY <2>1, <3>1 DEF FailureStands
      <3>3. QED
        BY <1>p, <3>2 DEF Over
    <2>2. QED
      BY <2>1
  <1>5. QED
    BY <1>1, <1>2, <1>3, <1>4 DEF OnceSoFar

\* A push that starts keeps the account, if its write is not over and, being a
\* send, unspent.
LEMMA OneStarts ==
    ASSUME TypeOK, TypeOK', OnceSoFar, FailureStands, UNCHANGED <<applied, lost>>,
           NEW x \in Workers, pc'[x] = "calling", ~Holding(x), item'[x].write \in Writes,
           \A g \in Workers : g # x => pc'[g] = pc[g] /\ item'[g] = item[g] /\ outcome'[g] = outcome[g],
           \A i \in Ids : Pending(rows[i])' =>
               \/ Pending(rows[i]) /\ rows'[i].write = rows[i].write
               \/ rows'[i].write = item'[x].write,
           item'[x].write \in SingleShot => Unspent(item'[x].write),
           \A w \in Writes : told'[w] = "failed" => told[w] = "failed",
           item'[x].write \notin Deferrable =>
               told'[item'[x].write] # "failed" \/ lost[item'[x].write] # 0
    PROVE  OnceSoFar' /\ FailureStands'
  <1> DEFINE v == item'[x].write
  <1>p. \A w : Pushed(w)' <=> (w = v \/ Pushed(w))
    <2>1. \A g \in Workers : g # x => (Holding(g)' <=> Holding(g)) /\ item'[g] = item[g]
      BY DEF Holding
    <2>2. Holding(x)' /\ ~Holding(x)
      BY DEF Holding
    <2>3. QED
      BY <2>1, <2>2 DEF Pushed
  <1>1. (\A w \in SingleShot : applied[w] <= 1 + lost[w])'
    BY DEF OnceSoFar
  <1>2. (\A g \in Workers : Holding(g) /\ item[g].write \in SingleShot /\ ~Reached(g)
                              => Unspent(item[g].write))'
    <2> SUFFICES ASSUME NEW g \in Workers, Holding(g)', item'[g].write \in SingleShot, ~Reached(g)'
                 PROVE  applied'[item'[g].write] <= lost'[item'[g].write]
      BY DEF Unspent
    <2>1. CASE g = x
      BY <2>1 DEF Unspent
    <2>2. CASE g # x
      <3>1. Holding(g) /\ item'[g] = item[g] /\ ~Reached(g)
        BY <2>2 DEF Holding, Reached
      <3>2. QED
        BY <3>1 DEF OnceSoFar, Unspent
    <2>3. QED
      BY <2>1, <2>2
  <1>3. (\A i \in Ids : rows[i].write \in SingleShot /\ Pending(rows[i]) /\ ~Pushed(rows[i].write)
                              => Unspent(rows[i].write))'
    <2> SUFFICES ASSUME NEW i \in Ids, rows'[i].write \in SingleShot, Pending(rows[i])',
                        ~Pushed(rows[i].write)'
                 PROVE  applied'[rows'[i].write] <= lost'[rows'[i].write]
      BY DEF Unspent
    <2>1. rows'[i].write # v
      BY <1>p DEF Pushed
    <2>2. Pending(rows[i]) /\ rows'[i].write = rows[i].write
      BY <2>1
    <2>3. ~Pushed(rows[i].write)
      BY <1>p, <2>1, <2>2 DEF Pushed
    <2>4. QED
      BY <2>2, <2>3 DEF OnceSoFar, Unspent
  <1>4. FailureStands'
    <2> SUFFICES ASSUME NEW w \in Writes \ Deferrable, told'[w] = "failed", lost'[w] = 0
                 PROVE  Over(w)'
      BY DEF FailureStands
    <2>1. w # v /\ Over(w)
      BY DEF FailureStands
    <2>2. QED
      BY <1>p, <2>1 DEF Over
  <1>5. QED
    BY <1>1, <1>2, <1>3, <1>4 DEF OnceSoFar

\* What the statements make of the state of a row.
LEMMA StatementsRetire ==
    ASSUME NEW r \in Row
    PROVE  /\ MarkOutboxDone(r).status \in {"absent", "done"}
           /\ MarkOutboxPermanentlyFailed(r).status \in {"absent", "done", "failed"}
           /\ MarkOutboxPermanentlyFailed(r).status = "done" => r.status = "done"
           /\ MarkOutboxFailed(r).status = r.status /\ ReleaseOutbox(r).status = r.status
  BY DEF Row, MarkOutboxDone, MarkOutboxFailed, MarkOutboxPermanentlyFailed, ReleaseOutbox, Present

\* While nothing is dropped and nobody sleeps, every step keeps the account.
LEMMA OnceStep ==
    IInv /\ UnaskedIdle /\ OnceSoFar /\ FailureStands /\ [Next]_vars /\ Quiet'
        => OnceSoFar' /\ FailureStands'
  <1> SUFFICES ASSUME IInv, UnaskedIdle, OnceSoFar, FailureStands, [Next]_vars, Quiet'
               PROVE  OnceSoFar' /\ FailureStands'
    OBVIOUS
  <1> USE WorkersAssumption, WritesAssumption
  <1>a. TypeOK /\ TypeOK' /\ Homed /\ Quiet /\ InsideLease /\ Apart
    BY QuietBefore, TypeStep DEF IInv
  <1>b. ItemsNamed /\ RowsNamed /\ SingleHolder
        /\ \A i \in Ids : rows[i].write \in Writes => told[rows[i].write] # "unasked"
    BY <1>a, HomesAreNames, ApartMeansSingleHolder DEF Quiet
  <1>t. \A w \in Writes : applied[w] \in Nat /\ lost[w] \in Nat /\ lost'[w] \in Nat
    BY <1>a DEF TypeOK
  <1>r. ASSUME NEW i \in Ids PROVE rows[i] \in Row
    BY <1>a DEF TypeOK
  <1>i. ASSUME NEW g \in Workers PROVE item[g] \in Item /\ item[g].id \in Ids
    BY <1>a DEF TypeOK, Item
  <1>w. /\ Callers \subseteq Workers /\ Deferrers \subseteq Workers /\ Passers \subseteq Workers
        /\ \A g \in Workers : ProcOf[g] \in Procs
    BY DEF Workers
  \* Steps that leave the calls alone and retire rows at most.
  <1>s. ASSUME UNCHANGED <<applied, lost, told>>,
               \A g \in Workers : Holding(g)' <=> Holding(g),
               \A g \in Workers : Holding(g) =>
                   item'[g] = item[g] /\ pc'[g] = pc[g] /\ outcome'[g] = outcome[g],
               \A i \in Ids : Pending(rows'[i]) => Pending(rows[i]) /\ rows'[i].write = rows[i].write
        PROVE  OnceSoFar' /\ FailureStands'
    <2>1. \A w : Pushed(w)' <=> Pushed(w)
      BY <1>s DEF Pushed
    <2>2. \A i \in Ids : Pending(rows[i])' => Pending(rows[i]) /\ rows'[i].write = rows[i].write
      BY <1>s DEF Pending
    <2>3. QED
      BY <1>a, <1>s, <1>t, <2>1, <2>2, NoneStarts
  <1>1. ASSUME NEW c \in Callers, NEW w \in Writes, NEW id \in Ids, Apply(c, w, id)
        PROVE  OnceSoFar' /\ FailureStands'
    <2>1. /\ rows[id].status = "absent" /\ told[w] = "unasked" /\ pc[c] = "idle"
          /\ rows'[id] = [status |-> "pending", write |-> w, attempts |-> 0, lease |-> Lease]
          /\ \A i \in Ids : i # id => rows'[i] = rows[i]
          /\ told'[w] = "asked" /\ \A v \in Writes : v # w => told'[v] = told[v]
      BY <1>1, <1>a, EnqueueNames DEF Apply
    <2>2. /\ item'[c].write = w /\ pc'[c] = "calling" /\ c \in Workers
          /\ UNCHANGED <<applied, lost, outcome>>
          /\ \A g \in Workers : g # c => pc'[g] = pc[g] /\ item'[g] = item[g]
      BY <1>1, <1>a, <1>w DEF Apply, StartCall, TypeOK
    <2>3. \A i \in Ids : Pending(rows[i])' =>
              (Pending(rows[i]) /\ rows'[i].write = rows[i].write) \/ rows'[i].write = w
      BY <2>1 DEF Pending
    <2>4. Unspent(w)
      BY <1>t, <2>1 DEF Unspent, UnaskedIdle
    <2>5. ~Holding(c)
      BY <2>1 DEF Holding
    <2>6. QED
      BY <1>a, <2>1, <2>2, <2>3, <2>4, <2>5, OneStarts
  <1>2. ASSUME NEW c \in Callers, NEW w \in Writes, NEW id \in Ids, ApplyLater(c, w, id)
        PROVE  OnceSoFar' /\ FailureStands'
    <2>1. /\ rows[id].status = "absent" /\ told[w] = "unasked" /\ pc[c] = "idle"
          /\ rows'[id] = [status |-> "pending", write |-> w, attempts |-> 0, lease |-> Lease]
          /\ \A i \in Ids : i # id => rows'[i] = rows[i]
          /\ told'[w] = "asked" /\ \A v \in Writes : v # w => told'[v] = told[v]
      BY <1>2, <1>a, EnqueueNames DEF ApplyLater
    <2>2. /\ pc'[c] = "handoff" /\ c \in Workers /\ w \in Deferrable
          /\ UNCHANGED <<applied, lost, outcome>>
          /\ \A g \in Workers : g # c => pc'[g] = pc[g] /\ item'[g] = item[g]
      BY <1>2, <1>a, <1>w DEF ApplyLater, Deferred, TypeOK
    <2>3. \A g \in Workers : /\ Holding(g)' <=> Holding(g)
                             /\ Holding(g) => /\ item'[g] = item[g] /\ pc'[g] = pc[g]
                                              /\ outcome'[g] = outcome[g]
      BY <2>1, <2>2 DEF Holding
    <2>4. \A v : Pushed(v)' <=> Pushed(v)
      BY <2>3 DEF Pushed
    <2>5. w \notin SingleShot
      BY <2>2
    <2>6. OnceSoFar'
      <3>1. (\A g \in Workers : Holding(g) /\ item[g].write \in SingleShot /\ ~Reached(g)
                              => Unspent(item[g].write))'
        BY <2>2, <2>3 DEF OnceSoFar, Reached, Unspent
      <3>2. ASSUME NEW i \in Ids, rows'[i].write \in SingleShot, Pending(rows[i])',
                   ~Pushed(rows[i].write)'
            PROVE  applied'[rows'[i].write] <= lost'[rows'[i].write]
        <4>1. i # id
          BY <2>1, <2>5, <3>2
        <4>2. rows'[i] = rows[i] /\ Pending(rows[i]) /\ ~Pushed(rows[i].write)
          BY <2>1, <2>3, <3>2, <4>1 DEF Pending, Pushed
        <4>3. QED
          BY <2>2, <3>2, <4>2 DEF OnceSoFar, Unspent
      <3>3. (\A v \in SingleShot : applied[v] <= 1 + lost[v])'
        BY <2>2 DEF OnceSoFar
      <3>4. QED
        BY <3>1, <3>2, <3>3 DEF OnceSoFar, Unspent
    <2>7. FailureStands'
      <3> SUFFICES ASSUME NEW v \in Writes \ Deferrable, told'[v] = "failed", lost'[v] = 0
                   PROVE  Over(v)'
        BY DEF FailureStands
      <3>1. v # w /\ Over(v)
        BY <2>1, <2>2 DEF FailureStands
      <3>2. QED
        BY <2>1, <2>4, <3>1 DEF Over, Pending
    <2>8. QED
      BY <2>6, <2>7
  \* What happens when a goroutine ends its call for good or for now.
  <1>e. ASSUME NEW g \in Workers, pc[g] \in Busy, NEW where \in {"idle", "passing"}, Rest(g, where),
               UNCHANGED applied,
               \A w \in Writes : lost[w] <= lost'[w],
               \A i \in Ids : i # item[g].id => rows'[i] = rows[i],
               rows'[item[g].id].write = rows[item[g].id].write,
               Pending(rows'[item[g].id]) => Pending(rows[item[g].id]),
               item[g].write \in SingleShot /\ Pending(rows'[item[g].id]) =>
                   applied[item[g].write] <= lost'[item[g].write],
               \A w \in Writes : w # item[g].write => told'[w] = told[w],
               \/ told'[item[g].write] # "failed"
               \/ told'[item[g].write] = told[item[g].write]
               \/ lost'[item[g].write] # 0
               \/ Holding(g) /\ ~Pending(rows'[item[g].id])
        PROVE  OnceSoFar' /\ FailureStands'
    <2>1. /\ pc'[g] = where /\ ~Holding(g)'
          /\ \A h \in Workers : h # g => pc'[h] = pc[h] /\ item'[h] = item[h] /\ outcome'[h] = outcome[h]
      BY <1>e, <1>a DEF Rest, TypeOK, Holding
    <2>2. \A h \in Workers : Holding(h)' =>
             /\ h # g /\ Holding(h) /\ item'[h] = item[h] /\ pc'[h] = pc[h] /\ outcome'[h] = outcome[h]
      BY <2>1 DEF Holding
    <2>3. Names(item[g]) /\ item[g].id \in Ids
      BY <1>b, <1>e, <1>i DEF ItemsNamed
    <2>4. \A i \in Ids : Pending(rows[i])' => Pending(rows[i]) /\ rows'[i].write = rows[i].write
      BY <1>e DEF Pending
    <2>5. ASSUME NEW i \in Ids, Pending(rows[i])', rows[i].write \in SingleShot,
                 Pushed(rows[i].write), ~Pushed(rows[i].write)'
          PROVE  applied[rows[i].write] <= lost'[rows[i].write]
      <3>1. rows'[i].write = rows[i].write
        BY <2>4, <2>5
      <3>2. PICK h \in Workers : Holding(h) /\ item[h].write = rows[i].write
        BY <2>5 DEF Pushed
      <3>3. h = g
        <4> SUFFICES ASSUME h # g PROVE FALSE
          OBVIOUS
        <4>1. Holding(h)' /\ item'[h].write = rows'[i].write
          BY <2>1, <3>1, <3>2 DEF Holding
        <4>2. QED
          BY <2>5, <4>1 DEF Pushed
      <3>4. i = item[g].id
        BY <1>b, <2>3, <2>5, <3>2, <3>3 DEF RowsNamed, Names
      <3>5. QED
        BY <1>e, <2>5, <3>2, <3>3, <3>4 DEF Pending
    <2>6. ASSUME NEW w \in Writes \ Deferrable, told'[w] = "failed", lost'[w] = 0, told[w] # "failed"
          PROVE  Over(w)'
      <3>1. w = item[g].write /\ Holding(g) /\ ~Pending(rows'[item[g].id])
        BY <1>e, <2>6
      <3>2. \A h \in Workers : ~(Holding(h)' /\ item'[h].write = w)
        BY <1>b, <1>a, <2>2, <3>1 DEF SingleHolder
      <3>3. \A i \in Ids : rows'[i].write = w => ~Pending(rows'[i])
        BY <1>b, <1>e, <2>3, <3>1 DEF RowsNamed, Names
      <3>4. QED
        BY <3>2, <3>3 DEF Over, Pushed, Pending
    <2>7. QED
      BY <1>a, <1>e, <2>2, <2>4, <2>5, <2>6, NoneStarts
  <1>3. ASSUME NEW c \in Callers, HandOff(c) PROVE OnceSoFar' /\ FailureStands'
    <2>1. /\ pc[c] \in Busy /\ Rest(c, "idle") /\ c \in Workers /\ item[c].write \in Deferrable
          /\ UNCHANGED <<applied, lost>>
      BY <1>3, <1>b, <1>w DEF HandOff, ItemsNamed, Busy
    <2>2. rows'[item[c].id] \in {rows[item[c].id], ReleaseOutbox(rows[item[c].id])}
          /\ \A i \in Ids : i # item[c].id => rows'[i] = rows[i]
      BY <1>3, <1>a, <1>i, <2>1 DEF HandOff, TypeOK
    <2>3. /\ rows'[item[c].id].write = rows[item[c].id].write
          /\ rows'[item[c].id].status = rows[item[c].id].status
      BY <1>i, <1>r, <2>1, <2>2, StatementsKeepNames
    <2>4. /\ \A w \in Writes : w # item[c].write => told'[w] = told[w]
          /\ told'[item[c].write] = told[item[c].write] \/ told'[item[c].write] # "failed"
      BY <1>3, <1>a, <2>1 DEF HandOff, TypeOK
    <2>5. QED
      BY <1>e, <1>t, <2>1, <2>2, <2>3, <2>4 DEF Pending
  <1>4. ASSUME NEW d \in Deferrers, Dequeue(d) PROVE OnceSoFar' /\ FailureStands'
    <2> DEFINE p == ProcOf[d]
    <2>1. /\ p \in Procs /\ d \in Workers /\ deferQ[p] \in Seq(Item) /\ deferQ[p] # <<>>
          /\ 1 \in 1..Len(deferQ[p]) /\ Head(deferQ[p]) = deferQ[p][1] /\ pc[d] = "idle"
      BY <1>4, <1>a, <1>w DEF Dequeue, TypeOK
    <2>2. UNCHANGED <<rows, told, applied, lost, outcome>>
      BY <1>4 DEF Dequeue, history
    <2>3. /\ item'[d] = deferQ[p][1] /\ pc'[d] = "calling"
          /\ \A g \in Workers : g # d => pc'[g] = pc[g] /\ item'[g] = item[g]
      BY <1>4, <1>a, <2>1 DEF Dequeue, StartCall, TypeOK
    <2>4. item'[d].write \in Deferrable
      BY <1>b, <2>1, <2>3 DEF ItemsNamed
    <2>5. item'[d].write \in Writes /\ item'[d].write \notin SingleShot
      BY <2>4
    <2>6. ~Holding(d)
      BY <2>1 DEF Holding
    <2>7. QED
      BY <1>a, <2>1, <2>2, <2>3, <2>4, <2>5, <2>6, OneStarts DEF Pending
  <1>5. ASSUME NEW g \in Workers, NEW o \in Outcomes, Answer(g, o) PROVE OnceSoFar' /\ FailureStands'
    <2> DEFINE v == item[g].write
    <2>1. /\ UNCHANGED <<rows, told, lost, item>>
          /\ pc[g] = "calling" /\ pc'[g] = "answered" /\ outcome'[g] = o
          /\ \A h \in Workers : h # g => pc'[h] = pc[h] /\ outcome'[h] = outcome[h]
      BY <1>5, <1>a DEF Answer, TypeOK
    <2>2. \A h \in Workers : Holding(h)' <=> Holding(h)
      BY <2>1 DEF Holding
    <2>3. Holding(g) /\ ~Reached(g) /\ v \in Writes
      BY <1>b, <2>1 DEF Holding, Reached, ItemsNamed, Names, Busy
    <2>4. PICK n \in {0, 1} :
             /\ applied' = [applied EXCEPT ![v] = @ + n]
             /\ n = 1 => o \in {"ok", "offline", "deadline"}
      <3> DEFINE S == CASE o = "ok" -> {1}
                        [] o \in {"offline", "deadline"} -> {0, 1}
                        [] OTHER -> {0}
      <3>1. S \subseteq {0, 1} /\ (1 \in S => o \in {"ok", "offline", "deadline"})
        OBVIOUS
      <3>2. \E n \in S : applied' = [applied EXCEPT ![v] = @ + n]
        BY <1>5 DEF Answer
      <3> HIDE DEF S, v
      <3>3. QED
        BY <3>1, <3>2
    <2>n. n = 0 \/ n = 1
      OBVIOUS
    <2>5. applied'[v] = applied[v] + n /\ \A w \in Writes : w # v => applied'[w] = applied[w]
      <3> HIDE DEF v
      <3>1. applied' = [applied EXCEPT ![v] = applied[v] + n]
        BY <2>4
      <3>2. applied \in [Writes -> Nat]
        BY <1>a DEF TypeOK
      <3>3. QED
        BY <2>3, <3>1, <3>2
    <2>6. v \in SingleShot => applied[v] <= lost[v]
      BY <2>3 DEF OnceSoFar, Unspent
    <2>7. (\A w \in SingleShot : applied[w] <= 1 + lost[w])'
      BY <1>t, <2>1, <2>5, <2>6 DEF OnceSoFar
    <2>8. ASSUME NEW h \in Workers, Holding(h)', item'[h].write \in SingleShot, ~Reached(h)'
          PROVE  applied'[item'[h].write] <= lost'[item'[h].write]
      <3>1. CASE h = g
        <4>1. n = 0
          <5>1. o \notin {"ok", "offline", "deadline"}
            BY <2>1, <2>8, <3>1 DEF Reached
          <5>2. QED
            BY <2>4, <2>n, <5>1
        <4>2. QED
          BY <1>t, <2>1, <2>5, <2>6, <2>8, <3>1, <4>1
      <3>2. CASE h # g
        <4>1. Holding(h) /\ ~Reached(h) /\ item[h].write \in SingleShot
          BY <2>1, <2>2, <2>8, <3>2 DEF Reached
        <4>2. item[h].write # v
          BY <1>a, <1>b, <2>3, <3>2, <4>1 DEF SingleHolder
        <4>3. QED
          BY <2>1, <2>5, <4>1, <4>2 DEF OnceSoFar, Unspent
      <3>3. QED
        BY <3>1, <3>2
    <2>9. ASSUME NEW i \in Ids, rows'[i].write \in SingleShot, Pending(rows[i])', ~Pushed(rows[i].write)'
          PROVE  applied'[rows'[i].write] <= lost'[rows'[i].write]
      <3>1. rows'[i] = rows[i] /\ Pending(rows[i]) /\ ~Pushed(rows[i].write)
        BY <2>1, <2>2, <2>9 DEF Pushed, Pending
      <3>2. rows[i].write # v
        BY <2>3, <3>1 DEF Pushed
      <3>3. QED
        BY <2>1, <2>5, <2>9, <3>1, <3>2 DEF OnceSoFar, Unspent
    <2>10. FailureStands'
      BY <2>1, <2>2 DEF FailureStands, Over, Pushed, Pending
    <2>11. QED
      BY <2>7, <2>8, <2>9, <2>10 DEF OnceSoFar, Unspent
  \* The row of a push that is under way is there.
  <1>h. ASSUME NEW g \in Workers, pc[g] = "answered"
        PROVE  /\ Present(rows[item[g].id]) /\ pc[g] \in Busy /\ Holding(g)
               /\ item[g].write \in SingleShot /\ ~Reached(g) => applied[item[g].write] <= lost[item[g].write]
    BY <1>b, <1>h, <1>i DEF ItemsNamed, RowsNamed, Names, Present, Busy, Holding, OnceSoFar, Unspent
  \* What a statement does to the one row it is about.
  <1>m. ASSUME NEW i \in Ids, NEW q,
               q \in {MarkOutboxDone(rows[i]), MarkOutboxFailed(rows[i]),
                     MarkOutboxPermanentlyFailed(rows[i])},
               rows' = [rows EXCEPT ![i] = q]
        PROVE  /\ rows'[i] = q /\ q.write = rows[i].write
               /\ Pending(q) => Pending(rows[i]) /\ q = MarkOutboxFailed(rows[i])
               /\ \A j \in Ids : j # i => rows'[j] = rows[j]
    <2>1. rows'[i] = q /\ \A j \in Ids : j # i => rows'[j] = rows[j]
      BY <1>a, <1>m DEF TypeOK
    <2>2. q.write = rows[i].write
      BY <1>m, <1>r, StatementsKeepNames
    <2>3. Pending(q) => Pending(rows[i]) /\ q = MarkOutboxFailed(rows[i])
      BY <1>m, <1>r, StatementsRetire DEF Pending
    <2>4. QED
      BY <2>1, <2>2, <2>3
  <1>6. ASSUME NEW g \in Workers, Settle(g) PROVE OnceSoFar' /\ FailureStands'
    <2> DEFINE i == item[g].id
               r == rows[i]
               o == outcome[g]
    <2>1. /\ pc[g] = "answered" /\ Rest(g, "idle") /\ UNCHANGED <<applied, lost>>
          /\ i \in Ids /\ r \in Row
      BY <1>6, <1>i, <1>r DEF Settle
    <2>2. /\ Present(r) /\ pc[g] \in Busy /\ Holding(g)
          /\ item[g].write \in SingleShot /\ ~Reached(g) => applied[item[g].write] <= lost[item[g].write]
      BY <1>h, <2>1
    <2>3. PICK q, t :
             /\ q \in {MarkOutboxDone(r), MarkOutboxFailed(r), MarkOutboxPermanentlyFailed(r)}
             /\ rows' = [rows EXCEPT ![i] = q] /\ told' = [told EXCEPT ![item[g].write] = t]
             /\ \/ q = MarkOutboxDone(r) /\ t = "done"
                \/ q = MarkOutboxFailed(r) /\ t = "queued" /\ Retryable(item[g].write, o)
                \/ q = MarkOutboxPermanentlyFailed(r) /\ t = "failed"
      BY <1>6, <2>2 DEF Settle
    <2>m. /\ rows'[i] = q /\ q.write = r.write /\ (Pending(q) => Pending(r))
          /\ \A j \in Ids : j # i => rows'[j] = rows[j]
      BY <1>m, <2>1, <2>3
    <2>q. Pending(q) => t = "queued" /\ Retryable(item[g].write, o)
      BY <2>1, <2>3, StatementsRetire DEF Pending
    <2>4. /\ rows'[i].write = r.write /\ (Pending(rows'[i]) => Pending(r) /\ Retryable(item[g].write, o))
          /\ \A j \in Ids : j # i => rows'[j] = rows[j]
      BY <2>m, <2>q
    <2>5. item[g].write \in SingleShot /\ Pending(rows'[i]) => applied[item[g].write] <= lost'[item[g].write]
      BY <2>1, <2>2, <2>4 DEF Retryable, Reached
    <2>6. /\ \A w \in Writes : w # item[g].write => told'[w] = told[w]
          /\ told'[item[g].write] # "failed" \/ ~Pending(rows'[i])
      <3>1. item[g].write \in Writes
        BY <1>b, <2>2 DEF ItemsNamed, Names
      <3>2. \A w \in Writes : w # item[g].write => told'[w] = told[w]
        BY <1>a, <2>3 DEF TypeOK
      <3>3. told'[item[g].write] = t
        BY <1>a, <2>3, <3>1 DEF TypeOK
      <3>4. QED
        BY <2>m, <2>q, <3>2, <3>3
    <2>7. \A w \in Writes : lost[w] <= lost'[w]
      BY <1>t, <2>1
    <2>8. QED
      BY <1>e, <2>1, <2>2, <2>4, <2>5, <2>6, <2>7
  <1>7. ASSUME NEW g \in Workers, SettleUnderDeadContext(g) PROVE OnceSoFar' /\ FailureStands'
    <2>1. pc[g] = "answered" /\ Rest(g, "idle") /\ UNCHANGED <<rows, applied>>
      BY <1>7 DEF SettleUnderDeadContext
    <2>2. pc[g] \in Busy /\ item[g].write \in Writes
      BY <1>b, <1>h, <2>1 DEF ItemsNamed, Names
    <2>3. /\ lost'[item[g].write] = lost[item[g].write] + 1
          /\ \A w \in Writes : w # item[g].write => lost'[w] = lost[w] /\ told'[w] = told[w]
      BY <1>7, <1>a, <2>2 DEF SettleUnderDeadContext, TypeOK
    <2>4. item[g].write \in SingleShot => applied[item[g].write] <= lost'[item[g].write]
      BY <1>t, <2>3 DEF OnceSoFar
    <2>5. \A w \in Writes : lost[w] <= lost'[w]
      BY <1>t, <2>2, <2>3
    <2>6. lost'[item[g].write] # 0
      BY <1>t, <2>2, <2>3
    <2>7. QED
      BY <1>e, <2>1, <2>2, <2>3, <2>4, <2>5, <2>6
  <1>8. ASSUME NEW g \in Passers, StartPass(g) PROVE OnceSoFar' /\ FailureStands'
    <2>1. /\ UNCHANGED <<rows, item, outcome, applied, lost, told>>
          /\ pc[g] = "idle" /\ pc'[g] = "passing"
          /\ \A h \in Workers : h # g => pc'[h] = pc[h]
      BY <1>8, <1>a, <1>w DEF StartPass, history, TypeOK
    <2>2. QED
      BY <1>s, <2>1 DEF Holding
  <1>9. ASSUME NEW g \in Passers, NEW it \in todo[g], GiveUp(g, it) PROVE OnceSoFar' /\ FailureStands'
    <2>1. it.id \in Ids
      BY <1>9, <1>a DEF GiveUp, Look, TypeOK, Item
    <2>2. /\ UNCHANGED <<pc, item, outcome, applied, lost, told>>
          /\ rows' = [rows EXCEPT ![it.id] = MarkOutboxPermanentlyFailed(@)]
      BY <1>9 DEF GiveUp, pushVars, history
    <2> DEFINE q == MarkOutboxPermanentlyFailed(rows[it.id])
    <2>m. /\ rows'[it.id] = q /\ q.write = rows[it.id].write
          /\ Pending(q) => Pending(rows[it.id])
          /\ \A j \in Ids : j # it.id => rows'[j] = rows[j]
      <3>1. rows' = [rows EXCEPT ![it.id] = q]
        BY <2>2
      <3> HIDE DEF q
      <3>2. q = MarkOutboxPermanentlyFailed(rows[it.id])
        BY DEF q
      <3>3. QED
        BY <1>m, <2>1, <3>1, <3>2
    <2>3. \A i \in Ids : Pending(rows'[i]) => Pending(rows[i]) /\ rows'[i].write = rows[i].write
      <3> HIDE DEF q
      <3>1. QED
        BY <2>m
    <2>4. QED
      BY <1>s, <2>2, <2>3 DEF Holding
  <1>10. ASSUME NEW g \in Passers, NEW it \in todo[g], Skip(g, it) PROVE OnceSoFar' /\ FailureStands'
    <2>1. UNCHANGED <<rows, pc, item, outcome, applied, lost, told>>
      BY <1>10 DEF Skip, pushVars, history
    <2>2. QED
      BY <1>s, <2>1 DEF Holding
  <1>11. ASSUME NEW g \in Passers, NEW it \in todo[g], Claim(g, it) PROVE OnceSoFar' /\ FailureStands'
    <2>1. /\ it.id \in Ids /\ Names(it) /\ g \in Workers /\ pc[g] = "passing"
      BY <1>11, <1>a, <1>b, <1>w DEF Claim, Look, TypeOK, Item, ItemsNamed
    <2>2. /\ Pending(rows[it.id]) /\ rows[it.id].lease = 0
          /\ rows' = [rows EXCEPT ![it.id] = LeaseOutbox(@)]
          /\ UNCHANGED <<outcome, applied, told, lost>>
      BY <1>11 DEF Claim, Leasable, history
    <2>3. /\ item'[g] = it /\ pc'[g] = "calling"
          /\ \A h \in Workers : h # g => pc'[h] = pc[h] /\ item'[h] = item[h]
      BY <1>11, <1>a, <2>1 DEF Claim, StartCall, TypeOK
    <2>4. \A i \in Ids : Pending(rows[i])' => Pending(rows[i]) /\ rows'[i].write = rows[i].write
      BY <1>a, <1>r, <2>1, <2>2, StatementsKeepNames DEF TypeOK, Pending
    <2>5. it.write \notin Deferrable => ~Pushed(it.write)
      <3> SUFFICES ASSUME it.write \notin Deferrable, NEW h \in Workers, Holding(h),
                          item[h].write = it.write
                   PROVE  FALSE
        BY DEF Pushed
      <3>1. item[h].id = it.id
        BY <1>b, <1>i, <2>1 DEF ItemsNamed, RowsNamed, Names, Holding, Busy
      <3>2. rows[it.id].lease > 0
        BY <1>a, <3>1 DEF InsideLease, Guarded
      <3>3. QED
        BY <2>2, <3>2
    <2>6. it.write \in SingleShot => Unspent(it.write)
      BY <2>1, <2>2, <2>5 DEF OnceSoFar, Names
    <2>7. it.write \notin Deferrable => told[it.write] # "failed" \/ lost[it.write] # 0
      BY <2>1, <2>2 DEF FailureStands, Over, Names
    <2>8. ~Holding(g) /\ it.write \in Writes
      BY <2>1 DEF Holding, Names
    <2>9. QED
      BY <1>a, <2>1, <2>2, <2>3, <2>4, <2>6, <2>7, <2>8, OneStarts
  <1>12. ASSUME NEW g \in Passers, SettlePass(g) PROVE OnceSoFar' /\ FailureStands'
    <2> DEFINE i == item[g].id
               r == rows[i]
               o == outcome[g]
    <2>1. /\ g \in Workers /\ pc[g] = "answered" /\ Rest(g, "passing")
          /\ UNCHANGED <<applied, lost, told>> /\ i \in Ids /\ r \in Row
      BY <1>12, <1>i, <1>r, <1>w DEF SettlePass, history
    <2>2. /\ pc[g] \in Busy
          /\ item[g].write \in SingleShot /\ ~Reached(g) => applied[item[g].write] <= lost[item[g].write]
      BY <1>h, <2>1
    <2>3. PICK q \in {MarkOutboxDone(r), MarkOutboxFailed(r), MarkOutboxPermanentlyFailed(r)} :
             /\ rows' = [rows EXCEPT ![i] = q]
             /\ \/ q = MarkOutboxDone(r)
                \/ Retryable(item[g].write, o)
                \/ q = MarkOutboxPermanentlyFailed(r)
      BY <1>12 DEF SettlePass
    <2>m. /\ rows'[i] = q /\ q.write = r.write /\ (Pending(q) => Pending(r))
          /\ \A j \in Ids : j # i => rows'[j] = rows[j]
      BY <1>m, <2>1, <2>3
    <2>q. Pending(q) => Retryable(item[g].write, o)
      BY <2>1, <2>3, StatementsRetire DEF Pending
    <2>4. /\ rows'[i].write = r.write /\ (Pending(rows'[i]) => Pending(r) /\ Retryable(item[g].write, o))
          /\ \A j \in Ids : j # i => rows'[j] = rows[j]
      BY <2>m, <2>q
    <2>5. item[g].write \in SingleShot /\ Pending(rows'[i]) => applied[item[g].write] <= lost'[item[g].write]
      BY <2>1, <2>2, <2>4 DEF Retryable, Reached
    <2>6. \A w \in Writes : lost[w] <= lost'[w]
      BY <1>t, <2>1
    <2>7. QED
      BY <1>e, <2>1, <2>2, <2>4, <2>5, <2>6
  <1>13. ASSUME NEW g \in Passers, EndPass(g) PROVE OnceSoFar' /\ FailureStands'
    <2>1. /\ UNCHANGED <<rows, applied, told, lost>> /\ g \in Workers /\ pc[g] = "passing" /\ Rest(g, "idle")
      BY <1>13, <1>w DEF EndPass, history
    <2>2. /\ pc'[g] = "idle"
          /\ \A h \in Workers : h # g => pc'[h] = pc[h] /\ item'[h] = item[h] /\ outcome'[h] = outcome[h]
      BY <1>a, <2>1 DEF Rest, TypeOK
    <2>3. QED
      BY <1>s, <2>1, <2>2 DEF Holding
  <1>14. ASSUME Tick PROVE OnceSoFar' /\ FailureStands'
    <2> DEFINE l == [i \in Ids |-> Less(rows[i].lease)]
    <2>1. UNCHANGED <<pc, item, outcome, applied, told, lost>>
      BY <1>14 DEF Tick, history
    <2>2. \A i \in Ids : rows'[i] = [rows[i] EXCEPT !.lease = l[i]]
      BY <1>14 DEF Tick
    <2>3. \A i \in Ids : rows'[i].status = rows[i].status /\ rows'[i].write = rows[i].write
      BY <1>a, <2>2, LeaseKeepsNames DEF SameNames
    <2>4. QED
      BY <1>s, <2>1, <2>3 DEF Holding, Pending
  <1>15. ASSUME NEW p \in Procs, Crash(p) PROVE OnceSoFar' /\ FailureStands'
    <2> DEFINE mine == {g \in Workers : ProcOf[g] = p}
               cut == {w \in Writes : \E g \in mine : Holding(g) /\ item[g].write = w}
    <2>1. /\ UNCHANGED <<rows, applied, told>>
          /\ lost' = [w \in Writes |-> IF w \in cut THEN lost[w] + 1 ELSE lost[w]]
      BY <1>15 DEF Crash
    <2>2. \A g \in Workers : Holding(g)' => /\ Holding(g) /\ item'[g] = item[g]
                                            /\ pc'[g] = pc[g] /\ outcome'[g] = outcome[g]
      BY <1>15 DEF Crash, Holding
    <2>3. \A g \in Workers \ mine : /\ Holding(g)' <=> Holding(g)
                                    /\ item'[g] = item[g]
      BY <1>15 DEF Crash, Holding
    <2>4. \A w \in Writes : Pushed(w) /\ ~Pushed(w)' => w \in cut
      BY <2>3 DEF Pushed
    <2>5. ASSUME NEW i \in Ids, Pending(rows[i])', rows[i].write \in SingleShot,
                 Pushed(rows[i].write), ~Pushed(rows[i].write)'
          PROVE  applied[rows[i].write] <= lost'[rows[i].write]
      <3>1. rows'[i] = rows[i] /\ rows[i].write \in Writes
        BY <2>1, <2>5
      <3>2. ~Pushed(rows[i].write)' => ~(\E g \in Workers : Holding(g)' /\ item'[g].write = rows[i].write)
        BY <3>1 DEF Pushed
      <3>3. rows[i].write \in cut
        BY <2>3, <2>5, <3>1, <3>2 DEF Pushed
      <3>4. QED
        BY <1>t, <2>1, <2>5, <3>1, <3>3 DEF OnceSoFar
    <2>6. \A w \in Writes : lost[w] <= lost'[w]
      BY <1>t, <2>1
    <2>7. QED
      BY <1>a, <2>1, <2>2, <2>5, <2>6, NoneStarts DEF Pending
  <1>16. ~Suspend /\ \A id \in Ids : ~DropOutbox(id)
    <2>1. suspends \in Nat /\ drops \in Nat
      BY <1>a, BoundsAssumption DEF TypeOK
    <2>2. suspends' # suspends + 1 /\ drops' # drops + 1
      BY <2>1 DEF Quiet
    <2>3. QED
      BY <2>2 DEF Suspend, DropOutbox
  <1>17. CASE UNCHANGED vars
    BY <1>s, <1>17 DEF vars, Holding
  <1>18. QED
    BY <1>1, <1>2, <1>3, <1>4, <1>5, <1>6, <1>7, <1>8, <1>9, <1>10, <1>11, <1>12,
       <1>13, <1>14, <1>15, <1>16, <1>17
    DEF Next, Ask, System, Push, Pass, Faults

\* Only success retires a row as done, and a success was carried out: no step
\* makes a row, an answer or an unasked write say what did not happen.
LEMMA CountsStep ==
    ASSUME TypeOK, TypeOK', Homed, UnaskedIdle, OkCounts, DoneMeansApplied, [Next]_vars
    PROVE  UnaskedIdle' /\ OkCounts' /\ DoneMeansApplied'
  <1> USE WorkersAssumption, WritesAssumption
  <1>r. ASSUME NEW i \in Ids PROVE rows[i] \in Row
    BY DEF TypeOK
  <1>i. ASSUME NEW g \in Workers PROVE item[g] \in Item /\ item[g].id \in Ids
    BY DEF TypeOK, Item
  <1>w. /\ Callers \subseteq Workers /\ Deferrers \subseteq Workers /\ Passers \subseteq Workers
        /\ \A g \in Workers : ProcOf[g] \in Procs
    BY DEF Workers
  <1>b. \A g \in Workers : pc[g] \in Busy => item[g].write \in Writes /\ told[item[g].write] # "unasked"
    BY BusyAsked
  <1>n. drops = 0 => ItemsNamed
    BY HomesAreNames
  <1>q. ASSUME UNCHANGED applied,
               \A w \in Writes : told'[w] = "unasked" => told[w] = "unasked",
               \A g \in Workers : pc'[g] = "answered" =>
                   pc[g] = "answered" /\ outcome'[g] = outcome[g] /\ item'[g] = item[g],
               drops' = 0 => /\ drops = 0
                             /\ \A i \in Ids : rows'[i].status = "done" =>
                                   \/ rows[i].status = "done" /\ rows'[i].write = rows[i].write
                                   \/ applied[rows'[i].write] > 0
        PROVE  UnaskedIdle' /\ OkCounts' /\ DoneMeansApplied'
    <2>1. UnaskedIdle'
      BY <1>q DEF UnaskedIdle
    <2>2. OkCounts'
      BY <1>q DEF OkCounts
    <2>3. DoneMeansApplied'
      BY <1>q DEF DoneMeansApplied
    <2>4. QED
      BY <2>1, <2>2, <2>3
  <1>s. ASSUME NEW r \in Row
        PROVE  /\ MarkOutboxFailed(r).status = r.status
               /\ MarkOutboxPermanentlyFailed(r).status = "done" => r.status = "done"
               /\ LeaseOutbox(r).status = r.status /\ ReleaseOutbox(r).status = r.status
    BY DEF Row, MarkOutboxFailed, MarkOutboxPermanentlyFailed, LeaseOutbox, ReleaseOutbox
  \* A statement on one row that does not say done.
  <1>o. ASSUME NEW i \in Ids, NEW q, rows' = [rows EXCEPT ![i] = q], q.write = rows[i].write,
               q.status = "done" => rows[i].status = "done" \/ applied[q.write] > 0
        PROVE  \A j \in Ids : rows'[j].status = "done" =>
                  \/ rows[j].status = "done" /\ rows'[j].write = rows[j].write
                  \/ applied[rows'[j].write] > 0
    <2>1. rows'[i] = q /\ \A j \in Ids : j # i => rows'[j] = rows[j]
      BY <1>o DEF TypeOK
    <2> SUFFICES ASSUME NEW j \in Ids, rows'[j].status = "done"
                 PROVE  \/ rows[j].status = "done" /\ rows'[j].write = rows[j].write
                        \/ applied[rows'[j].write] > 0
      OBVIOUS
    <2>2. CASE j = i
      BY <1>o, <2>1, <2>2
    <2>3. CASE j # i
      BY <2>1, <2>3
    <2>4. QED
      BY <2>2, <2>3
  <1>e. ASSUME NEW c \in Callers, NEW w \in Writes, NEW id \in Ids, Enqueue(c, w, id),
               UNCHANGED <<applied, drops>>,
               \A g \in Workers : pc'[g] = "answered" =>
                   pc[g] = "answered" /\ outcome'[g] = outcome[g] /\ item'[g] = item[g]
        PROVE  UnaskedIdle' /\ OkCounts' /\ DoneMeansApplied'
    <2>0. Enqueue(c, w, id)
      BY <1>e
    <2>1. /\ rows'[id] = [status |-> "pending", write |-> w, attempts |-> 0, lease |-> Lease]
          /\ \A i \in Ids : i # id => rows'[i] = rows[i]
          /\ told'[w] = "asked" /\ \A v \in Writes : v # w => told'[v] = told[v]
      BY <2>0, EnqueueNames
    <2>2. \A i \in Ids : rows'[i].status = "done" => rows[i].status = "done" /\ rows'[i].write = rows[i].write
      BY <2>1
    <2>3. \A v \in Writes : told'[v] = "unasked" => told[v] = "unasked"
      BY <2>1
    <2>4. QED
      BY <1>e, <1>q, <2>2, <2>3
  <1>1. ASSUME NEW c \in Callers, NEW w \in Writes, NEW id \in Ids, Apply(c, w, id)
        PROVE  UnaskedIdle' /\ OkCounts' /\ DoneMeansApplied'
    <2>1. Enqueue(c, w, id) /\ UNCHANGED <<outcome, applied, drops>> /\ c \in Workers
      BY <1>1, <1>w DEF Apply, bounds
    <2>2. /\ pc'[c] = "calling"
          /\ \A g \in Workers : g # c => pc'[g] = pc[g] /\ item'[g] = item[g]
      BY <1>1, <2>1 DEF Apply, StartCall, TypeOK
    <2>3. QED
      BY <1>e, <2>1, <2>2
  <1>2. ASSUME NEW c \in Callers, NEW w \in Writes, NEW id \in Ids, ApplyLater(c, w, id)
        PROVE  UnaskedIdle' /\ OkCounts' /\ DoneMeansApplied'
    <2>1. Enqueue(c, w, id) /\ UNCHANGED <<outcome, applied, drops>> /\ c \in Workers
      BY <1>2, <1>w DEF ApplyLater, bounds
    <2>2. /\ pc'[c] = "handoff"
          /\ \A g \in Workers : g # c => pc'[g] = pc[g] /\ item'[g] = item[g]
      BY <1>2, <2>1 DEF ApplyLater, TypeOK
    <2>3. QED
      BY <1>e, <2>1, <2>2
  <1>f. ASSUME NEW g \in Workers, pc[g] \in Busy \cup {"passing"},
               NEW where \in {"idle", "passing"}, Rest(g, where), UNCHANGED <<applied, drops>>,
               \/ told' = told
               \/ /\ pc[g] \in Busy
                  /\ \E t \in Tellings \ {"unasked"} : told' = [told EXCEPT ![item[g].write] = t],
               drops = 0 => \A i \in Ids : rows'[i].status = "done" =>
                                \/ rows[i].status = "done" /\ rows'[i].write = rows[i].write
                                \/ applied[rows'[i].write] > 0
        PROVE  UnaskedIdle' /\ OkCounts' /\ DoneMeansApplied'
    <2>1. \A h \in Workers : pc'[h] = "answered" =>
             pc[h] = "answered" /\ outcome'[h] = outcome[h] /\ item'[h] = item[h]
      BY <1>f DEF Rest, TypeOK
    <2>2. \A w \in Writes : told'[w] = "unasked" => told[w] = "unasked"
      BY <1>b, <1>f DEF TypeOK
    <2>3. QED
      BY <1>f, <1>q, <2>1, <2>2
  <1>t. "done" \in Tellings \ {"unasked"} /\ "queued" \in Tellings \ {"unasked"}
        /\ "failed" \in Tellings \ {"unasked"}
    BY DEF Tellings
  <1>3. ASSUME NEW c \in Callers, HandOff(c) PROVE UnaskedIdle' /\ OkCounts' /\ DoneMeansApplied'
    <2>1. pc[c] \in Busy /\ Rest(c, "idle") /\ c \in Workers /\ UNCHANGED <<applied, drops>>
      BY <1>3, <1>w DEF HandOff, Busy, bounds
    <2>2. CASE UNCHANGED <<rows, told>>
      BY <1>f, <2>1, <2>2
    <2>3. CASE /\ rows' = [rows EXCEPT ![item[c].id] = ReleaseOutbox(rows[item[c].id])]
               /\ told' = [told EXCEPT ![item[c].write] = "queued"]
      <3>1. \A i \in Ids : rows'[i].status = "done" =>
                \/ rows[i].status = "done" /\ rows'[i].write = rows[i].write
                \/ applied[rows'[i].write] > 0
        BY <1>i, <1>o, <1>r, <1>s, <2>1, <2>3, StatementsKeepNames
      <3>2. QED
        BY <1>f, <1>t, <2>1, <2>3, <3>1
    <2>4. QED
      BY <1>3, <2>2, <2>3 DEF HandOff
  <1>4. ASSUME NEW d \in Deferrers, Dequeue(d) PROVE UnaskedIdle' /\ OkCounts' /\ DoneMeansApplied'
    <2>1. /\ UNCHANGED <<rows, told, applied, outcome, drops>> /\ d \in Workers
          /\ pc'[d] = "calling" /\ \A g \in Workers : g # d => pc'[g] = pc[g] /\ item'[g] = item[g]
      BY <1>4, <1>w DEF Dequeue, StartCall, TypeOK, history, bounds
    <2>2. QED
      BY <1>q, <2>1
  <1>5. ASSUME NEW g \in Workers, NEW o \in Outcomes, Answer(g, o)
        PROVE  UnaskedIdle' /\ OkCounts' /\ DoneMeansApplied'
    <2> DEFINE v == item[g].write
    <2>1. /\ UNCHANGED <<rows, told, item, drops>>
          /\ pc[g] = "calling" /\ pc'[g] = "answered" /\ outcome'[g] = o
          /\ \A h \in Workers : h # g => pc'[h] = pc[h] /\ outcome'[h] = outcome[h]
      BY <1>5 DEF Answer, TypeOK, bounds
    <2>2. v \in Writes /\ told[v] # "unasked"
      BY <1>b, <2>1 DEF Busy
    <2>3. PICK n \in {0, 1} :
             /\ applied' = [applied EXCEPT ![v] = @ + n]
             /\ o = "ok" => n = 1
      <3> DEFINE S == CASE o = "ok" -> {1}
                        [] o \in {"offline", "deadline"} -> {0, 1}
                        [] OTHER -> {0}
      <3>1. S \subseteq {0, 1} /\ (0 \in S => o # "ok")
        OBVIOUS
      <3>2. \E n \in S : applied' = [applied EXCEPT ![v] = @ + n]
        BY <1>5 DEF Answer
      <3> HIDE DEF S, v
      <3>3. QED
        BY <3>1, <3>2
    <2> HIDE DEF v
    <2>4. applied \in [Writes -> Nat]
      BY DEF TypeOK
    <2>5. /\ applied'[v] = applied[v] + n /\ applied[v] \in Nat
          /\ \A w \in Writes : applied'[w] \in Nat /\ applied[w] <= applied'[w]
          /\ \A w \in Writes : w # v => applied'[w] = applied[w]
      BY <2>2, <2>3, <2>4
    <2>6. UnaskedIdle'
      BY <2>1, <2>2, <2>5 DEF UnaskedIdle
    <2>7. OkCounts'
      <3> SUFFICES ASSUME NEW h \in Workers, pc'[h] = "answered", outcome'[h] = "ok"
                   PROVE  applied'[item[h].write] > 0
        BY <2>1 DEF OkCounts
      <3>1. CASE h = g
        BY <2>1, <2>3, <2>5, <3>1 DEF v
      <3>2. CASE h # g
        <4>1. applied[item[h].write] > 0 /\ item[h].write \in Writes
          BY <1>b, <2>1, <3>2 DEF OkCounts, Busy
        <4>2. QED
          BY <2>4, <2>5, <4>1
      <3>3. QED
        BY <3>1, <3>2
    <2>8. DoneMeansApplied'
      <3> SUFFICES ASSUME drops = 0, NEW i \in Ids, rows[i].status = "done"
                   PROVE  applied'[rows[i].write] > 0
        BY <2>1 DEF DoneMeansApplied
      <3>1. applied[rows[i].write] > 0 /\ rows[i].write \in Writes
        BY DEF DoneMeansApplied, Homed, RowsAtHome
      <3>2. QED
        BY <2>4, <2>5, <3>1
    <2>9. QED
      BY <2>6, <2>7, <2>8
  \* What push and the pass record of an answer.
  <1>a. ASSUME NEW g \in Workers, pc[g] = "answered",
               NEW q \in {MarkOutboxDone(rows[item[g].id]), MarkOutboxFailed(rows[item[g].id]),
                          MarkOutboxPermanentlyFailed(rows[item[g].id])},
               rows' = [rows EXCEPT ![item[g].id] = q],
               q = MarkOutboxDone(rows[item[g].id]) => outcome[g] = "ok" \/ q.status # "done"
                                                       \/ rows[item[g].id].status = "done",
               drops = 0
        PROVE  \A i \in Ids : rows'[i].status = "done" =>
                   \/ rows[i].status = "done" /\ rows'[i].write = rows[i].write
                   \/ applied[rows'[i].write] > 0
    <2> DEFINE i == item[g].id
               r == rows[i]
    <2>1. i \in Ids /\ r \in Row /\ q.write = r.write
      BY <1>a, <1>i, <1>r, StatementsKeepNames
    <2>2. outcome[g] = "ok" => applied[r.write] > 0
      BY <1>a, <1>n DEF ItemsNamed, Names, OkCounts, Busy
    <2>3. q.status = "done" => r.status = "done" \/ applied[q.write] > 0
      BY <1>a, <1>s, <2>1, <2>2
    <2> HIDE DEF i
    <2>4. rows' = [rows EXCEPT ![i] = q]
      BY <1>a DEF i
    <2>5. QED
      BY <1>o, <2>1, <2>3, <2>4
  <1>6. ASSUME NEW g \in Workers, Settle(g) PROVE UnaskedIdle' /\ OkCounts' /\ DoneMeansApplied'
    <2> DEFINE r == rows[item[g].id]
    <2>1. pc[g] = "answered" /\ pc[g] \in Busy /\ Rest(g, "idle") /\ UNCHANGED <<applied, drops>>
      BY <1>6 DEF Settle, bounds, Busy
    <2>2. PICK q \in {MarkOutboxDone(r), MarkOutboxFailed(r), MarkOutboxPermanentlyFailed(r)} :
             /\ rows' = [rows EXCEPT ![item[g].id] = q]
             /\ \/ q = MarkOutboxDone(r) /\ outcome[g] = "ok"
                \/ q = MarkOutboxFailed(r)
                \/ q = MarkOutboxPermanentlyFailed(r)
      BY <1>6 DEF Settle
    <2>3. PICK t \in Tellings \ {"unasked"} : told' = [told EXCEPT ![item[g].write] = t]
      BY <1>6, <1>t DEF Settle
    <2>4. q = MarkOutboxDone(r) => outcome[g] = "ok" \/ q.status # "done" \/ r.status = "done"
      BY <1>i, <1>r, <1>s, <2>2
    <2>5. drops = 0 => \A i \in Ids : rows'[i].status = "done" =>
                           \/ rows[i].status = "done" /\ rows'[i].write = rows[i].write
                           \/ applied[rows'[i].write] > 0
      BY <1>a, <2>1, <2>2, <2>4
    <2>6. QED
      BY <1>f, <2>1, <2>3, <2>5
  <1>7. ASSUME NEW g \in Workers, SettleUnderDeadContext(g)
        PROVE  UnaskedIdle' /\ OkCounts' /\ DoneMeansApplied'
    <2>1. /\ pc[g] \in Busy /\ Rest(g, "idle") /\ UNCHANGED <<rows, applied, drops>>
          /\ told' = [told EXCEPT ![item[g].write] = "failed"]
      BY <1>7 DEF SettleUnderDeadContext, bounds, Busy
    <2>2. QED
      BY <1>f, <1>t, <2>1
  <1>8. ASSUME NEW g \in Passers, StartPass(g) PROVE UnaskedIdle' /\ OkCounts' /\ DoneMeansApplied'
    <2>1. /\ UNCHANGED <<rows, told, applied, outcome, item, drops>> /\ g \in Workers
          /\ pc'[g] = "passing" /\ \A h \in Workers : h # g => pc'[h] = pc[h]
      BY <1>8, <1>w DEF StartPass, TypeOK, history, bounds
    <2>2. QED
      BY <1>q, <2>1
  <1>9. ASSUME NEW g \in Passers, NEW it \in todo[g], GiveUp(g, it)
        PROVE  UnaskedIdle' /\ OkCounts' /\ DoneMeansApplied'
    <2>1. /\ it.id \in Ids /\ UNCHANGED <<told, applied, outcome, item, pc, drops>>
          /\ rows' = [rows EXCEPT ![it.id] = MarkOutboxPermanentlyFailed(rows[it.id])]
      BY <1>9 DEF GiveUp, Look, TypeOK, Item, history, bounds, pushVars
    <2>2. \A i \in Ids : rows'[i].status = "done" =>
              \/ rows[i].status = "done" /\ rows'[i].write = rows[i].write
              \/ applied[rows'[i].write] > 0
      BY <1>o, <1>r, <1>s, <2>1, StatementsKeepNames
    <2>3. QED
      BY <1>q, <2>1, <2>2
  <1>10. ASSUME NEW g \in Passers, NEW it \in todo[g], Skip(g, it)
         PROVE  UnaskedIdle' /\ OkCounts' /\ DoneMeansApplied'
    <2>1. UNCHANGED <<rows, told, applied, outcome, item, pc, drops>>
      BY <1>10 DEF Skip, history, bounds, pushVars
    <2>2. QED
      BY <1>q, <2>1
  <1>11. ASSUME NEW g \in Passers, NEW it \in todo[g], Claim(g, it)
         PROVE  UnaskedIdle' /\ OkCounts' /\ DoneMeansApplied'
    <2>1. /\ it.id \in Ids /\ g \in Workers /\ UNCHANGED <<told, applied, outcome, drops>>
          /\ rows' = [rows EXCEPT ![it.id] = LeaseOutbox(rows[it.id])]
          /\ pc'[g] = "calling" /\ \A h \in Workers : h # g => pc'[h] = pc[h] /\ item'[h] = item[h]
      BY <1>11, <1>w DEF Claim, Look, StartCall, TypeOK, Item, history, bounds
    <2>2. \A i \in Ids : rows'[i].status = "done" =>
              \/ rows[i].status = "done" /\ rows'[i].write = rows[i].write
              \/ applied[rows'[i].write] > 0
      BY <1>o, <1>r, <1>s, <2>1, StatementsKeepNames
    <2>3. QED
      BY <1>q, <2>1, <2>2
  <1>12. ASSUME NEW g \in Passers, SettlePass(g) PROVE UnaskedIdle' /\ OkCounts' /\ DoneMeansApplied'
    <2> DEFINE r == rows[item[g].id]
    <2>1. /\ pc[g] = "answered" /\ pc[g] \in Busy /\ Rest(g, "passing") /\ UNCHANGED <<applied, told, drops>>
          /\ g \in Workers
      BY <1>12, <1>w DEF SettlePass, bounds, Busy, history
    <2>2. PICK q \in {MarkOutboxDone(r), MarkOutboxFailed(r), MarkOutboxPermanentlyFailed(r)} :
             /\ rows' = [rows EXCEPT ![item[g].id] = q]
             /\ \/ q = MarkOutboxDone(r) /\ outcome[g] = "ok"
                \/ q = MarkOutboxFailed(r)
                \/ q = MarkOutboxPermanentlyFailed(r)
      BY <1>12 DEF SettlePass
    <2>3. q = MarkOutboxDone(r) => outcome[g] = "ok" \/ q.status # "done" \/ r.status = "done"
      BY <1>i, <1>r, <1>s, <2>1, <2>2
    <2>4. drops = 0 => \A i \in Ids : rows'[i].status = "done" =>
                           \/ rows[i].status = "done" /\ rows'[i].write = rows[i].write
                           \/ applied[rows'[i].write] > 0
      BY <1>a, <2>1, <2>2, <2>3
    <2>5. QED
      BY <1>f, <2>1, <2>4
  <1>13. ASSUME NEW g \in Passers, EndPass(g) PROVE UnaskedIdle' /\ OkCounts' /\ DoneMeansApplied'
    <2>1. /\ UNCHANGED <<rows, applied, told, drops>> /\ g \in Workers
          /\ pc[g] = "passing" /\ Rest(g, "idle")
      BY <1>13, <1>w DEF EndPass, history, bounds
    <2>2. QED
      BY <1>f, <2>1
  <1>14. ASSUME Tick PROVE UnaskedIdle' /\ OkCounts' /\ DoneMeansApplied'
    <2> DEFINE l == [i \in Ids |-> Less(rows[i].lease)]
    <2>1. UNCHANGED <<pc, item, outcome, applied, told, drops>>
      BY <1>14 DEF Tick, history, bounds
    <2>2. \A i \in Ids : rows'[i] = [rows[i] EXCEPT !.lease = l[i]]
      BY <1>14 DEF Tick
    <2>3. \A i \in Ids : rows'[i].status = rows[i].status /\ rows'[i].write = rows[i].write
      BY <2>2, LeaseKeepsNames DEF SameNames
    <2>4. QED
      BY <1>q, <2>1, <2>3
  <1>15. ASSUME NEW p \in Procs, Crash(p) PROVE UnaskedIdle' /\ OkCounts' /\ DoneMeansApplied'
    <2>1. /\ UNCHANGED <<rows, applied, told, drops>>
          /\ \A g \in Workers : pc'[g] = "answered" =>
                pc[g] = "answered" /\ outcome'[g] = outcome[g] /\ item'[g] = item[g]
      BY <1>15 DEF Crash
    <2>2. QED
      BY <1>q, <2>1
  <1>16. ASSUME Suspend PROVE UnaskedIdle' /\ OkCounts' /\ DoneMeansApplied'
    <2> DEFINE l == [i \in Ids |-> 0]
    <2>1. UNCHANGED <<pc, item, outcome, applied, told, drops>>
      BY <1>16 DEF Suspend, history, pushVars
    <2>2. \A i \in Ids : rows'[i] = [rows[i] EXCEPT !.lease = l[i]]
      BY <1>16 DEF Suspend
    <2>3. \A i \in Ids : rows'[i].status = rows[i].status /\ rows'[i].write = rows[i].write
      BY <2>2, LeaseKeepsNames DEF SameNames
    <2>4. QED
      BY <1>q, <2>1, <2>3
  <1>17. ASSUME NEW id \in Ids, DropOutbox(id) PROVE UnaskedIdle' /\ OkCounts' /\ DoneMeansApplied'
    <2>1. UNCHANGED <<pc, item, outcome, applied, told>> /\ drops' # 0
      BY <1>17, BoundsAssumption DEF DropOutbox, history, pushVars, TypeOK
    <2>2. QED
      BY <1>q, <2>1
  <1>18. CASE UNCHANGED vars
    BY <1>q, <1>18 DEF vars
  <1>19. QED
    BY <1>1, <1>2, <1>3, <1>4, <1>5, <1>6, <1>7, <1>8, <1>9, <1>10, <1>11, <1>12,
       <1>13, <1>14, <1>15, <1>16, <1>17, <1>18
    DEF Next, Ask, System, Push, Pass, Faults

\* The initial states have the invariant of the effects.
LEMMA EInvInit == Init => EInv
  <1> SUFFICES ASSUME Init PROVE EInv
    OBVIOUS
  <1>1. IInv
    BY IInvInit
  <1>2. UnaskedIdle /\ OkCounts
    BY DEF Init, UnaskedIdle, OkCounts
  <1>3. DoneMeansApplied
    BY DEF Init, DoneMeansApplied, NoRow
  <1>4. OnceSoFar
    BY WritesAssumption DEF Init, OnceSoFar, Unspent, Holding, Pending, NoRow
  <1>5. FailureStands
    BY DEF Init, FailureStands
  <1>6. QED
    BY <1>1, <1>2, <1>3, <1>4, <1>5 DEF EInv

\* Every step keeps the invariant of the effects.
LEMMA EInvStep == EInv /\ [Next]_vars => EInv'
  <1> SUFFICES ASSUME EInv, [Next]_vars PROVE EInv'
    OBVIOUS
  <1>1. IInv /\ IInv' /\ TypeOK /\ TypeOK' /\ Homed
    BY IInvStep DEF EInv, IInv
  <1>2. UnaskedIdle' /\ OkCounts' /\ DoneMeansApplied'
    BY <1>1, CountsStep DEF EInv
  <1>3. Quiet' => OnceSoFar' /\ FailureStands'
    BY <1>1, QuietBefore, OnceStep DEF EInv
  <1>4. QED
    BY <1>1, <1>2, <1>3 DEF EInv

\* The invariant of the effects holds in every reachable state.
LEMMA EInvHolds == Spec => []EInv
  BY EInvInit, EInvStep, PTL DEF Spec

\* The engine's own account of effects, Accounted: a send or a draft goes out
\* once, and at most once more for every push of it that ended without its
\* bookkeeping; and a row that says done was carried out.  For any number of
\* processes, passes, rows and minutes, with crashes wherever they fall.
THEOREM EffectsAccounted == Spec => []Accounted
  <1>1. EInv => Accounted
    BY DEF EInv, Accounted, OncePerLoss, OnceSoFar
  <1>2. QED
    BY <1>1, EInvHolds, PTL

-----------------------------------------------------------------------------
(* What has ended.  A push starts in one of three ways, and none of them    *)
(* starts one of a row that left the queue.                                *)

\* The ways in which a worker comes by an item.
LEMMA WaysToStart ==
    ASSUME TypeOK, TypeOK', [Next]_vars, NEW g \in Workers, Holding(g)', ~Holding(g)
    PROVE  \/ told[item'[g].write] = "unasked" /\ item'[g].write \in Writes
           \/ \E p \in Procs : \E k \in 1..Len(deferQ[p]) : item'[g] = deferQ[p][k]
           \/ \E h \in Passers : \E it \in todo[h] : item'[g] = it /\ Leasable(rows[it.id])
  <1> USE WorkersAssumption
  <1>w. /\ Callers \subseteq Workers /\ Deferrers \subseteq Workers /\ Passers \subseteq Workers
        /\ \A h \in Workers : ProcOf[h] \in Procs
    BY DEF Workers
  <1>h. pc'[g] \in {"calling", "answered"} /\ pc[g] \notin {"calling", "answered"}
    BY DEF Holding
  <1>1. ASSUME NEW c \in Callers, NEW w \in Writes, NEW id \in Ids, Apply(c, w, id)
        PROVE  told[item'[g].write] = "unasked" /\ item'[g].write \in Writes
    <2>1. c \in Workers /\ \A h \in Workers : h # c => pc'[h] = pc[h]
      BY <1>1, <1>w DEF Apply, StartCall, TypeOK
    <2>2. item'[c].write = w /\ told[w] = "unasked"
      BY <1>1, <1>w DEF Apply, Enqueue, Enqueued, StartCall, TypeOK
    <2>3. QED
      BY <1>h, <2>1, <2>2
  <1>2. ASSUME NEW c \in Callers, NEW w \in Writes, NEW id \in Ids, ApplyLater(c, w, id)
        PROVE  FALSE
    <2>1. pc' = [pc EXCEPT ![c] = "handoff"]
      BY <1>2 DEF ApplyLater
    <2>2. QED
      BY <1>h, <1>w, <2>1 DEF TypeOK
  <1>3. ASSUME NEW d \in Deferrers, Dequeue(d)
        PROVE  \E p \in Procs : \E k \in 1..Len(deferQ[p]) : item'[g] = deferQ[p][k]
    <2> DEFINE p == ProcOf[d]
    <2>1. /\ p \in Procs /\ d \in Workers /\ deferQ[p] \in Seq(Item) /\ deferQ[p] # <<>>
          /\ 1 \in 1..Len(deferQ[p]) /\ Head(deferQ[p]) = deferQ[p][1]
      BY <1>3, <1>w DEF Dequeue, TypeOK
    <2>2. item'[d] = deferQ[p][1] /\ \A h \in Workers : h # d => pc'[h] = pc[h]
      BY <1>3, <2>1 DEF Dequeue, StartCall, TypeOK
    <2>3. QED
      BY <1>h, <2>1, <2>2
  <1>4. ASSUME NEW h \in Passers, NEW it \in todo[h], Claim(h, it)
        PROVE  item'[g] = it /\ Leasable(rows[it.id])
    <2>1. h \in Workers /\ item'[h] = it /\ \A f \in Workers : f # h => pc'[f] = pc[f]
      BY <1>4, <1>w DEF Claim, StartCall, TypeOK
    <2>2. QED
      BY <1>4, <1>h, <2>1 DEF Claim
  \* Every other step ends pushes at most.
  <1>r. ASSUME NEW h, NEW where \in {"idle", "passing"}, Rest(h, where) PROVE FALSE
    BY <1>h, <1>r DEF Rest, TypeOK
  <1>5. ASSUME NEW c \in Callers, HandOff(c) PROVE FALSE
    BY <1>5, <1>r DEF HandOff
  <1>6. ASSUME NEW h \in Workers, NEW o \in Outcomes, Answer(h, o) PROVE FALSE
    <2>1. pc[h] = "calling" /\ pc' = [pc EXCEPT ![h] = "answered"]
      BY <1>6 DEF Answer
    <2>2. QED
      BY <1>h, <2>1 DEF TypeOK
  <1>7. ASSUME NEW h \in Workers, Settle(h) \/ SettleUnderDeadContext(h) PROVE FALSE
    BY <1>7, <1>r DEF Settle, SettleUnderDeadContext
  <1>8. ASSUME NEW h \in Passers, StartPass(h) PROVE FALSE
    <2>1. pc' = [pc EXCEPT ![h] = "passing"]
      BY <1>8 DEF StartPass
    <2>2. QED
      BY <1>h, <2>1 DEF TypeOK
  <1>9. ASSUME NEW h \in Passers, NEW it \in todo[h], GiveUp(h, it) \/ Skip(h, it) PROVE FALSE
    BY <1>9, <1>h DEF GiveUp, Skip, pushVars
  <1>10. ASSUME NEW h \in Passers, SettlePass(h) \/ EndPass(h) PROVE FALSE
    BY <1>10, <1>r DEF SettlePass, EndPass
  <1>11. ASSUME Tick \/ Suspend \/ \E id \in Ids : DropOutbox(id) PROVE FALSE
    BY <1>11, <1>h DEF Tick, Suspend, DropOutbox, pushVars
  <1>12. ASSUME NEW p \in Procs, Crash(p) PROVE FALSE
    BY <1>12, <1>h DEF Crash
  <1>13. CASE UNCHANGED vars
    BY <1>13, <1>h DEF vars
  <1>14. QED
    BY <1>1, <1>2, <1>3, <1>4, <1>5, <1>6, <1>7, <1>8, <1>9, <1>10, <1>11, <1>12, <1>13
    DEF Next, Ask, System, Push, Pass, Faults

\* A goroutine that goes on with a push goes on with the same one.
LEMMA PushesKeepItems ==
    ASSUME TypeOK, [Next]_vars, NEW g \in Workers, Holding(g), Holding(g)'
    PROVE  item'[g] = item[g]
  <1> USE WorkersAssumption
  <1>w. Callers \subseteq Workers /\ Deferrers \subseteq Workers /\ Passers \subseteq Workers
    BY DEF Workers
  <1>h. pc[g] \in {"calling", "answered"} /\ pc'[g] \in {"calling", "answered"}
    BY DEF Holding
  <1>r. ASSUME NEW h, NEW where \in {"idle", "passing"}, Rest(h, where) PROVE item'[g] = item[g]
    BY <1>h, <1>r DEF Rest, TypeOK
  <1>s. ASSUME NEW h \in Workers, pc[h] \notin {"calling", "answered"}, NEW it,
               item' = [item EXCEPT ![h] = it]
        PROVE  item'[g] = item[g]
    BY <1>h, <1>s DEF TypeOK
  <1>1. ASSUME NEW c \in Callers, NEW w \in Writes, NEW id \in Ids, Apply(c, w, id)
        PROVE  item'[g] = item[g]
    BY <1>1, <1>s, <1>w DEF Apply, Enqueue, StartCall
  <1>2. ASSUME NEW c \in Callers, NEW w \in Writes, NEW id \in Ids, ApplyLater(c, w, id)
        PROVE  item'[g] = item[g]
    BY <1>2, <1>s, <1>w DEF ApplyLater, Enqueue
  <1>3. ASSUME NEW d \in Deferrers, Dequeue(d) PROVE item'[g] = item[g]
    BY <1>3, <1>s, <1>w DEF Dequeue, StartCall
  <1>4. ASSUME NEW h \in Passers, NEW it \in todo[h], Claim(h, it) PROVE item'[g] = item[g]
    BY <1>4, <1>s, <1>w DEF Claim, Look, StartCall
  <1>5. ASSUME NEW c \in Callers, HandOff(c) PROVE item'[g] = item[g]
    BY <1>5, <1>r DEF HandOff
  <1>6. ASSUME NEW h \in Workers, NEW o \in Outcomes, Answer(h, o) PROVE item'[g] = item[g]
    BY <1>6 DEF Answer
  <1>7. ASSUME NEW h \in Workers, Settle(h) \/ SettleUnderDeadContext(h) PROVE item'[g] = item[g]
    BY <1>7, <1>r DEF Settle, SettleUnderDeadContext
  <1>8. ASSUME NEW h \in Passers, StartPass(h) PROVE item'[g] = item[g]
    BY <1>8 DEF StartPass
  <1>9. ASSUME NEW h \in Passers, NEW it \in todo[h], GiveUp(h, it) \/ Skip(h, it)
        PROVE  item'[g] = item[g]
    BY <1>9 DEF GiveUp, Skip, pushVars
  <1>10. ASSUME NEW h \in Passers, SettlePass(h) \/ EndPass(h) PROVE item'[g] = item[g]
    BY <1>10, <1>r DEF SettlePass, EndPass
  <1>11. ASSUME Tick \/ Suspend \/ \E id \in Ids : DropOutbox(id) PROVE item'[g] = item[g]
    BY <1>11 DEF Tick, Suspend, DropOutbox, pushVars
  <1>12. ASSUME NEW p \in Procs, Crash(p) PROVE item'[g] = item[g]
    BY <1>12, <1>h DEF Crash
  <1>13. CASE UNCHANGED vars
    BY <1>13 DEF vars
  <1>14. QED
    BY <1>1, <1>2, <1>3, <1>4, <1>5, <1>6, <1>7, <1>8, <1>9, <1>10, <1>11, <1>12, <1>13
    DEF Next, Ask, System, Push, Pass, Faults

\* A write is carried out by a push of it and by nothing else.
LEMMA PushesCount ==
    ASSUME TypeOK, TypeOK', [Next]_vars, NEW w \in Writes, ~Pushed(w)
    PROVE  applied'[w] = applied[w]
  <1>1. ASSUME NEW g \in Workers, NEW o \in Outcomes, Answer(g, o) PROVE applied'[w] = applied[w]
    <2>1. item[g].write # w
      BY <1>1 DEF Answer, Pushed, Holding
    <2>2. PICK n : applied' = [applied EXCEPT ![item[g].write] = @ + n]
      BY <1>1 DEF Answer
    <2>3. QED
      BY <2>1, <2>2 DEF TypeOK
  <1>2. [Next]_vars => UNCHANGED applied \/ \E g \in Workers, o \in Outcomes : Answer(g, o)
    BY DEF Next, Ask, System, Push, Pass, Faults, vars, Apply, ApplyLater, HandOff, Dequeue, Settle,
           SettleUnderDeadContext, StartPass, GiveUp, Skip, Claim, SettlePass, EndPass, Tick, Crash,
           Suspend, DropOutbox, history
  <1>3. QED
    BY <1>1, <1>2

\* Nobody starts another push of a row that left the queue.
LEMMA RetiredStep ==
    ASSUME TypeOK, TypeOK', Homed, [Next]_vars, NEW i \in Ids, NEW w \in Writes,
           rows[i].write = w, rows[i].status \in {"done", "failed"}, w \notin Deferrable, ~Pushed(w)
    PROVE  ~Pushed(w)'
  <1> SUFFICES ASSUME NEW g \in Workers, Holding(g)', item'[g].write = w PROVE FALSE
    BY DEF Pushed
  <1>1. PICK home \in [Writes -> Ids] : RowsAtHome(home) /\ ItemsAtHome(home)
    BY DEF Homed
  <1>2. ~Holding(g)
    BY PushesKeepItems DEF Pushed
  <1>3. told[w] # "unasked" /\ home[w] = i
    BY <1>1 DEF RowsAtHome
  <1>4. ~\E p \in Procs : \E k \in 1..Len(deferQ[p]) : item'[g] = deferQ[p][k]
    BY <1>1 DEF ItemsAtHome
  <1>5. ~\E h \in Passers : \E it \in todo[h] : item'[g] = it /\ Leasable(rows[it.id])
    BY <1>1, <1>3 DEF ItemsAtHome, Knows, Leasable, Pending
  <1>6. QED
    BY <1>2, <1>3, <1>4, <1>5, WaysToStart

\* What has ended stays ended, StaysEnded: no goroutine starts another push of
\* a row that is done or given up, whatever an older listing says, and a write
\* whose failure was told is not carried out afterwards.
THEOREM EndsAreKept == Spec => StaysEnded
  <1>1. EInv /\ EInv' /\ [Next]_vars =>
          \A i \in Ids, w \in Writes :
            /\ rows[i].write = w
            /\ rows[i].status \in {"done", "failed"}
            /\ w \notin Deferrable
            /\ ~Pushed(w)
            => ~Pushed(w)'
    BY RetiredStep DEF EInv, IInv
  <1>2. EInv /\ EInv' /\ [Next]_vars =>
          \A w \in Writes \ Deferrable :
            told[w] = "failed" /\ lost[w] = 0 /\ Quiet => applied'[w] = applied[w]
    BY PushesCount DEF EInv, IInv, FailureStands, Over
  <1>3. QED
    BY <1>1, <1>2, EInvHolds, PTL DEF Spec, StaysEnded, RetiredIsFinal, FailedUnlessLost
=============================================================================
