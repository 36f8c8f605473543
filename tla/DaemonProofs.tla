---------------------------- MODULE DaemonProofs ----------------------------
(***************************************************************************)
(* What holds of the daemons, shells and requests of an installation of    *)
(* any size, with any number of accounts; and, last, that the configuration*)
(* it starts from, as every command does, survives being written.          *)
(***************************************************************************)
EXTENDS Daemon, Config, TLAPS

\* A worker is a process and an account.
LEMMA WorkerParts ==
    \A w \in Workers : w[1] \in Procs /\ acct(w) \in Accounts /\ w = <<w[1], acct(w)>>
  BY DEF Workers, acct

\* The loops are workers, and a daemon's worker is a loop.
LEMMA LoopsAreWorkers == Loops \subseteq Workers /\ \A w \in Workers : Kept(w) => w \in Loops
  BY DEF Loops, Workers, Procs, Kept

\* Every worker's resource is one of the resources.
LEMMA ResIsResource == \A w : Res(w) \in Resources
  BY DEF Res, Resources

\* Going idle, letting the lock go and abandoning a backfill are well-typed.
LEMMA IdleTyped ==
    ASSUME TypeOK, NEW w \in Workers, Idle(w)
    PROVE  /\ opts' \in [Workers -> SUBSET Resources] /\ rest' \in [Workers -> SUBSET Resources]
           /\ forced' \in [Workers -> {"yes", "no"}] /\ asked' \in [Workers -> {"yes", "no"}]
           /\ full' \in [Workers -> {"yes", "no"}]
  BY DEF TypeOK, Idle

\* Releasing a lock keeps the types.
LEMMA ReleaseTyped ==
    ASSUME TypeOK, NEW w \in Workers, Release(w)
    PROVE  lock' \in [Accounts -> Procs \cup {Free}]
  BY WorkerParts DEF TypeOK, Release

\* Abandoning a pass keeps the types.
LEMMA AbandonTyped ==
    ASSUME TypeOK, NEW w \in Workers, Abandon(w)
    PROVE  mail' \in [Accounts -> {"new", "open", "synced"} \cup Procs]
  BY WorkerParts DEF TypeOK, Abandon

\* The initial states are typed.
LEMMA TypeInit == Init => TypeOK
  BY ProcsAssumption, LoopsAreWorkers DEF Init, TypeOK, PCs

\* Every step keeps the types.
LEMMA TypeStep == TypeOK /\ [Next]_vars => TypeOK'
  <1> SUFFICES ASSUME TypeOK, [Next]_vars PROVE TypeOK'
    OBVIOUS
  <1> USE ProcsAssumption, WorkerParts, LoopsAreWorkers, ResIsResource
  <1>1. ASSUME NEW d \in Daemons, CheckPid(d) \/ Service(d) \/ Nudge(d) \/ Stop(d) PROVE TypeOK'
    <2>1. CASE CheckPid(d)  BY <2>1 DEF TypeOK, PCs, CheckPid, job, wake, bounds
    <2>2. CASE WritePid(d)  BY <2>2 DEF TypeOK, PCs, WritePid, job, wake, bounds
    <2>3. CASE StartWatch(d) BY <2>3 DEF TypeOK, PCs, StartWatch, job, wake, bounds
    <2>4. CASE Leave(d) BY <2>4 DEF TypeOK, PCs, Leave, job, bounds
    <2>5. CASE Nudge(d) BY <2>5 DEF TypeOK, PCs, Nudge, job, bounds, Firers, Loops
    <2>6. CASE Stop(d) BY <2>6 DEF TypeOK, PCs, Stop, job, wake
    <2> QED BY <1>1, <2>1, <2>2, <2>3, <2>4, <2>5, <2>6 DEF Service
  <1>2. ASSUME NEW d \in Daemons, Kill(d) PROVE TypeOK'
    BY <1>2 DEF TypeOK, PCs, Kill, Procs
  <1>3. ASSUME NEW w \in Workers, Loop(w) PROVE TypeOK'
    <2>1. CASE LockLoop(w)
      <3>1. pc' \in [Workers -> PCs]
        <4>1. \E p \in PCs : pc' = [pc EXCEPT ![w] = p]
          BY <2>1 DEF LockLoop, BeginPass, PCs
        <4> QED BY <4>1 DEF TypeOK
      <3>2. lock' \in [Accounts -> Procs \cup {Free}]
        <4>1. lock' = lock \/ lock' = [lock EXCEPT ![acct(w)] = w[1]]
          BY <2>1 DEF LockLoop
        <4> QED BY <4>1 DEF TypeOK
      <3>3. proc' \in [Daemons -> {"down", "checked", "written", "up", "leaving"}]
        <4>1. proc' = proc \/ proc' = [proc EXCEPT ![w[1]] = "leaving"]
          BY <2>1 DEF LockLoop
        <4> QED BY <4>1 DEF TypeOK
      <3>4. opts' \in [Workers -> SUBSET Resources] /\ rest' \in [Workers -> SUBSET Resources]
        <4>1. \/ opts' = opts /\ rest' = rest
              \/ \E S \in SUBSET Resources : /\ opts' = [opts EXCEPT ![w] = S]
                                             /\ rest' = [rest EXCEPT ![w] = S]
          BY <2>1 DEF LockLoop, BeginPass, job
        <4>2. opts' \in [Workers -> SUBSET Resources]
          BY <4>1 DEF TypeOK
        <4>3. rest' \in [Workers -> SUBSET Resources]
          BY <4>1 DEF TypeOK
        <4> QED BY <4>2, <4>3
      <3> QED BY <2>1, <3>1, <3>2, <3>3, <3>4 DEF TypeOK, LockLoop, job, wake, bounds
    <2>2. CASE Poll(w) BY <2>2 DEF TypeOK, PCs, Poll, BeginPass, start, wake, bounds
    <2>3. CASE Wake(w) BY <2>3 DEF TypeOK, PCs, Wake, Kept, start, job, bounds
    <2>4. CASE Debounced(w) BY <2>4 DEF TypeOK, PCs, Debounced, BeginPass, Kept, start, bounds
    <2>5. CASE LeaveLoop(w) BY <2>5, IdleTyped, ReleaseTyped, AbandonTyped DEF TypeOK, PCs, LeaveLoop, start, wake, bounds
    <2> QED BY <1>3, <2>1, <2>2, <2>3, <2>4, <2>5 DEF Loop
  <1>4. ASSUME NEW w \in Workers, Pass(w) PROVE TypeOK'
    <2>1. CASE Begin(w) BY <2>1 DEF TypeOK, PCs, Begin, YesNo, start, wake, bounds
    <2>2. CASE Attempt(w) BY <2>2 DEF TypeOK, PCs, Attempt, start, job, wake, bounds
    <2>3. CASE Done(w)
      <3>1. mail' \in [Accounts -> {"new", "open", "synced"} \cup Procs]
        BY <2>3 DEF TypeOK, PCs, Done
      <3>2. owed' \subseteq Accounts \X Resources
        BY <2>3 DEF TypeOK, PCs, Done
      <3>3. pc' \in [Workers -> PCs] /\ rest' \in [Workers -> SUBSET Resources]
        <4>1. \E p \in PCs : pc' = [pc EXCEPT ![w] = p]
          BY <2>3 DEF Done, PCs
        <4>2. rest' \in [Workers -> SUBSET Resources]
          BY <2>3 DEF TypeOK, Done
        <4>3. pc' \in [Workers -> PCs]
          BY <4>1 DEF TypeOK
        <4> QED BY <4>2, <4>3
      <3> QED BY <2>3, <3>1, <3>2, <3>3 DEF TypeOK, Done, PCs, start, wake, bounds
    <2>4. CASE Retire(w) BY <2>4 DEF TypeOK, PCs, Retire, start, wake, bounds
    <2>5. CASE EndPass(w)
      <3>1. lock' \in [Accounts -> Procs \cup {Free}]
        BY <2>5, ReleaseTyped DEF TypeOK, PCs, EndPass
      <3>2. pc' \in [Workers -> PCs]
        <4>1. \E p \in PCs : pc' = [pc EXCEPT ![w] = p]
          BY <2>5 DEF EndPass, PCs
        <4> QED BY <4>1 DEF TypeOK
      <3> QED BY <2>5, <3>1, <3>2, IdleTyped DEF TypeOK, EndPass, start, wake, bounds
    <2>6. CASE RideOut(w) BY <2>6 DEF TypeOK, PCs, RideOut, BeginPass, start, wake, bounds
    <2> QED BY <1>4, <2>1, <2>2, <2>3, <2>4, <2>5, <2>6 DEF Pass
  <1>5. ASSUME NEW w \in Workers, Fail(w) PROVE TypeOK'
    <2>1. pc' \in [Workers -> PCs]
      <3>1. \E p \in PCs : pc' = [pc EXCEPT ![w] = p]
        BY <1>5 DEF Fail, PCs
      <3> QED BY <3>1 DEF TypeOK
    <2>2. lock' \in [Accounts -> Procs \cup {Free}]
      BY <1>5, ReleaseTyped DEF TypeOK, Fail
    <2>3. mail' \in [Accounts -> {"new", "open", "synced"} \cup Procs]
      BY <1>5, AbandonTyped DEF TypeOK, Fail
    <2>4. /\ opts' \in [Workers -> SUBSET Resources] /\ rest' \in [Workers -> SUBSET Resources]
          /\ forced' \in [Workers -> {"yes", "no"}] /\ asked' \in [Workers -> {"yes", "no"}]
          /\ full' \in [Workers -> {"yes", "no"}]
      BY <1>5, IdleTyped DEF TypeOK, Fail, Retried, job
    <2>5. failures' \in 0..MaxFailures
      BY <1>5 DEF TypeOK, Fail
    <2> QED BY <1>5, <2>1, <2>2, <2>3, <2>4, <2>5 DEF TypeOK, Fail, PCs, start, wake
  <1>6. ASSUME NEW w \in Workers, Command(w) \/ Interrupt(w) PROVE TypeOK'
    <2>1. CASE LockSync(w)
      <3>1. pc' \in [Workers -> PCs]
        <4>1. \E p \in PCs : pc' = [pc EXCEPT ![w] = p]
          BY <2>1 DEF LockSync, BeginPass, PCs
        <4> QED BY <4>1 DEF TypeOK
      <3>2. lock' \in [Accounts -> Procs \cup {Free}]
        BY <2>1 DEF TypeOK, LockSync
      <3>3. opts' \in [Workers -> SUBSET Resources] /\ rest' \in [Workers -> SUBSET Resources]
        <4>1. /\ \E S \in SUBSET Resources : rest' = [rest EXCEPT ![w] = S]
              /\ opts' = opts \/ \E S \in SUBSET Resources : opts' = [opts EXCEPT ![w] = S]
          BY <2>1 DEF LockSync, BeginPass
        <4> QED BY <4>1 DEF TypeOK
      <3> QED BY <2>1, <3>1, <3>2, <3>3 DEF TypeOK, LockSync, start, wake, bounds
    <2>2. CASE RequestFull(w)
      <3> DEFINE a == acct(w)
                 r == Res(w)
      <3>1. a \in Accounts /\ r \in Resources
        OBVIOUS
      <3>2. /\ req' = [req EXCEPT ![a] = @ \cup {r}]
            /\ owed' = owed \/ owed' = owed \cup {<<a, r>>}
            /\ mail' = [mail EXCEPT ![a] = IF r = "mail" /\ @ \in Procs THEN "open" ELSE @]
            /\ rest' = [rest EXCEPT ![w] = @ \ {r}]
            /\ \E p \in {"nudge", "request"} : pc' = [pc EXCEPT ![w] = p]
        BY <2>2 DEF RequestFull
      <3> HIDE DEF a, r
      <3>3. req' \in [Accounts -> SUBSET Resources] /\ owed' \subseteq Accounts \X Resources
        BY <3>1, <3>2 DEF TypeOK
      <3>4. mail' \in [Accounts -> {"new", "open", "synced"} \cup Procs]
        BY <3>1, <3>2 DEF TypeOK
      <3>5. rest' \in [Workers -> SUBSET Resources] /\ pc' \in [Workers -> PCs]
        BY <3>2 DEF TypeOK, PCs
      <3> QED BY <2>2, <3>3, <3>4, <3>5 DEF TypeOK, RequestFull, PCs, start, wake, bounds
    <2>3. CASE NudgeDaemon(w) BY <2>3 DEF TypeOK, PCs, NudgeDaemon, Alive, Idle, wake, bounds
    <2>4. CASE Interrupt(w) BY <2>4 DEF TypeOK, PCs, Interrupt, Release, Idle, Abandon, start, wake
    <2> QED BY <1>6, <2>1, <2>2, <2>3, <2>4 DEF Command
  <1>7. ASSUME NEW l \in Loops, NEW r \in Pushed, Hint(l, {r}) PROVE TypeOK'
    BY <1>7 DEF TypeOK, PCs, Hint, Firers, start, job, bounds
  <1>8. ASSUME NEW h \in half, Signal(h) PROVE TypeOK'
    BY <1>8 DEF TypeOK, Signal, Firers, start, job, bounds
  <1>9. ASSUME NEW w \in Workers, NEW f \in {"yes", "no"}, Sync(w, f) PROVE TypeOK'
    BY <1>9 DEF TypeOK, PCs, Sync, start, wake
  <1>10. CASE UNCHANGED vars
    BY <1>10 DEF TypeOK, vars, start, job, wake, bounds
  <1> QED
    BY <1>1, <1>2, <1>3, <1>4, <1>5, <1>6, <1>7, <1>8, <1>9, <1>10 DEF Next

\* The variables keep their types.
THEOREM TypeCorrect == Spec => []TypeOK
  BY TypeInit, TypeStep, PTL DEF Spec

-----------------------------------------------------------------------------
(***************************************************************************)
(* One pass at a time.  Whoever is past taking the lock holds it, and a    *)
(* process has one worker for an account.                                  *)
(***************************************************************************)
Outside == {"off", "lock", "request", "nudge"}

HoldsLock == \A w \in Workers : pc[w] \notin Outside => lock[acct(w)] = w[1]

\* Workers that hold their locks are never two on one resource.
LEMMA HoldersApart == TypeOK /\ HoldsLock => OnePass
  BY WorkerParts DEF HoldsLock, OnePass, InPass, Outside

\* Letting go of one's own lock takes nobody else's.
LEMMA ReleaseKeeps ==
    ASSUME TypeOK, HoldsLock, NEW w \in Workers, Release(w),
           \A v \in Workers : pc'[v] \notin Outside => v # w /\ pc'[v] = pc[v]
    PROVE  HoldsLock'
  <1> SUFFICES ASSUME NEW v \in Workers, pc'[v] \notin Outside
               PROVE  lock'[acct(v)] = v[1]
    BY DEF HoldsLock
  <1>1. v # w /\ lock[acct(v)] = v[1]
    BY DEF HoldsLock
  <1>2. acct(v) \in Accounts /\ acct(w) \in Accounts
    BY WorkerParts
  <1>3. lock'[acct(v)] = IF acct(v) = acct(w) /\ lock[acct(v)] = w[1] THEN Free
                         ELSE lock[acct(v)]
    BY <1>2 DEF Release, TypeOK
  <1>4. ~(acct(v) = acct(w) /\ lock[acct(v)] = w[1])
    <2>1. acct(v) = acct(w) => v[1] # w[1]
      <3>1. v = <<v[1], acct(v)>> /\ w = <<w[1], acct(w)>>
        BY WorkerParts
      <3>. HIDE DEF acct
      <3>. QED BY <1>1, <3>1
    <2>. QED BY <1>1, <2>1
  <1> QED
    BY <1>1, <1>3, <1>4

\* A worker that stays on its side of the lock, with the locks as they are.
LEMMA LockUntouched ==
    ASSUME HoldsLock, lock' = lock,
           \A v \in Workers : pc'[v] \notin Outside => pc[v] \notin Outside
    PROVE  HoldsLock'
  BY DEF HoldsLock

\* Every step keeps the holders of the locks.
LEMMA HoldsStep == TypeOK /\ HoldsLock /\ [Next]_vars => HoldsLock'
  <1> SUFFICES ASSUME TypeOK, HoldsLock, [Next]_vars PROVE HoldsLock'
    OBVIOUS
  <1>t. pc \in [Workers -> PCs]
    BY DEF TypeOK
  <1>1. ASSUME NEW d \in Daemons, CheckPid(d) \/ WritePid(d) \/ Leave(d) \/ Nudge(d) \/ Stop(d)
        PROVE HoldsLock'
    BY <1>1 DEF CheckPid, WritePid, Leave, Nudge, Stop, HoldsLock
  <1>2. ASSUME NEW d \in Daemons, StartWatch(d) PROVE HoldsLock'
    <2>1. \A v \in Workers : pc'[v] \notin Outside => pc[v] \notin Outside
      BY <1>2 DEF StartWatch, Outside
    <2> QED BY <1>2, <2>1, LockUntouched DEF StartWatch
  <1>3. ASSUME NEW d \in Daemons, Kill(d) PROVE HoldsLock'
    <2> SUFFICES ASSUME NEW v \in Workers, pc'[v] \notin Outside
                 PROVE  lock'[acct(v)] = v[1]
      BY DEF HoldsLock
    <2>1. v[1] # d /\ pc'[v] = pc[v]
      BY <1>3 DEF Kill, Outside
    <2> QED BY <1>3, <2>1, WorkerParts DEF Kill, HoldsLock, TypeOK
  <1>4. ASSUME NEW w \in Workers, LockLoop(w) \/ LockSync(w) PROVE HoldsLock'
    <2>1. CASE lock[acct(w)] = Free /\ lock' = [lock EXCEPT ![acct(w)] = w[1]]
               /\ pc' = [pc EXCEPT ![w] = "begin"]
      <3> SUFFICES ASSUME NEW v \in Workers, pc'[v] \notin Outside
                   PROVE  lock'[acct(v)] = v[1]
        BY DEF HoldsLock
      <3>1. CASE v = w
        BY <2>1, <3>1, WorkerParts DEF TypeOK
      <3>2. CASE v # w
        <4>1. lock[acct(v)] = v[1] /\ lock[acct(v)] # Free
          BY <1>t, <2>1, <3>2, WorkerParts, ProcsAssumption DEF HoldsLock
        <4> QED BY <2>1, <4>1, WorkerParts DEF TypeOK
      <3> QED BY <3>1, <3>2
    <2>2. CASE lock' = lock /\ \E p \in {"off", "request", "nudge"} : pc' = [pc EXCEPT ![w] = p]
      BY <1>t, <2>2, LockUntouched DEF Outside
    <2> QED BY <1>4, <2>1, <2>2 DEF LockLoop, LockSync, BeginPass
  <1>5. ASSUME NEW w \in Workers, LeaveLoop(w) \/ Interrupt(w) PROVE HoldsLock'
    <2>1. Release(w) /\ \A v \in Workers : pc'[v] \notin Outside => v # w /\ pc'[v] = pc[v]
      BY <1>t, <1>5 DEF LeaveLoop, Interrupt, Outside
    <2> QED BY <2>1, ReleaseKeeps
  <1>6. ASSUME NEW w \in Workers,
               Poll(w) \/ Wake(w) \/ Debounced(w) \/ Begin(w) \/ Attempt(w) \/ Done(w)
               \/ Retire(w) \/ RideOut(w)
        PROVE HoldsLock'
    <2>1. lock' = lock /\ pc[w] \notin Outside /\ \E p \in PCs : pc' = [pc EXCEPT ![w] = p]
      BY <1>6 DEF Poll, Wake, Debounced, Begin, Attempt, Done, Retire, RideOut, BeginPass,
                  Outside, PCs
    <2> QED BY <1>t, <2>1, LockUntouched
  <1>7. ASSUME NEW w \in Workers, EndPass(w) \/ Fail(w) PROVE HoldsLock'
    <2>1. CASE lock' = lock
      <3>1. pc[w] \notin Outside /\ \E p \in PCs : pc' = [pc EXCEPT ![w] = p]
        BY <1>7 DEF EndPass, Fail, Outside, PCs
      <3> QED BY <1>t, <2>1, <3>1, LockUntouched
    <2>2. CASE Release(w) /\ pc' = [pc EXCEPT ![w] = "off"]
      BY <1>t, <2>2, ReleaseKeeps DEF Outside
    <2> QED BY <1>7, <2>1, <2>2 DEF EndPass, Fail
  <1>8. ASSUME NEW w \in Workers, NEW f \in {"yes", "no"},
               RequestFull(w) \/ NudgeDaemon(w) \/ Sync(w, f)
        PROVE HoldsLock'
    <2>1. lock' = lock /\ \E p \in Outside : pc' = [pc EXCEPT ![w] = p]
      BY <1>8 DEF RequestFull, NudgeDaemon, Sync, Outside
    <2> QED BY <1>t, <2>1, LockUntouched
  <1>9. CASE UNCHANGED <<pc, lock>>
    BY <1>9 DEF HoldsLock
  <1>10. ASSUME NEW l \in Loops, NEW r \in Pushed, Hint(l, {r}) PROVE HoldsLock'
    BY <1>9, <1>10 DEF Hint
  <1>11. ASSUME NEW h \in half, Signal(h) PROVE HoldsLock'
    BY <1>9, <1>11 DEF Signal
  <1>12. ASSUME NEW w \in Workers, RequestFull(w) \/ NudgeDaemon(w) PROVE HoldsLock'
    BY <1>8, <1>12
  <1> QED
    BY <1>1, <1>2, <1>3, <1>4, <1>5, <1>6, <1>7, <1>8, <1>9, <1>10, <1>11, <1>12
    DEF Next, Service, Loop, Pass, Command, vars

\* lockAccount: never two passes over one account, in one process or in two,
\* however daemons and shells come and go.
THEOREM LockKeepsApart == Spec => []OnePass
  <1>1. Init => HoldsLock
    BY DEF Init, HoldsLock, Outside
  <1> QED
    BY <1>1, TypeInit, TypeStep, HoldsStep, HoldersApart, PTL DEF Spec

-----------------------------------------------------------------------------
(***************************************************************************)
(* Requests.  The pass that is about to clear a request has paid for every *)
(* one that stands, and none is owed while a full pass runs.               *)
(***************************************************************************)
Retiring == \A w \in Workers : pc[w] = "retire" =>
                asked[w] = "yes" /\ <<acct(w), Res(w)>> \notin owed

RequestInv == NoRequestLost /\ Retiring

\* A step that leaves the requests and the retiring passes as they are.
LEMMA RequestsUntouched ==
    ASSUME RequestInv, req' = req, owed' \subseteq owed,
           \A v \in Workers : pc'[v] = "retire" =>
               pc[v] = "retire" /\ asked'[v] = asked[v] /\ rest'[v] = rest[v]
    PROVE  RequestInv'
  BY DEF RequestInv, NoRequestLost, Retiring, Res

\* Every step keeps what is known of a request.
LEMMA RequestStep == TypeOK /\ RequestInv /\ [Next]_vars => RequestInv'
  <1> SUFFICES ASSUME TypeOK, RequestInv, [Next]_vars PROVE RequestInv'
    OBVIOUS
  <1>t. /\ pc \in [Workers -> PCs] /\ rest \in [Workers -> SUBSET Resources]
        /\ asked \in [Workers -> {"yes", "no"}]
    BY DEF TypeOK
  <1> DEFINE Same(v) == pc'[v] = "retire" =>
                 pc[v] = "retire" /\ asked'[v] = asked[v] /\ rest'[v] = rest[v]
  <1>1. ASSUME NEW d \in Daemons,
               CheckPid(d) \/ WritePid(d) \/ StartWatch(d) \/ Leave(d) \/ Nudge(d) \/ Stop(d)
               \/ Kill(d)
        PROVE RequestInv'
    <2>1. req' = req /\ owed' = owed /\ \A v \in Workers : Same(v)
      BY <1>1 DEF CheckPid, WritePid, StartWatch, Leave, Nudge, Stop, Kill, job
    <2> QED BY <2>1, RequestsUntouched
  <1>2. ASSUME NEW w \in Workers, NEW f \in {"yes", "no"},
               Loop(w) \/ Interrupt(w) \/ Fail(w) \/ Sync(w, f)
        PROVE RequestInv'
    <2>1. /\ req' = req /\ owed' = owed
          /\ \E p \in PCs \ {"retire"} : pc' = [pc EXCEPT ![w] = p]
      BY <1>2 DEF Loop, LockLoop, Poll, Wake, Debounced, LeaveLoop, Interrupt, Fail, Sync,
                  BeginPass, PCs
    <2>2. ASSUME NEW v \in Workers, v # w
          PROVE  asked'[v] = asked[v] /\ rest'[v] = rest[v]
      BY <1>t, <1>2, <2>2 DEF Loop, LockLoop, Poll, Wake, Debounced, LeaveLoop, Interrupt, Fail,
                              Sync, BeginPass, Idle, job
    <2>3. \A v \in Workers : Same(v)
      BY <1>t, <2>1, <2>2
    <2> QED BY <2>1, <2>3, RequestsUntouched
  <1>3. ASSUME NEW w \in Workers,
               Begin(w) \/ Attempt(w) \/ EndPass(w) \/ RideOut(w) \/ LockSync(w) \/ NudgeDaemon(w)
        PROVE RequestInv'
    <2>1. /\ req' = req /\ owed' = owed
          /\ \E p \in PCs \ {"retire"} : pc' = [pc EXCEPT ![w] = p]
      BY <1>3 DEF Begin, Attempt, EndPass, RideOut, LockSync, NudgeDaemon, BeginPass, PCs
    <2>2. ASSUME NEW v \in Workers, v # w
          PROVE  asked'[v] = asked[v] /\ rest'[v] = rest[v]
      BY <1>t, <1>3, <2>2 DEF Begin, Attempt, EndPass, RideOut, LockSync, NudgeDaemon, BeginPass,
                              Idle, job
    <2>3. \A v \in Workers : Same(v)
      BY <1>t, <2>1, <2>2
    <2> QED BY <2>1, <2>3, RequestsUntouched
  <1>4. ASSUME NEW w \in Workers, Done(w) PROVE RequestInv'
    <2>1. CASE asked[w] = "yes"
      <3>1. /\ req' = req /\ owed' = owed \ {<<acct(w), Res(w)>>}
            /\ pc' = [pc EXCEPT ![w] = "retire"] /\ asked' = asked /\ rest' = rest
        BY <1>4, <2>1 DEF Done
      <3> QED BY <1>t, <2>1, <3>1 DEF RequestInv, NoRequestLost, Retiring, Res
    <2>2. CASE asked[w] # "yes"
      <3>1. /\ req' = req /\ owed' \subseteq owed /\ asked' = asked
            /\ pc' = [pc EXCEPT ![w] = "begin"]
            /\ rest' = [rest EXCEPT ![w] = @ \ {Res(w)}]
        BY <1>4, <2>2 DEF Done
      <3>2. \A v \in Workers : Same(v)
        BY <1>t, <3>1
      <3> QED BY <3>1, <3>2, RequestsUntouched
    <2> QED BY <2>1, <2>2
  <1>5. ASSUME NEW w \in Workers, Retire(w) PROVE RequestInv'
    <2>1. /\ req' = [req EXCEPT ![acct(w)] = @ \ {Res(w)}] /\ owed' = owed /\ asked' = asked
          /\ pc' = [pc EXCEPT ![w] = "begin"]
          /\ rest' = [rest EXCEPT ![w] = @ \ {Res(w)}]
          /\ <<acct(w), Res(w)>> \notin owed
      BY <1>5 DEF Retire, RequestInv, Retiring
    <2>2. NoRequestLost'
      <3> SUFFICES ASSUME NEW o \in owed PROVE o[2] \in req'[o[1]]
        BY <2>1 DEF NoRequestLost
      <3>1. o = <<o[1], o[2]>> /\ o[1] \in Accounts /\ o[2] \in req[o[1]]
        BY DEF TypeOK, RequestInv, NoRequestLost
      <3> QED BY <2>1, <3>1 DEF TypeOK
    <2>3. Retiring'
      BY <1>t, <2>1 DEF RequestInv, Retiring, Res
    <2> QED BY <2>2, <2>3 DEF RequestInv
  <1>6. ASSUME NEW w \in Workers, RequestFull(w) PROVE RequestInv'
    <2> DEFINE a == acct(w)
               r == Res(w)
    <2>1. /\ req' = [req EXCEPT ![a] = @ \cup {r}] /\ asked' = asked
          /\ \/ owed' = owed
             \/ owed' = owed \cup {<<a, r>>} /\ ~FullRunning(a, r)
          /\ rest' = [rest EXCEPT ![w] = @ \ {r}]
          /\ pc[w] = "request"
          /\ \E p \in {"nudge", "request"} : pc' = [pc EXCEPT ![w] = p]
      BY <1>6 DEF RequestFull
    <2>2. a \in Accounts
      BY WorkerParts
    <2>3. NoRequestLost'
      <3> SUFFICES ASSUME NEW o \in owed' PROVE o[2] \in req'[o[1]]
        BY DEF NoRequestLost
      <3>1. CASE o \in owed
        <4>1. o[1] \in Accounts /\ o[2] \in req[o[1]]
          BY <3>1 DEF TypeOK, RequestInv, NoRequestLost
        <4> QED BY <2>1, <4>1 DEF TypeOK
      <3>2. CASE o = <<a, r>>
        BY <2>1, <2>2, <3>2 DEF TypeOK
      <3> QED BY <2>1, <3>1, <3>2
    <2>4. Retiring'
      <3> SUFFICES ASSUME NEW v \in Workers, pc'[v] = "retire"
                   PROVE  asked'[v] = "yes" /\ <<acct(v), Res(v)'>> \notin owed'
        BY DEF Retiring, acct
      <3>1. v # w /\ pc[v] = "retire" /\ Res(v)' = Res(v)
        BY <1>t, <2>1 DEF Res
      <3>2. asked[v] = "yes" /\ <<acct(v), Res(v)>> \notin owed
        BY <3>1 DEF RequestInv, Retiring
      <3>3. <<acct(v), Res(v)>> = <<a, r>> => FullRunning(a, r)
        BY <3>1, <3>2 DEF FullRunning
      <3> QED BY <2>1, <3>1, <3>2, <3>3
    <2> QED BY <2>3, <2>4 DEF RequestInv
  <1>7. ASSUME UNCHANGED <<req, owed, pc, job>> PROVE RequestInv'
    BY <1>7, RequestsUntouched DEF job
  <1>8. ASSUME NEW l \in Loops, NEW r \in Pushed, Hint(l, {r}) PROVE RequestInv'
    BY <1>7, <1>8 DEF Hint
  <1>9. ASSUME NEW h \in half, Signal(h) PROVE RequestInv'
    BY <1>7, <1>9 DEF Signal
  <1> QED
    BY <1>1, <1>2, <1>3, <1>4, <1>5, <1>6, <1>7, <1>8, <1>9
    DEF Next, Service, Pass, Command, vars

\* RequestFull: a request is stored until a full pass that began after it has
\* ended well, however many passes, failures and kills lie between.
THEOREM RequestsStand == Spec => []NoRequestLost
  <1>1. Init => RequestInv
    BY DEF Init, RequestInv, NoRequestLost, Retiring
  <1>2. RequestInv => NoRequestLost
    BY DEF RequestInv
  <1> QED
    BY <1>1, <1>2, TypeInit, TypeStep, RequestStep, PTL DEF Spec

-----------------------------------------------------------------------------
(***************************************************************************)
(* Hints.  A daemon that is not up yet has none waiting.                   *)
(***************************************************************************)
NoneEarly == \A l \in Loops : proc[l[1]] \notin {"up", "leaving"} => pending[l] = {}

HintInv == HintWakes /\ NoneEarly

Awake(l) == sig[l] = "full" \/ pc[l] = "debounce" \/ \E f \in Firers : <<f, l>> \in half

\* A step that touches neither daemons nor hints, and lets no loop out of its
\* debounce.
LEMMA HintsUntouched ==
    ASSUME HintInv, UNCHANGED <<proc, wake>>,
           \A l \in Loops : pc[l] = "debounce" /\ proc[l[1]] = "up" => pc'[l] = "debounce"
    PROVE  HintInv'
  BY DEF HintInv, HintWakes, NoneEarly, wake

\* Every step keeps what is known of a hint.
LEMMA HintStep == TypeOK /\ HintInv /\ [Next]_vars => HintInv'
  <1> SUFFICES ASSUME TypeOK, HintInv, [Next]_vars PROVE HintInv'
    OBVIOUS
  <1>t. /\ pc \in [Workers -> PCs] /\ proc \in [Daemons -> {"down", "checked", "written", "up", "leaving"}]
        /\ pending \in [Loops -> SUBSET Resources] /\ sig \in [Loops -> {"full", "empty"}]
    BY DEF TypeOK
  <1>l. \A l \in Loops : l \in Workers /\ l[1] \in Daemons
    BY LoopsAreWorkers DEF Loops
  <1>1. ASSUME NEW d \in Daemons, CheckPid(d) \/ WritePid(d) \/ StartWatch(d) \/ Stop(d)
        PROVE HintInv'
    <2> SUFFICES ASSUME NEW l \in Loops
                 PROVE  /\ pending'[l] # {} /\ proc'[l[1]] = "up" => Awake(l)'
                        /\ proc'[l[1]] \notin {"up", "leaving"} => pending'[l] = {}
      BY DEF HintInv, HintWakes, NoneEarly, Awake
    <2>1. pending' = pending /\ sig' = sig /\ half' = half
      BY <1>1 DEF CheckPid, WritePid, StartWatch, Stop, wake
    <2>2. CASE l[1] = d
      BY <1>t, <1>l, <1>1, <2>1, <2>2
      DEF CheckPid, WritePid, StartWatch, Stop, HintInv, HintWakes, NoneEarly, Awake
    <2>3. CASE l[1] # d
      <3>1. proc'[l[1]] = proc[l[1]] /\ pc'[l] = pc[l]
        BY <1>t, <1>l, <1>1, <2>3 DEF CheckPid, WritePid, StartWatch, Stop
      <3> QED BY <2>1, <3>1 DEF HintInv, HintWakes, NoneEarly, Awake
    <2> QED BY <2>2, <2>3
  <1>2. ASSUME NEW d \in Daemons, Leave(d) \/ Kill(d) PROVE HintInv'
    <2> SUFFICES ASSUME NEW l \in Loops
                 PROVE  /\ pending'[l] # {} /\ proc'[l[1]] = "up" => Awake(l)'
                        /\ proc'[l[1]] \notin {"up", "leaving"} => pending'[l] = {}
      BY DEF HintInv, HintWakes, NoneEarly, Awake
    <2>1. CASE l[1] = d
      BY <1>t, <1>l, <1>2, <2>1 DEF Leave, Kill
    <2>2. CASE l[1] # d
      <3>1. /\ proc'[l[1]] = proc[l[1]] /\ pc'[l] = pc[l] /\ pending'[l] = pending[l]
            /\ sig'[l] = sig[l]
        BY <1>t, <1>l, <1>2, <2>2 DEF Leave, Kill
      <3>2. \A f \in Firers : <<f, l>> \in half => <<f, l>> \in half'
        BY <1>2, <2>2 DEF Leave, Kill
      <3> QED BY <3>1, <3>2 DEF HintInv, HintWakes, NoneEarly, Awake
    <2> QED BY <2>1, <2>2
  <1>3. ASSUME NEW d \in Daemons, Nudge(d) PROVE HintInv'
    <2> SUFFICES ASSUME NEW l \in Loops
                 PROVE  /\ pending'[l] # {} /\ proc'[l[1]] = "up" => Awake(l)'
                        /\ proc'[l[1]] \notin {"up", "leaving"} => pending'[l] = {}
      BY DEF HintInv, HintWakes, NoneEarly, Awake
    <2>1. proc' = proc /\ pc' = pc /\ sig' = sig /\ half \subseteq half' /\ proc[d] = "up"
      BY <1>3 DEF Nudge
    <2>2. CASE l[1] = d
      <3>1. \E a \in Accounts : l = <<d, a>>
        BY <2>2 DEF Loops
      <3>2. <<"nudge", l>> \in half'
        BY <1>3, <3>1 DEF Nudge
      <3> QED BY <2>1, <2>2, <3>2 DEF Awake, Firers
    <2>3. CASE l[1] # d
      <3>1. pending'[l] = pending[l]
        BY <1>3, <2>3 DEF Nudge
      <3> QED BY <2>1, <3>1 DEF HintInv, HintWakes, NoneEarly, Awake
    <2> QED BY <2>2, <2>3
  <1>4. ASSUME NEW w \in Workers, LockLoop(w) \/ LeaveLoop(w) PROVE HintInv'
    <2> SUFFICES ASSUME NEW l \in Loops
                 PROVE  /\ pending'[l] # {} /\ proc'[l[1]] = "up" => Awake(l)'
                        /\ proc'[l[1]] \notin {"up", "leaving"} => pending'[l] = {}
      BY DEF HintInv, HintWakes, NoneEarly, Awake
    <2>1. /\ pending' = pending /\ sig' = sig /\ half' = half
          /\ \/ proc' = proc
             \/ proc[w[1]] = "up" /\ proc' = [proc EXCEPT ![w[1]] = "leaving"]
      BY <1>4 DEF LockLoop, LeaveLoop, wake, start
    <2>2. proc'[l[1]] = "up" /\ pc[l] = "debounce" => pc'[l] = "debounce"
      BY <1>t, <1>l, <1>4, <2>1 DEF LockLoop, LeaveLoop, BeginPass, start
    <2>3. /\ proc'[l[1]] = "up" => proc[l[1]] = "up"
          /\ proc'[l[1]] \notin {"up", "leaving"} => proc[l[1]] \notin {"up", "leaving"}
      BY <1>t, <1>l, <2>1
    <2> QED BY <2>1, <2>2, <2>3 DEF HintInv, HintWakes, NoneEarly, Awake
  <1>5. ASSUME NEW w \in Workers, Wake(w) \/ Debounced(w) PROVE HintInv'
    <2> SUFFICES ASSUME NEW l \in Loops
                 PROVE  /\ pending'[l] # {} /\ proc'[l[1]] = "up" => Awake(l)'
                        /\ proc'[l[1]] \notin {"up", "leaving"} => pending'[l] = {}
      BY DEF HintInv, HintWakes, NoneEarly, Awake
    <2>1. proc' = proc /\ half' = half /\ w \in Loops /\ proc[w[1]] = "up"
      BY <1>5, LoopsAreWorkers DEF Wake, Debounced, start
    <2>2. CASE l = w
      <3>1. pending'[w] = {} \/ pc'[w] = "debounce"
        BY <1>t, <1>5, <2>1 DEF Wake, Debounced
      <3> QED BY <2>1, <2>2, <3>1 DEF Awake
    <2>3. CASE l # w
      <3>1. pc'[l] = pc[l] /\ pending'[l] = pending[l] /\ sig'[l] = sig[l]
        BY <1>t, <1>l, <1>5, <2>1, <2>3 DEF Wake, Debounced, BeginPass
      <3> QED BY <2>1, <3>1 DEF HintInv, HintWakes, NoneEarly, Awake
    <2> QED BY <2>2, <2>3
  <1>6. ASSUME NEW w \in Workers, Poll(w) \/ Pass(w) \/ Fail(w) PROVE HintInv'
    <2>1. UNCHANGED <<proc, wake>>
      BY <1>6 DEF Poll, Pass, Begin, Attempt, Done, Retire, EndPass, RideOut, Fail, start
    <2>2. pc[w] # "debounce" /\ \A v \in Workers : v # w => pc'[v] = pc[v]
      BY <1>t, <1>6 DEF Poll, Pass, Begin, Attempt, Done, Retire, EndPass, RideOut, Fail, BeginPass
    <2> QED BY <1>l, <2>1, <2>2, HintsUntouched
  <1>7. ASSUME NEW w \in Workers, NEW f \in {"yes", "no"},
               Command(w) \/ Interrupt(w) \/ Sync(w, f)
        PROVE HintInv'
    <2>1. UNCHANGED <<proc, wake>>
      BY <1>7 DEF Command, LockSync, RequestFull, NudgeDaemon, Interrupt, Sync, start, wake
    <2>2. pc[w] # "debounce" \/ w \notin Loops
      BY <1>7 DEF Command, LockSync, RequestFull, NudgeDaemon, Interrupt, Sync, Kept, Loops
    <2>3. \A v \in Workers : v # w => pc'[v] = pc[v]
      BY <1>t, <1>7 DEF Command, LockSync, RequestFull, NudgeDaemon, Interrupt, Sync, BeginPass
    <2> QED BY <1>l, <2>1, <2>2, <2>3, HintsUntouched
  <1>8. ASSUME NEW l \in Loops, NEW r \in Pushed, Hint(l, {r}) PROVE HintInv'
    <2> SUFFICES ASSUME NEW k \in Loops
                 PROVE  /\ pending'[k] # {} /\ proc'[k[1]] = "up" => Awake(k)'
                        /\ proc'[k[1]] \notin {"up", "leaving"} => pending'[k] = {}
      BY DEF HintInv, HintWakes, NoneEarly, Awake
    <2>1. /\ proc' = proc /\ pc' = pc /\ sig' = sig /\ half' = half \cup {<<"push", l>>}
          /\ proc[l[1]] = "up"
          /\ k # l => pending'[k] = pending[k]
      BY <1>8 DEF Hint, start
    <2> QED BY <1>8, <2>1 DEF Hint, start, HintInv, HintWakes, NoneEarly, Awake, Firers
  <1>9. ASSUME NEW h \in half, Signal(h) PROVE HintInv'
    <2> SUFFICES ASSUME NEW l \in Loops
                 PROVE  /\ pending'[l] # {} /\ proc'[l[1]] = "up" => Awake(l)'
                        /\ proc'[l[1]] \notin {"up", "leaving"} => pending'[l] = {}
      BY DEF HintInv, HintWakes, NoneEarly, Awake
    <2>1. /\ proc' = proc /\ pc' = pc /\ pending' = pending /\ half' = half \ {h}
          /\ sig' = [sig EXCEPT ![h[2]] = "full"]
      BY <1>9 DEF Signal, start
    <2>2. CASE l = h[2]
      BY <1>t, <2>1, <2>2 DEF HintInv, NoneEarly, Awake
    <2>3. CASE l # h[2]
      <3>1. \A f \in Firers : <<f, l>> \in half => <<f, l>> \in half'
        BY <2>1, <2>3
      <3>2. sig'[l] = sig[l]
        BY <1>t, <2>1, <2>3
      <3> QED BY <2>1, <3>1, <3>2 DEF HintInv, HintWakes, NoneEarly, Awake
    <2> QED BY <2>2, <2>3
  <1>10. CASE UNCHANGED vars
    BY <1>10, HintsUntouched DEF vars, start
  <1> QED
    BY <1>1, <1>2, <1>3, <1>4, <1>5, <1>6, <1>7, <1>8, <1>9, <1>10 DEF Next, Service, Loop

\* accountWatch: while a hint or a nudge waits to be taken, something is on
\* its way that wakes the loop.
THEOREM HintsAreNotForgotten == Spec => []HintWakes
  <1>1. Init => HintInv
    BY DEF Init, HintInv, HintWakes, NoneEarly
  <1>2. HintInv => HintWakes
    BY DEF HintInv
  <1> QED
    BY <1>1, <1>2, TypeInit, TypeStep, HintStep, PTL DEF Spec

-----------------------------------------------------------------------------
(***************************************************************************)
(* The pid file.  As long as no two daemons have looked at it together, at *)
(* most one process is anywhere between the look and the removal.          *)
(***************************************************************************)
Running(d) == proc[d] \in {"written", "up", "leaving"}

PidInv == raced = "no" =>
    /\ \A d \in Daemons : Running(d) => pidfile = d
    /\ \A d, e \in Daemons : proc[d] = "checked" => ~Running(e) /\ (proc[e] = "checked" => d = e)

\* Every step keeps what is known of the pid file.
LEMMA PidStep == TypeOK /\ PidInv /\ [Next]_vars => PidInv'
  <1> SUFFICES ASSUME TypeOK, PidInv, [Next]_vars, raced' = "no"
               PROVE  /\ \A d \in Daemons : Running(d)' => pidfile' = d
                      /\ \A d, e \in Daemons : proc'[d] = "checked" =>
                             ~Running(e)' /\ (proc'[e] = "checked" => d = e)
    BY DEF PidInv
  <1>t. proc \in [Daemons -> {"down", "checked", "written", "up", "leaving"}]
    BY DEF TypeOK
  <1>r. raced = "no"
    <2>1. ASSUME NEW d \in Daemons, CheckPid(d) \/ Service(d) \/ Nudge(d) \/ Stop(d) \/ Kill(d)
          PROVE  raced = "no"
      BY <2>1 DEF Service, CheckPid, WritePid, StartWatch, Leave, Nudge, Stop, Kill, start
    <2>2. ASSUME NEW w \in Workers, Loop(w) PROVE raced = "no"
      BY <2>2 DEF Loop, LockLoop, Poll, Wake, Debounced, LeaveLoop, start
    <2>3. ASSUME NEW w \in Workers, Pass(w) \/ Fail(w) PROVE raced = "no"
      BY <2>3 DEF Pass, Begin, Attempt, Done, Retire, EndPass, RideOut, Fail, start
    <2>4. ASSUME NEW w \in Workers, Command(w) \/ Interrupt(w) \/ \E f \in {"yes", "no"} : Sync(w, f)
          PROVE  raced = "no"
      BY <2>4 DEF Command, LockSync, RequestFull, NudgeDaemon, Interrupt, Sync, start
    <2>5. ASSUME NEW l \in Loops, NEW r \in Pushed, Hint(l, {r}) PROVE raced = "no"
      BY <2>5 DEF Hint, start
    <2>6. ASSUME NEW h \in half, Signal(h) PROVE raced = "no"
      BY <2>6 DEF Signal, start
    <2>7. CASE UNCHANGED vars
      BY <2>7 DEF vars, start
    <2> QED BY <2>1, <2>2, <2>3, <2>4, <2>5, <2>6, <2>7 DEF Next
  <1>i. /\ \A d \in Daemons : Running(d) => pidfile = d
        /\ \A d, e \in Daemons : proc[d] = "checked" => ~Running(e) /\ (proc[e] = "checked" => d = e)
    BY <1>r DEF PidInv
  <1> DEFINE Goal == /\ \A d \in Daemons : Running(d)' => pidfile' = d
                     /\ \A d, e \in Daemons : proc'[d] = "checked" =>
                            ~Running(e)' /\ (proc'[e] = "checked" => d = e)
  <1>1. ASSUME NEW d \in Daemons, CheckPid(d) PROVE Goal
    <2>1. /\ pidfile' = pidfile /\ pidfile \notin Daemons
          /\ proc' = [proc EXCEPT ![d] = "checked"]
          /\ ~ \E e \in Daemons : proc[e] = "checked"
      BY <1>1, <1>r DEF CheckPid, Alive
    <2>2. \A e \in Daemons : ~Running(e)
      BY <1>i, <2>1
    <2> QED BY <1>t, <2>1, <2>2 DEF Running
  <1>2. ASSUME NEW d \in Daemons, WritePid(d) PROVE Goal
    <2>1. proc[d] = "checked" /\ pidfile' = d /\ proc' = [proc EXCEPT ![d] = "written"]
      BY <1>2 DEF WritePid
    <2> QED BY <1>t, <1>i, <2>1 DEF Running
  <1>3. ASSUME NEW d \in Daemons, Leave(d) \/ Kill(d) PROVE Goal
    <2>1. /\ proc' = [proc EXCEPT ![d] = "down"]
          /\ pidfile' = pidfile \/ Running(d) \/ pidfile = d
      BY <1>3 DEF Leave, Kill, Running
    <2> QED BY <1>t, <1>i, <2>1, <1>3 DEF Leave, Kill, Running
  <1>4. ASSUME NEW d \in Daemons, NEW s \in {"up", "leaving"}, Running(d),
               pidfile' = pidfile, proc' = [proc EXCEPT ![d] = s]
        PROVE Goal
    BY <1>t, <1>i, <1>4 DEF Running
  <1>5. ASSUME UNCHANGED <<pidfile, proc>> PROVE Goal
    BY <1>i, <1>5 DEF Running
  <1>6. ASSUME NEW d \in Daemons, StartWatch(d) \/ Stop(d) PROVE Goal
    BY <1>4, <1>6 DEF StartWatch, Stop, Running
  <1>7. ASSUME NEW w \in Workers, LockLoop(w) PROVE Goal
    <2>1. /\ pidfile' = pidfile /\ w[1] \in Daemons /\ Running(w[1])
          /\ proc' = proc \/ proc' = [proc EXCEPT ![w[1]] = "leaving"]
      BY <1>7 DEF LockLoop, Kept, Running
    <2> QED BY <1>4, <1>5, <2>1
  <1>8. ASSUME NEW w \in Workers, Loop(w) \/ Pass(w) \/ Fail(w) \/ Command(w) \/ Interrupt(w)
        PROVE Goal
    <2>1. CASE LockLoop(w) BY <1>7, <2>1
    <2>2. CASE ~LockLoop(w)
      BY <1>5, <1>8, <2>2
      DEF Loop, Pass, Command, Poll, Wake, Debounced, LeaveLoop, Begin, Attempt, Done, Retire,
          EndPass, RideOut, Fail, LockSync, RequestFull, NudgeDaemon, Interrupt, start
    <2> QED BY <2>1, <2>2
  <1>9. ASSUME NEW d \in Daemons, Nudge(d) PROVE Goal
    BY <1>5, <1>9 DEF Nudge
  <1>10. ASSUME NEW l \in Loops, NEW r \in Pushed, Hint(l, {r}) PROVE Goal
    BY <1>5, <1>10 DEF Hint, start
  <1>11. ASSUME NEW h \in half, Signal(h) PROVE Goal
    BY <1>5, <1>11 DEF Signal, start
  <1>12. ASSUME NEW w \in Workers, NEW f \in {"yes", "no"}, Sync(w, f) PROVE Goal
    BY <1>5, <1>12 DEF Sync, start
  <1>13. CASE UNCHANGED vars
    BY <1>5, <1>13 DEF vars, start
  <1> QED
    BY <1>1, <1>2, <1>3, <1>6, <1>8, <1>9, <1>10, <1>11, <1>12, <1>13 DEF Next, Service

\* coreWatch: unless two daemons were started together, the pid file names the
\* one that runs, from before it listens until it has left.
THEOREM PidFileTrue == Spec => []PidNamesDaemon
  <1>1. Init => PidInv
    BY DEF Init, PidInv, Running
  <1>2. PidInv => PidNamesDaemon
    BY DEF PidInv, PidNamesDaemon, Running
  <1> QED
    BY <1>1, <1>2, TypeInit, TypeStep, PidStep, PTL DEF Spec

-----------------------------------------------------------------------------
(* The configuration every process reads before anything else.             *)

\* A key of the file, absent or present.
Key(S) == {{}} \cup {{v} : v \in S}

MailTables == [backend : Key(STRING), vendor : Key(STRING), host : Key(STRING), security : Key(STRING)]
CalendarTables == [backend : Key(STRING), vendor : Key(STRING), base_url : Key(STRING)]
Tables == [mail : Key(MailTables), calendar : Key(CalendarTables), poll : Key(Int), push : Key(BOOLEAN),
           spam : Key(BOOLEAN), raw : Key(Int), calendars : Key(SUBSET STRING), concurrency : Key(Int)]
ModelTables == [backend : Key(STRING), model : Key(STRING), url : Key(STRING), timeout : Key(Int)]

\* Whatever somebody may have written there.
Files == [default : Key(STRING), accounts : UNION {[S -> Tables] : S \in SUBSET STRING},
          models : UNION {[S -> ModelTables] : S \in SUBSET STRING}, ai : Key(STRING)]

\* What is left out where it is the default is read back.
LEMMA DefaultRead == \A v, d : Or(Unless(v, d), d) = v
  <1> SUFFICES ASSUME NEW v, NEW d PROVE Or(Unless(v, d), d) = v
    OBVIOUS
  <1>1. CASE v = d
    BY <1>1 DEF Or, Unless
  <1>2. CASE v # d
    <2>1. Unless(v, d) = {v} BY <1>2 DEF Unless
    <2>2. (CHOOSE x \in {v} : TRUE) = v OBVIOUS
    <2>. QED BY <2>1, <2>2 DEF Or
  <1>. QED BY <1>1, <1>2

\* A key that is present.
LEMMA OneRead == \A v, d : Or({v}, d) = v
  <1> SUFFICES ASSUME NEW v, NEW d PROVE Or({v}, d) = v
    OBVIOUS
  <1>1. (CHOOSE x \in {v} : TRUE) = v OBVIOUS
  <1>. QED BY <1>1 DEF Or

\* A mail half is read back as it was written.
LEMMA MailKept ==
    ASSUME NEW t \in MailTables, ~BadMail(MailBlock(t))
    PROVE  MailBlock(RenderMail(MailBlock(t))) = MailBlock(t)
  <1> DEFINE m == MailBlock(t)
             r == RenderMail(m)
             back == MailBlock(r)
  <1>1. /\ m = [backend |-> m.backend, host |-> m.host, security |-> m.security, vendor |-> m.vendor]
        /\ m.vendor = None /\ m.host = None => DefaultVendor(m.backend) = None
    BY DEF MailBlock
  <1>2. r = [backend |-> {m.backend}, host |-> Unless(m.host, None), security |-> Unless(m.security, None),
             vendor |-> {m.vendor} \ {None, IF m.backend = "imap" THEN None ELSE DefaultVendor(m.backend)}]
    BY DEF RenderMail
  <1>3. m.backend # "imap" => m.host = None
    BY DEF BadMail
  <1> HIDE DEF m
  <1>4. /\ Or(r.backend, None) = m.backend /\ Or(r.host, None) = m.host
        /\ Or(r.security, None) = m.security
    <2>1. /\ r.backend = {m.backend} /\ r.host = Unless(m.host, None)
          /\ r.security = Unless(m.security, None)
      BY <1>2
    <2>. QED BY <2>1, OneRead, DefaultRead
  <1> DEFINE D == IF m.backend = "imap" THEN None ELSE DefaultVendor(m.backend)
             v == IF m.vendor \in {None, D} THEN None ELSE m.vendor
  <1>5. Or(r.vendor, None) = v
    <2>1. CASE m.vendor \in {None, D}
      <3>1. r.vendor = {} BY <1>2, <2>1
      <3>. QED BY <2>1, <3>1 DEF Or
    <2>2. CASE m.vendor \notin {None, D}
      <3>1. r.vendor = {m.vendor} BY <1>2, <2>2
      <3>. QED BY <2>2, <3>1, OneRead
    <2>. QED BY <2>1, <2>2
  <1>6. back = [backend |-> m.backend, host |-> m.host, security |-> m.security,
                vendor |-> IF v = None /\ m.host = None THEN DefaultVendor(m.backend) ELSE v]
    <2> HIDE DEF v, r
    <2>. QED BY <1>4, <1>5 DEF MailBlock
  <1>7. (IF v = None /\ m.host = None THEN DefaultVendor(m.backend) ELSE v) = m.vendor
    <2>1. CASE m.backend = "imap"
      <3>1. DefaultVendor(m.backend) = None BY <2>1 DEF DefaultVendor
      <3>. QED BY <2>1, <3>1
    <2>2. CASE m.backend # "imap"
      BY <1>1, <1>3, <2>2
    <2>. QED BY <2>1, <2>2
  <1>8. back = m
    <2> HIDE DEF v, back
    <2>. QED BY <1>1, <1>6, <1>7
  <1>. QED BY <1>8 DEF m

\* A calendar half is, but for its vendor (Unpinned).
LEMMA CalendarKept ==
    ASSUME NEW t \in CalendarTables
    PROVE  LET c == CalendarBlock(t)
           IN  CalendarBlock(RenderCalendar(c)) =
                 [c EXCEPT !.vendor = IF c.base_url # None /\ c.vendor = DefaultVendor(c.backend)
                                      THEN None ELSE c.vendor]
  <1> DEFINE c == CalendarBlock(t)
             r == RenderCalendar(c)
             back == CalendarBlock(r)
  <1>1. /\ c = [backend |-> c.backend, base_url |-> c.base_url, vendor |-> c.vendor]
        /\ c.vendor = None /\ c.base_url = None => DefaultVendor(c.backend) = None
    BY DEF CalendarBlock
  <1>2. r = [backend |-> {c.backend}, base_url |-> Unless(c.base_url, None),
             vendor |-> {c.vendor} \ {None, IF c.backend = "caldav" THEN None ELSE DefaultVendor(c.backend)}]
    BY DEF RenderCalendar
  <1> HIDE DEF c
  <1>3. Or(r.backend, None) = c.backend /\ Or(r.base_url, None) = c.base_url
    <2>1. r.backend = {c.backend} /\ r.base_url = Unless(c.base_url, None) BY <1>2
    <2>. QED BY <2>1, OneRead, DefaultRead
  <1> DEFINE D == IF c.backend = "caldav" THEN None ELSE DefaultVendor(c.backend)
             v == IF c.vendor \in {None, D} THEN None ELSE c.vendor
  <1>4. Or(r.vendor, None) = v
    <2>1. CASE c.vendor \in {None, D}
      <3>1. r.vendor = {} BY <1>2, <2>1
      <3>. QED BY <2>1, <3>1 DEF Or
    <2>2. CASE c.vendor \notin {None, D}
      <3>1. r.vendor = {c.vendor} BY <1>2, <2>2
      <3>. QED BY <2>2, <3>1, OneRead
    <2>. QED BY <2>1, <2>2
  <1>5. back = [backend |-> c.backend, base_url |-> c.base_url,
                vendor |-> IF v = None /\ c.base_url = None THEN DefaultVendor(c.backend) ELSE v]
    <2> HIDE DEF v, r
    <2>. QED BY <1>3, <1>4 DEF CalendarBlock
  <1>6. (IF v = None /\ c.base_url = None THEN DefaultVendor(c.backend) ELSE v)
          = IF c.base_url # None /\ c.vendor = DefaultVendor(c.backend) THEN None ELSE c.vendor
    <2>1. CASE c.backend = "caldav"
      <3>1. DefaultVendor(c.backend) = None BY <2>1 DEF DefaultVendor
      <3>. QED BY <2>1, <3>1
    <2>2. CASE c.backend # "caldav"
      BY <1>1, <2>2
    <2>. QED BY <2>1, <2>2
  <1>7. back = [c EXCEPT !.vendor = IF c.base_url # None /\ c.vendor = DefaultVendor(c.backend)
                                    THEN None ELSE c.vendor]
    <2> HIDE DEF v, back
    <2>. QED BY <1>1, <1>5, <1>6
  <1>. QED BY <1>7 DEF c

\* A model of the [ai] table is.
LEMMA ModelKept ==
    ASSUME NEW t \in ModelTables
    PROVE  MaterializeModel(RenderModel(MaterializeModel(t))) = MaterializeModel(t)
  <1> DEFINE m == MaterializeModel(t)
             r == RenderModel(m)
             U == IF m.backend = "ollama" THEN "local" ELSE None
  <1>1. m = [backend |-> m.backend, model |-> m.model, url |-> m.url, timeout |-> m.timeout]
    BY DEF MaterializeModel
  <1>2. m.url = Or(t.url \ {None}, U) /\ m.timeout = Or(t.timeout \ {0}, 300)
    BY DEF MaterializeModel
  <1>3. m.url = None => U = None
    <2>1. CASE t.url \ {None} = {} BY <1>2, <2>1 DEF Or
    <2>2. CASE t.url \ {None} # {}
      <3>1. (CHOOSE x \in t.url \ {None} : TRUE) \in t.url \ {None} BY <2>2
      <3>. QED BY <1>2, <2>2, <3>1 DEF Or
    <2>. QED BY <2>1, <2>2
  <1>4. m.timeout # 0
    <2>1. CASE t.timeout \ {0} = {} BY <1>2, <2>1 DEF Or
    <2>2. CASE t.timeout \ {0} # {}
      <3>1. (CHOOSE x \in t.timeout \ {0} : TRUE) \in t.timeout \ {0} BY <2>2
      <3>. QED BY <1>2, <2>2, <3>1 DEF Or
    <2>. QED BY <2>1, <2>2
  <1>5. r = [backend |-> Unless(m.backend, "ollama"), model |-> Unless(m.model, None),
             url |-> {m.url} \ {None, U}, timeout |-> {m.timeout} \ {0, 300}]
    BY DEF RenderModel
  <1> HIDE DEF m
  <1>6. Or(r.backend, "ollama") = m.backend /\ Or(r.model, None) = m.model
    BY <1>5, DefaultRead
  <1>7. Or(r.url \ {None}, U) = m.url
    <2>1. CASE m.url = U
      <3>1. r.url \ {None} = {} BY <1>5, <2>1
      <3>. QED BY <2>1, <3>1 DEF Or
    <2>2. CASE m.url # U
      <3>1. r.url \ {None} = {m.url} BY <1>3, <1>5, <2>2
      <3>. QED BY <3>1, OneRead
    <2>. QED BY <2>1, <2>2
  <1>8. Or(r.timeout \ {0}, 300) = m.timeout
    <2>1. CASE m.timeout = 300
      <3>1. r.timeout \ {0} = {} BY <1>5, <2>1
      <3>. QED BY <2>1, <3>1 DEF Or
    <2>2. CASE m.timeout # 300
      <3>1. r.timeout \ {0} = {m.timeout} BY <1>4, <1>5, <2>2
      <3>. QED BY <3>1, OneRead
    <2>. QED BY <2>1, <2>2
  <1>9. MaterializeModel(r) = m
    <2> HIDE DEF r
    <2>. QED BY <1>1, <1>6, <1>7, <1>8 DEF MaterializeModel
  <1>. QED BY <1>9 DEF m

\* So is an account: the defaults its backends give are those it was read with.
LEMMA AccountKept ==
    ASSUME NEW t \in Tables, \A m \in Materialize(t).mail : ~BadMail(m)
    PROVE  LET a == Materialize(t)
           IN  Materialize(Render(a)) =
                 [a EXCEPT !.calendar =
                    {[c EXCEPT !.vendor = IF c.base_url # None /\ c.vendor = DefaultVendor(c.backend)
                                          THEN None ELSE c.vendor] : c \in a.calendar}]
  <1> DEFINE a == Materialize(t)
             r == Render(a)
             back == Materialize(r)
             def == DefaultsFor(a)
             Freed(c) == [c EXCEPT !.vendor = IF c.base_url # None /\ c.vendor = DefaultVendor(c.backend)
                                             THEN None ELSE c.vendor]
             halves == {MailBlock(m) : m \in r.mail}
  <1>1. /\ a = [mail |-> a.mail, calendar |-> a.calendar, poll |-> a.poll, push |-> a.push,
                spam |-> a.spam, raw |-> a.raw, calendars |-> a.calendars, concurrency |-> a.concurrency]
        /\ a.mail = {MailBlock(m) : m \in t.mail} /\ a.calendar = {CalendarBlock(c) : c \in t.calendar}
    BY DEF Materialize
  <1>2. /\ \A m \in t.mail : m \in MailTables /\ ~BadMail(MailBlock(m))
        /\ \A c \in t.calendar : c \in CalendarTables
    BY <1>1 DEF Tables, Key
  <1> HIDE DEF a
  <1>3. /\ r.mail = {RenderMail(m) : m \in a.mail} /\ r.calendar = {RenderCalendar(c) : c \in a.calendar}
        /\ r.poll = Unless(a.poll, def.poll) /\ r.push = Unless(a.push, def.push)
        /\ r.spam = Unless(a.spam, def.spam) /\ r.raw = a.raw
        /\ r.calendars = Unless(a.calendars, def.calendars)
        /\ r.concurrency = Unless(a.concurrency, def.concurrency)
    BY DEF Render
  <1>4. halves = a.mail
    <2>1. \A m \in a.mail : MailBlock(RenderMail(m)) = m
      BY <1>1, <1>2, MailKept
    <2>2. halves = {MailBlock(RenderMail(m)) : m \in a.mail} BY <1>3
    <2>. QED BY <2>1, <2>2
  <1>5. {CalendarBlock(c) : c \in r.calendar} = {Freed(c) : c \in a.calendar}
    <2>1. \A c \in a.calendar : CalendarBlock(RenderCalendar(c)) = Freed(c)
      BY <1>1, <1>2, CalendarKept
    <2>2. {CalendarBlock(c) : c \in r.calendar} = {CalendarBlock(RenderCalendar(c)) : c \in a.calendar}
      BY <1>3
    <2>. QED BY <2>1, <2>2
  <1>6. /\ def.poll = DefaultPoll(BackendOf(a.mail)) /\ def.push = DefaultPush(BackendOf(a.mail))
        /\ def.spam = TRUE /\ def.calendars = {"*"} /\ def.concurrency = 4
    <2> DEFINE B == BackendOf(a.mail)
               bare == {[EmptyMail EXCEPT !.backend = {b}] : b \in B}
               bared == {MailBlock(m) : m \in bare}
    <2>1. \A b : MailBlock([EmptyMail EXCEPT !.backend = {b}]).backend = b
      BY OneRead DEF EmptyMail, MailBlock
    <2>2. bared = {MailBlock([EmptyMail EXCEPT !.backend = {b}]) : b \in B}
      OBVIOUS
    <2>3. BackendOf(bared) = {MailBlock([EmptyMail EXCEPT !.backend = {b}]).backend : b \in B}
      BY <2>2 DEF BackendOf
    <2>4. BackendOf(bared) = B
      <3> DEFINE X(b) == MailBlock([EmptyMail EXCEPT !.backend = {b}]).backend
      <3>1. \A b : X(b) = b BY <2>1
      <3>2. BackendOf(bared) = {X(b) : b \in B} BY <2>3
      <3> HIDE DEF X, B, bared
      <3>3. {X(b) : b \in B} = B BY <3>1
      <3>. QED BY <3>2, <3>3
    <2>5. /\ def.poll = Or({}, DefaultPoll(BackendOf(bared))) /\ def.push = Or({}, DefaultPush(BackendOf(bared)))
          /\ def.spam = Or({}, TRUE) /\ def.calendars = Or({}, {"*"}) /\ def.concurrency = Or({}, 4)
      BY DEF DefaultsFor, Materialize, EmptyTable
    <2>6. \A d : Or({}, d) = d
      BY DEF Or
    <2>. QED BY <2>4, <2>5, <2>6
  <1>7. /\ Or(r.poll, DefaultPoll(BackendOf(halves))) = a.poll /\ Or(r.push, DefaultPush(BackendOf(halves))) = a.push
        /\ Or(r.spam, TRUE) = a.spam /\ Or(r.calendars, {"*"}) = a.calendars
        /\ Or(r.concurrency, 4) = a.concurrency
    <2> HIDE DEF halves, def, r
    <2>1. Or(r.poll, DefaultPoll(BackendOf(halves))) = a.poll BY <1>3, <1>4, <1>6, DefaultRead
    <2>2. Or(r.push, DefaultPush(BackendOf(halves))) = a.push
      <3>1. Or(Unless(a.push, def.push), def.push) = a.push BY DefaultRead
      <3>. QED BY <1>3, <1>4, <1>6, <3>1
    <2>3. Or(r.spam, TRUE) = a.spam
      <3>1. Or(Unless(a.spam, def.spam), def.spam) = a.spam BY DefaultRead
      <3>. QED BY <1>3, <1>6, <3>1
    <2>4. Or(r.calendars, {"*"}) = a.calendars BY <1>3, <1>6, DefaultRead
    <2>5. Or(r.concurrency, 4) = a.concurrency BY <1>3, <1>6, DefaultRead
    <2>. QED BY <2>1, <2>2, <2>3, <2>4, <2>5
  <1>8. back = [a EXCEPT !.calendar = {Freed(c) : c \in a.calendar}]
    <2>1. back = [mail |-> halves, calendar |-> {CalendarBlock(c) : c \in r.calendar},
                  poll |-> Or(r.poll, DefaultPoll(BackendOf(halves))),
                  push |-> Or(r.push, DefaultPush(BackendOf(halves))), spam |-> Or(r.spam, TRUE),
                  raw |-> r.raw, calendars |-> Or(r.calendars, {"*"}),
                  concurrency |-> Or(r.concurrency, 4)]
      BY DEF Materialize
    <2> HIDE DEF halves, r, back, Freed
    <2> DEFINE kept == {Freed(c) : c \in a.calendar}
    <2> HIDE DEF kept
    <2>2. [a EXCEPT !.calendar = kept] =
            [mail |-> a.mail, calendar |-> kept, poll |-> a.poll, push |-> a.push,
             spam |-> a.spam, raw |-> a.raw, calendars |-> a.calendars, concurrency |-> a.concurrency]
      BY <1>1
    <2>3. {CalendarBlock(c) : c \in r.calendar} = kept BY <1>5 DEF kept
    <2>4. back = [a EXCEPT !.calendar = kept]
      BY <1>3, <1>4, <1>7, <2>1, <2>2, <2>3
    <2>. QED BY <2>4 DEF kept
  <1>. QED BY <1>8 DEF a

\* Whatever a file says that is accepted is read back from what a command writes of
\* it, and is accepted again, for every account, model and default, but for the
\* vendor of a calendar that has an address of its own (load.go materialize, save.go
\* render): what ConfigWhole says of the files that processes write, of every file.
THEOREM ConfigIsKept ==
    ASSUME NEW file \in Files, Validate(Load(file))
    PROVE  Load(Save(Load(file))) = Unpinned(Load(file)) /\ Validate(Load(Save(Load(file))))
  <1> DEFINE c == Load(file)
             s == Save(c)
             back == Load(s)
  <1>1. c = [default |-> c.default, accounts |-> c.accounts, models |-> c.models, ai |-> c.ai]
    BY DEF Load
  <1>2. /\ c.accounts = [n \in DOMAIN file.accounts |-> Materialize(file.accounts[n])]
        /\ c.models = [n \in DOMAIN file.models |-> MaterializeModel(file.models[n])]
    BY DEF Load
  <1>3. /\ \A n \in DOMAIN file.accounts : file.accounts[n] \in Tables
        /\ \A n \in DOMAIN file.models : file.models[n] \in ModelTables
    BY DEF Files
  <1>4. /\ \A n \in DOMAIN c.accounts : \A m \in c.accounts[n].mail : ~BadMail(m)
        /\ c.ai # None => c.ai \in DOMAIN c.models
    BY DEF Validate, BadBackends, BadAI
  <1> HIDE DEF c
  <1>5. /\ s.default = Unless(c.default, None)
        /\ s.accounts = [n \in DOMAIN c.accounts |-> Render(c.accounts[n])]
        /\ s.models = [n \in DOMAIN c.models |-> RenderModel(c.models[n])]
        /\ s.ai = IF DOMAIN c.models = {} THEN {} ELSE Unless(c.ai, None)
    BY DEF Save
  <1> HIDE DEF s
  <1>6. back = [default |-> Or(s.default, None),
                accounts |-> [n \in DOMAIN s.accounts |-> Materialize(s.accounts[n])],
                models |-> [n \in DOMAIN s.models |-> MaterializeModel(s.models[n])],
                ai |-> Or(s.ai, None)]
    BY DEF Load
  <1>7. Or(s.default, None) = c.default
    BY <1>5, DefaultRead
  <1>8. Or(s.ai, None) = c.ai
    <2>1. CASE DOMAIN c.models = {} BY <1>4, <1>5, <2>1 DEF Or
    <2>2. CASE DOMAIN c.models # {} BY <1>5, <2>2, DefaultRead
    <2>. QED BY <2>1, <2>2
  <1>9. [n \in DOMAIN s.models |-> MaterializeModel(s.models[n])] = c.models
    <2>1. \A n \in DOMAIN c.models : MaterializeModel(RenderModel(c.models[n])) = c.models[n]
      BY <1>2, <1>3, ModelKept
    <2>. QED BY <1>2, <1>5, <2>1
  <1> DEFINE Freed(b) == [b EXCEPT !.vendor = IF b.base_url # None /\ b.vendor = DefaultVendor(b.backend)
                                             THEN None ELSE b.vendor]
             FreedIn(n) == [c.accounts[n] EXCEPT !.calendar = {Freed(b) : b \in c.accounts[n].calendar}]
  <1>10. [n \in DOMAIN s.accounts |-> Materialize(s.accounts[n])] = [n \in DOMAIN c.accounts |-> FreedIn(n)]
    <2>1. \A n \in DOMAIN c.accounts : Materialize(Render(c.accounts[n])) = FreedIn(n)
      <3>1. ASSUME NEW n \in DOMAIN c.accounts
            PROVE  /\ file.accounts[n] \in Tables /\ c.accounts[n] = Materialize(file.accounts[n])
                   /\ \A m \in Materialize(file.accounts[n]).mail : ~BadMail(m)
        BY <1>2, <1>3, <1>4
      <3>. QED BY <3>1, AccountKept
    <2> HIDE DEF FreedIn
    <2>. QED BY <1>5, <2>1
  <1>11. Unpinned(c) = [c EXCEPT !.accounts = [n \in DOMAIN c.accounts |-> FreedIn(n)]]
    BY DEF Unpinned
  <1>12. back = Unpinned(c)
    <2> HIDE DEF back, FreedIn
    <2>. QED BY <1>1, <1>6, <1>7, <1>8, <1>9, <1>10, <1>11
  <1>13. Validate(Unpinned(c))
    <2> DEFINE u == Unpinned(c)
    <2>1. u.default = c.default /\ u.models = c.models /\ u.ai = c.ai
          /\ u.accounts = [n \in DOMAIN c.accounts |-> FreedIn(n)]
      <3> HIDE DEF FreedIn
      <3>. QED BY <1>1, <1>11
    <2>2. Validate(c) BY DEF c
    <2>3. ASSUME NEW n \in DOMAIN c.accounts
          PROVE  /\ FreedIn(n).mail = c.accounts[n].mail /\ FreedIn(n).push = c.accounts[n].push
                 /\ FreedIn(n).poll = c.accounts[n].poll /\ FreedIn(n).raw = c.accounts[n].raw
                 /\ FreedIn(n).concurrency = c.accounts[n].concurrency
                 /\ FreedIn(n).calendar = {Freed(b) : b \in c.accounts[n].calendar}
      <3>1. c.accounts[n] = Materialize(file.accounts[n]) BY <1>2, <2>3
      <3>. QED BY <3>1 DEF Materialize
    <2>4. \A n \in DOMAIN c.accounts : \A b \in c.accounts[n].calendar :
             BadCalendar(Freed(b)) => BadCalendar(b)
      <3>1. ASSUME NEW n \in DOMAIN c.accounts, NEW b \in c.accounts[n].calendar
            PROVE  BadCalendar(Freed(b)) => BadCalendar(b)
        <4>1. PICK t : b = CalendarBlock(t)
          BY <1>2, <3>1 DEF Materialize
        <4>2. /\ Freed(b).backend = b.backend /\ Freed(b).base_url = b.base_url
              /\ Freed(b).vendor = b.vendor \/ (Freed(b).vendor = None /\ b.base_url # None)
          BY <4>1 DEF CalendarBlock
        <4>. QED BY <4>2 DEF BadCalendar
      <3>. QED BY <3>1
    <2>5. ASSUME NEW n \in DOMAIN c.accounts PROVE ~BadBackends(FreedIn(n))
      <3>1. ~BadBackends(c.accounts[n]) BY <2>2, <2>5 DEF Validate
      <3> HIDE DEF FreedIn, Freed
      <3>. QED BY <2>3, <2>4, <2>5, <3>1 DEF BadBackends
    <2>6. ~BadAI(u) BY <2>1, <2>2 DEF Validate, BadAI
    <2> HIDE DEF u, FreedIn, Freed
    <2>. QED BY <2>1, <2>2, <2>3, <2>5, <2>6 DEF Validate, u
  <1>. QED BY <1>12, <1>13 DEF c, s

=============================================================================
