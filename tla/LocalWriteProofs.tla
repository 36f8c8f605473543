---------------------------- MODULE LocalWriteProofs ----------------------------
(***************************************************************************)
(* Theorems about LocalWrite, for any message, any writes on it and any    *)
(* number of faults.                                                       *)
(***************************************************************************)
EXTENDS LocalWrite, TLAPS

\* A patched state is a state.
LEMMA PatchedIsState ==
    ASSUME NEW s \in States, NEW p \in Patches
    PROVE  Patched(s, p) \in States
  BY DEF Patched, Patches, States

\* Spending a fault keeps the budget's type.
LEMMA SpendTyped ==
    ASSUME NEW f \in Faults, spent \in [Faults -> Nat], Spend(f)
    PROVE  spent' \in [Faults -> Nat]
  BY DEF Spend

\* The journal grows with every change and with nothing else.
LEMMA MoveIsJournalled ==
    ASSUME NEW s \in States, rev \in Nat, Move(s)
    PROVE  /\ remote' \in States /\ rev' \in Nat /\ rev <= rev'
           /\ remote' # remote => rev < rev'
  BY DEF Move

\* The effect of a write on a state is a state.
LEMMA EffectIsState ==
    ASSUME NEW w \in Writes, remote \in States
    PROVE  Patched(remote, Does[w]) \in States
  BY WritesAssumption, PatchedIsState

-----------------------------------------------------------------------------
(* Types.                                                                  *)

\* The initial states are typed.
LEMMA InitTyped == Init => TypeOK
  BY StatesAssumption, BoundsAssumption DEF Init, TypeOK, NoFence

\* Every step keeps the types.
LEMMA StepTyped == TypeOK /\ [Next]_vars => TypeOK'
<1>. SUFFICES ASSUME TypeOK, [Next]_vars PROVE TypeOK'
  OBVIOUS
<1>. USE DEF TypeOK
<1>1. ASSUME NEW w \in Writes, Ask(w) PROVE TypeOK'
  <2>1. Shows[w] \in Patches BY WritesAssumption
  <2>2. index' \in States /\ fence' \in NoFence..Window
    BY <1>1, <2>1, PatchedIsState, BoundsAssumption DEF Ask, PatchLocal, NoFence
  <2>3. at' \in [Writes -> {"no", "queued", "calling", "answered", "undone"}]
    BY <1>1 DEF Ask
  <2>4. undo' \in [Writes -> States \cup {NoUndo}]
    <3>1. undo' = undo \/ undo' = [undo EXCEPT ![w] = index] BY <1>1 DEF Ask
    <3>. QED BY <3>1
  <2>5. queue' \in Seq(Writes) /\ order' \in Seq(Writes)
    <3>1. queue' = queue \/ queue' = Append(queue, w) BY <1>1 DEF Ask
    <3>2. order' = Append(order, w) BY <1>1 DEF Ask
    <3>3. \A s \in Seq(Writes) : Append(s, w) \in Seq(Writes) OBVIOUS
    <3>. QED BY <3>1, <3>2, <3>3
  <2>6. loose' \subseteq Writes BY <1>1 DEF Ask
  <2>7. row' \in [Writes -> {"unasked", "pending", "done", "failed"}] BY <1>1 DEF Ask
  <2>. QED BY <1>1, <2>2, <2>3, <2>4, <2>5, <2>6, <2>7 DEF Ask, provider, pass
<1>2. ASSUME NEW w \in Writes, Claim(w) PROVE TypeOK'
  BY <1>2 DEF Claim, provider, database, pass
<1>3. ASSUME NEW w \in Writes, Answer(w) PROVE TypeOK'
  <2>1. at' \in [Writes -> {"no", "queued", "calling", "answered", "undone"}]
    BY <1>3 DEF Answer
  <2>2. out' \in [Writes -> {"ok", "refuse", "offline", "deadline"}]
    BY <1>3 DEF Answer
  <2>3. remote' \in States /\ rev' \in Nat
    BY <1>3, EffectIsState, MoveIsJournalled DEF Answer, provider
  <2>4. spent' \in [Faults -> Nat] BY <1>3, SpendTyped DEF Answer, Faults
  <2>. QED BY <1>3, <2>1, <2>2, <2>3, <2>4 DEF Answer, database, pass, history
<1>4. ASSUME NEW w \in Writes, Settle(w) PROVE TypeOK'
  <2>1. CASE Rollback(w)
    <3>1. index' \in States BY <2>1 DEF Rollback
    <3>2. at' \in [Writes -> {"no", "queued", "calling", "answered", "undone"}]
      BY <2>1 DEF Rollback
    <3>3. fence' \in NoFence..Window
      BY <2>1, BoundsAssumption DEF Rollback, NoFence
    <3>4. sound' \in {"yes", "no"} BY <2>1 DEF Rollback
    <3>. QED BY <2>1, <3>1, <3>2, <3>3, <3>4 DEF Rollback, provider, pass, history
  <2>2. CASE Done(w) BY <2>2 DEF Done, Over, provider, pass, history
  <2>3. CASE Requeue(w) BY <2>3 DEF Requeue, Over, provider, pass
  <2>4. CASE FailPermanently(w) BY <2>4 DEF FailPermanently, Over, provider, pass, history
  <2>5. CASE LeaveUnrecorded(w) BY <2>5 DEF LeaveUnrecorded, Over, provider, pass
  <2>. QED BY <1>4, <2>1, <2>2, <2>3, <2>4, <2>5 DEF Settle
<1>5. CASE Dequeue
  <2>1. Head(queue) \in Writes /\ queue' \in Seq(Writes) BY <1>5 DEF Dequeue
  <2>. QED BY <1>5, <2>1 DEF Dequeue, provider, database, pass, history
<1>6. ASSUME NEW S \in Pushers, Crash(S) PROVE TypeOK'
  <2>1. S \subseteq Writes BY <1>6 DEF Pushers
  <2>2. spent' \in [Faults -> Nat] BY <1>6, SpendTyped DEF Crash, Faults
  <2>3. queue' \in Seq(Writes) BY <1>6 DEF Crash
  <2>4. at' \in [Writes -> {"no", "queued", "calling", "answered", "undone"}]
    BY <1>6 DEF Crash
  <2>5. out' \in [Writes -> {"ok", "refuse", "offline", "deadline"}]
    BY <1>6 DEF Crash
  <2>6. undo' \in [Writes -> States \cup {NoUndo}] BY <1>6 DEF Crash
  <2>. QED BY <1>6, <2>1, <2>2, <2>3, <2>4, <2>5, <2>6 DEF Crash, provider, database, pass
<1>7. CASE Pass
  <2>1. CASE Changes \/ ReadEnvelopes \/ ListStale \/ SkipQueued \/ Reread
    BY <2>1 DEF Changes, ReadEnvelopes, ListStale, SkipQueued, Reread,
                provider, database, pushes, history
  <2>2. CASE ApplyDelta
    <3>1. index' \in States /\ fence' \in NoFence..Window /\ sound' \in {"yes", "no"}
      BY <2>2, BoundsAssumption DEF ApplyDelta, ApplyRemoteState, UpsertMessage, NoFence
    <3>. QED BY <2>2, <3>1 DEF ApplyDelta, provider, pushes, history
  <2>3. CASE Reapply
    <3>1. index' \in States /\ fence' \in NoFence..Window /\ sound' \in {"yes", "no"}
      BY <2>3, BoundsAssumption DEF Reapply, ApplyRemoteState, NoFence
    <3>. QED BY <2>3, <3>1 DEF Reapply, provider, pushes, history
  <2>4. CASE ClearStaleLocalPatches
    BY <2>4, BoundsAssumption DEF ClearStaleLocalPatches, NoFence, provider, pushes, history
  <2>. QED BY <1>7, <2>1, <2>2, <2>3, <2>4 DEF Pass
<1>8. CASE Abort
  <2>1. spent' \in [Faults -> Nat] BY <1>8, SpendTyped DEF Abort, Faults
  <2>. QED BY <1>8, <2>1 DEF Abort, provider, database, pushes, history
<1>9. ASSUME NEW f \in Fields, NEW v \in Values, OtherClient(f, v) PROVE TypeOK'
  <2>1. [remote EXCEPT ![f] = v] \in States BY DEF States
  <2>2. remote' \in States /\ rev' \in Nat BY <1>9, <2>1, MoveIsJournalled DEF OtherClient
  <2>3. spent' \in [Faults -> Nat] BY <1>9, SpendTyped DEF OtherClient, Faults
  <2>. QED BY <1>9, <2>2, <2>3 DEF OtherClient, database, pushes, pass
<1>10. CASE Tick
  BY <1>10, BoundsAssumption DEF Tick, Live, Expired, NoFence, provider, pushes, pass, history
<1>11. CASE UNCHANGED vars
  BY <1>11 DEF vars, provider, database, pushes, pass, history
<1>. QED
  BY <1>1, <1>2, <1>3, <1>4, <1>5, <1>6, <1>7, <1>8, <1>9, <1>10, <1>11 DEF Next, Push

\* The variables keep their types.
THEOREM TypeCorrect == Spec => []TypeOK
<1>1. Init => TypeOK BY InitTyped
<1>2. TypeOK /\ [Next]_vars => TypeOK' BY StepTyped
<1>. QED BY <1>1, <1>2, PTL DEF Spec

-----------------------------------------------------------------------------
(* Nothing is forgotten.  What a pass has read is what the provider has, or *)
(* the journal has moved on beyond what the pass will call applied; and     *)
(* once the recheck has read the message back, no expired fence is left.    *)

Ordered == token <= upto /\ upto <= rev

Current == /\ pc = "apply" => env = remote \/ upto < rev
           /\ pc = "reapply" => env = remote \/ token < rev
           /\ pc = "clear" => fence # Expired

IInv == TypeOK /\ Ordered /\ Current /\ Noticed

\* The initial states have the invariant.
LEMMA InitInv == Init => IInv
  BY InitTyped DEF Init, IInv, Ordered, Current, Noticed, WillBeSeen

\* A step that moves the provider and leaves the rest of the index alone.
LEMMA ProviderMoves ==
    ASSUME IInv, NEW s \in States, Move(s) \/ UNCHANGED provider,
           UNCHANGED <<index, fence, token, pass, sound>>
    PROVE  Ordered' /\ Current' /\ Noticed'
<1>. USE DEF IInv, TypeOK
<1>1. rev' \in Nat /\ rev <= rev' /\ (remote' # remote => rev < rev')
  BY MoveIsJournalled DEF provider
<1>2. UNCHANGED <<index, fence, token, pc, upto, env, sound>> BY DEF pass
<1>3. Ordered' BY <1>1, <1>2 DEF Ordered
<1>4. Current' BY <1>1, <1>2 DEF Current, Ordered
<1>5. Noticed' BY <1>1, <1>2 DEF Noticed, WillBeSeen, Ordered
<1>. QED BY <1>3, <1>4, <1>5

\* A step that leaves all of it alone.
LEMMA NothingMoves ==
    ASSUME IInv, UNCHANGED <<provider, index, fence, token, pass, sound>>
    PROVE  Ordered' /\ Current' /\ Noticed'
  BY DEF IInv, Ordered, Current, Noticed, WillBeSeen, provider, pass

\* Every step keeps the invariant.
LEMMA StepInv == IInv /\ [Next]_vars => IInv'
<1>. SUFFICES ASSUME IInv, [Next]_vars PROVE Ordered' /\ Current' /\ Noticed'
  BY StepTyped DEF IInv
<1>. USE DEF IInv, TypeOK
<1>1. ASSUME NEW w \in Writes, Ask(w) PROVE Ordered' /\ Current' /\ Noticed'
  <2>1. fence' = Window /\ UNCHANGED <<remote, rev, token, pc, upto, env, sound>>
    BY <1>1 DEF Ask, PatchLocal, provider, pass
  <2>2. fence' # NoFence /\ fence' # Expired
    BY <2>1, BoundsAssumption DEF NoFence, Expired
  <2>. QED BY <2>1, <2>2 DEF Ordered, Current, Noticed, WillBeSeen
<1>2. ASSUME NEW w \in Writes, Claim(w) PROVE Ordered' /\ Current' /\ Noticed'
  BY <1>2, NothingMoves DEF Claim, database
<1>3. ASSUME NEW w \in Writes, Answer(w) PROVE Ordered' /\ Current' /\ Noticed'
  <2>1. Patched(remote, Does[w]) \in States BY EffectIsState
  <2>2. Move(Patched(remote, Does[w])) \/ UNCHANGED provider BY <1>3 DEF Answer
  <2>3. UNCHANGED <<index, fence, token, pass, sound>> BY <1>3 DEF Answer, database
  <2>. QED BY <2>1, <2>2, <2>3, ProviderMoves
<1>4. ASSUME NEW w \in Writes, Settle(w) PROVE Ordered' /\ Current' /\ Noticed'
  <2>1. CASE Rollback(w)
    <3>1. /\ index' = undo[w] /\ fence' = NoFence
          /\ sound' = IF undo[w] = remote \/ token < rev THEN sound ELSE "no"
          /\ UNCHANGED <<remote, rev, token, pc, upto, env>>
      BY <2>1 DEF Rollback, provider, pass
    <3>2. Ordered' BY <3>1 DEF Ordered
    <3>3. Current' BY <3>1 DEF Current, NoFence, Expired
    <3>4. Noticed' BY <3>1 DEF Noticed, WillBeSeen
    <3>. QED BY <3>2, <3>3, <3>4
  <2>2. CASE Done(w) \/ Requeue(w) \/ FailPermanently(w) \/ LeaveUnrecorded(w)
    BY <2>2, NothingMoves DEF Done, Requeue, FailPermanently, LeaveUnrecorded
  <2>. QED BY <1>4, <2>1, <2>2 DEF Settle
<1>5. CASE Dequeue
  BY <1>5, NothingMoves DEF Dequeue, database
<1>6. ASSUME NEW S \in Pushers, Crash(S) PROVE Ordered' /\ Current' /\ Noticed'
  BY <1>6, NothingMoves DEF Crash, database
<1>7. CASE Changes
  BY <1>7 DEF Changes, Ordered, Current, Noticed, WillBeSeen, provider, database
<1>8. CASE ReadEnvelopes
  BY <1>8 DEF ReadEnvelopes, Ordered, Current, Noticed, WillBeSeen, provider, database
<1>9. CASE ApplyDelta
  <2>1. /\ token' = upto /\ pc' = "stale" /\ pc = "apply"
        /\ UNCHANGED <<remote, rev, upto, env>>
    BY <1>9 DEF ApplyDelta, provider
  <2>2. \/ index' = env
        \/ Live(fence) /\ UNCHANGED <<index, fence>>
    BY <1>9 DEF ApplyDelta, ApplyRemoteState, UpsertMessage, Accepts
  <2>3. Ordered' BY <2>1 DEF Ordered
  <2>4. Current' BY <2>1 DEF Current
  <2>5. Noticed'
    BY <2>1, <2>2 DEF Noticed, WillBeSeen, Current, Live, Expired, NoFence
  <2>. QED BY <2>3, <2>4, <2>5
<1>10. CASE ListStale \/ SkipQueued
  BY <1>10 DEF ListStale, SkipQueued, Ordered, Current, Noticed, WillBeSeen,
               provider, database
<1>11. CASE Reread
  BY <1>11 DEF Reread, Ordered, Current, Noticed, WillBeSeen, provider, database
<1>12. CASE Reapply
  <2>1. /\ pc = "reapply" /\ pc' = "clear"
        /\ UNCHANGED <<remote, rev, token, upto, env>>
    BY <1>12 DEF Reapply, provider
  <2>2. \/ index' = env /\ fence' = NoFence
        \/ Live(fence) /\ UNCHANGED <<index, fence>>
    BY <1>12 DEF Reapply, ApplyRemoteState, Accepts
  <2>3. Ordered' BY <2>1 DEF Ordered
  <2>4. Current' BY <2>1, <2>2 DEF Current, Live, Expired, NoFence
  <2>5. Noticed'
    BY <2>1, <2>2 DEF Noticed, WillBeSeen, Current, Live, Expired, NoFence
  <2>. QED BY <2>3, <2>4, <2>5
<1>13. CASE ClearStaleLocalPatches
  <2>1. fence' = fence
    BY <1>13 DEF ClearStaleLocalPatches, Current
  <2>. QED BY <1>13, <2>1 DEF ClearStaleLocalPatches, Ordered, Current, Noticed,
                              WillBeSeen, provider
<1>14. CASE Abort
  BY <1>14 DEF Abort, Ordered, Current, Noticed, WillBeSeen, provider, database
<1>15. ASSUME NEW f \in Fields, NEW v \in Values, OtherClient(f, v)
       PROVE  Ordered' /\ Current' /\ Noticed'
  <2>1. [remote EXCEPT ![f] = v] \in States BY DEF States
  <2>. QED BY <1>15, <2>1, ProviderMoves DEF OtherClient, database
<1>16. CASE Tick
  <2>1. /\ Live(fence) /\ pc # "clear" /\ fence' = fence - 1
        /\ UNCHANGED <<remote, rev, index, token, pc, upto, env, sound>>
    BY <1>16 DEF Tick, provider, pass
  <2>2. fence' # NoFence BY <2>1 DEF Live, Expired, NoFence
  <2>. QED BY <2>1, <2>2 DEF Ordered, Current, Noticed, WillBeSeen
<1>17. CASE UNCHANGED vars
  BY <1>17, NothingMoves DEF vars, database
<1>. QED
  BY <1>1, <1>2, <1>3, <1>4, <1>5, <1>6, <1>7, <1>8, <1>9, <1>10, <1>11, <1>12,
     <1>13, <1>14, <1>15, <1>16, <1>17 DEF Next, Push, Pass

\* Wherever the index and the provider differ, the journal or a fence will
\* bring a pass to look at the message again; only a rollback can spoil it.
THEOREM NothingIsForgotten == Spec => []Noticed
<1>1. Init => IInv BY InitInv
<1>2. IInv /\ [Next]_vars => IInv' BY StepInv
<1>3. IInv => Noticed BY DEF IInv
<1>. QED BY <1>1, <1>2, <1>3, PTL DEF Spec

-----------------------------------------------------------------------------
(* The fence.                                                              *)

\* While a fence stands, the index moves only with a new write or an undo.
LEMMA StepHolds ==
    ASSUME TypeOK, [Next]_vars, Live(fence), index' # index
    PROVE  \/ order' # order
           \/ \E w \in Writes : at[w] = "answered" /\ at'[w] = "undone"
<1>. USE DEF TypeOK
<1>1. ASSUME NEW w \in Writes, Ask(w) PROVE order' # order
  BY <1>1 DEF Ask
<1>2. ASSUME NEW w \in Writes, Rollback(w)
      PROVE  at[w] = "answered" /\ at'[w] = "undone"
  BY <1>2 DEF Rollback, Rejected
<1>3. ASSUME NEW s, ApplyRemoteState(s) \/ UpsertMessage(s) PROVE FALSE
  BY <1>3 DEF ApplyRemoteState, UpsertMessage, Accepts
<1>4. ~ApplyDelta /\ ~Reapply
  BY <1>3 DEF ApplyDelta, Reapply
<1>5. ~(Changes \/ ReadEnvelopes \/ ListStale \/ SkipQueued \/ Reread \/ Abort)
  BY DEF Changes, ReadEnvelopes, ListStale, SkipQueued, Reread, Abort, database
<1>6. ~(ClearStaleLocalPatches \/ Dequeue \/ Tick \/ UNCHANGED vars)
  BY DEF ClearStaleLocalPatches, Dequeue, Tick, vars, database
<1>7. \A f \in Fields, v \in Values : ~OtherClient(f, v)
  BY DEF OtherClient, database
<1>8. \A S \in Pushers : ~Crash(S)
  BY DEF Crash, database
<1>9. \A w \in Writes : ~Claim(w) /\ ~Answer(w)
  BY DEF Claim, Answer, database
<1>10. \A w \in Writes : ~(Done(w) \/ Requeue(w) \/ FailPermanently(w) \/ LeaveUnrecorded(w))
  BY DEF Done, Requeue, FailPermanently, LeaveUnrecorded
<1>. QED
  BY <1>1, <1>2, <1>4, <1>5, <1>6, <1>7, <1>8, <1>9, <1>10 DEF Next, Push, Settle, Pass

\* While the fence is up, what a pass read before or after the patch does not
\* reach the index: the user's next write or a rollback changes it.
THEOREM FenceStands == Spec => FenceHolds
<1>1. TypeOK /\ [Next]_vars =>
        [Live(fence) /\ index' # index =>
            \/ order' # order
            \/ \E w \in Writes : at[w] = "answered" /\ at'[w] = "undone"]_vars
  BY StepHolds
<1>. QED BY <1>1, TypeCorrect, PTL DEF Spec, FenceHolds
-----------------------------------------------------------------------------
(* Writes go through in order.  Those that no crash or error has taken from *)
(* the queue leave it in the order they were asked for, and one is at the   *)
(* provider when those before it are over; so that the provider has what    *)
(* the last of them to arrive has made of it.                               *)

Places == 1..Len(order)

\* A push has begun or is over; it has reached the provider, or may have.
Begun(w) == at[w] \in {"calling", "answered", "undone"} \/ row[w] \in {"done", "failed"}
Ended(w) == at[w] = "no" /\ row[w] \in {"done", "failed"}
Effective(w) == row[w] = "done" \/ (at[w] = "answered" /\ out[w] = "ok")
Tried(w) == at[w] \in {"answered", "undone"} \/ row[w] \in {"done", "failed"}

\* What was asked for is in order once, and somebody is at it, or anybody may be.
Asked ==
    /\ \A i, j \in Places : order[i] = order[j] => i = j
    /\ \A w \in Writes : /\ row[w] # "unasked" => \E i \in Places : order[i] = w
                         /\ at[w] # "no" => row[w] = "pending"
                         /\ w \notin loose /\ row[w] = "pending" => at[w] # "no"
                         /\ w \in loose => row[w] # "unasked"
    /\ \A i \in Places : row[order[i]] # "unasked"

\* The queue has what waits in it, in the order it was asked for.
InOrder ==
    /\ \A w \in Writes : at[w] = "queued" =>
            w \notin loose /\ \E a \in 1..Len(queue) : queue[a] = w
    /\ \A a \in 1..Len(queue) : at[queue[a]] = "queued"
    /\ \A a, b \in 1..Len(queue) : \A i, j \in Places :
            a < b /\ queue[a] = order[i] /\ queue[b] = order[j] => i < j

\* A push begins when those before it are over.
InTurn ==
    \A i, j \in Places : i < j /\ {order[i], order[j]} \cap loose = {} /\ Begun(order[j]) =>
        Ended(order[i])

\* What the last push has done to a field stays.
Latest ==
    \A f \in Fields \ foreign : \A last \in Touching(f) :
        /\ Effective(order[last])
        /\ \A i \in Touching(f) : order[i] \notin loose /\ (i > last => ~Tried(order[i]))
        => remote[f] = Does[order[last]][f]

OrderInv == Asked /\ InOrder /\ InTurn /\ Latest

\* What Latest says of one field.
LEMMA LatestHolds ==
    ASSUME OrderInv, NEW f \in Fields \ foreign, NEW last \in Touching(f), Effective(order[last]),
           \A i \in Touching(f) : order[i] \notin loose /\ (i > last => ~Tried(order[i]))
    PROVE  remote[f] = Does[order[last]][f]
  BY DEF OrderInv, Latest

\* The initial states are in order.
LEMMA InitOrder == Init => OrderInv
<1>. SUFFICES ASSUME Init PROVE OrderInv
  OBVIOUS
<1>1. Places = {} /\ 1..Len(queue) = {} BY DEF Init, Places
<1>2. \A w \in Writes : row[w] = "unasked" /\ at[w] = "no" BY DEF Init
<1>3. \A f \in Fields : Touching(f) = {} BY <1>1 DEF Touching, Places
<1>4. Asked BY <1>1, <1>2 DEF Init, Asked
<1>5. InOrder BY <1>1, <1>2 DEF InOrder
<1>6. InTurn BY <1>1 DEF InTurn
<1>7. Latest BY <1>3 DEF Latest
<1>. QED BY <1>4, <1>5, <1>6, <1>7 DEF OrderInv

\* A step of others' pushes and passes.
LEMMA OrderStays ==
    ASSUME OrderInv, UNCHANGED <<order, queue, row, at, out, loose>>,
           \A f \in Fields \ foreign' : f \notin foreign /\ remote'[f] = remote[f]
    PROVE  OrderInv'
<1>1. Asked' BY DEF OrderInv, Asked, Places
<1>2. InOrder' BY DEF OrderInv, InOrder, Places
<1>3. InTurn' BY DEF OrderInv, InTurn, Places, Begun, Ended
<1>4. Latest'
  <2>1. \A f \in Fields : Touching(f)' = Touching(f) BY DEF Touching
  <2>. QED BY <2>1 DEF OrderInv, Latest, Touching, Effective, Tried
<1>. QED BY <1>1, <1>2, <1>3, <1>4 DEF OrderInv

\* A write that is asked for comes last, and nothing has been made of it.
LEMMA AskInOrder == ASSUME TypeOK, OrderInv, NEW w \in Writes, Ask(w) PROVE OrderInv'
<1>. USE DEF TypeOK
<1> DEFINE n == Len(order) + 1
<1>1. /\ row[w] = "unasked" /\ row' = [row EXCEPT ![w] = "pending"] /\ order' = Append(order, w)
      /\ UNCHANGED <<remote, out, foreign>>
  BY DEF Ask, provider
<1>2. /\ Len(order) \in Nat /\ Len(order') = n /\ Places' = Places \cup {n} /\ n \notin Places
      /\ order'[n] = w /\ \A i \in Places : order'[i] = order[i] /\ order[i] \in Writes
      /\ Places \subseteq Nat
  BY <1>1 DEF Places
<1>3. \A i \in Places : order[i] # w /\ i < n
  BY <1>1, <1>2 DEF OrderInv, Asked, Places
<1>4. at[w] = "no" /\ \A a \in 1..Len(queue) : queue[a] \in Writes /\ queue[a] # w
  BY <1>1 DEF OrderInv, Asked, InOrder
<1>5. \/ at' = [at EXCEPT ![w] = "calling"] /\ loose' = loose \cup {w} /\ queue' = queue
      \/ at' = at /\ loose' = loose \cup {w} /\ queue' = queue
      \/ at' = [at EXCEPT ![w] = "queued"] /\ loose' = loose /\ queue' = Append(queue, w)
  BY DEF Ask
<1>6. \A v \in Writes : v # w => /\ at'[v] = at[v] /\ row'[v] = row[v] /\ out'[v] = out[v]
                                /\ (v \in loose' <=> v \in loose)
  BY <1>1, <1>5
<1>7. row'[w] = "pending" /\ at'[w] \in {"no", "calling", "queued"}
  BY <1>1, <1>4, <1>5
<1>8. at'[w] # "queued" => w \in loose' /\ queue' = queue
  BY <1>4, <1>5
<1>10. Asked'
  <2>1. \A i, j \in Places' : order'[i] = order'[j] => i = j
    BY <1>2, <1>3 DEF OrderInv, Asked
  <2>2. ASSUME NEW v \in Writes
        PROVE  /\ row'[v] # "unasked" => \E i \in Places' : order'[i] = v
               /\ at'[v] # "no" => row'[v] = "pending"
               /\ v \notin loose' /\ row'[v] = "pending" => at'[v] # "no"
               /\ v \in loose' => row'[v] # "unasked"
    <3>1. CASE v = w
      BY <1>2, <1>5, <1>7, <3>1
    <3>2. CASE v # w
      <4>1. row[v] # "unasked" => \E i \in Places : order[i] = v BY DEF OrderInv, Asked
      <4>2. row'[v] # "unasked" => \E i \in Places' : order'[i] = v
        BY <1>2, <1>6, <3>2, <4>1
      <4>. QED BY <1>6, <3>2, <4>2 DEF OrderInv, Asked
    <3>. QED BY <3>1, <3>2
  <2>3. \A i \in Places' : row'[order'[i]] # "unasked"
    BY <1>2, <1>3, <1>6, <1>7 DEF OrderInv, Asked
  <2>. QED BY <2>1, <2>2, <2>3 DEF Asked
<1>11. InOrder'
  <2>1. CASE at'[w] # "queued"
    <3>1. queue' = queue BY <1>8, <2>1
    <3>2. ASSUME NEW v \in Writes, at'[v] = "queued"
          PROVE  v \notin loose' /\ \E a \in 1..Len(queue') : queue'[a] = v
      BY <1>6, <2>1, <3>1, <3>2 DEF OrderInv, InOrder
    <3>3. \A a \in 1..Len(queue') : at'[queue'[a]] = "queued"
      BY <1>4, <1>6, <3>1 DEF OrderInv, InOrder
    <3>4. ASSUME NEW a \in 1..Len(queue'), NEW b \in 1..Len(queue'), NEW i \in Places', NEW j \in Places',
                 a < b, queue'[a] = order'[i], queue'[b] = order'[j]
          PROVE  i < j
      <4>1. i # n /\ j # n BY <1>2, <1>4, <3>1, <3>4
      <4>2. i \in Places /\ j \in Places /\ order'[i] = order[i] /\ order'[j] = order[j]
        BY <1>2, <4>1
      <4>3. a \in 1..Len(queue) /\ b \in 1..Len(queue) /\ queue[a] = order[i] /\ queue[b] = order[j]
        BY <3>1, <3>4, <4>2
      <4>. QED BY <3>4, <4>2, <4>3 DEF OrderInv, InOrder
    <3>. QED BY <3>2, <3>3, <3>4 DEF InOrder
  <2>2. CASE at'[w] = "queued"
    <3>1. queue' = Append(queue, w) /\ loose' = loose /\ at' = [at EXCEPT ![w] = "queued"]
      BY <1>4, <1>5, <2>2
    <3> DEFINE m == Len(queue) + 1
    <3>2. /\ Len(queue) \in Nat /\ Len(queue') = m /\ queue'[m] = w
          /\ \A a \in 1..Len(queue) : queue'[a] = queue[a]
      BY <3>1
    <3>3. w \notin loose BY <1>1 DEF OrderInv, Asked
    <3>4. ASSUME NEW v \in Writes, at'[v] = "queued"
          PROVE  v \notin loose' /\ \E a \in 1..Len(queue') : queue'[a] = v
      <4>1. CASE v = w BY <3>1, <3>2, <3>3, <4>1
      <4>2. CASE v # w
        <5>1. v \notin loose /\ \E a \in 1..Len(queue) : queue[a] = v
          BY <1>6, <3>4, <4>2 DEF OrderInv, InOrder
        <5>. QED BY <3>1, <3>2, <5>1
      <4>. QED BY <4>1, <4>2
    <3>5. ASSUME NEW a \in 1..Len(queue') PROVE at'[queue'[a]] = "queued"
      <4>1. CASE a = m BY <2>2, <3>2, <4>1
      <4>2. CASE a # m
        <5>1. a \in 1..Len(queue) /\ queue'[a] = queue[a] BY <3>2, <4>2
        <5>. QED BY <1>4, <1>6, <5>1 DEF OrderInv, InOrder
      <4>. QED BY <4>1, <4>2
    <3>6. ASSUME NEW a \in 1..Len(queue'), NEW b \in 1..Len(queue'), NEW i \in Places', NEW j \in Places',
                 a < b, queue'[a] = order'[i], queue'[b] = order'[j]
          PROVE  i < j
      <4>1. a \in 1..Len(queue) /\ queue'[a] = queue[a] BY <3>2, <3>6
      <4>2. i \in Places /\ order[i] = queue[a] BY <1>2, <1>4, <3>6, <4>1
      <4>3. CASE j = n BY <1>3, <4>2, <4>3
      <4>4. CASE j # n
        <5>1. j \in Places /\ order'[j] = order[j] BY <1>2, <4>4
        <5>2. b \in 1..Len(queue) /\ queue'[b] = queue[b] BY <1>3, <3>2, <3>6, <5>1
        <5>. QED BY <3>6, <4>1, <4>2, <5>1, <5>2 DEF OrderInv, InOrder
      <4>. QED BY <4>3, <4>4
    <3>. QED BY <3>4, <3>5, <3>6 DEF InOrder
  <2>. QED BY <2>1, <2>2
<1>12. InTurn'
  <2>2. ASSUME NEW i \in Places', NEW j \in Places', i < j, {order'[i], order'[j]} \cap loose' = {},
               Begun(order[j])'
        PROVE  Ended(order[i])'
    <3>1. j # n BY <1>2, <1>7, <1>8, <2>2 DEF Begun
    <3>2. i \in Places /\ j \in Places /\ order[i] # w /\ order[j] # w
      <4>1. j \in Places /\ j < n BY <1>2, <1>3, <3>1
      <4>2. i # n
        <5>1. j \in Nat BY <1>2, <4>1
        <5>2. Len(order) \in Nat BY <1>2
        <5>. QED BY <2>2, <4>1, <5>1, <5>2
      <4>. QED BY <1>2, <1>3, <4>1, <4>2
    <3>3. order'[i] = order[i] /\ order'[j] = order[j] /\ order[i] \in Writes /\ order[j] \in Writes
      BY <1>2, <3>2
    <3>4. order[i] \notin loose /\ order[j] \notin loose /\ Begun(order[j])
      BY <1>6, <2>2, <3>2, <3>3 DEF Begun
    <3>5. Ended(order[i]) BY <2>2, <3>2, <3>4 DEF OrderInv, InTurn
    <3>. QED BY <1>6, <3>2, <3>3, <3>5 DEF Ended
  <2>. QED BY <2>2 DEF InTurn
<1>13. Latest'
  <2>1. ASSUME NEW f \in Fields \ foreign', NEW last \in Touching(f)', Effective(order[last])',
               \A i \in Touching(f)' : order'[i] \notin loose' /\ (i > last => ~Tried(order[i])')
        PROVE  remote'[f] = Does[order'[last]][f]
    <3>1. last \in Places' /\ last # n
      BY <1>2, <1>7, <2>1 DEF Touching, Places, Effective
    <3>2. /\ last \in Places /\ order'[last] = order[last] /\ order[last] # w /\ order[last] \in Writes
      BY <1>2, <1>3, <3>1
    <3>3. last \in Touching(f) /\ Effective(order[last])
      BY <1>6, <2>1, <3>2 DEF Touching, Places, Effective
    <3>4. ASSUME NEW i \in Touching(f) PROVE order[i] \notin loose /\ (i > last => ~Tried(order[i]))
      <4>1. i \in Places /\ order'[i] = order[i] /\ order[i] # w /\ order[i] \in Writes /\ i \in Places'
        BY <1>2, <1>3 DEF Touching, Places
      <4>2. i \in Touching(f)' BY <4>1 DEF Touching, Places
      <4>. QED BY <1>6, <2>1, <4>1, <4>2 DEF Tried
    <3>5. remote[f] = Does[order[last]][f]
      BY <1>1, <2>1, <3>3, <3>4, LatestHolds
    <3>. QED BY <1>1, <3>2, <3>5
  <2>. QED BY <2>1 DEF Latest
<1>. QED BY <1>10, <1>11, <1>12, <1>13 DEF OrderInv


\* A step of the push of one write, which leaves the queue alone.
LEMMA PushInOrder ==
    ASSUME TypeOK, OrderInv, NEW w \in Writes, UNCHANGED <<order, queue, foreign>>,
           row[w] = "pending", row'[w] # "unasked", at[w] # "queued", at'[w] # "queued",
           at'[w] # "no" => row'[w] = "pending",
           \A v \in Writes : v # w => /\ at'[v] = at[v] /\ row'[v] = row[v] /\ out'[v] = out[v]
                                      /\ (v \in loose' <=> v \in loose),
           remote' = remote \/ remote' = Patched(remote, Does[w]),
           w \notin loose' =>
              /\ w \notin loose /\ Begun(w) /\ Tried(w)'
              /\ \/ Tried(w) /\ remote' = remote /\ (Effective(w)' => Effective(w))
                 \/ ~Tried(w) /\ (Effective(w)' => remote' = Patched(remote, Does[w]))
    PROVE  OrderInv'
<1>. USE DEF TypeOK
<1>1. /\ Places' = Places /\ (\A f : Touching(f)' = Touching(f)) /\ order' = order
      /\ \A i \in Places : order[i] \in Writes
  BY DEF Places, Touching
<1>2. PICK k \in Places : order[k] = w
  BY DEF OrderInv, Asked
<1>3. \A i \in Places : order[i] = w => i = k
  BY <1>2 DEF OrderInv, Asked
<1>4. Asked'
  <2>1. ASSUME NEW v \in Writes
        PROVE  /\ row'[v] # "unasked" => \E i \in Places : order[i] = v
               /\ at'[v] # "no" => row'[v] = "pending"
               /\ v \notin loose' /\ row'[v] = "pending" => at'[v] # "no"
               /\ v \in loose' => row'[v] # "unasked"
    <3>1. CASE v = w BY <1>2, <3>1 DEF Tried
    <3>2. CASE v # w BY <3>2 DEF OrderInv, Asked
    <3>. QED BY <3>1, <3>2
  <2>2. \A i \in Places : row'[order[i]] # "unasked"
    BY <1>1 DEF OrderInv, Asked
  <2>. QED BY <1>1, <2>1, <2>2 DEF OrderInv, Asked
<1>5. InOrder'
  <2>1. \A a \in 1..Len(queue) : queue[a] \in Writes /\ queue[a] # w
    BY DEF OrderInv, InOrder
  <2>2. \A v \in Writes : at'[v] = "queued" => v \notin loose' /\ \E a \in 1..Len(queue) : queue[a] = v
    BY DEF OrderInv, InOrder
  <2>3. \A a \in 1..Len(queue) : at'[queue[a]] = "queued"
    BY <2>1 DEF OrderInv, InOrder
  <2>. QED BY <1>1, <2>2, <2>3 DEF OrderInv, InOrder
<1>6. InTurn'
  <2>1. ASSUME NEW i \in Places, NEW j \in Places, i < j, {order[i], order[j]} \cap loose' = {},
               Begun(order[j])'
        PROVE  Ended(order[i])'
    <3>1. order[i] \notin loose /\ order[j] \notin loose
      BY <1>1, <2>1
    <3>2. Begun(order[j])
      <4>1. CASE order[j] = w BY <2>1, <4>1
      <4>2. CASE order[j] # w BY <1>1, <2>1, <4>2 DEF Begun
      <4>. QED BY <4>1, <4>2
    <3>3. Ended(order[i])
      <4>1. {order[i], order[j]} \cap loose = {} BY <3>1
      <4>. QED BY <2>1, <3>2, <4>1 DEF OrderInv, InTurn
    <3>4. order[i] # w BY <3>3 DEF Ended
    <3>. QED BY <1>1, <3>3, <3>4 DEF Ended
  <2>. QED BY <1>1, <2>1 DEF InTurn
<1>7. Latest'
  <2>1. ASSUME NEW f \in Fields \ foreign, NEW last \in Touching(f), Effective(order[last])',
               \A i \in Touching(f) : order[i] \notin loose' /\ (i > last => ~Tried(order[i])')
        PROVE  remote'[f] = Does[order[last]][f]
    <3>1. \A i \in Touching(f) : i \in Places /\ order[i] \in Writes /\ f \in DOMAIN Does[order[i]]
      BY <1>1 DEF Touching, Places
    <3>2. ASSUME Effective(order[last]),
                 \A i \in Touching(f) : order[i] \notin loose /\ (i > last => ~Tried(order[i]))
          PROVE  remote[f] = Does[order[last]][f]
      BY <3>2, LatestHolds
    <3>3. \A i \in Touching(f) : order[i] # w => order[i] \notin loose /\ (i > last => ~Tried(order[i]))
      BY <2>1, <3>1 DEF Tried
    <3>4. order[last] # w => Effective(order[last])
      BY <2>1, <3>1 DEF Effective
    <3>5. CASE k \notin Touching(f)
      <4>1. f \notin DOMAIN Does[w]
        BY <1>2, <3>5 DEF Touching, Places
      <4>2. remote'[f] = remote[f] BY <4>1 DEF Patched
      <4>3. \A i \in Touching(f) : order[i] # w BY <1>3, <3>1, <3>5
      <4>. QED BY <3>2, <3>3, <3>4, <4>2, <4>3
    <3>6. CASE k \in Touching(f) /\ k = last
      <4>1. w \notin loose' /\ Effective(w)' BY <1>2, <2>1, <3>6
      <4>2. CASE Tried(w) /\ remote' = remote /\ Effective(w)
        <5>1. \A i \in Touching(f) : order[i] \notin loose /\ (i > last => ~Tried(order[i]))
          <6>1. \A i \in Touching(f) : i > last => order[i] # w
            BY <1>3, <3>1, <3>6 DEF Places
          <6>. QED BY <3>3, <4>1, <6>1
        <5>. QED BY <1>2, <3>6, <4>2, <5>1, LatestHolds
      <4>3. CASE remote' = Patched(remote, Does[w])
        BY <1>2, <3>1, <3>6, <4>3 DEF Patched
      <4>. QED BY <4>1, <4>2, <4>3
    <3>7. CASE k \in Touching(f) /\ k # last
      <4>1. w \notin loose' /\ Tried(w)' BY <1>2, <2>1, <3>7
      <4>2. k < last
        <5>1. ~(k > last)
          <6>1. k > last => ~Tried(order[k])' BY <2>1, <3>7
          <6>. QED BY <1>2, <4>1, <6>1
        <5>2. k \in Nat /\ last \in Nat BY <3>1 DEF Places
        <5>. QED BY <3>7, <5>1, <5>2
      <4>3. order[last] # w BY <1>3, <3>1, <3>7
      <4>4. Begun(order[last]) /\ order[last] \notin loose
        BY <3>3, <3>4, <4>3 DEF Begun, Effective
      <4>5. Ended(w)
        BY <1>2, <3>1, <4>1, <4>2, <4>4 DEF OrderInv, InTurn
      <4>. QED BY <4>5 DEF Ended
    <3>. QED BY <3>5, <3>6, <3>7
  <2>2. ASSUME NEW f \in Fields \ foreign', NEW last \in Touching(f)', Effective(order[last])',
               \A i \in Touching(f)' : order'[i] \notin loose' /\ (i > last => ~Tried(order[i])')
        PROVE  remote'[f] = Does[order'[last]][f]
    <3>1. f \in Fields \ foreign /\ last \in Touching(f) /\ Touching(f)' = Touching(f)
      BY <1>1
    <3>2. remote'[f] = Does[order[last]][f]
      BY <1>1, <2>1, <2>2, <3>1
    <3>. QED BY <1>1, <3>2
  <2>. QED BY <2>2 DEF Latest
<1>. QED BY <1>4, <1>5, <1>6, <1>7 DEF OrderInv


\* The next push from the queue is of the write that was asked for first.
LEMMA DequeueInOrder == ASSUME TypeOK, OrderInv, Dequeue PROVE OrderInv'
<1>. USE DEF TypeOK
<1> DEFINE w == Head(queue)
<1>1. /\ queue \in Seq(Writes) /\ queue # <<>> /\ Len(queue) \in Nat \ {0} /\ 1 \in 1..Len(queue)
      /\ w = queue[1] /\ w \in Writes /\ Len(queue') = Len(queue) - 1
      /\ \A a \in 1..Len(queue') : a + 1 \in 1..Len(queue) /\ queue'[a] = queue[a + 1]
  BY DEF Dequeue
<1>2. /\ at' = [at EXCEPT ![w] = "calling"] /\ \A v \in Writes \ loose : at[v] \in {"no", "queued"}
      /\ UNCHANGED <<order, row, out, loose, foreign, remote>>
  BY DEF Dequeue, database, history, provider
<1>3. at[w] = "queued" /\ w \notin loose /\ row[w] = "pending"
  BY <1>1 DEF OrderInv, InOrder, Asked
<1>4. /\ Places' = Places /\ (\A f : Touching(f)' = Touching(f))
      /\ \A i \in Places : order[i] \in Writes
  BY <1>2 DEF Places, Touching
<1>5. PICK k \in Places : order[k] = w
  BY <1>1, <1>3 DEF OrderInv, Asked
<1>6. \A a \in 1..Len(queue) : a # 1 => queue[a] # w
  <2>1. ASSUME NEW a \in 1..Len(queue), a # 1, queue[a] = w PROVE FALSE
    <3>1. 1 < a BY <2>1
    <3>2. k < k BY <1>1, <1>5, <2>1, <3>1 DEF OrderInv, InOrder
    <3>. QED BY <3>2, <1>5 DEF Places
  <2>. QED BY <2>1
<1>7. Asked'
  BY <1>2, <1>3, <1>4 DEF OrderInv, Asked
<1>8. InOrder'
  <2>1. ASSUME NEW v \in Writes, at'[v] = "queued"
        PROVE  v \notin loose' /\ \E a \in 1..Len(queue') : queue'[a] = v
    <3>1. v # w /\ at[v] = "queued" BY <1>2, <2>1
    <3>2. v \notin loose BY <3>1 DEF OrderInv, InOrder
    <3>3. PICK a \in 1..Len(queue) : queue[a] = v BY <3>1 DEF OrderInv, InOrder
    <3>4. a - 1 \in 1..Len(queue') /\ (a - 1) + 1 = a BY <1>1, <3>1, <3>3
    <3>5. queue'[a - 1] = v BY <1>1, <3>3, <3>4
    <3>. QED BY <1>2, <3>2, <3>4, <3>5
  <2>2. ASSUME NEW a \in 1..Len(queue') PROVE at'[queue'[a]] = "queued"
    <3>1. a + 1 \in 1..Len(queue) /\ queue'[a] = queue[a + 1] /\ a + 1 # 1 BY <1>1
    <3>2. queue[a + 1] # w /\ at[queue[a + 1]] = "queued" /\ queue[a + 1] \in Writes
      BY <1>6, <3>1 DEF OrderInv, InOrder
    <3>. QED BY <1>2, <3>1, <3>2
  <2>3. ASSUME NEW a \in 1..Len(queue'), NEW b \in 1..Len(queue'), NEW i \in Places', NEW j \in Places',
               a < b, queue'[a] = order'[i], queue'[b] = order'[j]
        PROVE  i < j
    <3>1. a + 1 \in 1..Len(queue) /\ b + 1 \in 1..Len(queue) /\ a + 1 < b + 1 BY <1>1, <2>3
    <3>2. queue[a + 1] = order[i] /\ queue[b + 1] = order[j] BY <1>1, <1>2, <2>3
    <3>. QED BY <1>4, <3>1, <3>2 DEF OrderInv, InOrder
  <2>. QED BY <2>1, <2>2, <2>3 DEF InOrder
<1>9. InTurn'
  <2>1. ASSUME NEW i \in Places, i < k, order[i] \notin loose PROVE Ended(order[i])
    <3>1. at[order[i]] # "queued"
      <4>1. ASSUME NEW a \in 1..Len(queue), queue[a] = order[i] PROVE FALSE
        <5>1. a # 1 BY <1>1, <1>5, <2>1, <4>1 DEF OrderInv, Asked, Places
        <5>2. 1 < a BY <5>1
        <5>3. k < i BY <1>1, <1>5, <4>1, <5>2 DEF OrderInv, InOrder
        <5>. QED BY <2>1, <5>3 DEF Places
      <4>. QED BY <1>4, <4>1 DEF OrderInv, InOrder
    <3>2. at[order[i]] = "no" /\ row[order[i]] \in {"unasked", "pending", "done", "failed"}
      BY <1>2, <1>4, <2>1, <3>1
    <3>. QED BY <1>4, <2>1, <3>2 DEF OrderInv, Asked, Ended
  <2>2. ASSUME NEW i \in Places, NEW j \in Places, i < j, order[i] \notin loose, order[j] \notin loose,
               Begun(order[j])'
        PROVE  Ended(order[i])'
    <3>1. Ended(order[i])
      <4>1. CASE order[j] = w
        <5>1. j = k BY <1>5, <4>1 DEF OrderInv, Asked
        <5>. QED BY <2>1, <2>2, <5>1
      <4>2. CASE order[j] # w
        <5>1. Begun(order[j]) BY <1>2, <1>4, <2>2, <4>2 DEF Begun
        <5>2. {order[i], order[j]} \cap loose = {} BY <2>2
        <5>. QED BY <2>2, <5>1, <5>2 DEF OrderInv, InTurn
      <4>. QED BY <4>1, <4>2
    <3>2. order[i] # w BY <1>3, <3>1 DEF Ended
    <3>. QED BY <1>2, <1>4, <3>1, <3>2 DEF Ended
  <2>3. ASSUME NEW i \in Places', NEW j \in Places', i < j, {order'[i], order'[j]} \cap loose' = {},
               Begun(order[j])'
        PROVE  Ended(order[i])'
    <3>1. i \in Places /\ j \in Places /\ order[i] \notin loose /\ order[j] \notin loose
      BY <1>2, <1>4, <2>3
    <3>. QED BY <2>2, <2>3, <3>1
  <2>. QED BY <2>3 DEF InTurn
<1>10. Latest'
  <2>1. ASSUME NEW f \in Fields \ foreign', NEW last \in Touching(f)', Effective(order[last])',
               \A i \in Touching(f)' : order'[i] \notin loose' /\ (i > last => ~Tried(order[i])')
        PROVE  remote'[f] = Does[order'[last]][f]
    <3>1. f \in Fields \ foreign /\ last \in Touching(f) /\ Touching(f)' = Touching(f)
          /\ \A i \in Touching(f) : order[i] \in Writes
      BY <1>2, <1>4, <2>1 DEF Touching, Places
    <3>2. Effective(order[last])
      BY <1>2, <1>3, <2>1, <3>1 DEF Effective
    <3>3. \A i \in Touching(f) : order[i] \notin loose /\ (i > last => ~Tried(order[i]))
      BY <1>2, <1>3, <2>1, <3>1 DEF Tried
    <3>4. remote[f] = Does[order[last]][f]
      BY <3>1, <3>2, <3>3, LatestHolds
    <3>. QED BY <1>2, <3>4
  <2>. QED BY <2>1 DEF Latest
<1>. QED BY <1>7, <1>8, <1>9, <1>10 DEF OrderInv

\* What a process was at when it died is anybody's from then on.
LEMMA CrashInOrder == ASSUME TypeOK, OrderInv, NEW S \in Pushers, Crash(S) PROVE OrderInv'
<1>. USE DEF TypeOK
<1>1. /\ at' = [v \in Writes |-> IF v \in S THEN "no" ELSE at[v]]
      /\ out' = [v \in Writes |-> IF v \in S THEN "ok" ELSE out[v]]
      /\ queue' = IF \E v \in S : at[v] = "queued" THEN <<>> ELSE queue
      /\ loose' = loose \cup {v \in S : row[v] = "pending"}
      /\ UNCHANGED <<order, row, foreign, remote>>
  BY DEF Crash, Pending, database, provider
<1>2. S = Writes \ loose \/ (S \subseteq loose /\ S \subseteq Writes)
  BY DEF Pushers
<1>3. /\ Places' = Places /\ (\A f : Touching(f)' = Touching(f))
      /\ \A i \in Places : order[i] \in Writes
  BY <1>1 DEF Places, Touching
<1>4. \A v \in Writes : v \notin loose' => v \notin loose /\ at'[v] = at[v] /\ (at[v] # "no" => out'[v] = out[v])
  BY <1>1 DEF OrderInv, Asked
<1>5. Asked'
  BY <1>1, <1>3 DEF OrderInv, Asked
<1>6. InOrder'
  <2>1. CASE S = Writes \ loose
    <3>1. \A v \in Writes : at'[v] # "queued" BY <1>1, <2>1 DEF OrderInv, InOrder
    <3>2. 1..Len(queue') = {}
      <4>1. CASE \E v \in S : at[v] = "queued" BY <1>1, <4>1
      <4>2. CASE ~\E v \in S : at[v] = "queued"
        <5>1. ASSUME NEW a \in 1..Len(queue) PROVE FALSE
          <6>1. queue[a] \in Writes /\ at[queue[a]] = "queued" BY DEF OrderInv, InOrder
          <6>2. queue[a] \notin loose BY <6>1 DEF OrderInv, InOrder
          <6>. QED BY <2>1, <4>2, <6>1, <6>2
        <5>. QED BY <1>1, <4>2, <5>1
      <4>. QED BY <4>1, <4>2
    <3>. QED BY <3>1, <3>2 DEF InOrder
  <2>2. CASE S \subseteq loose
    <3>1. \A v \in S : at[v] # "queued" BY <1>2, <2>2 DEF OrderInv, InOrder
    <3>2. queue' = queue /\ \A v \in Writes : at'[v] = "queued" <=> at[v] = "queued"
      BY <1>1, <3>1
    <3>3. \A v \in Writes : at[v] = "queued" => v \notin loose'
      BY <1>1, <3>1 DEF OrderInv, InOrder
    <3>4. \A a \in 1..Len(queue) : queue[a] \in Writes OBVIOUS
    <3>5. \A v \in Writes : at'[v] = "queued" =>
               v \notin loose' /\ \E a \in 1..Len(queue) : queue[a] = v
      BY <3>2, <3>3 DEF OrderInv, InOrder
    <3>6. \A a \in 1..Len(queue) : at'[queue[a]] = "queued"
      BY <3>2, <3>4 DEF OrderInv, InOrder
    <3>. QED BY <1>1, <1>3, <3>2, <3>5, <3>6 DEF OrderInv, InOrder
  <2>. QED BY <1>2, <2>1, <2>2
<1>7. InTurn'
  <2>1. ASSUME NEW i \in Places', NEW j \in Places', i < j, {order'[i], order'[j]} \cap loose' = {},
               Begun(order[j])'
        PROVE  Ended(order[i])'
    <3>1. /\ i \in Places /\ j \in Places /\ order[i] \in Writes /\ order[j] \in Writes
          /\ order[i] \notin loose' /\ order[j] \notin loose'
      BY <1>1, <1>3, <2>1
    <3>2. Begun(order[j]) /\ {order[i], order[j]} \cap loose = {}
      BY <1>1, <1>4, <2>1, <3>1 DEF Begun
    <3>3. Ended(order[i]) BY <2>1, <3>1, <3>2 DEF OrderInv, InTurn
    <3>. QED BY <1>1, <1>4, <3>1, <3>3 DEF Ended
  <2>. QED BY <2>1 DEF InTurn
<1>8. Latest'
  <2>1. ASSUME NEW f \in Fields \ foreign', NEW last \in Touching(f)', Effective(order[last])',
               \A i \in Touching(f)' : order'[i] \notin loose' /\ (i > last => ~Tried(order[i])')
        PROVE  remote'[f] = Does[order'[last]][f]
    <3>1. /\ f \in Fields \ foreign /\ last \in Touching(f) /\ Touching(f)' = Touching(f)
          /\ \A i \in Touching(f) : order[i] \in Writes /\ order[i] \notin loose'
      BY <1>1, <1>3, <2>1 DEF Touching, Places
    <3>2. Effective(order[last])
      BY <1>1, <1>4, <2>1, <3>1 DEF Effective
    <3>3. \A i \in Touching(f) : order[i] \notin loose /\ (i > last => ~Tried(order[i]))
      BY <1>1, <1>4, <2>1, <3>1 DEF Tried
    <3>4. remote[f] = Does[order[last]][f]
      BY <3>1, <3>2, <3>3, LatestHolds
    <3>. QED BY <1>1, <3>4
  <2>. QED BY <2>1 DEF Latest
<1>. QED BY <1>5, <1>6, <1>7, <1>8 DEF OrderInv

\* The end of a push: with bookkeeping, or as anybody's.
LEMMA SettleInOrder == ASSUME TypeOK, OrderInv, NEW w \in Writes, Settle(w) PROVE OrderInv'
<1>. USE DEF TypeOK
<1>1. /\ at[w] \in {"answered", "undone"} /\ row[w] = "pending" /\ Begun(w) /\ Tried(w)
      /\ UNCHANGED <<order, queue, foreign, remote>>
  <2>1. at[w] \in {"answered", "undone"}
    BY DEF Settle, Done, Requeue, Rollback, FailPermanently, LeaveUnrecorded, Rejected
  <2>2. UNCHANGED <<order, queue, foreign, remote>>
    BY DEF Settle, Done, Requeue, Rollback, FailPermanently, LeaveUnrecorded, history, provider
  <2>. QED BY <2>1, <2>2 DEF OrderInv, Asked, Begun, Tried
<1>2. \A v \in Writes : v # w => /\ at'[v] = at[v] /\ row'[v] = row[v] /\ out'[v] = out[v]
                                 /\ (v \in loose' <=> v \in loose)
  BY DEF Settle, Done, Requeue, Rollback, FailPermanently, LeaveUnrecorded, Over, history
<1>3. /\ row'[w] # "unasked" /\ at'[w] # "queued" /\ (at'[w] # "no" => row'[w] = "pending")
  <2>1. CASE Rollback(w) BY <1>1, <2>1 DEF Rollback
  <2>2. CASE ~Rollback(w)
    BY <2>2 DEF Settle, Done, Requeue, FailPermanently, LeaveUnrecorded, Over
  <2>. QED BY <2>1, <2>2
<1>4. w \notin loose' => w \notin loose /\ Tried(w)' /\ (Effective(w)' => Effective(w))
  <2>1. CASE Done(w) BY <2>1 DEF Done, Over, history, Tried, Effective
  <2>2. CASE Requeue(w) \/ LeaveUnrecorded(w) BY <2>2 DEF Requeue, LeaveUnrecorded
  <2>3. CASE Rollback(w) BY <1>1, <2>3 DEF Rollback, history, Tried, Effective
  <2>4. CASE FailPermanently(w) BY <2>4 DEF FailPermanently, Over, history, Tried, Effective
  <2>. QED BY <2>1, <2>2, <2>3, <2>4 DEF Settle
<1>. QED BY <1>1, <1>2, <1>3, <1>4, PushInOrder

\* Every step keeps the order.
LEMMA StepOrder == TypeOK /\ OrderInv /\ [Next]_vars => OrderInv'
<1>. SUFFICES ASSUME TypeOK, OrderInv, [Next]_vars PROVE OrderInv'
  OBVIOUS
<1>1. ASSUME NEW w \in Writes, Claim(w) PROVE OrderInv'
  <2>1. /\ row[w] = "pending" /\ at[w] = "no" /\ at' = [at EXCEPT ![w] = "calling"]
        /\ loose' = loose \cup {w} /\ UNCHANGED <<order, queue, foreign, row, out, remote>>
    BY <1>1 DEF Claim, Pending, database, provider
  <2>. QED BY <2>1, PushInOrder DEF TypeOK
<1>2. ASSUME NEW w \in Writes, Answer(w) PROVE OrderInv'
  <2>1. /\ at[w] = "calling" /\ at' = [at EXCEPT ![w] = "answered"]
        /\ UNCHANGED <<order, queue, foreign, row, loose>>
    BY <1>2 DEF Answer, database, history
  <2>2. row[w] = "pending" BY <2>1 DEF OrderInv, Asked
  <2>3. remote' = remote \/ remote' = Patched(remote, Does[w])
    BY <1>2 DEF Answer, Move, provider
  <2>4. out'[w] = "ok" => remote' = Patched(remote, Does[w])
    BY <1>2 DEF Answer, Move, TypeOK
  <2>5. \A v \in Writes : v # w => at'[v] = at[v] /\ out'[v] = out[v]
    BY <1>2, <2>1 DEF Answer, TypeOK
  <2>6. at'[w] = "answered" BY <2>1 DEF TypeOK
  <2>7. Begun(w) /\ ~Tried(w) /\ Tried(w)' /\ (Effective(w)' => out'[w] = "ok")
    BY <2>1, <2>2, <2>6 DEF Begun, Tried, Effective
  <2>. QED BY <2>1, <2>2, <2>3, <2>4, <2>5, <2>6, <2>7, PushInOrder
<1>3. ASSUME NEW f \in Fields, NEW v \in Values, OtherClient(f, v) PROVE OrderInv'
  BY <1>3, OrderStays DEF OtherClient, Move, database, pushes, TypeOK, States
<1>4. CASE Pass \/ Abort \/ Tick \/ UNCHANGED vars
  <2>1. UNCHANGED <<order, queue, row, at, out, loose, foreign, remote>>
    BY <1>4 DEF Pass, Changes, ReadEnvelopes, ApplyDelta, ListStale, SkipQueued, Reread, Reapply,
                ClearStaleLocalPatches, Abort, Tick, vars, provider, database, pushes, history
  <2>. QED BY <2>1, OrderStays
<1>. QED
  BY <1>1, <1>2, <1>3, <1>4, AskInOrder, SettleInOrder, DequeueInOrder, CrashInOrder DEF Next, Push

\* What has gone through the queue has reached the provider in the order the user asked
\* for it: once all writes on a field have, the provider has what the last one makes of it,
\* whatever others push, and whoever dies (deferPush).  Half of Settles; the rest is liveness.
THEOREM QueueKeepsOrder == Spec => []LastWins
<1>1. Init => TypeOK /\ OrderInv BY InitTyped, InitOrder
<1>2. (TypeOK /\ OrderInv) /\ [Next]_vars => (TypeOK /\ OrderInv)' BY StepTyped, StepOrder
<1>3. OrderInv => LastWins
  <2>1. ASSUME OrderInv, NEW f \in Fields \ foreign, NEW last \in Touching(f),
               \A i \in Touching(f) : i <= last /\ order[i] \notin loose /\ row[order[i]] = "done"
        PROVE  remote[f] = Does[order[last]][f]
    <3>1. \A i \in Touching(f) : ~(i > last)
      BY <2>1 DEF Touching
    <3>2. Effective(order[last])
      BY <2>1 DEF Effective
    <3>. QED BY <2>1, <3>1, <3>2 DEF OrderInv, Latest
  <2>. QED BY <2>1 DEF LastWins
<1>. QED BY <1>1, <1>2, <1>3, PTL DEF Spec
=============================================================================
