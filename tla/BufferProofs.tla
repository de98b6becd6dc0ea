---------------------------- MODULE BufferProofs ----------------------------
(***************************************************************************)
(* Proofs about Buffer, for every number of slots, managers and senders.   *)
(***************************************************************************)
EXTENDS Buffer, FiniteSetTheorems, TLAPS

(* What every step needs to know of the variables' types.  The range of    *)
(* the counters is not part of it: it follows from CountsExact.            *)
Typing ==
  /\ state \in [Slots -> States]
  /\ prog \in [Slots -> Progs]
  /\ index \in [States -> Slots]
  /\ count \in [States -> Int]
  /\ mutex \in [States -> Threads \cup {NoThread}]
  /\ pc \in [Threads -> PCs]
  /\ hold \in [Threads -> Slots \cup {NoSlot}]
  /\ goal \in [Threads -> States]

(* Control points, locks and slots agree; no slot has two users.           *)
Discipline ==
  /\ MutexHeld
  /\ SlotHeld
  /\ GoalSet
  /\ RefilledIsFree
  /\ ExclusiveUse

IInv == Typing /\ Discipline /\ CountsExact
-----------------------------------------------------------------------------
(* The states of the roles.                                                *)
LEMMA Roles ==
  ASSUME NEW t \in Threads
  PROVE  /\ Source(t) \in {"FREE", "WAIT", "READY"}
         /\ Busy(t) \in {"RECEIVING", "WORKING", "SENDING"}
         /\ Goals(t) \subseteq {"WAIT", "READY", "FREE"}
         /\ t = IO <=> Source(t) = "FREE"
         /\ t = IO <=> Busy(t) = "RECEIVING"
         /\ t = IO => Goals(t) = {"WAIT"}
BY ThreadsAssumption DEF Threads, Source, Busy, Goals

(* A search step of the loop looks at a slot, and the search index stays a *)
(* slot.                                                                   *)
LEMMA Modulo ==
  ASSUME NEW a \in Slots, NEW k \in Nat
  PROVE  (a + k) % N \in Slots
BY NAssumption DEF Slots

(* buffer::init establishes the invariant.                                 *)
LEMMA InitIInv == Init => IInv
<1> SUFFICES ASSUME Init PROVE IInv
  OBVIOUS
<1>1. Typing
  BY NAssumption DEF Init, Typing, Slots, States, PCs
<1>2. Discipline
  BY NullAssumption DEF Init, Discipline, MutexHeld, SlotHeld, GoalSet,
     RefilledIsFree, ExclusiveUse, Holds, Refilled
<1>3. ASSUME NEW s \in States PROVE count[s] = Cardinality(InState(s))
  <2>1. \A i \in Slots : Where(i) = "FREE"
    BY NullAssumption DEF Init, Where, Refilled, Threads
  <2>2. CASE s = "FREE"
    <3>1. InState(s) = 0 .. N-1
      BY <2>1, <2>2 DEF InState, Slots
    <3>2. Cardinality(0 .. N-1) = N
      BY NAssumption, FS_Interval
    <3>3. QED
      BY <2>2, <3>1, <3>2 DEF Init
  <2>3. CASE s # "FREE"
    <3>1. InState(s) = {}
      BY <2>1, <2>3 DEF InState
    <3>2. QED
      BY <2>3, <3>1, FS_EmptySet DEF Init
  <2>4. QED
    BY <2>2, <2>3
<1>4. QED
  BY <1>1, <1>2, <1>3 DEF IInv, CountsExact
-----------------------------------------------------------------------------
(* One slot goes from state a to state b and the counters of a and b       *)
(* follow: they stay exact.                                                *)
LEMMA MoveKeepsCounts ==
  ASSUME Typing, CountsExact,
         NEW i \in Slots, NEW a \in States, NEW b \in States, a # b,
         Where(i) = a, Where(i)' = b,
         \A j \in Slots \ {i} : Where(j)' = Where(j),
         MoveCount(a, b)
  PROVE  CountsExact'
<1> SUFFICES ASSUME NEW s \in States
             PROVE  count'[s] = Cardinality(InState(s)')
  BY DEF CountsExact
<1>1. IsFiniteSet(InState(s))
  <2>1. IsFiniteSet(Slots)
    BY NAssumption, FS_Interval DEF Slots
  <2>2. InState(s) \in SUBSET Slots
    BY DEF InState
  <2>3. QED
    BY <2>1, <2>2, FS_Subset
<1>2. count[s] = Cardinality(InState(s))
  BY DEF CountsExact
<1>3. CASE s = a
  <2>1. InState(s)' = InState(s) \ {i}
    BY <1>3 DEF InState
  <2>2. i \in InState(s)
    BY <1>3 DEF InState
  <2>3. count'[s] = count[s] - 1
    BY <1>3 DEF MoveCount, Typing
  <2>4. QED
    BY <1>1, <1>2, <2>1, <2>2, <2>3, FS_RemoveElement
<1>4. CASE s = b
  <2>1. InState(s)' = InState(s) \cup {i}
    BY <1>4 DEF InState
  <2>2. i \notin InState(s)
    BY <1>4 DEF InState
  <2>3. count'[s] = count[s] + 1
    BY <1>4 DEF MoveCount, Typing
  <2>4. QED
    BY <1>1, <1>2, <2>1, <2>2, <2>3, FS_AddElement
<1>5. CASE s # a /\ s # b
  <2>1. InState(s)' = InState(s)
    BY <1>5 DEF InState
  <2>2. count'[s] = count[s]
    BY <1>5 DEF MoveCount, Typing
  <2>3. QED
    BY <1>2, <2>1, <2>2
<1>6. QED
  BY <1>3, <1>4, <1>5

(* Nothing moves: the counters stay exact.                                 *)
LEMMA StayKeepsCounts ==
  ASSUME CountsExact, UNCHANGED count,
         \A j \in Slots : Where(j)' = Where(j)
  PROVE  CountsExact'
<1>1. \A s \in States : InState(s)' = InState(s)
  BY DEF InState
<1>2. QED
  BY <1>1 DEF CountsExact
-----------------------------------------------------------------------------
(* Steps that touch no slot and no counter.                                *)
LEMMA EnterStep ==
  ASSUME IInv, NEW t \in Threads, FindEnter(t)
  PROVE  IInv'
<1> USE DEF IInv, FindEnter, Goto
<1>1. Typing'
  BY DEF Typing, PCs
<1>2. Discipline'
  BY Roles DEF Typing, Discipline, MutexHeld, SlotHeld, GoalSet,
     RefilledIsFree, ExclusiveUse, Holds, Refilled, Where
<1>3. \A j \in Slots : Where(j)' = Where(j)
  BY DEF Typing, Where, Refilled
<1>4. QED
  BY <1>1, <1>2, <1>3, StayKeepsCounts

(* Taking the first mutex in find preserves the invariant.                 *)
LEMMA FindLockStep ==
  ASSUME IInv, NEW t \in Threads, FindLock(t)
  PROVE  IInv'
<1> USE DEF IInv, FindLock, Goto, Lock
<1>1. Typing'
  BY DEF Typing, PCs
<1>2. Discipline'
  BY Roles, NullAssumption DEF Typing, Discipline, MutexHeld, SlotHeld, GoalSet,
     RefilledIsFree, ExclusiveUse, Holds, Refilled, Where
<1>3. \A j \in Slots : Where(j)' = Where(j)
  BY DEF Typing, Where, Refilled
<1>4. QED
  BY <1>1, <1>2, <1>3, StayKeepsCounts

(* A search without a match releases both mutexes and changes no slot.     *)
LEMMA FindMissStep ==
  ASSUME IInv, NEW t \in Threads, NEW p \in Progs, FindMiss(t, p)
  PROVE  IInv'
<1> USE DEF IInv, FindMiss, Goto, LockSecondAndReturn
<1>1. Typing'
  BY DEF Typing, PCs
<1>2. Discipline'
  BY Roles, NullAssumption DEF Typing, Discipline, MutexHeld, SlotHeld, GoalSet,
     RefilledIsFree, ExclusiveUse, Holds, Refilled, Where
<1>3. \A j \in Slots : Where(j)' = Where(j)
  BY DEF Typing, Where, Refilled
<1>4. QED
  BY <1>1, <1>2, <1>3, StayKeepsCounts

(* Calling step_chunk preserves the invariant.                             *)
LEMMA StepCallStep ==
  ASSUME IInv, NEW t \in Threads, NEW s \in States, StepCall(t, s)
  PROVE  IInv'
<1> USE DEF IInv, StepCall, Goto
<1>1. Typing'
  BY DEF Typing, PCs
<1>2. Discipline'
  BY Roles DEF Typing, Discipline, MutexHeld, SlotHeld, GoalSet,
     RefilledIsFree, ExclusiveUse, Holds, Refilled, Where
<1>3. \A j \in Slots : Where(j)' = Where(j)
  BY DEF Typing, Where, Refilled
<1>4. QED
  BY <1>1, <1>2, <1>3, StayKeepsCounts

(* Taking the first mutex in step_chunk preserves the invariant.           *)
LEMMA StepLockStep ==
  ASSUME IInv, NEW t \in Threads, StepLock(t)
  PROVE  IInv'
<1> USE DEF IInv, StepLock, Goto, Lock
<1>1. Typing'
  BY DEF Typing, PCs
<1>2. Discipline'
  BY Roles, NullAssumption DEF Typing, Discipline, MutexHeld, SlotHeld, GoalSet,
     RefilledIsFree, ExclusiveUse, Holds, Refilled, Where
<1>3. \A j \in Slots : Where(j)' = Where(j)
  BY DEF Typing, Where, Refilled
<1>4. QED
  BY <1>1, <1>2, <1>3, StayKeepsCounts

(* Forgetting a chunk in WORKING preserves the invariant.                  *)
LEMMA AbandonStep ==
  ASSUME IInv, NEW t \in Threads, Abandon(t)
  PROVE  IInv'
<1> USE DEF IInv, Abandon, Goto
<1>1. Typing'
  BY DEF Typing, PCs
<1>2. Discipline'
  BY Roles, NullAssumption, ThreadsAssumption DEF Typing, Discipline, MutexHeld,
     SlotHeld, GoalSet, RefilledIsFree, ExclusiveUse, Holds, Refilled, Where
<1>3. \A j \in Slots : Where(j)' = Where(j)
  BY ThreadsAssumption DEF Typing, Where, Refilled
<1>4. QED
  BY <1>1, <1>2, <1>3, StayKeepsCounts
-----------------------------------------------------------------------------
(* A hit takes a slot nobody has, which was in the source state.           *)
Taken(t, i) ==
  /\ Where(i) = Source(t)
  /\ Where(i)' = Busy(t)
  /\ \A u \in Threads : hold[u] # i
  /\ hold' = [hold EXCEPT ![t] = i]
  /\ \A j \in Slots \ {i} : Where(j)' = Where(j)

(* A match in find moves the found slot, and no other, from the source     *)
(* state to the busy state of the thread.                                  *)
LEMMA HitTakes ==
  ASSUME IInv, NEW t \in Threads, NEW p \in Progs, FindHit(t, p)
  PROVE  \E i \in Slots : /\ Taken(t, i)
                          /\ Mark(i, Busy(t))
                          /\ Advance(Source(t), i)
<1> USE DEF IInv
<1> DEFINE Found(i) ==
      /\ state[i] = Source(t)
      /\ Mark(i, Busy(t))
      /\ Advance(Source(t), i)
      /\ hold' = [hold EXCEPT ![t] = i]
<1>0. /\ Source(t) \in States
      /\ Busy(t) \in States
      /\ Source(t) # Busy(t)
  BY Roles DEF States
<1>1. \E i \in Slots : Found(i)
  <2>1. PICK k \in Matches(t, p) :
          LET i == At(Source(t), k) IN
            /\ Mark(i, Busy(t))
            /\ Advance(Source(t), i)
            /\ hold' = [hold EXCEPT ![t] = i]
    BY DEF FindHit
  <2>2. k \in Nat
    BY DEF Matches, Steps
  <2>3. index[Source(t)] \in Slots
    BY <1>0 DEF Typing
  <2>4. At(Source(t), k) \in Slots
    BY <2>2, <2>3, Modulo DEF At
  <2>5. state[At(Source(t), k)] = Source(t)
    BY DEF Matches
  <2>6. QED
    BY <2>1, <2>4, <2>5
<1> PICK i \in Slots : Found(i)
  BY <1>1
<1>2. /\ state[i] = Source(t)
      /\ Mark(i, Busy(t))
      /\ Advance(Source(t), i)
      /\ hold' = [hold EXCEPT ![t] = i]
      /\ pc[t] = "find2"
      /\ pc' = [pc EXCEPT ![t] = "own"]
      /\ mutex' = [mutex EXCEPT ![Source(t)] = NoThread]
      /\ MoveCount(Source(t), Busy(t))
      /\ UNCHANGED <<prog, goal>>
  BY DEF FindHit, Goto, LockSecondAndReturn
<1>3. Where(i) = Source(t)
  <2>1. ~ Refilled(i)
    BY <1>2, Roles DEF Refilled, Discipline, RefilledIsFree
  <2>2. QED
    BY <1>2, <2>1 DEF Where
<1>4. \A u \in Threads : hold[u] # i
  BY <1>0, <1>3, Roles, NullAssumption DEF Discipline, ExclusiveUse
<1>5. IO \in Threads /\ ~ Refilled(i)'
  BY <1>2, <1>4 DEF Refilled, Typing, Threads
<1>6. Where(i)' = Busy(t)
  BY <1>0, <1>2, <1>5 DEF Where, Mark, Typing
<1>7. \A j \in Slots \ {i} : Where(j)' = Where(j)
  BY <1>0, <1>2, <1>5 DEF Where, Refilled, Mark, Typing
<1>8. QED
  BY <1>2, <1>3, <1>4, <1>6, <1>7 DEF Taken

(* A match in find preserves the invariant.                                *)
LEMMA FindHitStep ==
  ASSUME IInv, NEW t \in Threads, NEW p \in Progs, FindHit(t, p)
  PROVE  IInv'
<1> USE DEF IInv
<1>0. /\ Source(t) \in States
      /\ Busy(t) \in States
      /\ Source(t) # Busy(t)
      /\ IO \in Threads
  BY Roles DEF States, Threads
<1>1. PICK i \in Slots : /\ Taken(t, i)
                         /\ Mark(i, Busy(t))
                         /\ Advance(Source(t), i)
  BY HitTakes
<1>2. /\ hold' = [hold EXCEPT ![t] = i]
      /\ pc[t] = "find2"
      /\ pc' = [pc EXCEPT ![t] = "own"]
      /\ mutex' = [mutex EXCEPT ![Source(t)] = NoThread]
      /\ MoveCount(Source(t), Busy(t))
      /\ UNCHANGED <<prog, goal>>
  BY <1>1 DEF FindHit, Goto, LockSecondAndReturn, Taken
<1>3. /\ Where(i) = Source(t)
      /\ Where(i)' = Busy(t)
      /\ \A u \in Threads : hold[u] # i
      /\ \A j \in Slots \ {i} : Where(j)' = Where(j)
  BY <1>1 DEF Taken
<1>4. Typing'
  <2>1. (i + 1) % N \in Slots
    BY Modulo
  <2>2. state' \in [Slots -> States]
    BY <1>0, <1>1 DEF Typing, Mark
  <2>3. index' \in [States -> Slots]
    BY <1>0, <1>1, <2>1 DEF Typing, Advance
  <2>4. count' \in [States -> Int]
    BY <1>0, <1>2 DEF Typing, MoveCount
  <2>5. QED
    BY <1>0, <1>2, <2>2, <2>3, <2>4 DEF Typing, PCs
<1>5. Discipline'
  <2>1. MutexHeld'
    BY <1>0, <1>2, Roles, NullAssumption DEF Discipline, MutexHeld, Holds, Typing
  <2>2. SlotHeld'
    BY <1>0, <1>2 DEF Discipline, SlotHeld, Typing
  <2>3. GoalSet'
    BY <1>2 DEF Discipline, GoalSet, Typing
  <2>4. RefilledIsFree'
    BY <1>0, <1>1, <1>2, <1>3 DEF Discipline, RefilledIsFree, Refilled, Mark, Typing
  <2>5. ExclusiveUse'
    <3> SUFFICES ASSUME NEW u \in Threads, hold'[u] # NoSlot
                 PROVE  /\ Where(hold[u])' = Busy(u)
                        /\ \A v \in Threads \ {u} : hold'[v] # hold'[u]
      BY DEF ExclusiveUse
    <3>1. CASE u = t
      BY <1>2, <1>3, <3>1 DEF Typing
    <3>2. CASE u # t
      <4>1. hold'[u] = hold[u] /\ hold[u] \in Slots \ {i}
        BY <1>2, <1>3, <3>2 DEF Typing
      <4>2. Where(hold[u])' = Where(hold[u])
        BY <1>3, <4>1
      <4>3. QED
        BY <1>2, <1>3, <3>2, <4>1, <4>2 DEF Discipline, ExclusiveUse, Typing
    <3>3. QED
      BY <3>1, <3>2
  <2>6. QED
    BY <2>1, <2>2, <2>3, <2>4, <2>5 DEF Discipline
<1>6. CountsExact'
  BY <1>0, <1>2, <1>3, MoveKeepsCounts
<1>7. QED
  BY <1>4, <1>5, <1>6

(* The receive overwrites the state field of a slot in RECEIVING.          *)
LEMMA ReceiveStep ==
  ASSUME IInv, NEW p \in Progs, Receive(p)
  PROVE  IInv'
<1> USE DEF IInv, Receive, Goto
<1>1. /\ IO \in Threads
      /\ hold[IO] \in Slots
      /\ Where(hold[IO]) = Busy(IO)
      /\ Busy(IO) = "RECEIVING"
      /\ "WAIT" \in Goals(IO)
  BY Roles, NullAssumption DEF Threads, Discipline, SlotHeld, ExclusiveUse
<1>2. Typing'
  BY <1>1 DEF Typing, PCs, States
<1>3. \A j \in Slots : Where(j)' = Where(j)
  BY <1>1 DEF Typing, Where, Refilled
<1>4. MutexHeld' /\ SlotHeld' /\ GoalSet'
  BY <1>1 DEF Typing, Discipline, MutexHeld, SlotHeld, GoalSet, Holds
<1>5. RefilledIsFree'
  BY <1>1 DEF Typing, RefilledIsFree, Refilled
<1>6. ExclusiveUse'
  BY <1>3, NullAssumption DEF Typing, Discipline, ExclusiveUse
<1>7. CountsExact'
  BY <1>3, StayKeepsCounts
<1>8. QED
  BY <1>2, <1>4, <1>5, <1>6, <1>7 DEF Discipline

(* step_chunk moves the slot of its thread to the goal and gives it up.    *)
Passed(t, i, g) ==
  /\ hold[t] = i
  /\ goal[t] = g
  /\ Where(i) = Busy(t)
  /\ Where(i)' = g
  /\ \A u \in Threads \ {t} : hold[u] # i
  /\ hold' = [hold EXCEPT ![t] = NoSlot]
  /\ \A j \in Slots \ {i} : Where(j)' = Where(j)

(* step_chunk moves the slot of the thread, and no other, from its busy    *)
(* state to the goal state.                                                *)
LEMMA MovePasses ==
  ASSUME IInv, NEW t \in Threads, StepMove(t)
  PROVE  /\ \E i \in Slots, g \in States : Passed(t, i, g)
         /\ goal[t] \in Goals(t)
<1> USE DEF IInv
<1>0. pc[t] = "step2"
  BY DEF StepMove, Goto
<1>1. PICK i \in Slots : i = hold[t]
  BY <1>0 DEF Discipline, SlotHeld
<1>2. PICK g \in States : g = goal[t]
  BY DEF Typing
<1>3. /\ mutex[g] = NoThread
      /\ mutex' = [mutex EXCEPT ![Busy(t)] = NoThread]
      /\ pc' = [pc EXCEPT ![t] = "idle"]
      /\ state' = [state EXCEPT ![i] = g]
      /\ MoveCount(Busy(t), g)
      /\ hold' = [hold EXCEPT ![t] = NoSlot]
      /\ goal' = [goal EXCEPT ![t] = "FREE"]
      /\ UNCHANGED <<prog, index>>
  BY <1>1, <1>2 DEF StepMove, Goto, LockSecondAndReturn, Mark
<1>4. /\ Busy(t) \in States
      /\ Busy(t) # g
      /\ IO \in Threads
      /\ NoSlot \notin Slots
  BY <1>0, <1>2, Roles, NullAssumption DEF States, Threads, Discipline, GoalSet
<1>5. Where(i) = Busy(t)
  BY <1>1, <1>4 DEF Discipline, ExclusiveUse
<1>6. \A u \in Threads \ {t} : hold[u] # i
  BY <1>1, <1>4 DEF Discipline, ExclusiveUse
<1>7. ~ Refilled(i)'
  BY <1>3, <1>4, <1>6 DEF Refilled, Typing
<1>8. Where(i)' = g
  BY <1>3, <1>7 DEF Where, Typing
<1>9. \A j \in Slots \ {i} : Where(j)' = Where(j)
  BY <1>1, <1>3, <1>4 DEF Where, Refilled, Typing
<1>10. QED
  BY <1>0, <1>1, <1>2, <1>3, <1>5, <1>6, <1>8, <1>9
     DEF Passed, Discipline, GoalSet

(* The move of step_chunk preserves the invariant.                         *)
LEMMA StepMoveStep ==
  ASSUME IInv, NEW t \in Threads, StepMove(t)
  PROVE  IInv'
<1> USE DEF IInv
<1>1. PICK i \in Slots, g \in States : Passed(t, i, g)
  BY MovePasses
<1>2. /\ hold[t] = i
      /\ goal[t] = g
      /\ g \in Goals(t)
      /\ \A u \in Threads \ {t} : hold[u] # i
      /\ \A j \in Slots \ {i} : Where(j)' = Where(j)
  BY <1>1, MovePasses DEF Passed
<1>3. /\ pc[t] = "step2"
      /\ pc' = [pc EXCEPT ![t] = "idle"]
      /\ mutex' = [mutex EXCEPT ![Busy(t)] = NoThread]
      /\ state' = [state EXCEPT ![i] = g]
      /\ MoveCount(Busy(t), g)
      /\ hold' = [hold EXCEPT ![t] = NoSlot]
      /\ goal' = [goal EXCEPT ![t] = "FREE"]
      /\ UNCHANGED <<prog, index>>
  BY <1>2 DEF StepMove, Goto, LockSecondAndReturn, Mark
<1>4. /\ Busy(t) \in States
      /\ Busy(t) # g
      /\ IO \in Threads
      /\ NoSlot \notin Slots
  BY <1>2, Roles, NullAssumption DEF States, Threads
<1>5. Typing'
  <2>1. count' \in [States -> Int]
    BY <1>3, <1>4 DEF Typing, MoveCount
  <2>2. QED
    BY <1>3, <1>4, <2>1 DEF Typing, PCs, States
<1>6. Discipline'
  <2>1. MutexHeld'
    BY <1>3, <1>4, Roles, NullAssumption
       DEF Discipline, MutexHeld, Holds, Typing
  <2>2. SlotHeld' /\ GoalSet'
    BY <1>3, <1>4 DEF Discipline, SlotHeld, GoalSet, Typing
  <2>3. RefilledIsFree'
    BY <1>2, <1>3, <1>4 DEF Discipline, RefilledIsFree, Refilled, Typing
  <2>4. ExclusiveUse'
    <3> SUFFICES ASSUME NEW u \in Threads, hold'[u] # NoSlot
                 PROVE  /\ Where(hold[u])' = Busy(u)
                        /\ \A v \in Threads \ {u} : hold'[v] # hold'[u]
      BY DEF ExclusiveUse
    <3>1. u # t /\ hold'[u] = hold[u] /\ hold[u] \in Slots \ {i}
      BY <1>2, <1>3 DEF Typing
    <3>2. Where(hold[u])' = Where(hold[u])
      BY <1>2, <3>1
    <3>3. QED
      BY <1>3, <1>4, <3>1, <3>2 DEF Discipline, ExclusiveUse, Typing
  <2>5. QED
    BY <2>1, <2>2, <2>3, <2>4 DEF Discipline
<1>7. CountsExact'
  BY <1>1, <1>3, <1>4, MoveKeepsCounts DEF Passed
<1>8. QED
  BY <1>5, <1>6, <1>7
-----------------------------------------------------------------------------
(* Every step preserves the invariant: one case per action.                *)
LEMMA NextIInv == IInv /\ [Next]_bufVars => IInv'
<1> SUFFICES ASSUME IInv, [Next]_bufVars
             PROVE  IInv'
  OBVIOUS
<1>1. CASE UNCHANGED bufVars
  BY <1>1 DEF bufVars, IInv, Typing, Discipline, MutexHeld, SlotHeld, GoalSet,
     RefilledIsFree, ExclusiveUse, CountsExact, Holds, InState, Where, Refilled
<1>2. ASSUME NEW t \in Threads, FindNone(t) PROVE IInv'
  BY <1>1, <1>2 DEF FindNone
<1>3. ASSUME NEW t \in Threads, FindEnter(t) PROVE IInv'
  BY <1>3, EnterStep
<1>4. ASSUME NEW t \in Threads, Continue(t) PROVE IInv'
  <2>1. CASE FindLock(t)
    BY <2>1, FindLockStep
  <2>2. ASSUME NEW p \in Progs, FindHit(t, p) PROVE IInv'
    BY <2>2, FindHitStep
  <2>3. ASSUME NEW p \in Progs, FindMiss(t, p) PROVE IInv'
    BY <2>3, FindMissStep
  <2>4. ASSUME NEW p \in Progs, Receive(p) PROVE IInv'
    BY <2>4, ReceiveStep
  <2>5. ASSUME NEW s \in States, StepCall(t, s) PROVE IInv'
    BY <2>5, StepCallStep
  <2>6. CASE Abandon(t)
    BY <2>6, AbandonStep
  <2>7. CASE StepLock(t)
    BY <2>7, StepLockStep
  <2>8. CASE StepMove(t)
    BY <2>8, StepMoveStep
  <2>9. QED
    BY <1>4, <2>1, <2>2, <2>3, <2>4, <2>5, <2>6, <2>7, <2>8
       DEF Continue, Search, Use
<1>5. QED
  BY <1>1, <1>2, <1>3, <1>4 DEF Next

(* The inductive invariant holds in every reachable state.                 *)
THEOREM Inductive == Spec => []IInv
BY InitIInv, NextIInv, PTL DEF Spec

(* With exact counters the counters have their range 0 .. N.               *)
LEMMA InRange == IInv => TypeOK
<1> SUFFICES ASSUME IInv PROVE TypeOK
  OBVIOUS
<1>1. ASSUME NEW s \in States PROVE count[s] \in 0 .. N
  <2>1. IsFiniteSet(Slots) /\ Cardinality(Slots) = N
    BY NAssumption, FS_Interval DEF Slots
  <2>2. InState(s) \in SUBSET Slots
    BY DEF InState
  <2>3. /\ IsFiniteSet(InState(s))
        /\ Cardinality(InState(s)) <= N
    BY <2>1, <2>2, FS_Subset
  <2>4. Cardinality(InState(s)) \in Nat
    BY <2>3, FS_CardinalityType
  <2>5. QED
    BY <2>3, <2>4, NAssumption DEF IInv, CountsExact
<1>2. count \in [States -> 0 .. N]
  BY <1>1 DEF IInv, Typing
<1>3. QED
  BY <1>2 DEF IInv, Typing, TypeOK

(* No index ever leaves the buffer and no counter leaves 0 .. N: none      *)
(* wraps below zero, where find would search for slots that do not exist.  *)
THEOREM Types == Spec => []TypeOK
BY Inductive, InRange, PTL

(* The counters that find tests without a lock are always exact.           *)
THEOREM Counts == Spec => []CountsExact
<1>1. IInv => CountsExact
  BY DEF IInv
<1>2. QED
  BY <1>1, Inductive, PTL

(* No slot is ever used by two threads.                                    *)
THEOREM Exclusion == Spec => []ExclusiveUse
<1>1. IInv => ExclusiveUse
  BY DEF IInv, Discipline
<1>2. QED
  BY <1>1, Inductive, PTL
-----------------------------------------------------------------------------
(* A thread that holds a mutex in find holds that of its source state and  *)
(* wants that of its busy state; in step_chunk, busy and goal.             *)
LEMMA HoldersWant ==
  ASSUME IInv, NEW s \in States, NEW t \in Threads, mutex[s] = t
  PROVE  \/ s = Source(t) /\ pc[t] = "find2" /\ Wants(t) = {Busy(t)}
         \/ s = Busy(t) /\ pc[t] = "step2" /\ Wants(t) \subseteq Goals(t)
<1>1. Holds(t, s)
  BY DEF IInv, Discipline, MutexHeld
<1>2. CASE pc[t] = "find2" /\ s = Source(t)
  BY <1>2 DEF Wants
<1>3. CASE pc[t] = "step2" /\ s = Busy(t)
  <2>1. goal[t] \in Goals(t)
    BY <1>3 DEF IInv, Discipline, GoalSet
  <2>2. QED
    BY <1>3, <2>1 DEF Wants
<1>4. QED
  BY <1>1, <1>2, <1>3 DEF Holds

(* Without requeueing, the mutexes are given up from FREE backwards round  *)
(* the circle: nobody in a circle of waiting threads can hold one.         *)
LEMMA NoRing == IInv /\ ~MultiStep => NoCircularWait
<1> SUFFICES ASSUME IInv, ~MultiStep,
                    NEW T \in (SUBSET Threads) \ {{}},
                    \A t \in T : \E s \in Wants(t) : mutex[s] \in T
             PROVE  FALSE
  BY DEF NoCircularWait
<1> DEFINE Ring(s) == mutex[s] \in T
<1>1. ASSUME NEW s \in States, Ring(s)
      PROVE  \E t \in T :
               /\ mutex[s] = t
               /\ \/ s = Source(t) /\ pc[t] = "find2" /\ Ring(Busy(t))
                  \/ /\ s = Busy(t)
                     /\ pc[t] = "step2"
                     /\ \E g \in Goals(t) : Ring(g)
  <2>1. PICK t \in T : t = mutex[s] /\ t \in Threads
    BY <1>1
  <2>2. \E g \in Wants(t) : Ring(g)
    BY <2>1
  <2>3. \/ s = Source(t) /\ pc[t] = "find2" /\ Wants(t) = {Busy(t)}
        \/ s = Busy(t) /\ pc[t] = "step2" /\ Wants(t) \subseteq Goals(t)
    BY <2>1, HoldersWant
  <2>4. QED
    BY <2>1, <2>2, <2>3
<1>2. \A t \in Threads :
        /\ t = IO => Busy(t) = "RECEIVING" /\ Goals(t) = {"WAIT"}
        /\ t # IO /\ Source(t) = "WAIT" =>
             Busy(t) = "WORKING" /\ Goals(t) = {"READY"}
        /\ t # IO /\ Source(t) = "READY" =>
             Busy(t) = "SENDING" /\ Goals(t) = {"FREE"}
  BY ThreadsAssumption DEF Threads, Source, Busy, Goals
<1> HIDE DEF Ring
<1>3. ~ Ring("FREE")
  BY <1>1, <1>2, Roles DEF States
<1>4. ~ Ring("SENDING")
  BY <1>1, <1>2, <1>3, Roles DEF States
<1>5. ~ Ring("READY")
  BY <1>1, <1>2, <1>4, Roles DEF States
<1>6. ~ Ring("WORKING")
  BY <1>1, <1>2, <1>5, Roles DEF States
<1>7. ~ Ring("WAIT")
  BY <1>1, <1>2, <1>6, Roles DEF States
<1>8. ~ Ring("RECEIVING")
  BY <1>1, <1>2, <1>7, Roles DEF States
<1>9. \A t \in Threads : Wants(t) \subseteq States
  BY Roles DEF Wants, States, IInv, Typing
<1>10. QED
  BY <1>3, <1>4, <1>5, <1>6, <1>7, <1>8, <1>9 DEF States, Ring

(* As long as every sequence has one entry, the threads of the server      *)
(* never wait for each other in a circle, however many there are.          *)
THEOREM NoDeadlock ==
  ASSUME ~MultiStep
  PROVE  Spec => []NoCircularWait
<1>1. IInv => NoCircularWait
  BY NoRing
<1>2. QED
  BY <1>1, Inductive, PTL
-----------------------------------------------------------------------------
(* From any start a, N steps round the buffer meet every slot, and N - 1   *)
(* steps every slot but the one before a.                                  *)
LEMMA Round ==
  ASSUME NEW a \in Slots, NEW i \in Slots
  PROVE  \E k \in 0 .. N-1 : i = (a + k) % N
<1>1. CASE a <= i
  <2>1. i - a \in 0 .. N-1 /\ (a + (i - a)) % N = i
    BY <1>1, NAssumption DEF Slots
  <2>2. QED
    BY <2>1
<1>2. CASE i < a
  <2>1. i - a + N \in 0 .. N-1
    BY <1>2, NAssumption DEF Slots
  <2>2. (i + N) % N = i
    BY NAssumption DEF Slots
  <2>3. a + (i - a + N) = i + N
    BY NAssumption DEF Slots
  <2>4. QED
    BY <2>1, <2>2, <2>3
<1>3. QED
  BY <1>1, <1>2 DEF Slots

(* A search of the io thread or of a sender that fails has left at most    *)
(* the slot before its start unseen.                                       *)
LEMMA MissOverlooks ==
  ASSUME IInv, NEW t \in Threads, t \notin Managers,
         NEW p \in Progs, FindMiss(t, p)
  PROVE  Cardinality(InState(Source(t))) <= 1
<1> DEFINE s == Source(t)
           a == index[s]
           last == (a + (N-1)) % N
<1>1. s \in States /\ s # "RECEIVING"
  BY Roles DEF States
<1>2. a \in Slots
  BY <1>1 DEF IInv, Typing
<1>3. \A k \in 0 .. N-2 : state[(a + k) % N] # s
  BY DEF FindMiss, Matches, Steps, At
<1>4. InState(s) \subseteq {last}
  <2> SUFFICES ASSUME NEW i \in Slots, Where(i) = s PROVE i = last
    BY DEF InState
  <2>1. state[i] = s
    BY <1>1 DEF Where
  <2>2. PICK k \in 0 .. N-1 : i = (a + k) % N
    BY <1>2, Round
  <2>3. k \notin 0 .. N-2
    BY <1>3, <2>1, <2>2
  <2>4. k = N-1
    BY <2>3, NAssumption
  <2>5. QED
    BY <2>2, <2>4
<1> HIDE DEF last
<1>5. IsFiniteSet({last}) /\ Cardinality({last}) = 1
  BY FS_Singleton
<1>6. QED
  BY <1>4, <1>5, FS_Subset

(* Only a search that fails goes from find2 to idle.                       *)
LEMMA OverlooksStep ==
  ASSUME IInv, [Next]_bufVars, NEW t \in Threads, t \notin Managers,
         pc[t] = "find2", pc'[t] = "idle"
  PROVE  Cardinality(InState(Source(t))) <= 1
<1>1. CASE UNCHANGED bufVars
  BY <1>1 DEF bufVars
<1>2. ASSUME NEW u \in Threads, FindNone(u) \/ FindEnter(u) PROVE FALSE
  BY <1>2 DEF FindNone, FindEnter, Goto, IInv, Typing, bufVars
<1>3. ASSUME NEW u \in Threads, Continue(u)
      PROVE  \E p \in Progs : FindMiss(t, p)
  BY <1>3 DEF Continue, Search, Use, FindLock, FindHit, FindMiss, Receive,
     StepCall, StepLock, StepMove, Abandon, Goto, IInv, Typing
<1>4. QED
  BY <1>1, <1>2, <1>3, MissOverlooks DEF Next

(* The io thread drops a chunk, and a sender finds nothing to send, only   *)
(* when at most one slot is in the state it searches.                      *)
THEOREM Overlooks == Spec => OverlooksAtMostOne
<1> DEFINE A == \A t \in Threads :
                  pc[t] = "find2" /\ pc'[t] = "idle" /\ t \notin Managers
                    => Cardinality(InState(Source(t))) <= 1
<1>1. IInv /\ [Next]_bufVars => [A]_bufVars
  BY OverlooksStep
<1>2. QED
  BY <1>1, Inductive, PTL DEF Spec, OverlooksAtMostOne
-----------------------------------------------------------------------------
(* A slot has the owner that holds it.                                     *)
LEMMA Owner ==
  ASSUME IInv, NEW i \in Slots
  PROVE  /\ \A t \in Threads : hold[t] = i <=> OwnerOf(i) = t
         /\ (\A t \in Threads : hold[t] # i) <=> OwnerOf(i) = NoThread
<1>1. CASE \E t \in Threads : hold[t] = i
  <2>1. OwnerOf(i) \in Threads /\ hold[OwnerOf(i)] = i
    BY <1>1 DEF OwnerOf
  <2>2. \A t, u \in Threads : hold[t] = i /\ hold[u] = i => t = u
    BY NullAssumption DEF IInv, Discipline, ExclusiveUse
  <2>3. QED
    BY <2>1, <2>2, NullAssumption
<1>2. CASE ~ \E t \in Threads : hold[t] = i
  BY <1>2, NullAssumption DEF OwnerOf
<1>3. QED
  BY <1>1, <1>2

(* A step that moves no slot and takes none is a stutter of the cycle.     *)
LEMMA Stutter ==
  ASSUME UNCHANGED hold, \A j \in Slots : Where(j)' = Where(j)
  PROVE  UNCHANGED Cycle!slotVars
<1>1. \A j \in Slots : OwnerOf(j)' = OwnerOf(j)
  BY DEF OwnerOf
<1>2. QED
  BY <1>1 DEF Cycle!slotVars

(* The instance reads the vocabulary of ChunkStates as Buffer does.        *)
LEMMA SameWords ==
  /\ Cycle!Slots = Slots
  /\ Cycle!Threads = Threads
  /\ \A t \in Threads : /\ Cycle!Source(t) = Source(t)
                        /\ Cycle!Busy(t) = Busy(t)
                        /\ Cycle!Goals(t) = Goals(t)
BY DEF Slots, Threads, Source, Busy, Goals, Cycle!Slots, Cycle!Threads,
   Cycle!Source, Cycle!Busy, Cycle!Goals

(* All slots start FREE and without an owner.                              *)
LEMMA InitIsInit == Init => Cycle!Init
<1> SUFFICES ASSUME Init PROVE Cycle!Init
  OBVIOUS
<1>1. \A i \in Slots : Where(i) = "FREE"
  BY NullAssumption DEF Init, Where, Refilled, Threads
<1>2. \A i \in Slots : OwnerOf(i) = NoThread
  BY NullAssumption DEF Init, OwnerOf
<1>3. QED
  BY <1>1, <1>2, SameWords DEF Cycle!Init

(* A hit is a Take of the cycle.                                           *)
LEMMA HitIsTake ==
  ASSUME IInv, NEW t \in Threads, NEW p \in Progs, FindHit(t, p)
  PROVE  \E i \in Slots : Cycle!Take(t, i)
<1>1. PICK i \in Slots : Taken(t, i)
  BY HitTakes
<1>2. \A j \in Slots : hold[t] # j
  BY NullAssumption DEF FindHit, Goto, IInv, Discipline, SlotHeld
<1>3. IInv'
  BY FindHitStep
<1>4. \A j \in Slots : OwnerOf(j)' = IF j = i THEN t ELSE OwnerOf(j)
  BY <1>1, <1>2, NullAssumption DEF Taken, IInv, Typing, OwnerOf
<1>5. \A j \in Slots : OwnerOf(j) # t
  BY <1>2, Owner
<1>6. OwnerOf(i) = NoThread
  BY <1>1, Owner DEF Taken
<1>7. QED
  BY <1>1, <1>4, <1>5, <1>6, SameWords DEF Taken, Cycle!Take, Cycle!Owns

(* The end of step_chunk is a Pass of the cycle.                           *)
LEMMA MoveIsPass ==
  ASSUME IInv, NEW t \in Threads, StepMove(t)
  PROVE  \E i \in Slots : Cycle!Pass(t, i)
<1>1. PICK i \in Slots, g \in States : Passed(t, i, g)
  BY MovePasses
<1>2. g \in Goals(t)
  BY <1>1, MovePasses DEF Passed
<1>3. \A u \in Threads : hold'[u] = i <=> FALSE
  BY <1>1, NullAssumption DEF Passed, IInv, Typing
<1>4. OwnerOf(i)' = NoThread
  BY <1>3 DEF OwnerOf
<1>5. ASSUME NEW j \in Slots \ {i} PROVE OwnerOf(j)' = OwnerOf(j)
  <2>1. \A u \in Threads : hold'[u] = j <=> hold[u] = j
    BY <1>1, NullAssumption DEF Passed, IInv, Typing
  <2>2. QED
    BY <2>1 DEF OwnerOf
<1>6. OwnerOf(i) = t
  BY <1>1, Owner DEF Passed
<1>7. QED
  BY <1>1, <1>2, <1>4, <1>5, <1>6, SameWords DEF Passed, Cycle!Pass, Cycle!Owns

(* A manager that goes on with the next search abandons its slot.          *)
LEMMA AbandonIsAbandon ==
  ASSUME IInv, NEW t \in Threads, Abandon(t)
  PROVE  \E i \in Slots : Cycle!Abandon(t, i)
<1>1. PICK i \in Slots : i = hold[t]
  BY DEF Abandon, Goto, IInv, Discipline, SlotHeld
<1>2. hold' = [hold EXCEPT ![t] = NoSlot] /\ UNCHANGED state
  BY DEF Abandon
<1>3. t # IO /\ MayAbandon /\ t \in Managers
  BY ThreadsAssumption DEF Abandon
<1>4. \A j \in Slots : Where(j)' = Where(j)
  BY <1>2, <1>3 DEF Abandon, Goto, Where, Refilled, IInv, Typing
<1>5. OwnerOf(i) = t
  BY <1>1, Owner
<1>6. \A u \in Threads : hold'[u] # i
  BY <1>1, <1>2, NullAssumption DEF IInv, Typing, Discipline, ExclusiveUse
<1>7. OwnerOf(i)' = NoThread
  BY <1>6 DEF OwnerOf
<1>8. ASSUME NEW j \in Slots \ {i} PROVE OwnerOf(j)' = OwnerOf(j)
  <2>1. \A u \in Threads : hold'[u] = j <=> hold[u] = j
    BY <1>1, <1>2, NullAssumption DEF IInv, Typing
  <2>2. QED
    BY <2>1 DEF OwnerOf
<1>9. QED
  BY <1>3, <1>4, <1>5, <1>7, <1>8, SameWords DEF Cycle!Abandon, Cycle!Owns

(* Every step of the buffer is a step of the cycle or a stutter.           *)
LEMMA NextIsNext ==
  IInv /\ [Next]_bufVars => [Cycle!Next]_(Cycle!slotVars)
<1> SUFFICES ASSUME IInv, [Next]_bufVars
             PROVE  Cycle!Next \/ UNCHANGED Cycle!slotVars
  OBVIOUS
<1>1. CASE UNCHANGED bufVars
  <2>1. UNCHANGED hold /\ \A j \in Slots : Where(j)' = Where(j)
    BY <1>1 DEF bufVars, Where, Refilled
  <2>2. QED
    BY <2>1, Stutter
<1>2. ASSUME NEW t \in Threads, FindNone(t)
      PROVE  UNCHANGED bufVars
  BY <1>2 DEF FindNone
<1>3. ASSUME NEW t \in Threads,
             \/ FindEnter(t) \/ FindLock(t) \/ StepLock(t)
             \/ \E p \in Progs : FindMiss(t, p) \/ (t = IO /\ Receive(p))
             \/ \E s \in States : StepCall(t, s)
      PROVE  UNCHANGED Cycle!slotVars
  <2>1. UNCHANGED hold
    BY <1>3 DEF FindEnter, FindLock, StepLock, FindMiss, Receive, StepCall
  <2>2. CASE \E p \in Progs : t = IO /\ Receive(p)
    <3>1. /\ hold[IO] \in Slots
          /\ Where(hold[IO]) = "RECEIVING"
      BY <2>2, Roles, NullAssumption DEF Receive, Goto, IInv, Discipline,
         SlotHeld, ExclusiveUse
    <3>2. \A j \in Slots : Where(j)' = Where(j)
      BY <2>2, <3>1 DEF Receive, Goto, Where, Refilled, IInv, Typing
    <3>3. QED
      BY <2>1, <3>2, Stutter
  <2>3. CASE ~ \E p \in Progs : t = IO /\ Receive(p)
    <3>1. UNCHANGED state
      BY <1>3, <2>3 DEF FindEnter, FindLock, StepLock, FindMiss, StepCall
    <3>2. \/ FindEnter(t) \/ FindLock(t) \/ StepLock(t)
          \/ \E p \in Progs : FindMiss(t, p)
          \/ \E s \in States : StepCall(t, s)
      BY <1>3, <2>3
    <3>3. pc'[IO] \in {"step1", "step2"} <=> pc[IO] \in {"step1", "step2"}
      <4>1. IO \in Threads /\ pc \in [Threads -> PCs]
        BY DEF Threads, IInv, Typing
      <4>2. \/ Goto(t, "idle", "find1") \/ Goto(t, "find1", "find2")
            \/ Goto(t, "step1", "step2") \/ Goto(t, "find2", "idle")
            \/ t # IO /\ Goto(t, "own", "step1")
        BY <3>2 DEF FindEnter, FindLock, StepLock, FindMiss, StepCall
      <4>3. QED
        BY <4>1, <4>2 DEF Goto
    <3>4. \A j \in Slots : Where(j)' = Where(j)
      BY <2>1, <3>1, <3>3 DEF Where, Refilled
    <3>5. QED
      BY <2>1, <3>4, Stutter
  <2>4. QED
    BY <2>2, <2>3
<1>4. ASSUME NEW t \in Threads,
             \/ \E p \in Progs : FindHit(t, p)
             \/ StepMove(t)
             \/ Abandon(t)
      PROVE  Cycle!Next
  BY <1>4, HitIsTake, MoveIsPass, AbandonIsAbandon, SameWords DEF Cycle!Next
<1>5. QED
  BY <1>1, <1>2, <1>3, <1>4 DEF Next, Continue, Search, Use

(* The buffer implements the life cycle of its slots.                      *)
THEOREM Refinement == Spec => ImplementsCycle
<1>1. Init => Cycle!Init
  BY InitIsInit
<1>2. IInv /\ [Next]_bufVars => [Cycle!Next]_(Cycle!slotVars)
  BY NextIsNext
<1>3. QED
  BY <1>1, <1>2, Inductive, PTL DEF Spec, ImplementsCycle, Cycle!Spec
=============================================================================
