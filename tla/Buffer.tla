------------------------------- MODULE Buffer -------------------------------
(***************************************************************************)
(* The chunk buffer (Buffer.cpp) under the threads that use it: the io     *)
(* thread (E_CMD_CHUNK in tcp_connection::handle_read), the spu_manage     *)
(* threads and the handle_write threads.                                   *)
(*                                                                         *)
(* There is one mutex per chunk state.  find_chunk, find_wait_chunk and    *)
(* step_chunk lock the mutex of the current state, then that of the next   *)
(* state, and hold both until they return.  The first lock is a step of    *)
(* its own, because a thread can block on the second while it holds the    *)
(* first.  From the second lock to the return is one step: every other     *)
(* writer of the fields read there needs one of the two mutexes.  The test *)
(* of _count before the locks is a step of its own too: it is made without *)
(* a lock.                                                                 *)
(***************************************************************************)
EXTENDS ChunkStates

CONSTANTS
  Progs,     \* the program ids a chunk may carry
  NoThread,  \* no thread: the holder of a free mutex
  NoSlot     \* no slot: what a thread holds outside find .. step

ASSUME NullAssumption == NoThread \notin Threads /\ NoSlot \notin Slots

VARIABLES
  state,  \* state[i]: the state field of slot i, as it is in memory
  prog,   \* prog[i]: its prog_id field
  index,  \* index[s]: where the next search for state s starts
  count,  \* count[s]: the counter of state s
  mutex,  \* mutex[s]: the thread that holds the mutex of state s
  pc,     \* pc[t]: where thread t is
  hold,   \* hold[t]: the slot thread t got from find and has not stepped
  goal    \* goal[t]: the argument next of t's step_chunk call (FREE outside)

bufVars == <<state, prog, index, count, mutex, pc, hold, goal>>

(* idle   outside the buffer, holding no slot                              *)
(* find1  in find, past the count test, locking the source state           *)
(* find2  in find, holding that mutex, locking the busy state              *)
(* own    outside the buffer, holding a slot                               *)
(* step1  in step_chunk, locking the busy state                            *)
(* step2  in step_chunk, holding that mutex, locking the goal state        *)
PCs == {"idle", "find1", "find2", "own", "step1", "step2"}

Init ==
  /\ state = [i \in Slots |-> "FREE"]
  /\ prog \in [Slots -> Progs]  \* the allocated memory is not cleared
  /\ index = [s \in States |-> 0]
  /\ count = [s \in States |-> IF s = "FREE" THEN N ELSE 0]
  /\ mutex = [s \in States |-> NoThread]
  /\ pc = [t \in Threads |-> "idle"]
  /\ hold = [t \in Threads |-> NoSlot]
  /\ goal = [t \in Threads |-> "FREE"]
-----------------------------------------------------------------------------
Goto(t, from, to) ==
  /\ pc[t] = from
  /\ pc' = [pc EXCEPT ![t] = to]

Lock(t, s) ==
  /\ mutex[s] = NoThread
  /\ mutex' = [mutex EXCEPT ![s] = t]

(* The second lock is taken and both are released in the same step.        *)
LockSecondAndReturn(held, second) ==
  /\ mutex[second] = NoThread
  /\ mutex' = [mutex EXCEPT ![held] = NoThread]

(* chunk->state = next.  Mutant: the assignment is forgotten.              *)
MarkForgotten(i, s) == UNCHANGED state
Mark(i, s) == state' = [state EXCEPT ![i] = s]

(* _count[current]--; _count[next]++.  Mutant: the decrement is lost to a  *)
(* concurrent update.                                                      *)
MoveCountLost(from, to) == count' = [count EXCEPT ![to] = @ + 1]
MoveCount(from, to) ==
  count' = [count EXCEPT ![from] = @ - 1, ![to] = @ + 1]

(* _index[current] = (i + 1) % size.  Mutant: every search starts at 0.    *)
AdvanceNever(s, i) == UNCHANGED index
Advance(s, i) == index' = [index EXCEPT ![s] = (i + 1) % N]

(* The k-th slot the search loop looks at, and the steps of the loop: it   *)
(* ends when the slot after the current one is the one it started at, so   *)
(* it looks at N - 1 slots.                                                *)
At(s, k) == (index[s] + k) % N
StepsOneLess == 0 .. N-3  \* mutant: it skips one slot more
Steps == 0 .. N-2

(* The loop steps at which thread t, searching for program p, has a match. *)
Matches(t, p) ==
  {k \in Steps : /\ state[At(Source(t), k)] = Source(t)
                 /\ t \in Managers => prog[At(Source(t), k)] = p}
-----------------------------------------------------------------------------
(* find_chunk, find_wait_chunk: the counter is zero, NULL is returned.     *)
FindNone(t) ==
  /\ pc[t] = "idle"
  /\ count[Source(t)] = 0
  /\ UNCHANGED bufVars

FindEnter(t) ==
  /\ count[Source(t)] # 0
  /\ Goto(t, "idle", "find1")
  /\ UNCHANGED <<state, prog, index, count, mutex, hold, goal>>

FindLock(t) ==
  /\ Goto(t, "find1", "find2")
  /\ Lock(t, Source(t))
  /\ UNCHANGED <<state, prog, index, count, hold, goal>>

(* The first match is taken.                                               *)
FindHit(t, p) ==
  /\ Goto(t, "find2", "own")
  /\ LockSecondAndReturn(Source(t), Busy(t))
  /\ \E k \in Matches(t, p) :
       /\ \A j \in Matches(t, p) : k <= j
       /\ LET i == At(Source(t), k) IN
            /\ Mark(i, Busy(t))
            /\ Advance(Source(t), i)
            /\ hold' = [hold EXCEPT ![t] = i]
  /\ MoveCount(Source(t), Busy(t))
  /\ UNCHANGED <<prog, goal>>

(* The loop ends without a match, NULL is returned.                        *)
FindMiss(t, p) ==
  /\ Goto(t, "find2", "idle")
  /\ LockSecondAndReturn(Source(t), Busy(t))
  /\ Matches(t, p) = {}
  /\ UNCHANGED <<state, prog, index, count, hold, goal>>
-----------------------------------------------------------------------------
(* The io thread reads a whole chunk_t from the socket over the slot, the  *)
(* state field included: the client library sends zeroed chunks, so the    *)
(* field becomes E_CHUNK_FREE, outside any lock.  Then it calls step_chunk.*)
Receive(p) ==
  /\ Goto(IO, "own", "step1")
  /\ state' = [state EXCEPT ![hold[IO]] = "FREE"]
  /\ prog' = [prog EXCEPT ![hold[IO]] = p]
  /\ goal' = [goal EXCEPT ![IO] = "WAIT"]
  /\ UNCHANGED <<index, count, mutex, hold>>

(* A manager or a sender is done with its slot and calls step_chunk.       *)
StepCall(t, s) ==
  /\ t # IO
  /\ s \in Goals(t)
  /\ Goto(t, "own", "step1")
  /\ goal' = [goal EXCEPT ![t] = s]
  /\ UNCHANGED <<state, prog, index, count, mutex, hold>>

StepLock(t) ==
  /\ Goto(t, "step1", "step2")
  /\ Lock(t, Busy(t))
  /\ UNCHANGED <<state, prog, index, count, hold, goal>>

StepMove(t) ==
  /\ Goto(t, "step2", "idle")
  /\ LockSecondAndReturn(Busy(t), goal[t])
  /\ Mark(hold[t], goal[t])
  /\ MoveCount(Busy(t), goal[t])
  /\ hold' = [hold EXCEPT ![t] = NoSlot]
  /\ goal' = [goal EXCEPT ![t] = "FREE"]
  /\ UNCHANGED <<prog, index>>

(* spu_manage: the sequence or the parameter of the found chunk is not     *)
(* known, the loop goes on with the next search.                           *)
Abandon(t) ==
  /\ MayAbandon
  /\ t \in Managers
  /\ Goto(t, "own", "idle")
  /\ hold' = [hold EXCEPT ![t] = NoSlot]
  /\ UNCHANGED <<state, prog, index, count, mutex, goal>>
-----------------------------------------------------------------------------
Search(t) == \E p \in Progs : FindHit(t, p) \/ FindMiss(t, p)

Use(t) ==
  \/ t = IO /\ \E p \in Progs : Receive(p)
  \/ \E s \in States : StepCall(t, s)
  \/ Abandon(t)

(* A thread that has entered find goes on until it is idle again.          *)
Continue(t) == FindLock(t) \/ Search(t) \/ Use(t) \/ StepLock(t) \/ StepMove(t)

Next == \E t \in Threads : FindNone(t) \/ FindEnter(t) \/ Continue(t)

Spec == Init /\ [][Next]_bufVars

(* The managers and the senders poll.  A thread that waits for a mutex     *)
(* gets it if it is released again and again: critical sections are short  *)
(* and a blocked thread is queued by the kernel.  Nothing makes the io     *)
(* thread search: there may be nothing to receive.                         *)
Fairness ==
  /\ \A t \in Threads \ {IO} : WF_bufVars(FindEnter(t))
  /\ \A t \in Threads : SF_bufVars(Continue(t))

FairSpec == Spec /\ Fairness
-----------------------------------------------------------------------------
TypeOK ==
  /\ state \in [Slots -> States]
  /\ prog \in [Slots -> Progs]
  /\ index \in [States -> Slots]
  /\ count \in [States -> 0 .. N]
  /\ mutex \in [States -> Threads \cup {NoThread}]
  /\ pc \in [Threads -> PCs]
  /\ hold \in [Threads -> Slots \cup {NoSlot}]
  /\ goal \in [Threads -> States]

(* Where a slot is in its life.  It is the state field, except that the io *)
(* thread's slot stays in RECEIVING while the received zero is in there.   *)
Refilled(i) == hold[IO] = i /\ pc[IO] \in {"step1", "step2"}
Where(i) == IF Refilled(i) THEN "RECEIVING" ELSE state[i]
InState(s) == {i \in Slots : Where(i) = s}

(* The counters, which find tests without a lock and which several threads *)
(* update under different pairs of mutexes, never drift from the slots:    *)
(* no update is lost and none goes below zero (Buffer.cpp:31-32, 53-54,    *)
(* 83-84).                                                                 *)
CountsExact == \A s \in States : count[s] = Cardinality(InState(s))

(* A slot is owned by at most one thread, which has it in its busy state:  *)
(* no two threads ever read, compute or overwrite the same chunk, although *)
(* they use it outside every mutex, and although the io thread overwrites  *)
(* the state field itself (Server.cpp:106).                                *)
ExclusiveUse ==
  \A t \in Threads : hold[t] # NoSlot =>
    /\ Where(hold[t]) = Busy(t)
    /\ \A u \in Threads \ {t} : hold[u] # hold[t]

(* The threads' control points, their locks and their slots agree.         *)
Holds(t, s) ==
  \/ pc[t] = "find2" /\ s = Source(t)
  \/ pc[t] = "step2" /\ s = Busy(t)

MutexHeld == \A t \in Threads, s \in States : mutex[s] = t <=> Holds(t, s)

SlotHeld ==
  \A t \in Threads : hold[t] \in Slots <=> pc[t] \in {"own", "step1", "step2"}

GoalSet ==
  \A t \in Threads : pc[t] \in {"step1", "step2"} => goal[t] \in Goals(t)

RefilledIsFree == \A i \in Slots : Refilled(i) => state[i] = "FREE"

(* The mutex that blocks a thread: it wants it and another thread has it.  *)
Wants(t) ==
  CASE pc[t] = "find1" -> {Source(t)}
    [] pc[t] = "find2" -> {Busy(t)}
    [] pc[t] = "step1" -> {Busy(t)}
    [] pc[t] = "step2" -> {goal[t]}
    [] OTHER           -> {}

(* The locks are taken in the order of the life cycle, which is a circle,  *)
(* so no global order protects them.  Still no set of threads waits for    *)
(* each other as long as no chunk is requeued: FREE -> RECEIVING and       *)
(* RECEIVING -> WAIT are both locked by the io thread only, so the circle  *)
(* cannot close.                                                           *)
NoCircularWait ==
  ~ \E T \in (SUBSET Threads) \ {{}} :
      \A t \in T : \E s \in Wants(t) : mutex[s] \in T

(* The buffer implements the life cycle of SlotCycle: a slot moves only    *)
(* through its owner and only along the cycle, whatever the interleaving.  *)
OwnerOf(i) ==
  IF \E t \in Threads : hold[t] = i
  THEN CHOOSE t \in Threads : hold[t] = i
  ELSE NoThread

Cycle == INSTANCE SlotCycle
           WITH place <- [i \in Slots |-> Where(i)],
                owner <- [i \in Slots |-> OwnerOf(i)]

ImplementsCycle == Cycle!Spec

(* A search that returns NULL has overlooked at most one slot, because the *)
(* loop skips the slot before its start (Buffer.cpp:44-48): the io thread  *)
(* drops a chunk only when at most one slot of the buffer is free.         *)
OverlooksAtMostOne ==
  [][\A t \in Threads : pc[t] = "find2" /\ pc'[t] = "idle" /\ t \notin Managers
       => Cardinality(InState(Source(t))) <= 1]_bufVars

(* The round-robin start index starves nobody: a slot that others join in  *)
(* its state again and again is taken again and again.                     *)
NoStarvation ==
  \A s \in {"WAIT", "READY"}, i \in Slots :
    []<>(InState(s) \ {i} # {}) => []<>(Where(i) # s)

(* Every chunk that was received is sent: a slot that has left FREE comes  *)
(* back to it.  The client command `image' counts on that for the image it *)
(* processes (CSApp.cpp:63).                                               *)
SlotsComeBack == \A i \in Slots : (Where(i) # "FREE") ~> (Where(i) = "FREE")

(* The io thread gets back to listening to the next command                *)
(* (Server.cpp:128).                                                       *)
ListensAgain == (pc[IO] # "idle") ~> (pc[IO] = "idle")
=============================================================================
