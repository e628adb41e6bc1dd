----------------------------- MODULE SutProofs -----------------------------
(***************************************************************************)
(* sut.c's scheduling state stays consistent, for every number of tasks,   *)
(* contexts and kinds of I/O calls and either value of num_of_CEXEC.       *)
(* SutInv is the conjunction of the types, the count and five parts that   *)
(* need each other; each part has a lemma that says a step preserves it.   *)
(* At the end, where every context is, and the proof that sut.c schedules  *)
(* first come, first served: SutFcfs!ImplementsFcfs.                       *)
(***************************************************************************)
EXTENDS SutFcfs, QueueLemmas, FiniteSetTheorems, SequenceTheorems, TLAPS

USE SutAssumption DEF CExecs, IExec, Executors, Callers, Contexts, control,
    registry, tasks, queue_insert_tail, Popped, WithDescriptor, NoTaskLeft,
    WithRetired, OneMore, OneLess, Saved

-----------------------------------------------------------------------------
(* Two contexts of one task with one number are the same queue_entry.        *)
LEMMA SameContext ==
    ASSUME NEW c \in Contexts, NEW d \in Contexts, c[1] = d[1], c[2] = d[2]
    PROVE  c = d
  OBVIOUS

(* queue_insert_tail leaves every entry at its position and puts the new one *)
(* at the end.                                                               *)
LEMMA AppendPositions ==
    ASSUME NEW S, NEW q \in Seq(S), NEW x \in S
    PROVE  /\ Append(q, x) \in Seq(S)
           /\ DOMAIN q = 1 .. Len(q) /\ Len(q) \in Nat
           /\ DOMAIN Append(q, x) = 1 .. Len(q) + 1
           /\ \A i \in 1 .. Len(q) : Append(q, x)[i] = q[i]
           /\ Append(q, x)[Len(q) + 1] = x
  OBVIOUS

(* queue_pop_head moves every remaining entry one position forward.          *)
LEMMA TailPositions ==
    ASSUME NEW S, NEW q \in Seq(S), q # <<>>
    PROVE  /\ Tail(q) \in Seq(S) /\ Head(q) = q[1] /\ Head(q) \in S
           /\ DOMAIN q = 1 .. Len(q) /\ Len(q) \in Nat \ {0}
           /\ DOMAIN Tail(q) = 1 .. Len(q) - 1 /\ Len(Tail(q)) = Len(q) - 1
           /\ \A i \in 1 .. Len(q) - 1 : Tail(q)[i] = q[i + 1]
  OBVIOUS

-----------------------------------------------------------------------------
(* The invariant holds initially.                                           *)
LEMMA InitInv == Init => SutInv
<1> SUFFICES ASSUME Init PROVE SutInv
  OBVIOUS
<1>1. TypeOK
  BY DEF Init, TypeOK, NoAnswer, Answers, Phases
<1>2. CountIsLive
  <2>1. LiveTasks = {}
    BY DEF Init, LiveTasks, Live, Parked, Unsaved
  <2> QED
    BY <2>1, FS_EmptySet DEF Init, CountIsLive
<1>3. QueuesHoldNewest
  BY DEF Init, QueuesHoldNewest, IsInjective
<1>4. ExecutorsHold
  BY DEF Init, ExecutorsHold
<1>5. CreationsPending
  BY DEF Init, CreationsPending
<1>6. StopCondition
  BY DEF Init, StopCondition
<1>7. Registered
  <2>1. DOMAIN thread_array = {}
    BY DEF Init
  <2> QED
    BY <2>1 DEF Init, Registered, Range, IsInjective
<1> QED
  BY <1>1, <1>2, <1>3, <1>4, <1>5, <1>6, <1>7 DEF SutInv

-----------------------------------------------------------------------------
(* An executor past queue_pop_head and before the retiring of its entry      *)
(* holds a context of some task.                                             *)
LEMMA HeldTask ==
    ASSUME TypeOK, ExecutorsHold, NEW e \in Executors,
           epc[e] \in {"load", "run", "retire"}
    PROVE  /\ held[e] \in Contexts /\ TaskOf(e) \in Tasks
           /\ held[e] = <<TaskOf(e), held[e][2]>> /\ held[e][2] \in Nat
  BY DEF TypeOK, ExecutorsHold, TaskOf

(* A step is one of the actions, taken by an executor that holds what the    *)
(* action needs; the guards are spelled out with what the invariant adds to  *)
(* them.                                                                     *)
LEMMA NextCases ==
    ASSUME SutInv, [Next]_vars
    PROVE  \/ \E e \in Executors :
                 \/ Register(e) \/ CheckRunning(e) \/ CheckCount(e) \/ PopEmpty(e)
                 \/ Pop(e) \/ Load(e) \/ LoadUnsaved(e) \/ Retire(e)
                 \/ Yield(e) \/ SwapOut(e) \/ ExitCount(e) \/ ExitLeave(e)
                 \/ \E call \in IoCalls : AskIo(e, call)
                 \/ \E out \in -1 .. 3 : ServeIo(e, out)
           \/ \E p \in Callers, t \in Tasks :
                 /\ CreateCount(p, t) /\ creating[p] = None
                 /\ p = Main  => mpc = "running"
                 /\ p \in Tasks => /\ tpc[p] = "user"
                                   /\ \E e \in CExecs : epc[e] = "run" /\ TaskOf(e) = p
           \/ \E p \in Callers : CreateInsert(p)
           \/ Shutdown \/ Join \/ FreeEntries \/ UNCHANGED vars
<1>0. TypeOK /\ ExecutorsHold
  BY DEF SutInv
<1>1. ASSUME NEW e \in Executors, TaskInserts(e)
      PROVE  \E p \in Callers : CreateInsert(p)
  BY <1>0, <1>1, HeldTask DEF TaskInserts
<1>2. ASSUME NEW e \in Executors, NEW t \in Tasks, TaskCreates(e, t)
      PROVE  /\ TaskOf(e) \in Callers /\ CreateCount(TaskOf(e), t)
             /\ creating[TaskOf(e)] = None
             /\ TaskOf(e) # Main /\ tpc[TaskOf(e)] = "user"
             /\ e \in CExecs /\ epc[e] = "run"
  BY <1>0, <1>2, HeldTask DEF TaskCreates, Calling
<1>3. ASSUME NEW t \in Tasks, MainCreates(t)
      PROVE  /\ Main \in Callers /\ Main \notin Tasks
             /\ CreateCount(Main, t) /\ creating[Main] = None /\ mpc = "running"
  BY <1>3 DEF MainCreates
<1>4. ASSUME MainInserts PROVE \E p \in Callers : CreateInsert(p)
  BY <1>4 DEF MainInserts
<1>5. ASSUME NEW e \in Executors, TaskStep(e)
      PROVE  \/ Yield(e) \/ SwapOut(e) \/ ExitCount(e) \/ ExitLeave(e)
             \/ \E call \in IoCalls : AskIo(e, call)
             \/ \E out \in -1 .. 3 : ServeIo(e, out)
             \/ TaskInserts(e)
             \/ \E t \in Tasks : TaskCreates(e, t)
  BY <1>5 DEF TaskStep
<1> QED
  BY <1>1, <1>2, <1>3, <1>4, <1>5 DEF Next, LoopStep, MainStep

-----------------------------------------------------------------------------
(* Only finitely many tasks are live, so that they can be counted.           *)
LEMMA LiveIsFinite == LiveTasks \subseteq Tasks /\ IsFiniteSet(LiveTasks)
  <1>1. LiveTasks \subseteq Tasks
    BY DEF LiveTasks
  <1> QED
    BY <1>1, FS_Subset

(* num_of_user_threads goes up and down exactly when a task becomes live in  *)
(* sut_create and stops being live in sut_exit.                              *)
LEMMA CountStep == SutInv /\ [Next]_vars => CountIsLive'
<1> SUFFICES ASSUME SutInv, [Next]_vars PROVE CountIsLive'
  OBVIOUS
<1> USE DEF LiveTasks, Live, Parked, Unsaved
<1>0. TypeOK /\ CountIsLive /\ CreationsPending
  BY DEF SutInv
<1>1. ASSUME num_of_user_threads' = num_of_user_threads, LiveTasks' = LiveTasks
      PROVE  CountIsLive'
  BY <1>0, <1>1 DEF CountIsLive
<1>2. ASSUME NEW e \in Executors,
             \/ Register(e) \/ CheckRunning(e) \/ CheckCount(e) \/ PopEmpty(e)
             \/ Pop(e) \/ LoadUnsaved(e) \/ Retire(e)
      PROVE  CountIsLive'
  BY <1>1, <1>2 DEF Register, CheckRunning, CheckCount, PopEmpty, Pop,
                    LoadUnsaved, Retire
<1>3. ASSUME NEW p \in Callers, NEW t \in Tasks, CreateCount(p, t)
      PROVE  CountIsLive'
  <2>1. t \notin LiveTasks /\ LiveTasks' = LiveTasks \cup {t}
    BY <1>0, <1>3 DEF CreateCount, Phase, TypeOK
  <2>2. Cardinality(LiveTasks') = Cardinality(LiveTasks) + 1
    BY <2>1, LiveIsFinite, FS_AddElement
  <2> QED
    BY <2>2, <1>0, <1>3 DEF CreateCount, CountIsLive
<1>4. ASSUME NEW e \in Executors,
             \/ Load(e) \/ Yield(e) \/ SwapOut(e) \/ ExitLeave(e)
             \/ \E call \in IoCalls : AskIo(e, call)
             \/ \E out \in -1 .. 3 : ServeIo(e, out)
      PROVE  CountIsLive'
  <2>1. num_of_user_threads' = num_of_user_threads
    BY <1>4 DEF Load, Yield, SwapOut, ExitLeave, AskIo, ServeIo
  <2>2. LiveTasks' = LiveTasks
    BY <1>0, <1>4 DEF Load, Yield, SwapOut, ExitLeave, AskIo, ServeIo, Calling,
                      Phase, TypeOK
  <2> QED
    BY <2>1, <2>2, <1>1
<1>5. ASSUME NEW p \in Callers, CreateInsert(p)
      PROVE  CountIsLive'
  <2>1. LiveTasks' = LiveTasks
    BY <1>0, <1>5 DEF CreateInsert, CreationsPending, Phase, TypeOK
  <2> QED
    BY <2>1, <1>1, <1>5 DEF CreateInsert
<1>6. ASSUME NEW e \in Executors, ExitCount(e)
      PROVE  CountIsLive'
  <2> DEFINE t == TaskOf(e)
  <2>1. t \in LiveTasks /\ LiveTasks' = LiveTasks \ {t}
    <3>1. tpc[t] = "user" /\ tpc' = [tpc EXCEPT ![t] = "leaving"]
      BY <1>6 DEF ExitCount, Calling, Phase
    <3>2. t \in Tasks
      BY <1>0, <1>6, <3>1 DEF ExitCount, Calling, TaskOf, SutInv, ExecutorsHold, TypeOK
    <3> QED
      BY <1>0, <3>1, <3>2 DEF TypeOK
  <2>2. Cardinality(LiveTasks') = Cardinality(LiveTasks) - 1
    BY <2>1, LiveIsFinite, FS_RemoveElement
  <2> QED
    BY <2>2, <1>0, <1>6 DEF ExitCount, CountIsLive
<1>7. ASSUME Shutdown \/ Join \/ FreeEntries \/ UNCHANGED vars PROVE CountIsLive'
  BY <1>1, <1>7 DEF Shutdown, Join, FreeEntries, vars
<1> QED
  BY <1>2, <1>3, <1>4, <1>5, <1>6, <1>7, NextCases

-----------------------------------------------------------------------------
(* Every step keeps the types; the count stays a natural number because it   *)
(* is a cardinality.                                                         *)
LEMMA TypeStep == SutInv /\ [Next]_vars => TypeOK'
<1> SUFFICES ASSUME SutInv, [Next]_vars PROVE TypeOK'
  OBVIOUS
<1>0. TypeOK /\ ExecutorsHold /\ CreationsPending
  BY DEF SutInv
<1>1. num_of_user_threads' \in Nat
  <2>1. IsFiniteSet(LiveTasks')
    BY FS_Subset DEF LiveTasks
  <2> QED
    BY <2>1, CountStep, FS_CardinalityType DEF CountIsLive
<1> DEFINE Rest == /\ is_running' \in BOOLEAN
                   /\ thread_array' \in Seq(Executors)
                   /\ mpc' \in {"running", "joining", "freeing", "closed"}
                   /\ epc' \in [Executors -> {"start", "check", "checkCount",
                                    "pop", "load", "run", "retire", "exited"}]
                   /\ held' \in [Executors -> Contexts \cup {None}]
                   /\ tpc' \in [Tasks -> Phases]
                   /\ ctxs' \in [Tasks -> Nat]
                   /\ creating' \in [Callers -> Tasks \cup {None}]
                   /\ answer' \in [Tasks -> Answers]
                   /\ undefined' \in {"no", "shared_stack", "uninit_context"}
           Queues == /\ ready_queue' \in Seq(Contexts)
                     /\ wait_queue' \in Seq(Contexts)
                     /\ entry_created_queue' \in Seq(Contexts)
<1>2. ASSUME NEW e \in Executors,
             \/ Register(e) \/ CheckRunning(e) \/ CheckCount(e) \/ PopEmpty(e)
             \/ Load(e) \/ LoadUnsaved(e) \/ SwapOut(e) \/ ExitCount(e)
             \/ ExitLeave(e)
      PROVE  Rest /\ Queues
  <2>1. CASE \/ Register(e) \/ CheckRunning(e) \/ CheckCount(e) \/ PopEmpty(e)
             \/ LoadUnsaved(e)
    <3>1. CASE Register(e)
      BY <1>0, <3>1 DEF Register, TypeOK, Goto, queues
    <3>2. CASE CheckRunning(e) \/ CheckCount(e)
      BY <1>0, <3>2 DEF CheckRunning, CheckCount, TypeOK, Goto, queues
    <3>3. CASE PopEmpty(e) \/ LoadUnsaved(e)
      BY <1>0, <3>3 DEF PopEmpty, LoadUnsaved, TypeOK, Goto, queues
    <3> QED
      BY <2>1, <3>1, <3>2, <3>3
  <2>2. CASE Load(e) \/ SwapOut(e) \/ ExitCount(e) \/ ExitLeave(e)
    <3>1. TaskOf(e) \in Tasks
      BY <1>0, <2>2, HeldTask DEF Load, SwapOut, ExitCount, ExitLeave, Calling
    <3>2. tpc' \in [Tasks -> Phases]
      BY <1>0, <2>2, <3>1 DEF Load, SwapOut, ExitCount, ExitLeave, TypeOK,
                              Phase, Phases, Parked, OnCpu, Live
    <3> QED
      BY <1>0, <2>2, <3>2 DEF Load, SwapOut, ExitCount, ExitLeave, TypeOK, Goto,
                              queues
  <2> QED
    BY <1>2, <2>1, <2>2
<1>3. ASSUME NEW e \in Executors, Pop(e)
      PROVE  Rest /\ Queues
  <2>1. QueueOf(e) \in Seq(Contexts) /\ QueueOf(e) # <<>>
    BY <1>0, <1>3 DEF Pop, TypeOK, QueueOf
  <2>2. Head(QueueOf(e)) \in Contexts
    BY <2>1
  <2>3. held' \in [Executors -> Contexts \cup {None}]
    BY <1>0, <1>3, <2>2 DEF Pop, TypeOK
  <2>4. Queues
    <3>1. Tail(QueueOf(e)) \in Seq(Contexts)
      BY <2>1
    <3>2. entry_created_queue' = entry_created_queue
      BY <1>3 DEF Pop
    <3>3. CASE e = IExec
      BY <1>0, <1>3, <3>1, <3>2, <3>3 DEF Pop, TypeOK, QueueOf
    <3>4. CASE e # IExec
      BY <1>0, <1>3, <3>1, <3>2, <3>4 DEF Pop, TypeOK, QueueOf
    <3> QED
      BY <3>3, <3>4
  <2> QED
    BY <1>0, <1>3, <2>3, <2>4 DEF Pop, TypeOK, Goto
<1>4. ASSUME NEW e \in Executors, Retire(e)
      PROVE  Rest /\ Queues
  <2>1. held[e] \in Contexts
    BY <1>0, <1>4, HeldTask DEF Retire
  <2> QED
    BY <1>0, <1>4, <2>1 DEF Retire, TypeOK, Goto
<1>5. ASSUME NEW e \in Executors,
             \/ Yield(e) \/ \E call \in IoCalls : AskIo(e, call)
             \/ \E out \in -1 .. 3 : ServeIo(e, out)
      PROVE  Rest /\ Queues
  <2>1. epc[e] = "run"
    BY <1>5 DEF Yield, AskIo, ServeIo, Calling
  <2> DEFINE t == TaskOf(e)
  <2>2. t \in Tasks
    BY <2>1, <1>0, HeldTask
  <2>5. ctxs[t] + 1 \in Nat /\ NewContext(t) \in Contexts
    BY <2>2, <1>0 DEF TypeOK, NewContext
  <2>3. Rest
    <3>1. answer' \in [Tasks -> Answers]
      <4>1. \A call \in IoCalls :
               [call |-> call, out |-> 0, returned |-> "void"] \in Answers
        BY DEF Answers
      <4>2. \A call \in IoCalls \cup {"none"}, out \in -1 .. 3 :
               [call |-> call, out |-> out, returned |-> Returned(call, out)]
                   \in Answers
        BY DEF Answers, Returned
      <4>3. answer[t].call \in IoCalls \cup {"none"}
        BY <1>0, <2>2 DEF TypeOK, Answers
      <4>4. answer \in [Tasks -> Answers]
        BY <1>0 DEF TypeOK
      <4>5. CASE Yield(e)
        BY <4>4, <4>5 DEF Yield
      <4>6. ASSUME NEW call \in IoCalls, AskIo(e, call)
            PROVE  answer' \in [Tasks -> Answers]
        BY <4>1, <4>4, <4>6 DEF AskIo
      <4>7. ASSUME NEW out \in -1 .. 3, ServeIo(e, out)
            PROVE  answer' \in [Tasks -> Answers]
        BY <4>2, <4>3, <4>4, <4>7 DEF ServeIo
      <4> QED
        BY <1>5, <4>5, <4>6, <4>7
    <3>2. tpc' \in [Tasks -> Phases] /\ ctxs' \in [Tasks -> Nat]
      <4>1. ctxs' = [ctxs EXCEPT ![t] = ctxs[t] + 1]
        BY <1>5 DEF Yield, AskIo, ServeIo, Allocate
      <4>2. \E p \in Unsaved : tpc' = [tpc EXCEPT ![t] = p]
        BY <1>5 DEF Yield, AskIo, ServeIo, Phase, Unsaved
      <4> QED
        BY <1>0, <2>2, <2>5, <4>1, <4>2 DEF TypeOK, Phases, Live
    <3> QED
      BY <3>1, <3>2, <1>0, <1>5 DEF Yield, AskIo, ServeIo, TypeOK
  <2>4. Queues
    <3>1. /\ entry_created_queue' = entry_created_queue
          /\ \/ wait_queue' = wait_queue
             \/ wait_queue' = Append(wait_queue, NewContext(t))
          /\ \/ ready_queue' = ready_queue
             \/ ready_queue' = Append(ready_queue, NewContext(t))
      BY <1>5 DEF Yield, AskIo, ServeIo
    <3>2. /\ Append(wait_queue, NewContext(t)) \in Seq(Contexts)
          /\ Append(ready_queue, NewContext(t)) \in Seq(Contexts)
      BY <1>0, <2>5, AppendPositions DEF TypeOK
    <3> QED
      BY <1>0, <3>1, <3>2 DEF TypeOK
  <2> QED
    BY <2>3, <2>4
<1>6. ASSUME NEW p \in Callers, NEW t \in Tasks, CreateCount(p, t)
      PROVE  Rest /\ Queues
  BY <1>0, <1>6 DEF CreateCount, TypeOK, Phase, Phases, Live, queues
<1>7. ASSUME NEW p \in Callers, CreateInsert(p)
      PROVE  Rest /\ Queues
  <2>1. creating[p] \in Tasks /\ <<creating[p], 1>> \in Contexts
    BY <1>0, <1>7 DEF CreateInsert, TypeOK
  <2>2. tpc' \in [Tasks -> Phases] /\ ctxs' \in [Tasks -> Nat]
    BY <2>1, <1>0, <1>7 DEF CreateInsert, TypeOK, Phase, Phases, Parked, Live
  <2>3. creating' \in [Callers -> Tasks \cup {None}]
    BY <1>0, <1>7 DEF CreateInsert, TypeOK
  <2>4. Queues
    BY <2>1, <1>0, <1>7 DEF CreateInsert, TypeOK
  <2> QED
    BY <2>2, <2>3, <2>4, <1>0, <1>7 DEF CreateInsert, TypeOK
<1>8. ASSUME Shutdown \/ Join \/ FreeEntries \/ UNCHANGED vars
      PROVE  Rest /\ Queues
  <2>1. CASE Shutdown \/ Join
    BY <1>0, <2>1 DEF Shutdown, Join, TypeOK, queues
  <2>2. CASE FreeEntries
    BY <1>0, <2>2 DEF FreeEntries, TypeOK
  <2>3. CASE UNCHANGED vars
    BY <1>0, <2>3 DEF vars, TypeOK, queues
  <2> QED
    BY <1>8, <2>1, <2>2, <2>3
<1>9. Rest /\ Queues
  BY <1>2, <1>3, <1>4, <1>5, <1>6, <1>7, <1>8, NextCases
<1> QED
  BY <1>1, <1>9 DEF TypeOK

-----------------------------------------------------------------------------
(* What sut_create, sut_yield and the I/O calls insert is the newest context *)
(* of a task that is in no queue, so the queues keep one entry for each      *)
(* waiting task.                                                             *)
LEMMA QueuesStep == SutInv /\ [Next]_vars => QueuesHoldNewest'
<1> SUFFICES ASSUME SutInv, [Next]_vars PROVE QueuesHoldNewest'
  OBVIOUS
<1>0. TypeOK /\ QueuesHoldNewest /\ ExecutorsHold /\ CreationsPending
  BY DEF SutInv
<1> DEFINE ReadyPhases == {"parked", "yielded", "answered"}
           WaitPhases == {"parkedIo", "asked"}
           Good(q, phases) ==
               /\ \A i \in DOMAIN q : IsNewest(q[i]) /\ tpc[q[i][1]] \in phases
               /\ IsInjective(q)
<1>1. Good(ready_queue, ReadyPhases) /\ Good(wait_queue, WaitPhases)
  BY <1>0 DEF QueuesHoldNewest
<1>2. ASSUME Good(ready_queue, ReadyPhases)', Good(wait_queue, WaitPhases)'
      PROVE  QueuesHoldNewest'
  BY <1>2 DEF QueuesHoldNewest
<1>3. ASSUME NEW e \in Executors,
             \/ Register(e) \/ CheckRunning(e) \/ CheckCount(e) \/ PopEmpty(e)
             \/ LoadUnsaved(e) \/ Retire(e)
      PROVE  QueuesHoldNewest'
  <2>1. UNCHANGED <<ready_queue, wait_queue, tpc, ctxs>>
    BY <1>3 DEF Register, CheckRunning, CheckCount, PopEmpty, LoadUnsaved,
                Retire, queues
  <2> QED
    BY <1>1, <1>2, <2>1 DEF IsNewest, IsInjective
<1>4. /\ ready_queue \in Seq(Contexts) /\ wait_queue \in Seq(Contexts)
      /\ DOMAIN ready_queue = 1 .. Len(ready_queue) /\ Len(ready_queue) \in Nat
      /\ DOMAIN wait_queue = 1 .. Len(wait_queue) /\ Len(wait_queue) \in Nat
      /\ \A i \in DOMAIN ready_queue :
            ready_queue[i] \in Contexts /\ ready_queue[i][1] \in Tasks
      /\ \A i \in DOMAIN wait_queue :
            wait_queue[i] \in Contexts /\ wait_queue[i][1] \in Tasks
  BY <1>0 DEF TypeOK
<1> DEFINE Absent(t) == /\ \A i \in DOMAIN ready_queue : ready_queue[i][1] # t
                        /\ \A i \in DOMAIN wait_queue : wait_queue[i][1] # t
           OnlyChanges(t) == \A u \in Tasks \ {t} : /\ tpc'[u] = tpc[u]
                                                    /\ ctxs'[u] = ctxs[u]
<1>5. ASSUME NEW t \in Tasks, tpc[t] \notin ReadyPhases \cup WaitPhases
      PROVE  Absent(t)
  BY <1>1, <1>5
<1>6. ASSUME NEW e \in Executors, epc[e] = "load"
      PROVE  Absent(TaskOf(e))
  <2>1. /\ held[e] \in Contexts /\ IsNewest(held[e])
        /\ \A i \in DOMAIN ready_queue : ready_queue[i] # held[e]
        /\ \A i \in DOMAIN wait_queue : wait_queue[i] # held[e]
    BY <1>0, <1>6, HeldTask DEF ExecutorsHold
  <2> QED
    BY <2>1, <1>1, <1>4, SameContext DEF TaskOf, IsNewest
<1> DEFINE StillGood(q, phases) ==
               /\ \A i \in DOMAIN q : /\ q[i][2] = ctxs'[q[i][1]]
                                      /\ tpc'[q[i][1]] \in phases
               /\ IsInjective(q)
<1>7. ASSUME NEW t \in Tasks, Absent(t), OnlyChanges(t)
       PROVE  StillGood(ready_queue, ReadyPhases) /\ StillGood(wait_queue, WaitPhases)
  <2>1. ASSUME NEW q, NEW phases, Good(q, phases),
               \A i \in DOMAIN q : q[i][1] \in Tasks /\ q[i][1] # t
        PROVE  StillGood(q, phases)
    BY <2>1, <1>7 DEF IsNewest
  <2>2. /\ \A i \in DOMAIN ready_queue :
              ready_queue[i][1] \in Tasks /\ ready_queue[i][1] # t
        /\ \A i \in DOMAIN wait_queue :
              wait_queue[i][1] \in Tasks /\ wait_queue[i][1] # t
    BY <1>4, <1>7
  <2> HIDE DEF Good, StillGood
  <2> QED
    BY <2>1, <2>2, <1>1
<1>8. ASSUME StillGood(ready_queue', ReadyPhases), StillGood(wait_queue', WaitPhases)
       PROVE  QueuesHoldNewest'
  BY <1>8 DEF QueuesHoldNewest, IsNewest, IsInjective
<1>9. ASSUME NEW t \in Tasks, Absent(t), OnlyChanges(t),
             UNCHANGED <<ready_queue, wait_queue>>
      PROVE  QueuesHoldNewest'
  BY <1>9, <1>7, <1>8
<1>10. ASSUME NEW q \in Seq(Contexts), NEW phases, StillGood(q, phases),
              NEW t \in Tasks, NEW n \in Nat, n = ctxs'[t], tpc'[t] \in phases,
              \A i \in DOMAIN q : q[i][1] # t
       PROVE  StillGood(Append(q, <<t, n>>), phases)
  <2>1. <<t, n>> \in Contexts /\ <<t, n>>[1] = t /\ <<t, n>>[2] = n
    OBVIOUS
  <2>2. \A i \in DOMAIN Append(q, <<t, n>>) :
           \/ i \in DOMAIN q /\ Append(q, <<t, n>>)[i] = q[i]
           \/ i = Len(q) + 1 /\ Append(q, <<t, n>>)[i] = <<t, n>>
    BY <2>1, AppendPositions
  <2>3. \A i \in DOMAIN Append(q, <<t, n>>) :
            /\ Append(q, <<t, n>>)[i][2] = ctxs'[Append(q, <<t, n>>)[i][1]]
            /\ tpc'[Append(q, <<t, n>>)[i][1]] \in phases
    BY <1>10, <2>1, <2>2
  <2>4. IsInjective(Append(q, <<t, n>>))
    BY <1>10, <2>1, <2>2 DEF IsInjective
  <2> QED
    BY <2>3, <2>4
<1>11. ASSUME NEW t \in Tasks, NEW n \in Nat, Absent(t), OnlyChanges(t),
             ready_queue' = Append(ready_queue, <<t, n>>), ctxs'[t] = n,
             tpc'[t] \in ReadyPhases, UNCHANGED wait_queue
      PROVE  QueuesHoldNewest'
  <2>1. StillGood(ready_queue, ReadyPhases) /\ StillGood(wait_queue, WaitPhases)
    BY <1>7, <1>11
  <2> HIDE DEF StillGood
  <2>2. StillGood(Append(ready_queue, <<t, n>>), ReadyPhases)
    BY <2>1, <1>4, <1>10, <1>11
  <2>3. StillGood(ready_queue', ReadyPhases) /\ StillGood(wait_queue', WaitPhases)
    BY <2>1, <2>2, <1>11
  <2> QED
    BY <2>3, <1>8
<1>12. ASSUME NEW t \in Tasks, NEW n \in Nat, Absent(t), OnlyChanges(t),
             wait_queue' = Append(wait_queue, <<t, n>>), ctxs'[t] = n,
             tpc'[t] \in WaitPhases, UNCHANGED ready_queue
      PROVE  QueuesHoldNewest'
  <2>1. StillGood(ready_queue, ReadyPhases) /\ StillGood(wait_queue, WaitPhases)
    BY <1>7, <1>12
  <2> HIDE DEF StillGood
  <2>2. StillGood(Append(wait_queue, <<t, n>>), WaitPhases)
    BY <2>1, <1>4, <1>10, <1>12
  <2>3. StillGood(wait_queue', WaitPhases) /\ StillGood(ready_queue', ReadyPhases)
    BY <2>1, <2>2, <1>12
  <2> QED
    BY <2>3, <1>8
<1>13. ASSUME NEW e \in Executors, Pop(e)
       PROVE  QueuesHoldNewest'
  <2>1. ASSUME NEW q \in Seq(Contexts), NEW phases, q # <<>>, Good(q, phases)
        PROVE  Good(Tail(q), phases)
    <3>1. \A i \in DOMAIN Tail(q) :
             i + 1 \in DOMAIN q /\ Tail(q)[i] = q[i + 1] /\ i \in Int
      BY <2>1, TailPositions
    <3>2. IsInjective(Tail(q))
      BY <2>1, <3>1 DEF IsInjective
    <3> QED
      BY <2>1, <3>1, <3>2
  <2>2. UNCHANGED <<tpc, ctxs>>
    BY <1>13 DEF Pop
  <2>3. CASE e = IExec
    <3>1. wait_queue # <<>> /\ wait_queue' = Tail(wait_queue)
          /\ ready_queue' = ready_queue
      BY <1>13, <2>3 DEF Pop, QueueOf
    <3>2. Good(Tail(wait_queue), WaitPhases)
      BY <1>1, <1>4, <2>1, <3>1
    <3> QED
      BY <1>1, <1>2, <2>2, <3>1, <3>2 DEF IsNewest, IsInjective
  <2>4. CASE e # IExec
    <3>1. ready_queue # <<>> /\ ready_queue' = Tail(ready_queue)
          /\ wait_queue' = wait_queue
      BY <1>13, <2>4 DEF Pop, QueueOf
    <3>2. Good(Tail(ready_queue), ReadyPhases)
      BY <1>1, <1>4, <2>1, <3>1
    <3> QED
      BY <1>1, <1>2, <2>2, <3>1, <3>2 DEF IsNewest, IsInjective
  <2> QED
    BY <2>3, <2>4
<1>14. ASSUME NEW e \in Executors, Load(e) \/ ExitCount(e) \/ ExitLeave(e)
       PROVE  QueuesHoldNewest'
  <2>1. TaskOf(e) \in Tasks
    BY <1>0, <1>14, HeldTask DEF Load, ExitCount, ExitLeave, Calling
  <2>2. Absent(TaskOf(e))
    BY <1>5, <1>6, <1>14, <2>1 DEF Load, ExitCount, ExitLeave, Calling
  <2>3. OnlyChanges(TaskOf(e))
    BY <1>0, <1>14, <2>1 DEF Load, ExitCount, ExitLeave, Phase, TypeOK
  <2>4. UNCHANGED <<ready_queue, wait_queue>>
    BY <1>14 DEF Load, ExitCount, ExitLeave, queues
  <2> QED
    BY <1>9, <2>1, <2>2, <2>3, <2>4
<1>15. ASSUME NEW e \in Executors,
              \/ Yield(e) \/ \E call \in IoCalls : AskIo(e, call)
              \/ \E out \in -1 .. 3 : ServeIo(e, out)
       PROVE  QueuesHoldNewest'
  <2> DEFINE t == TaskOf(e)
             n == ctxs[t] + 1
  <2>1. t \in Tasks
    BY <1>0, <1>15, HeldTask DEF Yield, AskIo, ServeIo, Calling
  <2>2. n \in Nat /\ NewContext(t) = <<t, n>>
    BY <1>0, <2>1 DEF TypeOK, NewContext
  <2>3. Absent(t)
    BY <1>5, <1>15, <2>1 DEF Yield, AskIo, ServeIo, Calling
  <2>4. ctxs'[t] = n /\ OnlyChanges(t)
    BY <1>0, <1>15, <2>1 DEF Yield, AskIo, ServeIo, Phase, Allocate, TypeOK
  <2>5. CASE Yield(e) \/ \E out \in -1 .. 3 : ServeIo(e, out)
    <3>1. tpc'[t] \in ReadyPhases
      BY <1>0, <2>1, <2>5 DEF Yield, ServeIo, Phase, TypeOK
    <3>2. ready_queue' = Append(ready_queue, <<t, n>>) /\ wait_queue' = wait_queue
      BY <2>2, <2>5 DEF Yield, ServeIo
    <3> QED
      BY <1>11, <2>1, <2>2, <2>3, <2>4, <3>1, <3>2
  <2>6. CASE \E call \in IoCalls : AskIo(e, call)
    <3>1. tpc'[t] \in WaitPhases
      BY <1>0, <2>1, <2>6 DEF AskIo, Phase, TypeOK
    <3>2. wait_queue' = Append(wait_queue, <<t, n>>) /\ ready_queue' = ready_queue
      BY <2>2, <2>6 DEF AskIo
    <3> QED
      BY <1>12, <2>1, <2>2, <2>3, <2>4, <3>1, <3>2
  <2> QED
    BY <1>15, <2>5, <2>6
<1>16. ASSUME NEW e \in Executors, SwapOut(e)
       PROVE  QueuesHoldNewest'
  <2>1. TaskOf(e) \in Tasks
    BY <1>0, <1>16, HeldTask DEF SwapOut
  <2>2. \A u \in Tasks : /\ tpc[u] \in ReadyPhases => tpc'[u] \in ReadyPhases
                         /\ tpc[u] \in WaitPhases => tpc'[u] \in WaitPhases
    BY <1>0, <1>16, <2>1 DEF SwapOut, Phase, TypeOK, Unsaved
  <2>3. UNCHANGED <<ready_queue, wait_queue, ctxs>>
    BY <1>16 DEF SwapOut, queues
  <2> QED
    BY <1>1, <1>2, <1>4, <2>2, <2>3 DEF IsNewest, IsInjective
<1>17. ASSUME NEW p \in Callers, NEW t \in Tasks, CreateCount(p, t)
       PROVE  QueuesHoldNewest'
  <2>1. Absent(t) /\ OnlyChanges(t) /\ UNCHANGED <<ready_queue, wait_queue>>
    BY <1>0, <1>5, <1>17 DEF CreateCount, Phase, TypeOK, queues
  <2> QED
    BY <1>9, <2>1
<1>18. ASSUME NEW p \in Callers, CreateInsert(p)
       PROVE  QueuesHoldNewest'
  <2> DEFINE t == creating[p]
  <2>1. t \in Tasks /\ tpc[t] = "counted"
    BY <1>0, <1>18 DEF CreateInsert, CreationsPending, TypeOK
  <2>2. Absent(t)
    BY <1>5, <2>1
  <2>3. OnlyChanges(t) /\ ctxs'[t] = 1 /\ tpc'[t] \in ReadyPhases
    BY <1>0, <1>18, <2>1 DEF CreateInsert, Phase, TypeOK
  <2>4. ready_queue' = Append(ready_queue, <<t, 1>>) /\ wait_queue' = wait_queue
    BY <1>18 DEF CreateInsert
  <2> QED
    BY <1>11, <2>1, <2>2, <2>3, <2>4
<1>19. ASSUME Shutdown \/ Join \/ FreeEntries \/ UNCHANGED vars
       PROVE  QueuesHoldNewest'
  <2>1. UNCHANGED <<ready_queue, wait_queue, tpc, ctxs>>
    BY <1>19 DEF Shutdown, Join, FreeEntries, queues, vars
  <2> QED
    BY <1>1, <1>2, <2>1 DEF IsNewest, IsInjective
<1> QED
  BY <1>3, <1>13, <1>14, <1>15, <1>16, <1>17, <1>18, <1>19, NextCases

-----------------------------------------------------------------------------
(* Only a running task or main is inside sut_create, and nobody else creates *)
(* the same task.                                                            *)
LEMMA CreationsStep == SutInv /\ [Next]_vars => CreationsPending'
<1> SUFFICES ASSUME SutInv, [Next]_vars PROVE CreationsPending'
  OBVIOUS
<1>0. TypeOK /\ ExecutorsHold /\ CreationsPending /\ Main \in Callers /\ None \notin Tasks
  BY DEF SutInv
<1>1. ASSUME UNCHANGED creating,
             creating[Main] # None => mpc' = mpc,
             \A t \in Tasks : tpc[t] = "counted" => tpc'[t] = tpc[t],
             \A t \in Tasks : tpc[t] = "user" /\ creating[t] # None => tpc'[t] = tpc[t]
      PROVE  CreationsPending'
  BY <1>0, <1>1 DEF CreationsPending, TypeOK
<1>2. ASSUME NEW e \in Executors,
             \/ Register(e) \/ CheckRunning(e) \/ CheckCount(e) \/ PopEmpty(e)
             \/ Pop(e) \/ LoadUnsaved(e) \/ Retire(e)
      PROVE  CreationsPending'
  BY <1>1, <1>2 DEF Register, CheckRunning, CheckCount, PopEmpty, Pop,
                    LoadUnsaved, Retire
<1>3. ASSUME NEW e \in Executors,
             \/ Load(e) \/ Yield(e) \/ SwapOut(e) \/ ExitCount(e) \/ ExitLeave(e)
             \/ \E call \in IoCalls : AskIo(e, call)
             \/ \E out \in -1 .. 3 : ServeIo(e, out)
      PROVE  CreationsPending'
  <2> DEFINE t == TaskOf(e)
  <2>1. t \in Tasks
    BY <1>0, <1>3, HeldTask
       DEF Load, Yield, SwapOut, ExitCount, ExitLeave, AskIo, ServeIo, Calling
  <2>2. UNCHANGED <<creating, mpc>>
    BY <1>3 DEF Load, Yield, SwapOut, ExitCount, ExitLeave, AskIo, ServeIo
  <2>3. tpc[t] # "counted" /\ (tpc[t] = "user" => creating[t] = None)
    BY <1>0, <1>3 DEF Load, Yield, SwapOut, ExitCount, ExitLeave, AskIo, ServeIo,
                      Calling, Parked, Unsaved
  <2>4. \A u \in Tasks \ {t} : tpc'[u] = tpc[u]
    BY <1>0, <1>3, <2>1 DEF Load, Yield, SwapOut, ExitCount, ExitLeave, AskIo,
                            ServeIo, Phase, TypeOK
  <2> QED
    BY <1>1, <2>1, <2>2, <2>3, <2>4
<1>4. ASSUME NEW p \in Callers, NEW t \in Tasks, CreateCount(p, t),
             creating[p] = None,
             p = Main => mpc = "running", p \in Tasks => tpc[p] = "user"
      PROVE  CreationsPending'
  <2>1. /\ creating' = [creating EXCEPT ![p] = t]
        /\ tpc' = [tpc EXCEPT ![t] = "counted"]
        /\ tpc[t] = "absent" /\ mpc' = mpc
    BY <1>4 DEF CreateCount, Phase
  <2>2. \A q \in Callers : creating[q] # t
    BY <1>0, <2>1 DEF CreationsPending
  <2> QED
    BY <1>0, <1>4, <2>1, <2>2 DEF CreationsPending, TypeOK
<1>5. ASSUME NEW p \in Callers, CreateInsert(p)
      PROVE  CreationsPending'
  <2> DEFINE t == creating[p]
  <2>1. /\ creating' = [creating EXCEPT ![p] = None]
        /\ tpc' = [tpc EXCEPT ![t] = "parked"]
        /\ t \in Tasks /\ tpc[t] = "counted" /\ mpc' = mpc
    BY <1>0, <1>5 DEF CreateInsert, Phase, CreationsPending, TypeOK
  <2>2. \A q \in Callers \ {p} : creating[q] # t
    BY <1>0, <2>1 DEF CreationsPending
  <2> QED
    BY <1>0, <2>1, <2>2 DEF CreationsPending, TypeOK
<1>6. ASSUME Shutdown \/ Join \/ FreeEntries \/ UNCHANGED vars
      PROVE  CreationsPending'
  <2>1. UNCHANGED <<creating, tpc>> /\ (creating[Main] # None => mpc' = mpc)
    BY <1>0, <1>6 DEF Shutdown, Join, FreeEntries, vars, CreationsPending
  <2> QED
    BY <1>1, <2>1
<1> QED
  BY <1>2, <1>3, <1>4, <1>5, <1>6, NextCases

(* An executor leaves its loop only after is_running was cleared and the     *)
(* count was zero; nothing raises the count again.                           *)
LEMMA StopStep == SutInv /\ [Next]_vars => StopCondition'
<1> SUFFICES ASSUME SutInv, [Next]_vars PROVE StopCondition'
  OBVIOUS
<1>0. TypeOK /\ ExecutorsHold /\ CreationsPending /\ StopCondition /\ CountIsLive
      /\ Registered
      /\ Main \in Callers /\ None \notin Tasks /\ Main \notin Tasks
  BY DEF SutInv
<1>1. ASSUME UNCHANGED <<is_running, mpc, num_of_user_threads>>,
             \A e \in Executors :
                \/ epc'[e] = epc[e]
                \/ epc[e] # "exited" /\ epc'[e] \notin {"checkCount", "exited"}
                \/ epc[e] # "exited" /\ epc'[e] = "checkCount" /\ ~is_running
                \/ /\ epc[e] = "checkCount" /\ epc'[e] = "exited"
                   /\ num_of_user_threads = 0
      PROVE  StopCondition'
  BY <1>0, <1>1 DEF StopCondition
<1>2. ASSUME NEW e \in Executors,
             \/ Register(e) \/ CheckRunning(e) \/ CheckCount(e) \/ PopEmpty(e)
             \/ Pop(e) \/ Load(e) \/ LoadUnsaved(e) \/ Retire(e)
      PROVE  StopCondition'
  <2>1. UNCHANGED <<is_running, mpc, num_of_user_threads>>
    BY <1>2 DEF Register, CheckRunning, CheckCount, PopEmpty, Pop, Load,
                LoadUnsaved, Retire
  <2>2. \A f \in Executors \ {e} : epc'[f] = epc[f]
    BY <1>0, <1>2 DEF Register, CheckRunning, CheckCount, PopEmpty, Pop, Load,
                      LoadUnsaved, Retire, Goto, TypeOK
  <2>3. \/ epc'[e] = epc[e]
        \/ epc[e] # "exited" /\ epc'[e] \notin {"checkCount", "exited"}
        \/ epc[e] # "exited" /\ epc'[e] = "checkCount" /\ ~is_running
        \/ epc[e] = "checkCount" /\ epc'[e] = "exited" /\ num_of_user_threads = 0
    BY <1>0, <1>2 DEF Register, CheckRunning, CheckCount, PopEmpty, Pop, Load,
                      LoadUnsaved, Retire, Goto, TypeOK
  <2> QED
    BY <1>1, <2>1, <2>2, <2>3
<1>3. ASSUME NEW e \in Executors,
             \/ Yield(e) \/ SwapOut(e) \/ ExitLeave(e)
             \/ \E call \in IoCalls : AskIo(e, call)
             \/ \E out \in -1 .. 3 : ServeIo(e, out)
      PROVE  StopCondition'
  <2>1. UNCHANGED <<is_running, mpc, num_of_user_threads>>
    BY <1>3 DEF Yield, SwapOut, ExitLeave, AskIo, ServeIo
  <2>2. CASE SwapOut(e) \/ ExitLeave(e)
    <3>1. epc[e] = "run" /\ get_parent_thread(e) = e
      BY <1>0, <2>2 DEF SwapOut, ExitLeave, Registered, get_parent_thread
    <3>2. epc' = [epc EXCEPT ![e] = "retire"]
      BY <2>2, <3>1 DEF SwapOut, ExitLeave, Goto
    <3> QED
      BY <1>0, <1>1, <2>1, <3>1, <3>2 DEF TypeOK
  <2>3. CASE ~(SwapOut(e) \/ ExitLeave(e))
    <3>1. epc' = epc
      BY <1>3, <2>3 DEF Yield, AskIo, ServeIo
    <3> QED
      BY <1>1, <2>1, <3>1
  <2> QED
    BY <2>2, <2>3
<1>4. ASSUME NEW t \in Tasks, tpc[t] \in {"user", "leaving"}, tpc[t] \in Live
      PROVE  \A e \in Executors : epc[e] # "exited"
  <2>1. t \in LiveTasks
    BY <1>4 DEF LiveTasks
  <2>2. num_of_user_threads # 0
    BY <2>1, <1>0, LiveIsFinite, FS_EmptySet DEF CountIsLive
  <2> QED
    BY <2>2, <1>0 DEF StopCondition
<1>5. ASSUME NEW e \in Executors, ExitCount(e)
      PROVE  StopCondition'
  <2>1. TaskOf(e) \in Tasks /\ tpc[TaskOf(e)] = "user"
    BY <1>0, <1>5, HeldTask DEF ExitCount, Calling
  <2>2. \A f \in Executors : epc[f] # "exited"
    BY <2>1, <1>4 DEF Live
  <2>3. UNCHANGED <<is_running, mpc, epc>>
    BY <1>5 DEF ExitCount
  <2> QED
    BY <1>0, <2>2, <2>3 DEF StopCondition
<1>6. ASSUME NEW p \in Callers, NEW t \in Tasks, CreateCount(p, t),
             p = Main => mpc = "running", p \in Tasks => tpc[p] = "user"
      PROVE  StopCondition'
  <2>1. \A f \in Executors : epc[f] # "exited"
    BY <1>0, <1>4, <1>6 DEF Live, StopCondition
  <2>2. UNCHANGED <<is_running, mpc, epc>>
    BY <1>6 DEF CreateCount
  <2> QED
    BY <1>0, <2>1, <2>2 DEF StopCondition
<1>7. ASSUME NEW p \in Callers, CreateInsert(p)
      PROVE  StopCondition'
  BY <1>0, <1>1, <1>7 DEF CreateInsert
<1>8. ASSUME Shutdown \/ Join \/ FreeEntries \/ UNCHANGED vars
      PROVE  StopCondition'
  BY <1>0, <1>8 DEF Shutdown, Join, FreeEntries, vars, StopCondition
<1> QED
  BY <1>2, <1>3, <1>5, <1>6, <1>7, <1>8, NextCases

(* An executor fills one slot of thread_array before it enters its loop.     *)
LEMMA RegisteredStep == SutInv /\ [Next]_vars => Registered'
<1> SUFFICES ASSUME SutInv, [Next]_vars PROVE Registered'
  OBVIOUS
<1>0. TypeOK /\ Registered
  BY DEF SutInv
<1>1. ASSUME NEW q \in Seq(Executors), NEW x \in Executors
      PROVE  Range(Append(q, x)) = Range(q) \cup {x}
  <2>1. DOMAIN Append(q, x) = DOMAIN q \cup {Len(q) + 1} /\ Len(q) + 1 \notin DOMAIN q
    BY AppendPositions
  <2>2. /\ \A i \in DOMAIN q : Append(q, x)[i] = q[i]
        /\ Append(q, x)[Len(q) + 1] = x
    BY AppendPositions
  <2> QED
    BY <2>1, <2>2 DEF Range
<1>2. ASSUME NEW e \in Executors, Register(e)
      PROVE  Registered'
  <2>1. /\ Range(thread_array') = Range(thread_array) \cup {e}
        /\ e \notin Range(thread_array) /\ epc'[e] # "start"
    BY <1>0, <1>1, <1>2 DEF Register, Registered, TypeOK, Goto
  <2>3. IsInjective(thread_array')
    <3>1. thread_array \in Seq(Executors) /\ thread_array' = Append(thread_array, e)
      BY <1>0, <1>2 DEF Register, TypeOK
    <3>2. \A i \in DOMAIN thread_array' :
             \/ i \in DOMAIN thread_array /\ thread_array'[i] = thread_array[i]
             \/ i = Len(thread_array) + 1 /\ thread_array'[i] = e
      BY <3>1, AppendPositions
    <3>3. \A i \in DOMAIN thread_array : thread_array[i] # e
      BY <2>1 DEF Range
    <3> QED
      BY <1>0, <3>2, <3>3 DEF IsInjective, Registered
  <2>2. \A f \in Executors : f # e => epc'[f] = epc[f]
    BY <1>0, <1>2 DEF Register, Goto, TypeOK
  <2> QED
    BY <1>0, <2>1, <2>2, <2>3 DEF Registered
<1>3. ASSUME UNCHANGED thread_array,
             \A e \in Executors : epc[e] = "start" <=> epc'[e] = "start"
      PROVE  Registered'
  BY <1>0, <1>3 DEF Registered, Range, IsInjective
<1>4. ASSUME NEW e \in Executors,
             \/ CheckRunning(e) \/ CheckCount(e) \/ PopEmpty(e) \/ Pop(e)
             \/ Load(e) \/ LoadUnsaved(e) \/ Retire(e)
      PROVE  Registered'
  BY <1>0, <1>3, <1>4 DEF CheckRunning, CheckCount, PopEmpty, Pop, Load,
                          LoadUnsaved, Retire, Goto, TypeOK
<1>5. ASSUME NEW e \in Executors,
             \/ Yield(e) \/ ExitCount(e)
             \/ \E call \in IoCalls : AskIo(e, call)
             \/ \E out \in -1 .. 3 : ServeIo(e, out)
      PROVE  Registered'
  BY <1>3, <1>5 DEF Yield, ExitCount, AskIo, ServeIo
<1>6. ASSUME NEW e \in Executors, SwapOut(e) \/ ExitLeave(e)
      PROVE  Registered'
  <2>1. get_parent_thread(e) = e
    BY <1>0, <1>6 DEF SwapOut, ExitLeave, Registered, get_parent_thread
  <2> QED
    BY <1>0, <1>3, <1>6, <2>1 DEF SwapOut, ExitLeave, Goto, TypeOK
<1>7. ASSUME NEW p \in Callers,
             CreateInsert(p) \/ \E t \in Tasks : CreateCount(p, t)
      PROVE  Registered'
  BY <1>3, <1>7 DEF CreateInsert, CreateCount
<1>8. ASSUME Shutdown \/ Join \/ FreeEntries \/ UNCHANGED vars
      PROVE  Registered'
  BY <1>3, <1>8 DEF Shutdown, Join, FreeEntries, vars
<1> QED
  BY <1>2, <1>4, <1>5, <1>6, <1>7, <1>8, NextCases

-----------------------------------------------------------------------------
(* An executor takes only a context that nobody else has, and keeps it until *)
(* the task leaves it.                                                       *)
LEMMA ExecutorsStep == SutInv /\ [Next]_vars => ExecutorsHold'
<1> SUFFICES ASSUME SutInv, [Next]_vars PROVE ExecutorsHold'
  OBVIOUS
<1>0. TypeOK /\ QueuesHoldNewest /\ ExecutorsHold /\ CreationsPending /\ Registered
  BY DEF SutInv
<1> DEFINE Holding == {"load", "run", "retire"}
           LoadPhases(e) == IF e = IExec THEN {"parkedIo", "asked"}
                                         ELSE {"parked", "yielded", "answered"}
           RunPhases(e)  == IF e = IExec THEN {"io", "answered"}
                                         ELSE {"user", "leaving", "yielded", "asked"}
           AtLoad(e) == /\ IsNewest(held[e])
                        /\ tpc[TaskOf(e)] \in LoadPhases(e)
                        /\ \A i \in DOMAIN ready_queue : ready_queue[i] # held[e]
                        /\ \A i \in DOMAIN wait_queue : wait_queue[i] # held[e]
           Fine(e) == /\ held[e] # None <=> epc[e] \in Holding
                      /\ epc[e] = "load" => AtLoad(e)
                      /\ epc[e] = "run" => tpc[TaskOf(e)] \in RunPhases(e)
           Alone(e, f) == epc[e] = epc[f] /\ epc[e] \in {"load", "run"}
                              /\ TaskOf(e) = TaskOf(f) => e = f
<1>1. \A e, f \in Executors : Fine(e) /\ Alone(e, f)
  BY <1>0 DEF ExecutorsHold
<1>2. ASSUME \A e \in Executors : Fine(e)', \A e, f \in Executors : Alone(e, f)'
      PROVE  ExecutorsHold'
  BY <1>2 DEF ExecutorsHold
(* An executor other than the one that moves keeps what it has.             *)
<1>3. ASSUME NEW f \in Executors, epc'[f] = epc[f], held'[f] = held[f],
             epc[f] = "load" => /\ ctxs'[TaskOf(f)] = ctxs[TaskOf(f)]
                                /\ tpc'[TaskOf(f)] \in LoadPhases(f)
                                /\ \A i \in DOMAIN ready_queue' : ready_queue'[i] # held[f]
                                /\ \A i \in DOMAIN wait_queue' : wait_queue'[i] # held[f],
             epc[f] = "run" => tpc'[TaskOf(f)] \in RunPhases(f)
      PROVE  Fine(f)'
  BY <1>1, <1>3 DEF IsNewest, TaskOf
<1>4. ASSUME NEW e \in Executors,
             \/ Register(e) \/ CheckRunning(e) \/ CheckCount(e) \/ PopEmpty(e)
             \/ Retire(e)
      PROVE  ExecutorsHold'
  <2>1. /\ epc'[e] \notin Holding /\ held'[e] = None
        /\ \A f \in Executors \ {e} : epc'[f] = epc[f] /\ held'[f] = held[f]
        /\ UNCHANGED <<ready_queue, wait_queue, tpc, ctxs>>
    BY ZenonT(60), <1>0, <1>1, <1>4 DEF Register, CheckRunning, CheckCount, PopEmpty, Retire,
                            Goto, TypeOK, queues
  <2>2. \A f \in Executors : Fine(f)'
    BY <1>1, <2>1 DEF IsNewest, TaskOf
  <2>3. \A f, g \in Executors : Alone(f, g)'
    BY <1>1, <2>1 DEF TaskOf
  <2> QED
    BY <1>2, <2>2, <2>3
<1>5. ASSUME UNCHANGED <<ready_queue, wait_queue, tpc, ctxs, epc, held>>
      PROVE  ExecutorsHold'
  BY <1>0, <1>5 DEF ExecutorsHold, IsNewest, TaskOf
(* An executor that starts or resumes task t: t was waiting in no other     *)
(* hands.                                                                   *)
<1>6. ASSUME NEW e \in Executors, Pop(e)
      PROVE  ExecutorsHold'
  <2> DEFINE q == QueueOf(e)
             c == Head(q)
  <2>1. q \in Seq(Contexts) /\ q # <<>>
    BY <1>0, <1>6 DEF Pop, QueueOf, TypeOK
  <2>2. /\ c \in Contexts /\ 1 \in DOMAIN q /\ c = q[1]
        /\ \A i \in DOMAIN Tail(q) : i + 1 \in DOMAIN q /\ Tail(q)[i] = q[i + 1]
                                     /\ i + 1 # 1
    BY <2>1, TailPositions
  <2>3. IsNewest(c) /\ tpc[c[1]] \in LoadPhases(e)
    BY <1>0, <2>2 DEF QueuesHoldNewest, QueueOf
  <2>4. /\ \A i \in DOMAIN ready_queue' :
              /\ ready_queue'[i] # c
              /\ \E j \in DOMAIN ready_queue : ready_queue'[i] = ready_queue[j]
        /\ \A i \in DOMAIN wait_queue' :
              /\ wait_queue'[i] # c
              /\ \E j \in DOMAIN wait_queue : wait_queue'[i] = wait_queue[j]
    <3>1. CASE e = IExec
      <4>1. ready_queue' = ready_queue /\ wait_queue' = Tail(wait_queue) /\ q = wait_queue
        BY <1>6, <3>1 DEF Pop, QueueOf
      <4>2. \A i \in DOMAIN ready_queue : ready_queue[i] # c
        BY <1>0, <2>3, <3>1 DEF QueuesHoldNewest
      <4> QED
        BY <1>0, <2>2, <4>1, <4>2 DEF QueuesHoldNewest, IsInjective
    <3>2. CASE e # IExec
      <4>1. wait_queue' = wait_queue /\ ready_queue' = Tail(ready_queue) /\ q = ready_queue
        BY <1>6, <3>2 DEF Pop, QueueOf
      <4>2. \A i \in DOMAIN wait_queue : wait_queue[i] # c
        BY <1>0, <2>3, <3>2 DEF QueuesHoldNewest
      <4> QED
        BY <1>0, <2>2, <4>1, <4>2 DEF QueuesHoldNewest, IsInjective
    <3> QED
      BY <3>1, <3>2
  <2>5. /\ epc[e] = "pop" /\ epc'[e] = "load" /\ held'[e] = c
        /\ \A f \in Executors \ {e} : epc'[f] = epc[f] /\ held'[f] = held[f]
        /\ UNCHANGED <<tpc, ctxs>>
    BY <1>0, <1>6 DEF Pop, Goto, TypeOK
  <2>6. Fine(e)'
    BY <2>2, <2>3, <2>4, <2>5 DEF IsNewest, TaskOf
  <2>7. ASSUME NEW f \in Executors, f # e PROVE Fine(f)'
    BY <1>1, <1>3, <2>4, <2>5, <2>7
  <2>8. ASSUME NEW f \in Executors, f # e, epc[f] = "load" PROVE TaskOf(f) # c[1]
    <3>1. \A i \in DOMAIN ready_queue : ready_queue[i] # held[f]
      BY <1>1, <2>8
    <3>2. \A i \in DOMAIN wait_queue : wait_queue[i] # held[f]
      BY <1>1, <2>8
    <3>3. c # held[f]
      BY <2>2, <3>1, <3>2 DEF QueueOf
    <3>4. held[f] \in Contexts /\ IsNewest(held[f])
      BY <1>0, <1>1, <2>8, HeldTask
    <3> QED
      BY <2>2, <2>3, <3>3, <3>4, SameContext DEF IsNewest, TaskOf
  <2>9. \A f, g \in Executors : Alone(f, g)'
    BY <1>1, <2>5, <2>8 DEF TaskOf
  <2> QED
    BY <1>2, <2>6, <2>7, <2>9
<1>7. ASSUME NEW e \in Executors, Load(e)
      PROVE  ExecutorsHold'
  <2> DEFINE t == TaskOf(e)
  <2>1. /\ epc[e] = "load" /\ epc'[e] = "run" /\ tpc[t] \in Parked
        /\ \A f \in Executors \ {e} : epc'[f] = epc[f]
        /\ UNCHANGED <<held, ctxs, ready_queue, wait_queue>>
    BY <1>0, <1>7 DEF Load, Goto, TypeOK, queues
  <2>2. t \in Tasks /\ tpc[t] \in LoadPhases(e)
    BY <1>0, <1>1, <2>1, HeldTask
  <2>3. tpc'[t] = (IF e = IExec THEN "io" ELSE "user")
    BY <1>0, <1>7, <2>1, <2>2 DEF Load, Phase, TypeOK, Parked
  <2>4. \A u \in Tasks \ {t} : tpc'[u] = tpc[u]
    BY <1>0, <1>7, <2>2 DEF Load, Phase, TypeOK
  <2>5. Fine(e)'
    BY <1>1, <2>1, <2>3 DEF TaskOf
  <2>6. ASSUME NEW f \in Executors, f # e, epc[f] \in {"load", "run"}
        PROVE  TaskOf(f) \in Tasks \ {t}
    <3>1. TaskOf(f) \in Tasks
      BY <1>0, <2>6, HeldTask
    <3>2. TaskOf(f) # t
      BY <1>1, <2>1, <2>2, <2>6 DEF Parked
    <3> QED
      BY <3>1, <3>2
  <2>7. ASSUME NEW f \in Executors, f # e PROVE Fine(f)'
    BY <1>1, <1>3, <2>1, <2>4, <2>6, <2>7
  <2>8. \A f, g \in Executors : Alone(f, g)'
    BY <1>1, <2>1, <2>6 DEF TaskOf
  <2> QED
    BY <1>2, <2>5, <2>7, <2>8
(* A task t that no executor is about to load or running, except perhaps e, *)
(* gets a new phase and perhaps a new context in a queue.                   *)
<1>8. ASSUME NEW t \in Tasks, UNCHANGED <<epc, held>>,
             \A u \in Tasks \ {t} : tpc'[u] = tpc[u] /\ ctxs'[u] = ctxs[u],
             \A f \in Executors : epc[f] = "load" => TaskOf(f) # t,
             \A f \in Executors : epc[f] = "run" /\ TaskOf(f) = t
                                      => tpc'[t] \in RunPhases(f),
             \A i \in DOMAIN ready_queue' :
                ready_queue'[i][1] = t \/ \E j \in DOMAIN ready_queue :
                                              ready_queue'[i] = ready_queue[j],
             \A i \in DOMAIN wait_queue' :
                wait_queue'[i][1] = t \/ \E j \in DOMAIN wait_queue :
                                             wait_queue'[i] = wait_queue[j]
      PROVE  ExecutorsHold'
  <2>1. ASSUME NEW f \in Executors, epc[f] = "load" PROVE Fine(f)'
    <3>1. TaskOf(f) \in Tasks \ {t}
      BY <1>0, <1>8, <2>1, HeldTask
    <3>2. /\ \A i \in DOMAIN ready_queue' : ready_queue'[i] # held[f]
          /\ \A i \in DOMAIN wait_queue' : wait_queue'[i] # held[f]
      BY <1>1, <1>8, <2>1, <3>1 DEF TaskOf
    <3> QED
      BY <1>1, <1>3, <1>8, <2>1, <3>1, <3>2
  <2>2. ASSUME NEW f \in Executors, epc[f] = "run" PROVE Fine(f)'
    <3>1. TaskOf(f) \in Tasks
      BY <1>0, <2>2, HeldTask
    <3> QED
      BY <1>1, <1>3, <1>8, <2>2, <3>1
  <2>3. ASSUME NEW f \in Executors, epc[f] \notin {"load", "run"} PROVE Fine(f)'
    BY <1>3, <1>8, <2>3
  <2>4. \A f, g \in Executors : Alone(f, g)'
    BY <1>1, <1>8 DEF TaskOf
  <2> QED
    BY <1>2, <2>1, <2>2, <2>3, <2>4
<1>9. ASSUME NEW e \in Executors, epc[e] = "run"
      PROVE  /\ TaskOf(e) \in Tasks
             /\ \A f \in Executors : epc[f] = "run" /\ TaskOf(f) = TaskOf(e) => f = e
  BY <1>0, <1>1, <1>9, HeldTask
<1>10. ASSUME NEW e \in Executors,
              \/ Yield(e) \/ ExitCount(e) \/ \E call \in IoCalls : AskIo(e, call)
              \/ \E out \in -1 .. 3 : ServeIo(e, out)
       PROVE  ExecutorsHold'
  <2> DEFINE t == TaskOf(e)
  <2>1. epc[e] = "run" /\ tpc[t] \in {"user", "io"} /\ UNCHANGED <<epc, held>>
    BY <1>10 DEF Yield, ExitCount, AskIo, ServeIo, Calling
  <2>2. t \in Tasks
    BY <1>9, <2>1
  <2>3. \A u \in Tasks \ {t} : tpc'[u] = tpc[u] /\ ctxs'[u] = ctxs[u]
    BY <1>0, <1>10, <2>2 DEF Yield, ExitCount, AskIo, ServeIo, Phase, Allocate, TypeOK
  <2>4. \A f \in Executors : epc[f] = "load" => TaskOf(f) # t
    BY <1>1, <2>1
  <2>5. tpc'[t] \in RunPhases(e)
    <3>1. CASE Yield(e) \/ ExitCount(e) \/ \E call \in IoCalls : AskIo(e, call)
      <4>1. e # IExec
        BY <3>1 DEF Yield, ExitCount, AskIo, Calling
      <4>2. \E p \in {"yielded", "leaving", "asked"} : tpc' = [tpc EXCEPT ![t] = p]
        BY <3>1 DEF Yield, ExitCount, AskIo, Phase
      <4> QED
        BY <1>0, <2>2, <4>1, <4>2 DEF TypeOK
    <3>2. CASE \E out \in -1 .. 3 : ServeIo(e, out)
      BY <1>0, <2>2, <3>2 DEF ServeIo, Phase, TypeOK
    <3> QED
      BY <1>10, <3>1, <3>2
  <2>6. NewContext(t) \in Contexts /\ NewContext(t)[1] = t
    BY <1>0, <2>2 DEF NewContext, TypeOK
  <2>7. /\ ready_queue' \in {ready_queue, Append(ready_queue, NewContext(t))}
        /\ wait_queue' \in {wait_queue, Append(wait_queue, NewContext(t))}
    BY <1>10 DEF Yield, ExitCount, AskIo, ServeIo, queues
  <2>8. ready_queue \in Seq(Contexts) /\ wait_queue \in Seq(Contexts)
    BY <1>0 DEF TypeOK
  <2>9. ASSUME NEW q \in Seq(Contexts), NEW r \in {q, Append(q, NewContext(t))}
        PROVE  \A i \in DOMAIN r : r[i][1] = t \/ \E j \in DOMAIN q : r[i] = q[j]
    BY SMTT(30), <2>6, <2>9, AppendPositions
  <2>10. \A f \in Executors : epc[f] = "run" /\ TaskOf(f) = t
                                  => tpc'[t] \in RunPhases(f)
    BY <1>9, <2>1, <2>5
  <2>11. /\ \A i \in DOMAIN ready_queue' :
               \/ ready_queue'[i][1] = t
               \/ \E j \in DOMAIN ready_queue : ready_queue'[i] = ready_queue[j]
         /\ \A i \in DOMAIN wait_queue' :
               \/ wait_queue'[i][1] = t
               \/ \E j \in DOMAIN wait_queue : wait_queue'[i] = wait_queue[j]
    BY ZenonT(60), <2>7, <2>8, <2>9
  <2> QED
    BY <1>8, <2>1, <2>2, <2>3, <2>4, <2>10, <2>11
<1>11. ASSUME NEW p \in Callers, NEW t \in Tasks, CreateCount(p, t)
       PROVE  ExecutorsHold'
  <2>1. /\ \A u \in Tasks \ {t} : tpc'[u] = tpc[u] /\ ctxs'[u] = ctxs[u]
        /\ tpc[t] = "absent"
        /\ UNCHANGED <<epc, held, ready_queue, wait_queue>>
    BY <1>0, <1>11 DEF CreateCount, Phase, TypeOK, queues
  <2>2. \A f \in Executors : epc[f] \in {"load", "run"} => TaskOf(f) # t
    BY <1>1, <2>1
  <2> QED
    BY <1>8, <2>1, <2>2
<1>12. ASSUME NEW p \in Callers, CreateInsert(p)
       PROVE  ExecutorsHold'
  <2> DEFINE t == creating[p]
  <2>1. t \in Tasks /\ tpc[t] = "counted"
    BY <1>0, <1>12 DEF CreateInsert, CreationsPending, TypeOK
  <2>2. /\ \A u \in Tasks \ {t} : tpc'[u] = tpc[u] /\ ctxs'[u] = ctxs[u]
        /\ UNCHANGED <<epc, held, wait_queue>>
        /\ ready_queue' = Append(ready_queue, <<t, 1>>)
    BY <1>0, <1>12, <2>1 DEF CreateInsert, Phase, TypeOK
  <2>3. \A f \in Executors : epc[f] \in {"load", "run"} => TaskOf(f) # t
    BY <1>1, <2>1
  <2>4. \A i \in DOMAIN ready_queue' :
           \/ ready_queue'[i][1] = t
           \/ \E j \in DOMAIN ready_queue : ready_queue'[i] = ready_queue[j]
    <3>1. ready_queue \in Seq(Contexts) /\ <<t, 1>> \in Contexts /\ <<t, 1>>[1] = t
      BY <1>0, <2>1 DEF TypeOK
    <3> QED
      BY <2>2, <3>1, AppendPositions
  <2> QED
    BY <1>8, <2>1, <2>2, <2>3, <2>4
(* A task that leaves its executor e.                                       *)
<1>13. ASSUME NEW e \in Executors, SwapOut(e) \/ ExitLeave(e)
       PROVE  ExecutorsHold'
  <2> DEFINE t == TaskOf(e)
  <2>1. epc[e] = "run" /\ UNCHANGED <<held, ctxs, ready_queue, wait_queue>>
    BY <1>13 DEF SwapOut, ExitLeave, queues
  <2>2. t \in Tasks
    BY <1>9, <2>1
  <2>3. get_parent_thread(e) = e
    BY <1>0, <2>1 DEF Registered, get_parent_thread
  <2>4. epc'[e] = "retire" /\ \A f \in Executors \ {e} : epc'[f] = epc[f]
    BY <1>0, <1>13, <2>3 DEF SwapOut, ExitLeave, Goto, TypeOK
  <2>5. \A u \in Tasks \ {t} : tpc'[u] = tpc[u]
    BY <1>0, <1>13, <2>2 DEF SwapOut, ExitLeave, Phase, TypeOK
  <2>6. \A f \in Executors : tpc[t] \in LoadPhases(f) => tpc'[t] \in LoadPhases(f)
    BY <1>0, <1>13, <2>2 DEF SwapOut, ExitLeave, Phase, TypeOK, Unsaved
  <2>7. Fine(e)'
    BY <1>1, <2>1, <2>4
  <2>8. ASSUME NEW f \in Executors, f # e PROVE Fine(f)'
    <3>1. CASE epc[f] = "load"
      <4>1. TaskOf(f) \in Tasks
        BY <1>0, <3>1, HeldTask
      <4>2. tpc'[TaskOf(f)] \in LoadPhases(f)
        BY <1>1, <3>1, <4>1, <2>5, <2>6
      <4> QED
        BY <1>1, <1>3, <2>1, <2>4, <2>8, <3>1, <4>2
    <3>2. CASE epc[f] = "run"
      <4>1. TaskOf(f) \in Tasks \ {t}
        BY <1>9, <2>1, <2>8, <3>2
      <4> QED
        BY <1>1, <1>3, <2>1, <2>4, <2>5, <2>8, <3>2, <4>1
    <3>3. CASE epc[f] \notin {"load", "run"}
      BY <1>1, <1>3, <2>1, <2>4, <2>8, <3>3
    <3> QED
      BY <3>1, <3>2, <3>3
  <2>9. \A f, g \in Executors : Alone(f, g)'
    BY <1>1, <2>1, <2>4 DEF TaskOf
  <2> QED
    BY <1>2, <2>7, <2>8, <2>9
<1>14. ASSUME NEW e \in Executors, LoadUnsaved(e)
       PROVE  ExecutorsHold'
  BY <1>5, <1>14 DEF LoadUnsaved, queues
<1>15. ASSUME Shutdown \/ Join \/ FreeEntries \/ UNCHANGED vars
       PROVE  ExecutorsHold'
  BY <1>5, <1>15 DEF Shutdown, Join, FreeEntries, queues, vars
<1> QED
  BY <1>4, <1>6, <1>7, <1>10, <1>11, <1>12, <1>13, <1>14, <1>15, NextCases

-----------------------------------------------------------------------------
(* The theorems.                                                            *)

(* In every execution, for any number of tasks, contexts and I/O calls and  *)
(* either value of num_of_CEXEC, the scheduler's state stays consistent.    *)
THEOREM Invariance == Spec => []SutInv
<1>1. ASSUME SutInv, [Next]_vars PROVE SutInv'
  BY <1>1, CountStep, TypeStep, QueuesStep, ExecutorsStep, CreationsStep,
     StopStep, RegisteredStep DEF SutInv
<1> QED
  BY InitInv, <1>1, PTL DEF Spec

(* Every variable of the library keeps its type; in particular              *)
(* num_of_user_threads never drops below zero.                              *)
THEOREM TypeCorrect == Spec => []TypeOK
  BY Invariance, PTL DEF SutInv

(* The counter the executors poll is always the number of live tasks.       *)
THEOREM CountCorrect == Spec => []CountIsLive
  BY Invariance, PTL DEF SutInv

(* With a count of zero and no live task, nothing is queued or created.     *)
LEMMA IdleWhenExited == SutInv => StopsOnlyWhenIdle
<1> SUFFICES ASSUME SutInv PROVE StopsOnlyWhenIdle
  OBVIOUS
<1>0. TypeOK /\ CountIsLive /\ QueuesHoldNewest /\ CreationsPending /\ StopCondition
  BY DEF SutInv
<1> SUFFICES ASSUME NEW e \in Executors, epc[e] = "exited"
             PROVE  /\ LiveTasks = {}
                    /\ ready_queue = <<>> /\ wait_queue = <<>>
                    /\ \A p \in Callers : creating[p] = None
  BY DEF StopsOnlyWhenIdle
<1>1. LiveTasks = {}
  BY <1>0, LiveIsFinite, FS_EmptySet DEF StopCondition, CountIsLive
<1>2. \A t \in Tasks : tpc[t] \notin Live
  BY <1>1 DEF LiveTasks
<1>3. ready_queue = <<>>
  <2>1. ASSUME ready_queue # <<>> PROVE FALSE
    <3>1. 1 \in DOMAIN ready_queue /\ ready_queue[1] \in Contexts
      BY <1>0, <2>1, TailPositions DEF TypeOK
    <3> QED
      BY <3>1, <1>0, <1>2 DEF QueuesHoldNewest, Live, Parked, Unsaved
  <2> QED
    BY <2>1
<1>4. wait_queue = <<>>
  <2>1. ASSUME wait_queue # <<>> PROVE FALSE
    <3>1. 1 \in DOMAIN wait_queue /\ wait_queue[1] \in Contexts
      BY <1>0, <2>1, TailPositions DEF TypeOK
    <3> QED
      BY <3>1, <1>0, <1>2 DEF QueuesHoldNewest, Live, Parked, Unsaved
  <2> QED
    BY <2>1
<1>5. \A p \in Callers : creating[p] = None
  BY <1>0, <1>2 DEF CreationsPending, TypeOK, Live
<1> QED
  BY <1>1, <1>3, <1>4, <1>5

(* An executor that returns leaves no task, no queue entry and no creation  *)
(* in progress behind: reading is_running and num_of_user_threads without   *)
(* the lock is harmless.                                                    *)
THEOREM StopsCorrectly == Spec => []StopsOnlyWhenIdle
  BY Invariance, IdleWhenExited, PTL

(* Two executors have the same task only while one of them, having inserted *)
(* the task's next context, has not yet reached swapcontext: what an        *)
(* executor may load and what it may run have only those phases in common.  *)
THEOREM OneExecutor == Spec => []OneExecutorPerTask
<1>1. ASSUME SutInv PROVE OneExecutorPerTask
  <2> SUFFICES ASSUME NEW e \in Executors, NEW f \in Executors, e # f,
                      HasTask(e), HasTask(f), TaskOf(e) = TaskOf(f)
               PROVE  tpc[TaskOf(e)] \in Unsaved /\ epc[e] # epc[f]
    BY DEF OneExecutorPerTask
  <2>1. ExecutorsHold
    BY <1>1 DEF SutInv
  <2>2. epc[e] # epc[f]
    BY <2>1 DEF ExecutorsHold, HasTask
  <2>3. CASE epc[e] = "load" /\ epc[f] = "run"
    BY <2>1, <2>2, <2>3 DEF ExecutorsHold, Unsaved
  <2>4. CASE epc[e] = "run" /\ epc[f] = "load"
    BY <2>1, <2>2, <2>4 DEF ExecutorsHold, Unsaved
  <2> QED
    BY <2>2, <2>3, <2>4 DEF HasTask
<1> QED
  BY Invariance, <1>1, PTL

(* thread_array is filled before anybody looks a descriptor up in it, and   *)
(* completely before sut_shutdown frees it.                                 *)
THEOREM DescriptorsFound == Spec => []DescriptorsReady
<1>1. ASSUME SutInv PROVE DescriptorsReady
  <2>0. TypeOK /\ Registered /\ StopCondition
    BY <1>1 DEF SutInv
  <2>1. \A e \in Executors : epc[e] = "run" => get_parent_thread(e) = e
    BY <2>0 DEF Registered, get_parent_thread
  <2>2. Range(thread_array) \subseteq Executors
    <3>1. thread_array \in Seq(Executors)
      BY <2>0 DEF TypeOK
    <3> QED
      BY <3>1 DEF Range
  <2>3. mpc = "freeing" => Range(thread_array) = Executors
    BY <2>0, <2>2 DEF Registered, StopCondition
  <2> QED
    BY <2>0, <2>1, <2>3 DEF DescriptorsReady, Registered
<1> QED
  BY Invariance, <1>1, PTL

-----------------------------------------------------------------------------
(* One compute executor and no I/O: the only task whose registers are not   *)
(* saved yet is the one the executor is leaving, and the I/O executor has   *)
(* nothing to do.                                                           *)
Cooperative ==
    /\ wait_queue = <<>>
    /\ \A t \in Tasks : tpc[t] \notin {"asked", "parkedIo", "io", "answered"}
    /\ \A t \in Tasks : tpc[t] = "yielded" => epc[1] = "run" /\ TaskOf(1) = t
    /\ undefined = "no"

(* With num_of_CEXEC = 1, as the file is shipped, and tasks that only use   *)
(* sut_create, sut_yield and sut_exit (test1.c to test3.c), no executor     *)
(* ever switches to a context before its registers are saved.               *)
THEOREM ComputeOnlyIsDefined ==
    NumCEXEC = 1 /\ IoCalls = {} => (Spec => []OnlySavedContextsAreLoaded)
<1> SUFFICES ASSUME NumCEXEC = 1, IoCalls = {}
             PROVE  Spec => []OnlySavedContextsAreLoaded
  OBVIOUS
<1>1. Init => Cooperative
  BY DEF Init, Cooperative
<1>2. ASSUME SutInv, Cooperative, [Next]_vars PROVE Cooperative'
  <2>0. TypeOK /\ ExecutorsHold /\ Registered /\ Executors = {0, 1}
    BY <1>2 DEF SutInv
  <2>1. /\ \A e \in Executors : epc[e] = "run" => e = 1
        /\ \A e \in Executors : epc[e] = "load" => e = 1 /\ tpc[TaskOf(e)] = "parked"
    <3>1. ASSUME NEW e \in Executors, epc[e] \in {"load", "run"}
          PROVE  TaskOf(e) \in Tasks
      BY <2>0, <3>1, HeldTask
    <3>2. ASSUME epc[0] \in {"load", "run"} PROVE FALSE
      BY <2>0, <3>1, <3>2, <1>2 DEF ExecutorsHold, Cooperative
    <3>3. ASSUME epc[1] = "load" PROVE tpc[TaskOf(1)] = "parked"
      BY <2>0, <3>1, <3>3, <1>2 DEF ExecutorsHold, Cooperative
    <3> QED
      BY <2>0, <3>2, <3>3
  <2>2. ASSUME UNCHANGED <<wait_queue, tpc, undefined>>,
               epc[1] = "run" => UNCHANGED <<epc, held>>
        PROVE  Cooperative'
    BY <1>2, <2>2 DEF Cooperative, TaskOf
  <2>3. ASSUME NEW e \in Executors,
               \/ Register(e) \/ CheckRunning(e) \/ CheckCount(e) \/ PopEmpty(e)
               \/ Retire(e)
        PROVE  Cooperative'
    <3>1. UNCHANGED <<wait_queue, tpc, undefined>>
      BY <2>3 DEF Register, CheckRunning, CheckCount, PopEmpty, Retire, queues
    <3>2. epc[e] # "run" /\ epc'[1] = (IF e = 1 THEN epc'[1] ELSE epc[1])
          /\ held'[1] = (IF e = 1 THEN held'[1] ELSE held[1])
      BY <2>0, <2>3 DEF Register, CheckRunning, CheckCount, PopEmpty, Retire,
                        Goto, TypeOK
    <3> QED
      BY <1>2, <3>1, <3>2 DEF Cooperative, TaskOf
  <2>4. ASSUME NEW e \in Executors, LoadUnsaved(e) PROVE Cooperative'
    BY <2>1, <2>4 DEF LoadUnsaved, Unsaved
  <2>5. ASSUME NEW e \in Executors, Pop(e) PROVE Cooperative'
    <3>1. e = 1
      BY <1>2, <2>0, <2>5 DEF Pop, QueueOf, Cooperative
    <3>2. UNCHANGED <<wait_queue, tpc, undefined>> /\ epc[1] # "run"
      BY <2>5, <3>1 DEF Pop
    <3> QED
      BY <2>2, <3>2
  <2>6. ASSUME NEW e \in Executors, Load(e) PROVE Cooperative'
    <3>1. e = 1 /\ epc[1] = "load" /\ TaskOf(1) \in Tasks
          /\ tpc' = [tpc EXCEPT ![TaskOf(1)] = "user"]
      BY <2>0, <2>1, <2>6, HeldTask DEF Load, Phase
    <3>2. UNCHANGED <<wait_queue, undefined>>
      BY <2>6 DEF Load, queues
    <3> QED
      BY <1>2, <2>0, <3>1, <3>2 DEF Cooperative, TypeOK
  <2>7. ASSUME NEW e \in Executors, Yield(e) PROVE Cooperative'
    <3>1. e = 1 /\ epc[1] = "run" /\ TaskOf(1) \in Tasks /\ tpc[TaskOf(1)] = "user"
          /\ tpc' = [tpc EXCEPT ![TaskOf(1)] = "yielded"]
      BY <2>0, <2>1, <2>7, HeldTask DEF Yield, Calling, Phase
    <3>2. UNCHANGED <<wait_queue, undefined, epc, held>>
      BY <2>7 DEF Yield
    <3> QED
      BY <1>2, <2>0, <3>1, <3>2 DEF Cooperative, TypeOK, TaskOf
  <2>8. ASSUME NEW e \in Executors, SwapOut(e) \/ ExitLeave(e) \/ ExitCount(e)
        PROVE  Cooperative'
    <3>1. e = 1 /\ epc[1] = "run" /\ TaskOf(1) \in Tasks
      BY <2>0, <2>1, <2>8, HeldTask DEF SwapOut, ExitLeave, ExitCount, Calling
    <3>2. \E p \in {"parked", "done", "leaving"} : tpc' = [tpc EXCEPT ![TaskOf(1)] = p]
      BY <1>2, <2>8, <3>1 DEF SwapOut, ExitLeave, ExitCount, Phase, Cooperative
    <3>3. UNCHANGED <<wait_queue, undefined>>
      BY <2>8 DEF SwapOut, ExitLeave, ExitCount, queues
    <3> QED
      BY <1>2, <2>0, <3>1, <3>2, <3>3 DEF Cooperative, TypeOK
  <2>9. ASSUME NEW e \in Executors, NEW out \in -1 .. 3, ServeIo(e, out)
        PROVE  Cooperative'
    BY <2>1, <2>9 DEF ServeIo
  <2>10. ASSUME NEW p \in Callers, CreateInsert(p) \/ \E t \in Tasks : CreateCount(p, t)
         PROVE  Cooperative'
    <3>1. \E t, q : tpc' = [tpc EXCEPT ![t] = q] /\ q \in {"counted", "parked"}
      BY <2>10 DEF CreateInsert, CreateCount, Phase
    <3>2. UNCHANGED <<wait_queue, undefined, epc, held>>
      BY <2>10 DEF CreateInsert, CreateCount, queues
    <3> QED
      BY <1>2, <2>0, <3>1, <3>2 DEF Cooperative, TypeOK, TaskOf
  <2>11. ASSUME Shutdown \/ Join \/ FreeEntries \/ UNCHANGED vars PROVE Cooperative'
    BY <2>2, <2>11 DEF Shutdown, Join, FreeEntries, vars, queues
  <2> QED
    BY <1>2, <2>3, <2>4, <2>5, <2>6, <2>7, <2>8, <2>9, <2>10, <2>11, NextCases
<1>3. Cooperative => OnlySavedContextsAreLoaded
  BY DEF Cooperative, OnlySavedContextsAreLoaded
<1> QED
  BY Invariance, <1>1, <1>2, <1>3, PTL DEF Spec

-----------------------------------------------------------------------------
(* No context of sut.c is lost, run twice or freed twice: whatever the      *)
(* tasks do, each one is in one queue, in the hands of one executor or      *)
(* among the entries to be freed, until sut_shutdown frees those.           *)
LEMMA ContextsInit == Init => ContextsPlaced /\ ContextsBounded
<1> SUFFICES ASSUME Init PROVE ContextsPlaced /\ ContextsBounded
  OBVIOUS
<1>1. /\ ready_queue = <<>> /\ wait_queue = <<>> /\ entry_created_queue = <<>>
      /\ \A e \in Executors : held[e] = None
      /\ \A t \in Tasks : ctxs[t] = 0
  BY DEF Init
<1>2. /\ Range(ready_queue) = {} /\ Range(wait_queue) = {}
      /\ Range(entry_created_queue) = {}
  BY <1>1 DEF Range
<1>3. ContextsPlaced
  BY <1>1, <1>2 DEF ContextsPlaced, Placed, Filed, IsInjective
<1>4. ContextsBounded
  BY <1>1 DEF Init, ContextsBounded
<1> QED
  BY <1>3, <1>4

-----------------------------------------------------------------------------
(* The calls allocate within their bound, and a task has its first context  *)
(* when sut_create inserts it.                                              *)
LEMMA BoundedStep ==
    SutInv /\ ContextsBounded /\ [Next]_vars => ContextsBounded'
<1> SUFFICES ASSUME SutInv, ContextsBounded, [Next]_vars PROVE ContextsBounded'
  OBVIOUS
<1>0. TypeOK /\ ExecutorsHold /\ CreationsPending /\ ContextsBounded
  BY DEF SutInv
<1> DEFINE Fine(t) == /\ ctxs[t] <= MaxContexts
                      /\ tpc[t] \in {"asked", "parkedIo", "io"} => ctxs[t] < MaxContexts
                      /\ tpc[t] \in {"absent", "counted"} => ctxs[t] = 0
<1>1. ASSUME NEW t \in Tasks, Fine(t)', \A u \in Tasks \ {t} : Fine(u)' = Fine(u)
      PROVE  ContextsBounded'
  BY <1>0, <1>1 DEF ContextsBounded
<1>2. ASSUME UNCHANGED <<tpc, ctxs>> PROVE ContextsBounded'
  BY <1>0, <1>2 DEF ContextsBounded
<1>3. ASSUME NEW e \in Executors,
             \/ Register(e) \/ CheckRunning(e) \/ CheckCount(e) \/ PopEmpty(e)
             \/ Pop(e) \/ LoadUnsaved(e) \/ Retire(e)
      PROVE  ContextsBounded'
  BY <1>2, <1>3 DEF Register, CheckRunning, CheckCount, PopEmpty, Pop,
                    LoadUnsaved, Retire
<1>4. ASSUME NEW e \in Executors,
             \/ Load(e) \/ SwapOut(e) \/ ExitCount(e) \/ ExitLeave(e)
             \/ Yield(e) \/ \E call \in IoCalls : AskIo(e, call)
             \/ \E out \in -1 .. 3 : ServeIo(e, out)
      PROVE  ContextsBounded'
  <2>1. PICK t \in Tasks : t = TaskOf(e)
    BY <1>0, <1>4, HeldTask DEF Load, SwapOut, ExitCount, ExitLeave, Yield,
                                AskIo, ServeIo, Calling
  <2>2. \A u \in Tasks \ {t} : tpc'[u] = tpc[u] /\ ctxs'[u] = ctxs[u]
    BY <1>0, <1>4, <2>1 DEF Load, SwapOut, ExitCount, ExitLeave, Yield, AskIo,
                            ServeIo, Phase, Allocate, TypeOK
  <2>3. ctxs[t] \in Nat /\ Fine(t)
    BY <1>0, <2>1 DEF ContextsBounded, TypeOK
  <2>4. Fine(t)'
    <3>1. CASE Load(e)
      <4>1. /\ tpc[t] \in Parked /\ ctxs'[t] = ctxs[t]
            /\ tpc'[t] = IF tpc[t] = "parked" THEN "user" ELSE "io"
        BY <1>0, <2>1, <3>1 DEF Load, Phase, TypeOK
      <4> QED
        BY <2>3, <4>1 DEF Parked
    <3>2. CASE SwapOut(e)
      <4>1. /\ tpc[t] \in Unsaved /\ ctxs'[t] = ctxs[t]
            /\ tpc'[t] = IF tpc[t] = "asked" THEN "parkedIo" ELSE "parked"
        BY <1>0, <2>1, <3>2 DEF SwapOut, Phase, TypeOK
      <4> QED
        BY <2>3, <4>1 DEF Unsaved
    <3>3. CASE ExitCount(e) \/ ExitLeave(e)
      <4>1. ctxs'[t] = ctxs[t] /\ tpc'[t] \in {"leaving", "done"}
        BY <1>0, <2>1, <3>3 DEF ExitCount, ExitLeave, Phase, TypeOK
      <4> QED
        BY <2>3, <4>1
    <3>4. CASE Yield(e)
      <4>1. ctxs[t] < MaxContexts /\ ctxs'[t] = ctxs[t] + 1 /\ tpc'[t] = "yielded"
        BY <1>0, <2>1, <3>4 DEF Yield, Phase, Allocate, TypeOK
      <4> QED
        BY <2>3, <4>1
    <3>5. ASSUME NEW call \in IoCalls, AskIo(e, call) PROVE Fine(t)'
      <4>1. ctxs[t] + 1 < MaxContexts /\ ctxs'[t] = ctxs[t] + 1 /\ tpc'[t] = "asked"
        BY <1>0, <2>1, <3>5 DEF AskIo, Phase, Allocate, TypeOK
      <4> QED
        BY <2>3, <4>1
    <3>6. ASSUME NEW out \in -1 .. 3, ServeIo(e, out) PROVE Fine(t)'
      <4>1. tpc[t] = "io" /\ ctxs'[t] = ctxs[t] + 1 /\ tpc'[t] = "answered"
        BY <1>0, <2>1, <3>6 DEF ServeIo, Phase, Allocate, TypeOK
      <4> QED
        BY <2>3, <4>1
    <3> QED
      BY <1>4, <3>1, <3>2, <3>3, <3>4, <3>5, <3>6
  <2> QED
    BY <1>1, <2>1, <2>2, <2>4
<1>5. ASSUME NEW p \in Callers, NEW t \in Tasks, CreateCount(p, t)
      PROVE  ContextsBounded'
  <2>1. /\ tpc[t] = "absent" /\ tpc'[t] = "counted" /\ ctxs' = ctxs
        /\ \A u \in Tasks \ {t} : tpc'[u] = tpc[u]
    BY <1>0, <1>5 DEF CreateCount, Phase, TypeOK
  <2> QED
    BY <1>0, <2>1 DEF ContextsBounded
<1>6. ASSUME NEW p \in Callers, CreateInsert(p)
      PROVE  ContextsBounded'
  <2> DEFINE t == creating[p]
  <2>1. t \in Tasks
    BY <1>0, <1>6 DEF CreateInsert, TypeOK
  <2>2. /\ tpc'[t] = "parked" /\ ctxs'[t] = 1 /\ 1 <= MaxContexts
        /\ \A u \in Tasks \ {t} : tpc'[u] = tpc[u] /\ ctxs'[u] = ctxs[u]
    BY <1>0, <1>6, <2>1 DEF CreateInsert, Phase, TypeOK
  <2> QED
    BY <1>1, <2>1, <2>2
<1>7. ASSUME Shutdown \/ Join \/ FreeEntries \/ UNCHANGED vars PROVE ContextsBounded'
  BY <1>2, <1>7 DEF Shutdown, Join, FreeEntries, vars
<1> QED
  BY <1>3, <1>4, <1>5, <1>6, <1>7, NextCases

-----------------------------------------------------------------------------
(* The three queues in one set each, and what executors hold.               *)
LEMMA PlacesTyped ==
    ASSUME TypeOK
    PROVE  /\ Range(ready_queue) \subseteq Contexts /\ Range(wait_queue) \subseteq Contexts
           /\ Range(entry_created_queue) \subseteq Contexts
           /\ \A e \in Executors : held[e] # None => held[e] \in Contexts
<1>1. \A q \in Seq(Contexts) : Range(q) \subseteq Contexts
  BY DEF Range
<1> QED
  BY <1>1 DEF TypeOK

(* A context enters a queue when it is allocated; queue_pop_head takes it   *)
(* into the hands of an executor, and the executor puts it with the         *)
(* entries to be freed.  Nothing else moves it.                             *)
LEMMA PlacedStep ==
    SutInv /\ ContextsBounded /\ ContextsPlaced /\ [Next]_vars => ContextsPlaced'
<1> SUFFICES ASSUME SutInv, ContextsBounded, ContextsPlaced, [Next]_vars
             PROVE  ContextsPlaced'
  OBVIOUS
<1> USE DEF Filed, Placed
<1>0. TypeOK /\ ExecutorsHold /\ CreationsPending /\ ContextsPlaced
  BY DEF SutInv
<1>a. /\ ready_queue \in Seq(Contexts) /\ wait_queue \in Seq(Contexts)
      /\ entry_created_queue \in Seq(Contexts)
  BY <1>0 DEF TypeOK
<1>1. ASSUME UNCHANGED <<queues, held, ctxs>>, mpc' # "closed" => mpc # "closed"
      PROVE  ContextsPlaced'
  <2>1. Placed' = Placed
    BY <1>1 DEF queues
  <2> QED
    BY <1>0, <1>1, <2>1 DEF ContextsPlaced, queues
<1>2. ASSUME NEW e \in Executors,
             \/ Register(e) \/ CheckRunning(e) \/ CheckCount(e) \/ PopEmpty(e)
             \/ Load(e) \/ LoadUnsaved(e) \/ SwapOut(e) \/ ExitCount(e)
             \/ ExitLeave(e)
      PROVE  ContextsPlaced'
  BY <1>1, <1>2 DEF Register, CheckRunning, CheckCount, PopEmpty, Load,
                    LoadUnsaved, SwapOut, ExitCount, ExitLeave
<1>3. ASSUME \/ \E p \in Callers, t \in Tasks : CreateCount(p, t)
             \/ Shutdown \/ Join \/ UNCHANGED vars
      PROVE  ContextsPlaced'
  BY <1>1, <1>3 DEF CreateCount, Shutdown, Join, vars, queues
(* A new context goes to the end of the ready queue or of the wait queue.   *)
<1>4. ASSUME NEW t \in Tasks, ctxs' = [ctxs EXCEPT ![t] = ctxs[t] + 1],
             \/ /\ ready_queue' = Append(ready_queue, <<t, ctxs[t] + 1>>)
                /\ wait_queue' = wait_queue
             \/ /\ wait_queue' = Append(wait_queue, <<t, ctxs[t] + 1>>)
                /\ ready_queue' = ready_queue,
             UNCHANGED <<entry_created_queue, held, mpc>>
      PROVE  ContextsPlaced'
  <2> DEFINE c == <<t, ctxs[t] + 1>>
  <2>1. /\ ctxs \in [Tasks -> Nat] /\ ctxs[t] \in Nat /\ c \in Contexts
        /\ c[1] = t /\ c[2] = ctxs[t] + 1
        /\ ctxs'[t] = ctxs[t] + 1 /\ \A u \in Tasks \ {t} : ctxs'[u] = ctxs[u]
    BY <1>0, <1>4 DEF TypeOK
  <2>2. c \notin Placed
    <3>1. c \in Placed => c[2] \in 1 .. ctxs[c[1]]
      BY <1>0 DEF ContextsPlaced
    <3> QED
      BY <2>1, <3>1
  <2>3. \/ Range(ready_queue') = Range(ready_queue) \cup {c} /\ wait_queue' = wait_queue
        \/ Range(wait_queue') = Range(wait_queue) \cup {c} /\ ready_queue' = ready_queue
    <3>1. ASSUME NEW d \in Contexts, NEW q \in Seq(Contexts)
          PROVE  Range(Append(q, d)) = Range(q) \cup {d}
      BY AppendElements
    <3> QED
      BY <1>4, <1>a, <2>1, <3>1
  <2>4. Placed' = Placed \cup {c}
    BY <1>4, <2>3
  <2>5. \A d \in Placed' : d[2] \in 1 .. ctxs'[d[1]]
    <3> SUFFICES ASSUME NEW d \in Placed, d # c PROVE d[2] \in 1 .. ctxs'[d[1]]
      BY <2>1, <2>4
    <3>1. d[2] \in 1 .. ctxs[d[1]] /\ d[1] \in Tasks
      BY <1>0, PlacesTyped DEF ContextsPlaced
    <3> QED
      BY <2>1, <3>1
  <2>6. mpc' # "closed" => \A u \in Tasks : \A n \in 1 .. ctxs'[u] : <<u, n>> \in Placed'
    <3> SUFFICES ASSUME mpc # "closed", NEW u \in Tasks, NEW n \in 1 .. ctxs'[u]
                 PROVE  <<u, n>> \in Placed'
      BY <1>4
    <3>1. (u = t /\ n = ctxs[t] + 1) \/ n \in 1 .. ctxs[u]
      BY <2>1
    <3>2. \A m \in 1 .. ctxs[u] : <<u, m>> \in Placed
      BY <1>0 DEF ContextsPlaced
    <3> QED
      BY <2>4, <3>1, <3>2
  <2>7. /\ Range(entry_created_queue') \cap (Range(ready_queue') \cup Range(wait_queue')) = {}
        /\ Range(ready_queue') \cap Range(wait_queue') = {}
        /\ \A e \in Executors : held'[e] # None => held'[e] \notin Filed'
        /\ \A e, f \in Executors : held'[e] = held'[f] /\ held'[e] # None => e = f
        /\ IsInjective(entry_created_queue')
    BY <1>0, <1>4, <2>2, <2>3 DEF ContextsPlaced
  <2> QED
    BY <2>5, <2>6, <2>7 DEF ContextsPlaced
<1>5. ASSUME NEW e \in Executors,
             \/ Yield(e) \/ \E call \in IoCalls : AskIo(e, call)
             \/ \E out \in -1 .. 3 : ServeIo(e, out)
      PROVE  ContextsPlaced'
  <2>1. PICK t \in Tasks : t = TaskOf(e)
    BY <1>0, <1>5, HeldTask DEF Yield, AskIo, ServeIo, Calling
  <2> QED
    BY <1>4, <1>5, <2>1 DEF Yield, AskIo, ServeIo, Allocate, NewContext
<1>6. ASSUME NEW p \in Callers, CreateInsert(p)
      PROVE  ContextsPlaced'
  <2>1. PICK t \in Tasks : t = creating[p]
    BY <1>0, <1>6 DEF CreateInsert, TypeOK
  <2>2. ctxs[t] = 0
    BY <1>0, <1>6, <2>1 DEF CreateInsert, CreationsPending, ContextsBounded
  <2> QED
    <3>1. /\ ctxs' = [ctxs EXCEPT ![t] = 1]
          /\ ready_queue' = Append(ready_queue, <<t, 1>>)
          /\ UNCHANGED <<wait_queue, entry_created_queue, held, mpc>>
      BY <1>6, <2>1 DEF CreateInsert
    <3>2. ctxs[t] + 1 = 1
      BY <2>2
    <3> QED
      BY <1>4, <3>1, <3>2
<1>7. ASSUME NEW e \in Executors, Pop(e)
      PROVE  ContextsPlaced'
  <2> DEFINE c == Head(QueueOf(e))
  <2>1. /\ QueueOf(e) \in Seq(Contexts) /\ QueueOf(e) # <<>>
        /\ QueueOf(e) \in {ready_queue, wait_queue} /\ IsInjective(QueueOf(e))
    BY <1>0, <1>7, <1>a DEF Pop, QueueOf, SutInv, QueuesHoldNewest
  <2>2. /\ c \in Contexts /\ Range(QueueOf(e)) = Range(Tail(QueueOf(e))) \cup {c}
        /\ c \notin Range(Tail(QueueOf(e)))
    BY <2>1, TailElements
  <2>3. /\ c # None /\ held[e] = None /\ held'[e] = c
        /\ \A f \in Executors \ {e} : held'[f] = held[f]
    BY <1>0, <1>7, <2>2 DEF Pop, ExecutorsHold, TypeOK
  <2>4. \/ /\ Range(ready_queue) = Range(ready_queue') \cup {c}
           /\ c \notin Range(ready_queue') /\ wait_queue' = wait_queue
        \/ /\ Range(wait_queue) = Range(wait_queue') \cup {c}
           /\ c \notin Range(wait_queue') /\ ready_queue' = ready_queue
    BY <1>7, <2>2 DEF Pop, QueueOf
  <2>5. UNCHANGED <<entry_created_queue, ctxs, mpc>>
    BY <1>7 DEF Pop
  <2>6. /\ Filed = Filed' \cup {c} /\ c \notin Filed'
        /\ Range(ready_queue') \cap Range(wait_queue') = {}
        /\ Range(entry_created_queue') \cap (Range(ready_queue') \cup Range(wait_queue')) = {}
    BY <1>0, <2>4, <2>5 DEF ContextsPlaced
  <2>7. /\ \A f \in Executors : held'[f] # None => held'[f] \notin Filed'
        /\ \A f, g \in Executors : held'[f] = held'[g] /\ held'[f] # None => f = g
    BY <1>0, <2>3, <2>6 DEF ContextsPlaced
  <2>8. Placed' = Placed
    BY <2>3, <2>6
  <2> QED
    BY <1>0, <2>5, <2>6, <2>7, <2>8 DEF ContextsPlaced
<1>8. ASSUME NEW e \in Executors, Retire(e)
      PROVE  ContextsPlaced'
  <2> DEFINE c == held[e]
  <2>1. c \in Contexts /\ c # None
    BY <1>0, <1>8, HeldTask DEF Retire
  <2>2. /\ held'[e] = None /\ \A f \in Executors \ {e} : held'[f] = held[f]
        /\ UNCHANGED <<ready_queue, wait_queue, ctxs, mpc>>
        /\ entry_created_queue' = Append(entry_created_queue, c)
    BY <1>0, <1>8 DEF Retire, TypeOK
  <2>3. c \notin Filed
    BY <1>0, <2>1 DEF ContextsPlaced
  <2>4. /\ Range(entry_created_queue') = Range(entry_created_queue) \cup {c}
        /\ IsInjective(entry_created_queue')
    BY <1>0, <1>a, <2>1, <2>2, <2>3, AppendElements DEF ContextsPlaced
  <2>5. \A f \in Executors \ {e} : held[f] # c
    BY <1>0, <2>1 DEF ContextsPlaced
  <2>6. /\ \A f \in Executors : held'[f] # None => held'[f] \notin Filed'
        /\ \A f, g \in Executors : held'[f] = held'[g] /\ held'[f] # None => f = g
    BY <1>0, <2>2, <2>4, <2>5 DEF ContextsPlaced
  <2>7. Placed' = Placed
    BY <2>1, <2>2, <2>4, <2>5
  <2>8. /\ Range(entry_created_queue') \cap (Range(ready_queue') \cup Range(wait_queue')) = {}
        /\ Range(ready_queue') \cap Range(wait_queue') = {}
    BY <1>0, <2>2, <2>3, <2>4 DEF ContextsPlaced
  <2>9. /\ \A d \in Placed' : d[2] \in 1 .. ctxs'[d[1]]
        /\ mpc' # "closed" => \A t \in Tasks : \A n \in 1 .. ctxs'[t] : <<t, n>> \in Placed'
    BY <1>0, <2>2, <2>7 DEF ContextsPlaced
  <2> QED
    BY <2>4, <2>6, <2>8, <2>9 DEF ContextsPlaced
<1>9. ASSUME FreeEntries PROVE ContextsPlaced'
  <2>1. /\ entry_created_queue' = <<>> /\ mpc' = "closed"
        /\ UNCHANGED <<ready_queue, wait_queue, held, ctxs>>
    BY <1>9 DEF FreeEntries
  <2>2. Range(entry_created_queue') = {} /\ IsInjective(entry_created_queue')
    BY <2>1 DEF Range, IsInjective
  <2>3. Filed' \subseteq Filed /\ Placed' \subseteq Placed
    BY <2>1, <2>2
  <2> QED
    BY <1>0, <2>1, <2>2, <2>3 DEF ContextsPlaced
<1> QED
  BY <1>2, <1>3, <1>5, <1>6, <1>7, <1>8, <1>9, NextCases

-----------------------------------------------------------------------------
LEMMA ContextsInvariance == Spec => [](SutInv /\ ContextsBounded /\ ContextsPlaced)
<1>1. SutInv /\ ContextsBounded /\ ContextsPlaced /\ [Next]_vars
          => (ContextsBounded /\ ContextsPlaced)'
  BY BoundedStep, PlacedStep
<1> QED
  BY Invariance, ContextsInit, <1>1, PTL DEF Spec

-----------------------------------------------------------------------------
(* The theorem.                                                             *)

(* Whatever the tasks and executors do, a context is in one queue, in one   *)
(* executor's hands or among the entries to be freed, never in two of them; *)
(* and when sut_shutdown frees the entries, they are all that were ever     *)
(* allocated.                                                               *)
THEOREM ContextsInOnePlace == Spec => []EveryContextInOnePlace
<1>1. ASSUME SutInv, ContextsBounded, ContextsPlaced
      PROVE  EveryContextInOnePlace
  <2>0. TypeOK /\ ExecutorsHold /\ StopCondition /\ QueuesHoldNewest
    BY <1>1 DEF SutInv
  <2> DEFINE all == ready_queue \o wait_queue \o entry_created_queue
  <2>1. Range(all) = Filed /\ IsInjective(all)
    <3>1. /\ ready_queue \in Seq(Contexts) /\ wait_queue \in Seq(Contexts)
          /\ entry_created_queue \in Seq(Contexts)
      BY <2>0 DEF TypeOK
    <3>2. /\ IsInjective(ready_queue) /\ IsInjective(wait_queue)
          /\ IsInjective(entry_created_queue)
      BY <1>1, <2>0 DEF QueuesHoldNewest, ContextsPlaced
    <3>3. /\ ready_queue \o wait_queue \in Seq(Contexts)
          /\ Range(ready_queue \o wait_queue) = Range(ready_queue) \cup Range(wait_queue)
          /\ IsInjective(ready_queue \o wait_queue)
      BY <1>1, <3>1, <3>2, Concatenated DEF ContextsPlaced
    <3> DEFINE front == ready_queue \o wait_queue
    <3>4. Range(front) \cap Range(entry_created_queue) = {}
      BY <1>1, <3>3 DEF ContextsPlaced
    <3>5. front \in Seq(Contexts) /\ IsInjective(front)
      BY <3>3
    <3> HIDE DEF front
    <3>6. /\ IsInjective(front \o entry_created_queue)
          /\ Range(front \o entry_created_queue) = Range(front) \cup Range(entry_created_queue)
      BY <3>1, <3>2, <3>4, <3>5, Concatenated
    <3> QED
      BY <3>3, <3>6 DEF front, Filed
  <2>2. \A e, f \in Executors : e # f => HeldBy(e) \cap HeldBy(f) = {}
    BY <1>1 DEF ContextsPlaced, HeldBy
  <2>3. \A e \in Executors : HeldBy(e) \cap Filed = {}
    BY <1>1 DEF ContextsPlaced, HeldBy
  <2>4. ASSUME mpc = "freeing" PROVE Range(entry_created_queue) = Allocated
    <3>1. \A e \in Executors : epc[e] = "exited" /\ held[e] = None
      BY <2>0, <2>4 DEF StopCondition, ExecutorsHold
    <3>2. ready_queue = <<>> /\ wait_queue = <<>>
      BY <1>1, <2>0, <3>1, IdleWhenExited DEF StopsOnlyWhenIdle
    <3>3. Placed = Range(entry_created_queue)
      BY <3>1, <3>2 DEF Placed, Filed, Range
    <3>4. Range(entry_created_queue) \subseteq Contexts
      BY <2>0, PlacesTyped
    <3>5. \A t \in Tasks : ctxs[t] \in Nat /\ ctxs[t] <= MaxContexts
      BY <1>1, <2>0 DEF ContextsBounded, TypeOK
    <3>6. \A c \in Contexts : c \in Range(entry_created_queue) <=> c[2] \in 1 .. ctxs[c[1]]
      <4> SUFFICES ASSUME NEW c \in Contexts, c[2] \in 1 .. ctxs[c[1]]
                   PROVE  c \in Range(entry_created_queue)
        BY <1>1, <3>3 DEF ContextsPlaced
      <4>1. c[1] \in Tasks /\ c = <<c[1], c[2]>>
        OBVIOUS
      <4>2. <<c[1], c[2]>> \in Placed
        BY <1>1, <2>4, <4>1 DEF ContextsPlaced
      <4> QED
        BY <3>3, <4>1, <4>2
    <3>7. \A c \in Contexts : c \in Allocated <=> c[2] \in 1 .. ctxs[c[1]]
      BY <3>5 DEF Allocated
    <3>8. Allocated \subseteq Contexts
      BY DEF Allocated
    <3> QED
      BY <3>4, <3>6, <3>7, <3>8
  <2> QED
    BY <2>1, <2>2, <2>3, <2>4 DEF EveryContextInOnePlace
<1> QED
  BY ContextsInvariance, <1>1, PTL

-----------------------------------------------------------------------------
(* Forgetting the numbers of its contexts makes a queue of contexts a queue  *)
(* of tasks of the same length.                                              *)
LEMMA TaskQueues ==
    ASSUME NEW q \in Seq(Contexts)
    PROVE  /\ TasksOf(q) \in Seq(Tasks) /\ Len(TasksOf(q)) = Len(q)
           /\ q = <<>> <=> TasksOf(q) = <<>>
           /\ Range(TasksOf(q)) = {q[i][1] : i \in DOMAIN q}
  <1>1. DOMAIN q = 1 .. Len(q) /\ Len(q) \in Nat
    OBVIOUS
  <1>2. TasksOf(q) \in [1 .. Len(q) -> Tasks]
    BY <1>1 DEF TasksOf
  <1>3. TasksOf(q) \in Seq(Tasks)
    BY <1>1, <1>2
  <1>4. Len(TasksOf(q)) = Len(q)
    BY <1>1, <1>2, <1>3
  <1>5. q = <<>> <=> TasksOf(q) = <<>>
    BY <1>3, <1>4
  <1>6. Range(TasksOf(q)) = {q[i][1] : i \in DOMAIN q}
    BY <1>1 DEF TasksOf, Range
  <1> QED
    BY <1>3, <1>4, <1>5, <1>6

(* Inserting a context at the tail inserts its task at the tail.             *)
LEMMA TasksOfAppend ==
    ASSUME NEW q \in Seq(Contexts), NEW t \in Tasks, NEW n \in Nat
    PROVE  TasksOf(Append(q, <<t, n>>)) = Append(TasksOf(q), t)
  <1> DEFINE a == Append(q, <<t, n>>)
  <1>1. <<t, n>> \in Contexts /\ <<t, n>>[1] = t
    OBVIOUS
  <1>2. /\ a \in Seq(Contexts) /\ DOMAIN a = 1 .. Len(q) + 1 /\ Len(a) = Len(q) + 1
        /\ \A i \in 1 .. Len(q) : a[i] = q[i]
        /\ a[Len(q) + 1] = <<t, n>>
    BY <1>1, AppendPositions
  <1>3. /\ Append(TasksOf(q), t) \in Seq(Tasks)
        /\ DOMAIN Append(TasksOf(q), t) = 1 .. Len(q) + 1
        /\ Len(Append(TasksOf(q), t)) = Len(q) + 1
        /\ \A i \in 1 .. Len(q) : Append(TasksOf(q), t)[i] = TasksOf(q)[i]
        /\ Append(TasksOf(q), t)[Len(q) + 1] = t
    BY TaskQueues, AppendPositions
  <1>4. TasksOf(a) \in Seq(Tasks) /\ Len(TasksOf(a)) = Len(q) + 1
    BY <1>2, TaskQueues
  <1>5. \A i \in 1 .. Len(q) + 1 : TasksOf(a)[i] = Append(TasksOf(q), t)[i]
    BY <1>1, <1>2, <1>3 DEF TasksOf
  <1>6. Append(TasksOf(q), t) \in Seq(Tasks) /\ Len(TasksOf(a)) = Len(Append(TasksOf(q), t))
    BY <1>3, <1>4
  <1>7. \A i \in 1 .. Len(TasksOf(a)) : TasksOf(a)[i] = Append(TasksOf(q), t)[i]
    BY <1>4, <1>5
  <1> QED
    BY <1>4, <1>6, <1>7, SeqEqual

(* Popping the head context pops the head task.                              *)
LEMMA TasksOfTail ==
    ASSUME NEW q \in Seq(Contexts), q # <<>>
    PROVE  /\ TasksOf(Tail(q)) = Tail(TasksOf(q))
           /\ Head(q)[1] = Head(TasksOf(q))
  <1>1. TasksOf(q) \in Seq(Tasks) /\ TasksOf(q) # <<>> /\ Len(TasksOf(q)) = Len(q)
    BY TaskQueues
  <1>2. /\ Tail(q) \in Seq(Contexts) /\ Head(q) = q[1] /\ DOMAIN q = 1 .. Len(q)
        /\ Len(q) \in Nat \ {0} /\ DOMAIN Tail(q) = 1 .. Len(q) - 1
        /\ \A i \in 1 .. Len(q) - 1 : Tail(q)[i] = q[i + 1]
    BY TailPositions
  <1>3. /\ Tail(TasksOf(q)) \in Seq(Tasks) /\ Head(TasksOf(q)) = TasksOf(q)[1]
        /\ DOMAIN Tail(TasksOf(q)) = 1 .. Len(q) - 1
        /\ \A i \in 1 .. Len(q) - 1 : Tail(TasksOf(q))[i] = TasksOf(q)[i + 1]
    BY <1>1, TailPositions
  <1>4. TasksOf(Tail(q)) = Tail(TasksOf(q))
    <2>1. TasksOf(Tail(q)) \in Seq(Tasks) /\ DOMAIN TasksOf(Tail(q)) = 1 .. Len(q) - 1
      BY <1>2, TaskQueues DEF TasksOf
    <2>2. \A i \in 1 .. Len(q) - 1 : TasksOf(Tail(q))[i] = Tail(TasksOf(q))[i]
      BY <1>2, <1>3 DEF TasksOf
    <2>3. Len(TasksOf(Tail(q))) = Len(q) - 1 /\ Len(Tail(TasksOf(q))) = Len(q) - 1
      BY <1>1, TaskQueues, TailPositions
    <2> QED
      BY <1>3, <2>1, <2>2, <2>3, SeqEqual
  <1> QED
    BY <1>2, <1>3, <1>4 DEF TasksOf

-----------------------------------------------------------------------------
(* The initial states of the library are initial states of the scheduler.  *)
LEMMA InitRefines == Init => F!FcfsInit
<1> SUFFICES ASSUME Init PROVE F!FcfsInit
  OBVIOUS
<1>1. LiveTasks = {} /\ {t \in Tasks : tpc[t] # "absent"} = {}
  BY DEF Init, LiveTasks, Live, Parked, Unsaved
<1>2. TasksOf(ready_queue) = <<>> /\ TasksOf(wait_queue) = <<>>
  BY TaskQueues, EmptySeq DEF Init
<1>3. \A e \in Executors : RunningTask(e) = None
  BY DEF Init, RunningTask
<1>4. {e \in Executors : epc[e] = "exited"} = {}
  BY DEF Init
<1> QED
  BY <1>1, <1>2, <1>3, <1>4 DEF Init, F!FcfsInit, F!Executors

(* Every step of the library is a step of the scheduler or leaves all that  *)
(* the scheduler sees unchanged.                                            *)
LEMMA StepRefines ==
    ASSUME SutInv, [Next]_vars
    PROVE  [F!FcfsNext]_(F!fcfsVars)
<1>0. /\ TypeOK /\ QueuesHoldNewest /\ ExecutorsHold /\ CreationsPending
      /\ StopCondition /\ CountIsLive /\ Registered
      /\ ready_queue \in Seq(Contexts) /\ wait_queue \in Seq(Contexts)
      /\ None \notin Tasks
  BY DEF SutInv, TypeOK
<1> DEFINE Used == {t \in Tasks : tpc[t] # "absent"}
           Run == [e \in Executors |-> RunningTask(e)]
           Stopped == {e \in Executors : epc[e] = "exited"}
<1>1. ASSUME UNCHANGED <<is_running, ready_queue, wait_queue>>,
             \A t \in Tasks : /\ tpc'[t] \in Live <=> tpc[t] \in Live
                              /\ tpc'[t] = "absent" <=> tpc[t] = "absent",
             \A e \in Executors : /\ RunningTask(e)' = RunningTask(e)
                                  /\ epc'[e] = "exited" <=> epc[e] = "exited"
      PROVE  UNCHANGED F!fcfsVars
  <2>1. LiveTasks' = LiveTasks /\ Used' = Used
    BY <1>1 DEF LiveTasks
  <2>2. Run' = Run /\ Stopped' = Stopped
    BY <1>1
  <2> QED
    BY <1>1, <2>1, <2>2 DEF F!fcfsVars, TasksOf
(* Steps of an executor's loop the scheduler does not see.                  *)
<1>2. ASSUME NEW e \in Executors,
             \/ Register(e) \/ CheckRunning(e) \/ PopEmpty(e) \/ Retire(e)
             \/ LoadUnsaved(e)
             \/ CheckCount(e) /\ num_of_user_threads # 0
      PROVE  UNCHANGED F!fcfsVars
  <2>1. UNCHANGED <<is_running, ready_queue, wait_queue, tpc>>
    BY <1>2 DEF Register, CheckRunning, PopEmpty, Retire, LoadUnsaved, CheckCount, queues
  <2>2. \A f \in Executors : /\ RunningTask(f)' = RunningTask(f)
                             /\ epc'[f] = "exited" <=> epc[f] = "exited"
    BY ZenonT(60), <1>0, <1>2, <2>1 DEF Register, CheckRunning, PopEmpty, Retire, LoadUnsaved,
                      CheckCount, Goto, TypeOK, RunningTask, TaskOf
  <2> QED
    BY <1>1, <2>1, <2>2
<1>3. ASSUME NEW e \in Executors, CheckCount(e), num_of_user_threads = 0
      PROVE  F!Stop(e)
  <2>1. LiveTasks = {}
    BY <1>0, <1>3, LiveIsFinite, FS_EmptySet DEF CountIsLive
  <2>2. ~is_running /\ epc[e] = "checkCount"
    BY <1>0, <1>3 DEF CheckCount, StopCondition
  <2>3. epc' = [epc EXCEPT ![e] = "exited"]
        /\ UNCHANGED <<is_running, ready_queue, wait_queue, tpc, held>>
    BY <1>3 DEF CheckCount, Goto, queues
  <2>4. Stopped' = Stopped \cup {e} /\ e \notin Stopped
    BY <1>0, <2>2, <2>3 DEF TypeOK
  <2>5. Run' = Run
    BY <1>0, <2>2, <2>3 DEF TypeOK, RunningTask, TaskOf
  <2> QED
    BY <2>1, <2>2, <2>3, <2>4, <2>5 DEF F!Stop, TasksOf, LiveTasks
<1>4. ASSUME NEW e \in Executors, Pop(e)
      PROVE  F!FcfsNext
  <2>1. /\ epc[e] = "pop" /\ epc' = [epc EXCEPT ![e] = "load"]
        /\ held' = [held EXCEPT ![e] = Head(QueueOf(e))]
        /\ UNCHANGED <<is_running, tpc>>
    BY <1>4 DEF Pop, Goto
  <2>2. UNCHANGED <<is_running, LiveTasks, Used, Stopped>> /\ e \notin Stopped
    BY <1>0, <2>1 DEF TypeOK, LiveTasks
  <2>3. Run[e] = None /\ Run' = [Run EXCEPT ![e] = Head(QueueOf(e))[1]]
    BY <1>0, <2>1 DEF TypeOK, RunningTask, TaskOf
  <2>4. CASE e = IExec
    <3>1. wait_queue # <<>> /\ wait_queue' = Tail(wait_queue)
          /\ ready_queue' = ready_queue /\ QueueOf(e) = wait_queue
      BY <1>4, <2>4 DEF Pop, QueueOf
    <3>2. /\ TasksOf(wait_queue) # <<>>
          /\ TasksOf(wait_queue') = Tail(TasksOf(wait_queue))
          /\ Head(wait_queue)[1] = Head(TasksOf(wait_queue))
          /\ TasksOf(ready_queue') = TasksOf(ready_queue)
      BY <1>0, <3>1, TaskQueues, TasksOfTail
    <3>3. F!DispatchIo
      BY <2>2, <2>3, <2>4, <3>1, <3>2 DEF F!DispatchIo, TasksOf
    <3> QED
      BY <3>3 DEF F!FcfsNext
  <2>5. CASE e # IExec
    <3>1. ready_queue # <<>> /\ ready_queue' = Tail(ready_queue)
          /\ wait_queue' = wait_queue /\ QueueOf(e) = ready_queue
      BY <1>4, <2>5 DEF Pop, QueueOf
    <3>2. /\ TasksOf(ready_queue) # <<>>
          /\ TasksOf(ready_queue') = Tail(TasksOf(ready_queue))
          /\ Head(ready_queue)[1] = Head(TasksOf(ready_queue))
          /\ TasksOf(wait_queue') = TasksOf(wait_queue)
      BY <1>0, <3>1, TaskQueues, TasksOfTail
    <3>3. e \in CExecs
      BY <2>5
    <3>4. F!Dispatch(e)
      BY <2>2, <2>3, <3>1, <3>2, <3>3 DEF F!Dispatch, TasksOf
    <3> QED
      BY <3>3, <3>4 DEF F!FcfsNext, F!Executors
  <2> QED
    BY <2>4, <2>5
(* Steps in which the executor's task changes phase without a queue.        *)
<1>5. ASSUME NEW e \in Executors, Load(e) \/ SwapOut(e) \/ ExitLeave(e)
      PROVE  UNCHANGED F!fcfsVars
  <2> DEFINE t == TaskOf(e)
  <2>1. t \in Tasks /\ get_parent_thread(e) = e
    BY <1>0, <1>5, HeldTask DEF Load, SwapOut, ExitLeave, Registered, get_parent_thread
  <2>2. UNCHANGED <<is_running, ready_queue, wait_queue, held>>
    BY <1>5 DEF Load, SwapOut, ExitLeave, queues
  <2>3. \A u \in Tasks : /\ tpc'[u] \in Live <=> tpc[u] \in Live
                         /\ tpc'[u] = "absent" <=> tpc[u] = "absent"
    BY <1>0, <1>5, <2>1 DEF Load, SwapOut, ExitLeave, Phase, TypeOK, Live, Parked, Unsaved
  <2>4. \A u \in Tasks \ {t} : tpc'[u] = tpc[u]
    BY <1>0, <1>5, <2>1 DEF Load, SwapOut, ExitLeave, Phase, TypeOK
  <2>5. RunningTask(e)' = RunningTask(e)
    <3>1. CASE Load(e)
      BY <1>0, <2>1, <2>2, <3>1 DEF Load, Goto, Phase, TypeOK, RunningTask, TaskOf
    <3>2. CASE SwapOut(e) \/ ExitLeave(e)
      BY <1>0, <2>1, <2>2, <3>2 DEF SwapOut, ExitLeave, Goto, Phase, TypeOK,
                                    RunningTask, TaskOf, Unsaved
    <3> QED
      BY <1>5, <3>1, <3>2
  <2>6. ASSUME NEW f \in Executors, f # e
        PROVE  RunningTask(f)' = RunningTask(f) /\ epc'[f] = epc[f]
    <3>1. epc'[f] = epc[f] /\ TaskOf(f)' = TaskOf(f)
      BY <1>0, <1>5, <2>1, <2>2, <2>6 DEF Load, SwapOut, ExitLeave, Goto, TypeOK, TaskOf
    <3>2. ASSUME epc[f] = "run"
          PROVE  tpc'[TaskOf(f)] \in {"user", "io"} <=> tpc[TaskOf(f)] \in {"user", "io"}
      <4>1. CASE TaskOf(f) = t
        BY <1>0, <1>5, <2>6, <3>2, <4>1 DEF Load, SwapOut, ExitLeave, ExecutorsHold, Parked
      <4>2. CASE TaskOf(f) # t
        BY <1>0, <2>4, <3>2, <4>2, HeldTask
      <4> QED
        BY <4>1, <4>2
    <3> QED
      BY <3>1, <3>2 DEF RunningTask
  <2>7. epc'[e] # "exited" /\ epc[e] # "exited"
    BY <1>0, <1>5, <2>1 DEF Load, SwapOut, ExitLeave, Goto, TypeOK
  <2> QED
    BY <1>1, <2>2, <2>3, <2>5, <2>6, <2>7
(* Steps of a running task that put it into a queue or end it.              *)
<1>6. ASSUME NEW e \in Executors, epc[e] = "run", tpc[TaskOf(e)] \in {"user", "io"},
             NEW phase, phase \notin {"user", "io"},
             tpc' = [tpc EXCEPT ![TaskOf(e)] = phase],
             UNCHANGED <<epc, held>>
      PROVE  /\ TaskOf(e) \in Tasks /\ Run[e] = TaskOf(e) /\ Run[e] # None
             /\ Run' = [Run EXCEPT ![e] = None]
             /\ Stopped' = Stopped
             /\ phase \in Live \cup {"leaving"} => Used' = Used
             /\ phase \in Live => LiveTasks' = LiveTasks
             /\ phase \notin Live => LiveTasks' = LiveTasks \ {TaskOf(e)}
  <2>1. TaskOf(e) \in Tasks /\ Run[e] = TaskOf(e)
    BY <1>0, <1>6, HeldTask DEF RunningTask
  <2>2. RunningTask(e)' = None
    BY <1>0, <1>6, <2>1 DEF TypeOK, RunningTask, TaskOf
  <2>3. ASSUME NEW f \in Executors, f # e PROVE RunningTask(f)' = RunningTask(f)
    <3>1. epc[f] = "run" => TaskOf(f) \in Tasks \ {TaskOf(e)}
      BY <1>0, <1>6, <2>3, HeldTask DEF ExecutorsHold
    <3> QED
      BY <1>0, <1>6, <3>1 DEF TypeOK, RunningTask, TaskOf
  <2>4. Run' = [Run EXCEPT ![e] = None]
    BY <2>2, <2>3
  <2>5. Stopped' = Stopped
    BY <1>6
  <2>6. /\ phase \in Live \cup {"leaving"} => Used' = Used
        /\ phase \in Live => LiveTasks' = LiveTasks
        /\ phase \notin Live => LiveTasks' = LiveTasks \ {TaskOf(e)}
    BY <1>0, <1>6, <2>1 DEF TypeOK, LiveTasks, Live, Parked, Unsaved
  <2> QED
    BY <1>0, <2>1, <2>4, <2>5, <2>6
<1>7. ASSUME NEW e \in Executors,
             Yield(e) \/ \E out \in -1 .. 3 : ServeIo(e, out)
      PROVE  F!Requeue(e)
  <2> DEFINE t == TaskOf(e)
  <2>1. /\ epc[e] = "run" /\ tpc[t] \in {"user", "io"} /\ UNCHANGED <<epc, held>>
        /\ \E phase \in {"yielded", "answered"} : tpc' = [tpc EXCEPT ![t] = phase]
        /\ UNCHANGED <<is_running, wait_queue>>
        /\ ready_queue' = Append(ready_queue, <<t, ctxs[t] + 1>>)
    BY <1>7 DEF Yield, ServeIo, Calling, Phase, NewContext
  <2>2. /\ t \in Tasks /\ Run[e] = t /\ Run[e] # None
        /\ Run' = [Run EXCEPT ![e] = None]
        /\ UNCHANGED <<Stopped, Used, LiveTasks>>
    BY <1>6, <2>1 DEF Live, Unsaved
  <2>3. ctxs[t] + 1 \in Nat
    BY <1>0, <2>2 DEF TypeOK
  <2>4. TasksOf(ready_queue') = Append(TasksOf(ready_queue), t)
    BY <1>0, <2>1, <2>2, <2>3, TasksOfAppend
  <2> QED
    BY <2>1, <2>2, <2>4 DEF F!Requeue, TasksOf
<1>8. ASSUME NEW e \in Executors, NEW call \in IoCalls, AskIo(e, call)
      PROVE  e \in CExecs /\ F!Request(e)
  <2> DEFINE t == TaskOf(e)
  <2>1. /\ epc[e] = "run" /\ tpc[t] \in {"user", "io"} /\ UNCHANGED <<epc, held>>
        /\ tpc' = [tpc EXCEPT ![t] = "asked"]
        /\ UNCHANGED <<is_running, ready_queue>> /\ e \in CExecs
        /\ wait_queue' = Append(wait_queue, <<t, ctxs[t] + 1>>)
    BY <1>8 DEF AskIo, Calling, Phase, NewContext
  <2>2. /\ t \in Tasks /\ Run[e] = t /\ Run[e] # None
        /\ Run' = [Run EXCEPT ![e] = None]
        /\ UNCHANGED <<Stopped, Used, LiveTasks>>
    BY <1>6, <2>1 DEF Live, Unsaved
  <2>3. ctxs[t] + 1 \in Nat
    BY <1>0, <2>2 DEF TypeOK
  <2>4. TasksOf(wait_queue') = Append(TasksOf(wait_queue), t)
    BY <1>0, <2>1, <2>2, <2>3, TasksOfAppend
  <2> QED
    BY <2>1, <2>2, <2>4 DEF F!Request, TasksOf
<1>9. ASSUME NEW e \in Executors, ExitCount(e)
      PROVE  e \in CExecs /\ F!Exit(e)
  <2> DEFINE t == TaskOf(e)
  <2>1. /\ epc[e] = "run" /\ tpc[t] \in {"user", "io"} /\ UNCHANGED <<epc, held>>
        /\ tpc' = [tpc EXCEPT ![t] = "leaving"]
        /\ UNCHANGED <<is_running, ready_queue, wait_queue>> /\ e \in CExecs
    BY <1>9 DEF ExitCount, Calling, Phase, queues
  <2>2. /\ t \in Tasks /\ Run[e] = t /\ Run[e] # None
        /\ Run' = [Run EXCEPT ![e] = None]
        /\ UNCHANGED <<Stopped, Used>> /\ LiveTasks' = LiveTasks \ {t}
    <3>1. "leaving" \notin Live
      BY DEF Live, Unsaved, Parked
    <3>2. /\ tpc[t] \in {"user", "io"} /\ "leaving" \notin {"user", "io"}
          /\ "leaving" \in Live \cup {"leaving"}
      BY <2>1
    <3>3. \E phase : /\ phase = "leaving" /\ phase \notin {"user", "io"}
                     /\ tpc' = [tpc EXCEPT ![t] = phase]
      BY <2>1
    <3> QED
      BY <1>6, <2>1, <3>1, <3>2, <3>3, Zenon
  <2> QED
    BY <2>1, <2>2 DEF F!Exit, TasksOf
<1>10. ASSUME NEW t \in Tasks, tpc[t] \in {"absent", "counted"}
       PROVE  \A f \in Executors : epc[f] \in {"load", "run"} => TaskOf(f) # t
  BY <1>0, <1>10 DEF ExecutorsHold
<1>11. ASSUME NEW p \in Callers, NEW t \in Tasks, CreateCount(p, t),
              p = Main => mpc = "running",
              p \in Tasks => /\ tpc[p] = "user"
                             /\ \E e \in CExecs : epc[e] = "run" /\ TaskOf(e) = p
       PROVE  F!Announce(t)
  <2>1. /\ tpc[t] = "absent" /\ tpc' = [tpc EXCEPT ![t] = "counted"]
        /\ UNCHANGED <<is_running, ready_queue, wait_queue, epc, held>>
    BY <1>11 DEF CreateCount, Phase, queues
  <2>2. LiveTasks' = LiveTasks \cup {t} /\ Used' = Used \cup {t} /\ t \notin Used
    BY <1>0, <2>1 DEF TypeOK, LiveTasks, Live
  <2>3. \A f \in Executors : RunningTask(f)' = RunningTask(f)
    <3>1. ASSUME NEW f \in Executors, epc[f] \in {"load", "run"}
          PROVE  TaskOf(f) \in Tasks \ {t}
      BY <1>0, <1>10, <2>1, <3>1, HeldTask
    <3> QED
      BY <1>0, <2>1, <3>1 DEF TypeOK, RunningTask, TaskOf
  <2>4. Run' = Run /\ Stopped' = Stopped
    BY <2>1, <2>3
  <2>5. F!CallerExists
    <3>1. CASE p = Main
      BY <1>0, <1>11, <3>1 DEF StopCondition, F!CallerExists
    <3>2. CASE p \in Tasks
      <4>1. PICK e \in CExecs : epc[e] = "run" /\ TaskOf(e) = p
        BY <1>11, <3>2
      <4>2. e \in Executors /\ RunningTask(e) = p /\ p # None
        BY <1>0, <1>11, <3>2, <4>1 DEF RunningTask
      <4> QED
        BY <4>1, <4>2 DEF F!CallerExists
    <3> QED
      BY <3>1, <3>2
  <2> QED
    BY <2>1, <2>2, <2>4, <2>5 DEF F!Announce, TasksOf
<1>12. ASSUME NEW p \in Callers, CreateInsert(p)
       PROVE  \E t \in Tasks : F!Admit(t)
  <2> DEFINE t == creating[p]
  <2>1. t \in Tasks /\ tpc[t] = "counted"
    BY <1>0, <1>12 DEF CreateInsert, CreationsPending, TypeOK
  <2>2. /\ tpc' = [tpc EXCEPT ![t] = "parked"]
        /\ UNCHANGED <<is_running, wait_queue, epc, held>>
        /\ ready_queue' = Append(ready_queue, <<t, 1>>)
    BY <1>12 DEF CreateInsert, Phase
  <2>3. LiveTasks' = LiveTasks /\ Used' = Used /\ t \in LiveTasks
    BY <1>0, <2>1, <2>2 DEF TypeOK, LiveTasks, Live, Parked
  <2>4. \A f \in Executors : RunningTask(f)' = RunningTask(f) /\ RunningTask(f) # t
    <3>1. ASSUME NEW f \in Executors, epc[f] \in {"load", "run"}
          PROVE  TaskOf(f) \in Tasks \ {t}
      BY <1>0, <1>10, <2>1, <3>1, HeldTask
    <3> QED
      BY <1>0, <2>1, <2>2, <3>1 DEF TypeOK, RunningTask, TaskOf
  <2>5. Run' = Run /\ Stopped' = Stopped
    BY <2>2, <2>4
  <2>6. t \notin F!OnCpu
    <3>1. F!Executors = Executors
      BY DEF F!Executors
    <3> QED
      BY <2>4, <3>1 DEF F!OnCpu
  <2>7. t \notin F!Queued
    <3>1. /\ \A i \in DOMAIN ready_queue : ready_queue[i][1] # t
          /\ \A i \in DOMAIN wait_queue : wait_queue[i][1] # t
      BY <1>0, <2>1 DEF QueuesHoldNewest
    <3>2. /\ \A i \in DOMAIN TasksOf(ready_queue) : TasksOf(ready_queue)[i] # t
          /\ \A i \in DOMAIN TasksOf(wait_queue) : TasksOf(wait_queue)[i] # t
      BY <3>1 DEF TasksOf
    <3> QED
      BY <3>2 DEF F!Queued, F!Range
  <2>8. TasksOf(ready_queue') = Append(TasksOf(ready_queue), t)
    BY <1>0, <2>1, <2>2, TasksOfAppend
  <2>9. F!Admit(t)
    BY <2>2, <2>3, <2>5, <2>6, <2>7, <2>8 DEF F!Admit, TasksOf
  <2> QED
    BY <2>1, <2>9
<1>13. ASSUME Shutdown PROVE F!Shutdown
  <2>1. /\ is_running /\ is_running' = FALSE
        /\ UNCHANGED <<ready_queue, wait_queue, tpc, epc, held>>
    BY <1>0, <1>13 DEF Shutdown, StopCondition, queues
  <2>2. UNCHANGED <<LiveTasks, Used, Run, Stopped>>
    BY <2>1 DEF LiveTasks, RunningTask, TaskOf
  <2> QED
    BY <2>1, <2>2 DEF F!Shutdown, TasksOf
<1>14. ASSUME Join \/ FreeEntries \/ UNCHANGED vars
       PROVE  UNCHANGED F!fcfsVars
  <2>1. UNCHANGED <<is_running, ready_queue, wait_queue, tpc, epc, held>>
    BY <1>14 DEF Join, FreeEntries, vars, queues
  <2> QED
    BY <1>1, <2>1 DEF RunningTask, TaskOf
<1>15. ASSUME NEW e \in Executors,
              \/ F!Dispatch(e) \/ F!Requeue(e) \/ F!Request(e) \/ F!Exit(e) \/ F!Stop(e)
       PROVE  F!FcfsNext
  BY <1>15 DEF F!FcfsNext, F!Executors
<1>16. ASSUME NEW e \in Executors,
              \/ Register(e) \/ CheckRunning(e) \/ CheckCount(e) \/ PopEmpty(e)
              \/ Pop(e) \/ Load(e) \/ LoadUnsaved(e) \/ Retire(e)
              \/ Yield(e) \/ SwapOut(e) \/ ExitCount(e) \/ ExitLeave(e)
              \/ \E call \in IoCalls : AskIo(e, call)
              \/ \E out \in -1 .. 3 : ServeIo(e, out)
       PROVE  F!FcfsNext \/ UNCHANGED F!fcfsVars
  <2>1. ASSUME CheckCount(e) PROVE F!FcfsNext \/ UNCHANGED F!fcfsVars
    <3>1. CASE num_of_user_threads = 0
      BY <1>3, <1>15, <2>1, <3>1
    <3>2. CASE num_of_user_threads # 0
      BY <1>2, <2>1, <3>2, Zenon
    <3> QED
      BY <3>1, <3>2
  <2>2. ASSUME Yield(e) \/ \E out \in -1 .. 3 : ServeIo(e, out) PROVE F!FcfsNext
    BY <1>7, <1>15, <2>2
  <2>3. ASSUME NEW call \in IoCalls, AskIo(e, call) PROVE F!FcfsNext
    BY <1>8, <1>15, <2>3
  <2>4. ASSUME ExitCount(e) PROVE F!FcfsNext
    BY <1>9, <1>15, <2>4
  <2>5. ASSUME \/ Register(e) \/ CheckRunning(e) \/ PopEmpty(e) \/ Retire(e)
               \/ LoadUnsaved(e)
        PROVE  UNCHANGED F!fcfsVars
    <3>1. \/ Register(e) \/ CheckRunning(e) \/ PopEmpty(e) \/ Retire(e)
          \/ LoadUnsaved(e)
          \/ CheckCount(e) /\ num_of_user_threads # 0
      BY <2>5
    <3> HIDE DEF Used, Run, Stopped
    <3> QED
      BY <1>2, <3>1, Zenon
  <2>6. ASSUME Load(e) \/ SwapOut(e) \/ ExitLeave(e) PROVE UNCHANGED F!fcfsVars
    BY <1>5, <2>6, Zenon
  <2>7. ASSUME Pop(e) PROVE F!FcfsNext
    BY <1>4, <2>7
  <2> HIDE DEF Used, Run, Stopped
  <2> QED
    BY <1>16, <2>1, <2>2, <2>3, <2>4, <2>5, <2>6, <2>7
<1>17. ASSUME NEW p \in Callers, CreateInsert(p) PROVE F!FcfsNext
  BY <1>12, <1>17 DEF F!FcfsNext
<1>18. ASSUME NEW t \in Tasks, F!Announce(t) PROVE F!FcfsNext
  BY <1>18 DEF F!FcfsNext
<1>19. ASSUME Shutdown PROVE F!FcfsNext
  BY <1>13, <1>19 DEF F!FcfsNext
<1> QED
  BY <1>11, <1>14, <1>16, <1>17, <1>18, <1>19, NextCases

(* What runs on the executors of sut.c is a first-come-first-served         *)
(* schedule of the tasks that were created, up to the stop of the last      *)
(* executor.                                                                *)
THEOREM Refinement == Spec => ImplementsFcfs
<1>1. SutInv /\ [Next]_vars => [F!FcfsNext]_(F!fcfsVars)
  BY StepRefines
<1> QED
  BY Invariance, InitRefines, <1>1, PTL DEF Spec, ImplementsFcfs, F!FcfsSafety
=============================================================================
