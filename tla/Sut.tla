-------------------------------- MODULE Sut --------------------------------
(***************************************************************************)
(* The simple user-level threading library, Project 2/Codes/sut.c: main,   *)
(* NumCEXEC compute executors (C_EXEC) and one I/O executor (I_EXEC) are   *)
(* kernel threads; tasks are ucontexts that the executors swap into.       *)
(*                                                                         *)
(* A context is named <<t, n>>, the n-th context allocated for task t, and *)
(* stands for its queue_entry as well: each context gets one entry.  A     *)
(* critical section that only touches the data its mutex protects is one   *)
(* action.  malloc is assumed to succeed, as the code assumes.             *)
(***************************************************************************)
EXTENDS Integers, Sequences, FiniteSets, Functions

CONSTANTS NumCEXEC,      \* num_of_CEXEC
          Tasks,         \* bound: the tasks that may be created
          MaxContexts,   \* bound: contexts allocated per task
          IoCalls,       \* the I/O calls the tasks use
          Main,          \* the main thread, as a caller of sut_create
          None           \* NULL

ASSUME SutAssumption ==
    /\ NumCEXEC \in 1 .. 2
    /\ IsFiniteSet(Tasks)
    /\ MaxContexts \in Nat \ {0}
    /\ IoCalls \subseteq {"open", "read", "write", "close"}
    /\ Main \notin Tasks
    /\ None \notin Tasks /\ None \notin Tasks \X Nat

IExec     == 0
CExecs    == 1 .. NumCEXEC
Executors == 0 .. NumCEXEC
Callers   == Tasks \cup {Main}
Contexts  == Tasks \X Nat

VARIABLES
    is_running,            \* cleared by sut_shutdown
    num_of_user_threads,
    thread_array,          \* the registered executors, in order
    ready_queue,
    wait_queue,
    entry_created_queue,   \* entries already run, kept to be freed
    mpc,                   \* main: "running", "joining", "freeing", "closed"
    epc,                   \* where each executor is in its loop
    held,                  \* next_task of each executor
    tpc,                   \* where each task is
    ctxs,                  \* contexts allocated for each task
    creating,              \* the task a caller of sut_create has counted
    answer,                \* what the last I/O call gave the task
    undefined              \* the first undefined behaviour, or "no"

vars     == <<is_running, num_of_user_threads, thread_array, ready_queue,
              wait_queue, entry_created_queue, mpc, epc, held, tpc, ctxs,
              creating, answer, undefined>>

queues   == <<ready_queue, wait_queue, entry_created_queue>>
control  == <<is_running, mpc, undefined>>
registry == <<num_of_user_threads, thread_array>>
tasks    == <<tpc, ctxs, creating, answer>>

(* Where a task is.                                                         *)
(*   absent    not created                                                 *)
(*   counted   in num_of_user_threads, not yet in the ready queue          *)
(*   parked    its newest context holds its registers; user code is next   *)
(*   parkedIo  the same, and the system call of an I/O call is next        *)
(*   user      runs on a C-EXEC, in user code                              *)
(*   yielded, asked   its newest context is in the ready (wait) queue with *)
(*             the registers getcontext saved; swapcontext has not run     *)
(*   io        runs on the I-EXEC, before the system call                  *)
(*   answered  its newest context is in the ready queue straight from      *)
(*             malloc; swapcontext has not run                             *)
(*   leaving   has decremented num_of_user_threads, before setcontext      *)
(*   done      has left its executor for good                              *)
Parked  == {"parked", "parkedIo"}
Unsaved == {"yielded", "asked", "answered"}
OnCpu   == {"user", "io", "leaving"} \cup Unsaved
Live    == {"counted", "user", "io"} \cup Parked \cup Unsaved
Phases  == {"absent", "done"} \cup Live \cup OnCpu

(* Results.  An open gives a descriptor or -1; of a read only its size      *)
(* matters, 2 standing for every count above 1; the other calls return     *)
(* nothing.                                                                 *)
Outcomes(call) == CASE call = "open" -> {-1, 3}
                    [] call = "read" -> {-1, 0, 1, 2}
                    [] OTHER         -> {0}
Returned(call, out) == IF call = "read" THEN (IF out > 1 THEN "buffer" ELSE "NULL")
                       ELSE IF call = "open" THEN (IF out < 0 THEN "error" ELSE "fd")
                       ELSE "void"
NoAnswer == [call |-> "none", out |-> 0, returned |-> "void"]
Answers  == [call     : IoCalls \cup {"none"},
             out      : -1 .. 3,
             returned : {"void", "fd", "error", "buffer", "NULL"}]

TypeOK ==
    /\ is_running \in BOOLEAN
    /\ num_of_user_threads \in Nat
    /\ thread_array \in Seq(Executors)
    /\ ready_queue \in Seq(Contexts)
    /\ wait_queue \in Seq(Contexts)
    /\ entry_created_queue \in Seq(Contexts)
    /\ mpc \in {"running", "joining", "freeing", "closed"}
    /\ epc \in [Executors -> {"start", "check", "checkCount", "pop", "load",
                              "run", "retire", "exited"}]
    /\ held \in [Executors -> Contexts \cup {None}]
    /\ tpc \in [Tasks -> Phases]
    /\ ctxs \in [Tasks -> Nat]
    /\ creating \in [Callers -> Tasks \cup {None}]
    /\ answer \in [Tasks -> Answers]
    /\ undefined \in {"no", "shared_stack", "uninit_context"}

(* sut_init has returned: the queues are empty, the threads are created.    *)
Init ==
    /\ is_running = TRUE
    /\ num_of_user_threads = 0
    /\ thread_array = <<>>
    /\ ready_queue = <<>> /\ wait_queue = <<>> /\ entry_created_queue = <<>>
    /\ mpc = "running"
    /\ epc = [e \in Executors |-> "start"]
    /\ held = [e \in Executors |-> None]
    /\ tpc = [t \in Tasks |-> "absent"]
    /\ ctxs = [t \in Tasks |-> 0]
    /\ creating = [p \in Callers |-> None]
    /\ answer = [t \in Tasks |-> NoAnswer]
    /\ undefined = "no"

-----------------------------------------------------------------------------
(* The task an executor's next_task belongs to.                             *)
TaskOf(e) == held[e][1]

(* get_parent_thread: the executor whose descriptor carries its thread id;  *)
(* the registered descriptors precede the NULL ones.                        *)
get_parent_thread(e) == IF e \in Range(thread_array) THEN e ELSE None

(* The queue an executor of each kind serves.                               *)
QueueOf(e) == IF e = IExec THEN wait_queue ELSE ready_queue

LastInFirst(q, c) == <<c>> \o q                                   \* mutant
InsertTwice(q, c) == q \o <<c, c>>                                \* mutant
queue_insert_tail(q, c) == Append(q, c)
Peeked(q) == q                                                    \* mutant
Popped(q) == Tail(q)

Goto(e, label) == epc' = [epc EXCEPT ![e] = label]
Phase(t, p)    == tpc' = [tpc EXCEPT ![t] = p]

-----------------------------------------------------------------------------
(* C_EXEC and I_EXEC: the loops.                                            *)

(* The descriptor goes into the first free slot, under both locks.          *)
InFirstSlot(e) == <<e>>                                           \* mutant
WithDescriptor(e) == Append(thread_array, e)

Register(e) ==
    /\ epc[e] = "start"
    /\ thread_array' = WithDescriptor(e)
    /\ Goto(e, "check")
    /\ UNCHANGED <<control, num_of_user_threads, queues, held, tasks>>

(* The exit test reads is_running and then num_of_user_threads, with no     *)
(* lock.                                                                    *)
CheckRunning(e) ==
    /\ epc[e] = "check"
    /\ Goto(e, IF is_running THEN "pop" ELSE "checkCount")
    /\ UNCHANGED <<control, registry, queues, held, tasks>>

Always     == TRUE                                                \* mutant
OneLeft    == num_of_user_threads = 1                             \* mutant
NoTaskLeft == num_of_user_threads = 0

CheckCount(e) ==
    /\ epc[e] = "checkCount"
    /\ Goto(e, IF NoTaskLeft THEN "exited" ELSE "pop")
    /\ UNCHANGED <<control, registry, queues, held, tasks>>

(* queue_pop_head under the queue's lock; an empty queue is polled again    *)
(* after a sleep.                                                           *)
PopEmpty(e) ==
    /\ epc[e] = "pop" /\ QueueOf(e) = <<>>
    /\ Goto(e, "check")
    /\ UNCHANGED <<control, registry, queues, held, tasks>>

Pop(e) ==
    /\ epc[e] = "pop" /\ QueueOf(e) # <<>>
    /\ held' = [held EXCEPT ![e] = Head(QueueOf(e))]
    /\ IF e = IExec
         THEN wait_queue' = Popped(wait_queue) /\ UNCHANGED ready_queue
         ELSE ready_queue' = Popped(ready_queue) /\ UNCHANGED wait_queue
    /\ Goto(e, "load")
    /\ UNCHANGED <<control, registry, entry_created_queue, tasks>>

(* swapcontext(current_thread, next_context) into a context that holds the  *)
(* registers of a task that no executor is running.                         *)
Load(e) ==
    /\ epc[e] = "load" /\ tpc[TaskOf(e)] \in Parked
    /\ Phase(TaskOf(e), IF tpc[TaskOf(e)] = "parked" THEN "user" ELSE "io")
    /\ Goto(e, "run")
    /\ UNCHANGED <<control, registry, queues, held, ctxs, creating, answer>>

(* The same swapcontext while the publishing executor has not reached its   *)
(* own: with the registers of getcontext, two kernel threads now execute    *)
(* on one stack; with a context nothing was written to, the jump goes       *)
(* anywhere.  Nothing the code does after that is defined.                  *)
LoadUnsaved(e) ==
    /\ epc[e] = "load" /\ tpc[TaskOf(e)] \in Unsaved
    /\ undefined' = IF tpc[TaskOf(e)] = "answered" THEN "uninit_context"
                                                   ELSE "shared_stack"
    /\ UNCHANGED <<is_running, registry, queues, mpc, epc, held, tasks>>

(* Back from the task: the entry is kept until sut_shutdown frees it.       *)
NotRetired(e) == entry_created_queue                              \* mutant
WithRetired(e) == queue_insert_tail(entry_created_queue, held[e])

Retire(e) ==
    /\ epc[e] = "retire"
    /\ entry_created_queue' = WithRetired(e)
    /\ held' = [held EXCEPT ![e] = None]
    /\ Goto(e, "check")
    /\ UNCHANGED <<control, registry, ready_queue, wait_queue, tasks>>

-----------------------------------------------------------------------------
(* sut_create, by main or by a running task: count, then build the context  *)
(* and insert it.                                                           *)
(* The task on e is between calls.                                          *)
Calling(e) == /\ e \in CExecs
              /\ epc[e] = "run" /\ tpc[TaskOf(e)] = "user"
              /\ creating[TaskOf(e)] = None

Uncounted == num_of_user_threads                                  \* mutant
OneMore   == num_of_user_threads + 1
OneLess   == num_of_user_threads - 1

CreateCount(p, t) ==
    /\ tpc[t] = "absent"
    /\ num_of_user_threads' = OneMore
    /\ Phase(t, "counted")
    /\ creating' = [creating EXCEPT ![p] = t]
    /\ UNCHANGED <<control, thread_array, queues, epc, held, ctxs, answer>>

CreateInsert(p) ==
    LET t == creating[p] IN
    /\ t # None
    /\ ctxs' = [ctxs EXCEPT ![t] = 1]
    /\ ready_queue' = queue_insert_tail(ready_queue, <<t, 1>>)
    /\ Phase(t, "parked")
    /\ creating' = [creating EXCEPT ![p] = None]
    /\ UNCHANGED <<control, registry, wait_queue, entry_created_queue, epc,
                   held, answer>>

MainCreates(t) == /\ mpc = "running" /\ creating[Main] = None
                  /\ CreateCount(Main, t)
MainInserts    == CreateInsert(Main)

TaskCreates(e, t) == Calling(e) /\ CreateCount(TaskOf(e), t)
TaskInserts(e)    == /\ epc[e] = "run" /\ tpc[TaskOf(e)] = "user"
                     /\ CreateInsert(TaskOf(e))

(* A fresh context for task t, named by the count of those before it.       *)
NewContext(t) == <<t, ctxs[t] + 1>>
Allocate(t)   == ctxs' = [ctxs EXCEPT ![t] = @ + 1]

(* sut_yield up to queue_insert_tail.                                       *)
Yield(e) ==
    LET t == TaskOf(e) IN
    /\ Calling(e) /\ ctxs[t] < MaxContexts
    /\ Allocate(t)
    /\ ready_queue' = queue_insert_tail(ready_queue, NewContext(t))
    /\ Phase(t, "yielded")
    /\ UNCHANGED <<control, registry, wait_queue, entry_created_queue, epc,
                   held, creating, answer>>

(* sut_open, sut_read, sut_write or sut_close up to the first               *)
(* queue_insert_tail.                                                       *)
AskIo(e, call) ==
    LET t == TaskOf(e) IN
    /\ Calling(e) /\ ctxs[t] + 1 < MaxContexts
    /\ Allocate(t)
    /\ wait_queue' = queue_insert_tail(wait_queue, NewContext(t))
    /\ Phase(t, "asked")
    /\ answer' = [answer EXCEPT ![t] = [call |-> call, out |-> 0,
                                       returned |-> "void"]]
    /\ UNCHANGED <<control, registry, ready_queue, entry_created_queue, epc,
                   held, creating>>

(* The I-EXEC resumes the call: it makes the system call, then builds a     *)
(* second context without getcontext and inserts it.                        *)
ServeIo(e, out) ==
    LET t == TaskOf(e)
        call == answer[t].call IN
    /\ e = IExec /\ epc[e] = "run" /\ tpc[t] = "io"
    /\ out \in Outcomes(call)
    /\ answer' = [answer EXCEPT ![t] = [call |-> call, out |-> out,
                                       returned |-> Returned(call, out)]]
    /\ Allocate(t)
    /\ ready_queue' = queue_insert_tail(ready_queue, NewContext(t))
    /\ Phase(t, "answered")
    /\ UNCHANGED <<control, registry, wait_queue, entry_created_queue, epc,
                   held, creating>>

(* swapcontext(current_context, parent_context) at the end of the calls     *)
(* above: the registers are saved, then the executor's loop goes on.        *)
Unswapped(t) == tpc[t]                                            \* mutant
Saved(t) == IF tpc[t] = "asked" THEN "parkedIo" ELSE "parked"

SwapOut(e) ==
    LET t == TaskOf(e) IN
    /\ epc[e] = "run" /\ tpc[t] \in Unsaved
    /\ Phase(t, Saved(t))
    /\ Goto(get_parent_thread(e), "retire")
    /\ UNCHANGED <<control, registry, queues, held, ctxs, creating, answer>>

(* sut_exit: the count goes down first, then setcontext leaves the task.    *)
ExitCount(e) ==
    /\ Calling(e)
    /\ num_of_user_threads' = OneLess
    /\ Phase(TaskOf(e), "leaving")
    /\ UNCHANGED <<control, thread_array, queues, epc, held, ctxs, creating,
                   answer>>

ExitLeave(e) ==
    /\ epc[e] = "run" /\ tpc[TaskOf(e)] = "leaving"
    /\ Phase(TaskOf(e), "done")
    /\ Goto(get_parent_thread(e), "retire")
    /\ UNCHANGED <<control, registry, queues, held, ctxs, creating, answer>>

-----------------------------------------------------------------------------
(* sut_shutdown.  kill_all_threads clears is_running and joins every        *)
(* executor; then the entries that ran are popped and freed.                *)
Shutdown ==
    /\ mpc = "running" /\ creating[Main] = None
    /\ is_running' = FALSE
    /\ mpc' = "joining"
    /\ UNCHANGED <<registry, queues, epc, held, tasks, undefined>>

Join ==
    /\ mpc = "joining"
    /\ \A e \in Executors : epc[e] = "exited"
    /\ mpc' = "freeing"
    /\ UNCHANGED <<is_running, registry, queues, epc, held, tasks, undefined>>

FreeEntries ==
    /\ mpc = "freeing"
    /\ entry_created_queue' = <<>>
    /\ mpc' = "closed"
    /\ UNCHANGED <<is_running, registry, ready_queue, wait_queue, epc, held,
                   tasks, undefined>>

-----------------------------------------------------------------------------
LoopStep(e) == \/ Register(e) \/ CheckRunning(e) \/ CheckCount(e)
               \/ PopEmpty(e) \/ Pop(e) \/ Load(e) \/ LoadUnsaved(e)
               \/ Retire(e)

TaskStep(e) == \/ \E t \in Tasks : TaskCreates(e, t)
               \/ TaskInserts(e)
               \/ Yield(e)
               \/ \E call \in IoCalls : AskIo(e, call)
               \/ \E out \in -1 .. 3 : ServeIo(e, out)
               \/ SwapOut(e)
               \/ ExitCount(e) \/ ExitLeave(e)

MainStep == MainInserts \/ Shutdown \/ Join \/ FreeEntries

(* The process has ended, or nothing more can be said of it.                *)
Ended == mpc = "closed" \/ undefined # "no"

Next == \/ /\ undefined = "no"
           /\ \/ \E e \in Executors : LoopStep(e) \/ TaskStep(e)
              \/ \E t \in Tasks : MainCreates(t)
              \/ MainStep
        \/ Ended /\ UNCHANGED vars

(* The kernel schedules every thread.  A task makes finitely many calls     *)
(* (MaxContexts) and then exits, as the programs test1.c to test5.c do;     *)
(* main calls sut_shutdown.                                                 *)
Fairness ==
    /\ \A e \in Executors :
          WF_vars(undefined = "no" /\ (LoopStep(e) \/ TaskStep(e)))
    /\ WF_vars(undefined = "no" /\ MainStep)

Spec == Init /\ [][Next]_vars /\ Fairness

-----------------------------------------------------------------------------
LiveTasks == {t \in Tasks : tpc[t] \in Live}
HeldBy(e) == IF held[e] = None THEN {} ELSE {held[e]}
Allocated == {c \in Tasks \X (1 .. MaxContexts) : c[2] <= ctxs[c[1]]}

(* num_of_user_threads, which two loops read without its lock to decide     *)
(* whether to stop, is at every moment the number of tasks that were        *)
(* created and have not called sut_exit.                                    *)
CountIsLive == num_of_user_threads = Cardinality(LiveTasks)

(* An executor stops only when there is nothing left to do for anyone: no   *)
(* task is live or half created, and both queues are empty.  A task created *)
(* or requeued late would otherwise never run.                              *)
StopsOnlyWhenIdle ==
    \A e \in Executors : epc[e] = "exited" =>
        /\ LiveTasks = {}
        /\ ready_queue = <<>> /\ wait_queue = <<>>
        /\ \A p \in Callers : creating[p] = None

(* Every context ever allocated is in exactly one place: a queue, the hands *)
(* of one executor, or the entries to be freed.  So none is run twice, and  *)
(* sut_shutdown frees each context and stack once and leaks none, although  *)
(* it frees only entry_created_queue.                                       *)
EveryContextInOnePlace ==
    /\ IsInjective(ready_queue \o wait_queue \o entry_created_queue)
    /\ \A e, f \in Executors : e # f => HeldBy(e) \cap HeldBy(f) = {}
    /\ \A e \in Executors : HeldBy(e) \cap Range(ready_queue \o wait_queue
                                               \o entry_created_queue) = {}
    /\ mpc = "freeing" => Range(entry_created_queue) = Allocated

(* Whoever looks a descriptor up finds it: an executor that runs a task is  *)
(* registered, so get_parent_thread meets no NULL slot before its own; and  *)
(* sut_shutdown, which dereferences all num_of_CEXEC + 1 slots, finds them  *)
(* filled, by different executors.                                          *)
DescriptorsReady ==
    /\ \A e \in Executors : epc[e] = "run" => get_parent_thread(e) = e
    /\ mpc = "freeing" => Range(thread_array) = Executors
    /\ IsInjective(thread_array)

(* A task has one thread of control: an executor gets hold of a task only   *)
(* after the one that ran it has given it up by inserting its next context. *)
(* Two have it at once only between that insertion and swapcontext, one     *)
(* about to switch to it and the other about to leave it.                   *)
HasTask(e) == epc[e] \in {"load", "run"}
OneExecutorPerTask ==
    \A e, f \in Executors :
        e # f /\ HasTask(e) /\ HasTask(f) /\ TaskOf(e) = TaskOf(f) =>
            tpc[TaskOf(e)] \in Unsaved /\ epc[e] # epc[f]

(* An executor switches only into a context that holds a task's registers.  *)
(* The comments in sut.c say a task first gives the control to its parent   *)
(* and the other executor takes the rest.                                   *)
OnlySavedContextsAreLoaded == undefined = "no"

(* The half of it about running tasks: no executor continues from the       *)
(* registers getcontext saved, on the stack of a task that another executor *)
(* is still running (in sut_yield, or in the first half of an I/O call).    *)
NoSharedStack == undefined # "shared_stack"

(* The half about I/O: the context inserted after the system call is filled *)
(* before a C-EXEC switches to it.                                          *)
NoEmptyContext == undefined # "uninit_context"

(* sut_shutdown returns: every executor notices that no task is left.       *)
ShutdownReturns == <>(mpc = "closed")

(* The same for programs with I/O, which may run into undefined behaviour.  *)
ShutdownReturnsIfDefined == <>(mpc = "closed" \/ undefined # "no")

-----------------------------------------------------------------------------
(* The inductive invariant behind the theorems of module SutProofs.         *)

IsNewest(c) == c[2] = ctxs[c[1]]

(* What is in the queues: newest contexts, of tasks that wait to go on      *)
(* there, each once.                                                        *)
QueuesHoldNewest ==
    /\ \A i \in DOMAIN ready_queue :
          /\ IsNewest(ready_queue[i])
          /\ tpc[ready_queue[i][1]] \in {"parked", "yielded", "answered"}
    /\ \A i \in DOMAIN wait_queue :
          /\ IsNewest(wait_queue[i])
          /\ tpc[wait_queue[i][1]] \in {"parkedIo", "asked"}
    /\ IsInjective(ready_queue)
    /\ IsInjective(wait_queue)

(* What executors hold: nothing in the loop; at "load" the newest context   *)
(* of a task that is in no queue; at "run" a task on this processor.        *)
ExecutorsHold ==
    /\ \A e \in Executors : held[e] # None <=> epc[e] \in {"load", "run", "retire"}
    /\ \A e \in Executors : epc[e] = "load" =>
          /\ IsNewest(held[e])
          /\ tpc[TaskOf(e)] \in IF e = IExec THEN {"parkedIo", "asked"}
                                ELSE {"parked", "yielded", "answered"}
          /\ \A i \in DOMAIN ready_queue : ready_queue[i] # held[e]
          /\ \A i \in DOMAIN wait_queue : wait_queue[i] # held[e]
    /\ \A e \in Executors : epc[e] = "run" =>
          tpc[TaskOf(e)] \in IF e = IExec THEN {"io", "answered"}
                            ELSE {"user", "leaving", "yielded", "asked"}
    /\ \A e, f \in Executors :
          epc[e] = epc[f] /\ epc[e] \in {"load", "run"} /\ TaskOf(e) = TaskOf(f)
              => e = f

(* Who is creating what: only a running task, or main before sut_shutdown,  *)
(* is inside sut_create, for a task nobody else is creating.                *)
CreationsPending ==
    /\ \A p \in Callers : creating[p] # None => tpc[creating[p]] = "counted"
    /\ \A p, q \in Callers : creating[p] = creating[q] /\ creating[p] # None => p = q
    /\ \A p \in Tasks : creating[p] # None => tpc[p] = "user"
    /\ creating[Main] # None => mpc = "running"

(* The exit test only passes after sut_shutdown with no live task, and from *)
(* then on there is nobody to create one.                                   *)
StopCondition ==
    /\ is_running <=> mpc = "running"
    /\ \A e \in Executors : epc[e] \in {"checkCount", "exited"} => ~is_running
    /\ \A e \in Executors : epc[e] = "exited" => num_of_user_threads = 0
    /\ mpc \in {"freeing", "closed"} => \A e \in Executors : epc[e] = "exited"

(* An executor has one descriptor, from its first step on.                  *)
Registered ==
    /\ \A e \in Executors : e \in Range(thread_array) <=> epc[e] # "start"
    /\ IsInjective(thread_array)

(* Each context is in one place, a context being allocated if and only if   *)
(* it has one, until sut_shutdown frees them; with the numbers TLC bounds.  *)
Filed == Range(ready_queue) \cup Range(wait_queue) \cup Range(entry_created_queue)
Placed == Filed \cup ({held[e] : e \in Executors} \ {None})

ContextsPlaced ==
    /\ IsInjective(entry_created_queue)
    /\ Range(entry_created_queue) \cap (Range(ready_queue) \cup Range(wait_queue)) = {}
    /\ Range(ready_queue) \cap Range(wait_queue) = {}
    /\ \A e \in Executors : held[e] # None => held[e] \notin Filed
    /\ \A e, f \in Executors : held[e] = held[f] /\ held[e] # None => e = f
    /\ \A c \in Placed : c[2] \in 1 .. ctxs[c[1]]
    /\ mpc # "closed" => \A t \in Tasks : \A n \in 1 .. ctxs[t] : <<t, n>> \in Placed

ContextsBounded ==
    \A t \in Tasks :
        /\ ctxs[t] <= MaxContexts
        /\ tpc[t] \in {"asked", "parkedIo", "io"} => ctxs[t] < MaxContexts
        /\ tpc[t] \in {"absent", "counted"} => ctxs[t] = 0

SutInv == /\ TypeOK /\ CountIsLive /\ QueuesHoldNewest /\ ExecutorsHold
          /\ CreationsPending /\ StopCondition /\ Registered
=============================================================================
