-------------------------------- MODULE Fcfs --------------------------------
(***************************************************************************)
(* What the SUT library promises its users, without contexts, stacks or    *)
(* locks: first-come-first-served scheduling of cooperative tasks over     *)
(* some compute executors and one I/O executor.  Every live task is in     *)
(* exactly one place; a task leaves an executor only by its own call;      *)
(* executors stop only when the library was shut down and no task is left. *)
(* Module Sut shows that sut.c implements this.                            *)
(***************************************************************************)
EXTENDS Integers, Sequences, FiniteSets, Functions

CONSTANTS Tasks,      \* the user-level tasks that may ever be created
          CExecs,     \* the compute executors
          IExec,      \* the I/O executor
          None        \* no task

ASSUME FcfsAssumption == IExec \notin CExecs /\ None \notin Tasks

Executors == CExecs \cup {IExec}

VARIABLES
    open,       \* sut_shutdown has not been called
    live,       \* tasks created and not yet exited
    used,       \* tasks ever created
    ready,      \* task ready queue
    wait,       \* I/O request queue
    running,    \* the task each executor runs, or None
    stopped     \* executors that have returned

fcfsVars == <<open, live, used, ready, wait, running, stopped>>

OnCpu   == {running[e] : e \in Executors} \ {None}
Queued  == Range(ready) \cup Range(wait)

FcfsInit ==
    /\ open = TRUE
    /\ live = {} /\ used = {}
    /\ ready = <<>> /\ wait = <<>>
    /\ running = [e \in Executors |-> None]
    /\ stopped = {}

-----------------------------------------------------------------------------
(* sut_create: the task is counted first and becomes runnable later.  The   *)
(* caller is main, before it shuts down, or a task on a compute executor.  *)
CallerExists == open \/ \E e \in CExecs : running[e] # None

Announce(t) ==
    /\ CallerExists
    /\ t \notin used
    /\ live' = live \cup {t} /\ used' = used \cup {t}
    /\ UNCHANGED <<open, ready, wait, running, stopped>>

AdmitAgain(t) ==                                                  \* mutant
    /\ t \in live /\ t \notin OnCpu
    /\ ready' = Append(ready, t)
    /\ UNCHANGED <<open, live, used, wait, running, stopped>>

Admit(t) ==
    /\ t \in live /\ t \notin Queued /\ t \notin OnCpu
    /\ ready' = Append(ready, t)
    /\ UNCHANGED <<open, live, used, wait, running, stopped>>

(* An idle compute executor takes the oldest ready task.                    *)
Dispatch(e) ==
    /\ e \in CExecs /\ e \notin stopped
    /\ running[e] = None /\ ready # <<>>
    /\ running' = [running EXCEPT ![e] = Head(ready)]
    /\ ready' = Tail(ready)
    /\ UNCHANGED <<open, live, used, wait, stopped>>

(* The idle I/O executor takes the oldest request.                          *)
DispatchIo ==
    /\ IExec \notin stopped
    /\ running[IExec] = None /\ wait # <<>>
    /\ running' = [running EXCEPT ![IExec] = Head(wait)]
    /\ wait' = Tail(wait)
    /\ UNCHANGED <<open, live, used, ready, stopped>>

RequeueFirst(e) ==                                                \* mutant
    /\ running[e] # None
    /\ ready' = <<running[e]>> \o ready
    /\ running' = [running EXCEPT ![e] = None]
    /\ UNCHANGED <<open, live, used, wait, stopped>>

(* sut_yield, and the second half of an I/O call.                           *)
Requeue(e) ==
    /\ running[e] # None
    /\ ready' = Append(ready, running[e])
    /\ running' = [running EXCEPT ![e] = None]
    /\ UNCHANGED <<open, live, used, wait, stopped>>

(* The first half of sut_open, sut_read, sut_write and sut_close.           *)
Request(e) ==
    /\ e \in CExecs /\ running[e] # None
    /\ wait' = Append(wait, running[e])
    /\ running' = [running EXCEPT ![e] = None]
    /\ UNCHANGED <<open, live, used, ready, stopped>>

(* sut_exit                                                                 *)
Exit(e) ==
    /\ e \in CExecs /\ running[e] # None
    /\ live' = live \ {running[e]}
    /\ running' = [running EXCEPT ![e] = None]
    /\ UNCHANGED <<open, used, ready, wait, stopped>>

(* sut_shutdown                                                             *)
Shutdown ==
    /\ open
    /\ open' = FALSE
    /\ UNCHANGED <<live, used, ready, wait, running, stopped>>

StopEarly(e) ==                                                   \* mutant
    /\ ~open /\ e \notin stopped
    /\ stopped' = stopped \cup {e}
    /\ UNCHANGED <<open, live, used, ready, wait, running>>

Stop(e) ==
    /\ ~open /\ live = {} /\ e \notin stopped
    /\ stopped' = stopped \cup {e}
    /\ UNCHANGED <<open, live, used, ready, wait, running>>

FcfsNext ==
    \/ \E t \in Tasks : Announce(t) \/ Admit(t)
    \/ \E e \in Executors : \/ Dispatch(e) \/ Requeue(e)
                            \/ Request(e)  \/ Exit(e) \/ Stop(e)
    \/ DispatchIo
    \/ Shutdown

FcfsSafety == FcfsInit /\ [][FcfsNext]_fcfsVars

(* Executors keep polling (their loops never block), main calls            *)
(* sut_shutdown and finishes its sut_create calls, a running task          *)
(* eventually makes a scheduling call (scheduling is cooperative: without  *)
(* that, the README and every test program would be starved), and an       *)
(* admitted creation completes.                                            *)
Release(e) == Requeue(e) \/ Request(e) \/ Exit(e)

FcfsFairness ==
    /\ \A e \in CExecs : WF_fcfsVars(Dispatch(e)) /\ WF_fcfsVars(Release(e))
    /\ WF_fcfsVars(DispatchIo) /\ WF_fcfsVars(Requeue(IExec))
    /\ \A t \in Tasks : WF_fcfsVars(Admit(t))
    /\ \A e \in Executors : WF_fcfsVars(Stop(e))
    /\ WF_fcfsVars(Shutdown)

FcfsSpec == FcfsSafety /\ FcfsFairness

-----------------------------------------------------------------------------
(* A task that is queued sits at one position of one queue and on no        *)
(* executor, and no two executors run the same task: the promise that a     *)
(* task has one thread of control (the README's two executors that "work    *)
(* at the same time" must never work on the same task).                     *)
OnePlace ==
    /\ IsInjective(ready) /\ IsInjective(wait)
    /\ Range(ready) \cap Range(wait) = {}
    /\ Queued \cap OnCpu = {}
    /\ \A e, f \in Executors : running[e] = running[f] /\ running[e] # None => e = f

(* Only live tasks are queued or running, so an executor that stops leaves  *)
(* nothing behind; and nobody creates a task afterwards.                    *)
PlacedTasksAreLive ==
    /\ Queued \cup OnCpu \subseteq live
    /\ stopped # {} => ~open /\ live = {}

(* No starvation: with tasks that keep yielding for ever, every task in the *)
(* ready queue still gets an executor, and every I/O request the I-EXEC     *)
(* (sut_yield puts the caller behind everyone who is already waiting).      *)
EveryReadyTaskRuns ==
    \A t \in Tasks :
        /\ t \in Range(ready) ~> \E e \in CExecs : running[e] = t
        /\ t \in Range(wait)  ~> running[IExec] = t
=============================================================================
