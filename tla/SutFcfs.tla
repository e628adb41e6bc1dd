------------------------------ MODULE SutFcfs ------------------------------
(* sut.c implements first-come-first-served scheduling (module Fcfs).  A    *)
(* task is "running" for the scheduler from the moment its entry is popped  *)
(* to the moment its next entry is inserted; that insertion precedes        *)
(* swapcontext, so the task may still occupy its executor after it.         *)
EXTENDS Sut

TasksOf(queue) == [i \in DOMAIN queue |-> queue[i][1]]

RunningTask(e) == IF \/ epc[e] = "load"
                     \/ epc[e] = "run" /\ tpc[TaskOf(e)] \in {"user", "io"}
                  THEN TaskOf(e) ELSE None

F == INSTANCE Fcfs WITH
        open    <- is_running,
        live    <- LiveTasks,
        used    <- {t \in Tasks : tpc[t] # "absent"},
        ready   <- TasksOf(ready_queue),
        wait    <- TasksOf(wait_queue),
        running <- [e \in Executors |-> RunningTask(e)],
        stopped <- {e \in Executors : epc[e] = "exited"}

(* Every step of the library is a step of the scheduler or invisible to it: *)
(* entries leave each queue in the order they came, a task moves only by    *)
(* its own call, and nobody stops while a task is live.                     *)
ImplementsFcfs == F!FcfsSafety
=============================================================================
