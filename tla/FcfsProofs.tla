----------------------------- MODULE FcfsProofs -----------------------------
(* The promise of the threading library is consistent: whatever the tasks,  *)
(* the executors and the order of their calls, a task is in one place and   *)
(* executors stop only when none is left.                                   *)
EXTENDS Fcfs, QueueLemmas

USE FcfsAssumption DEF Executors

FcfsTypeOK ==
    /\ ready \in Seq(Tasks) /\ wait \in Seq(Tasks)
    /\ running \in [Executors -> Tasks \cup {None}]

FcfsInv == FcfsTypeOK /\ OnePlace /\ PlacedTasksAreLive

-----------------------------------------------------------------------------
(* The invariant in the terms of these lemmas.                              *)
LEMMA InPlace ==
    OnePlace <=>
        /\ IsInjective(ready) /\ IsInjective(wait)
        /\ Range(ready) \cap Range(wait) = {}
        /\ \A e \in Executors : running[e] # None => running[e] \notin Queued
        /\ \A e, f \in Executors : running[e] = running[f] /\ running[e] # None => e = f
  BY DEF OnePlace, OnCpu

-----------------------------------------------------------------------------
LEMMA FcfsInitInv == FcfsInit => FcfsInv
<1> SUFFICES ASSUME FcfsInit PROVE FcfsInv
  OBVIOUS
<1>1. ready = <<>> /\ wait = <<>> /\ running = [e \in Executors |-> None]
  BY DEF FcfsInit
<1>2. Range(ready) = {} /\ Range(wait) = {} /\ OnCpu = {}
  BY <1>1 DEF Range, OnCpu
<1>3. FcfsTypeOK
  BY <1>1 DEF FcfsTypeOK
<1>4. OnePlace
  BY <1>1, <1>2 DEF OnePlace, Queued, IsInjective
<1>5. PlacedTasksAreLive
  BY <1>2 DEF FcfsInit, PlacedTasksAreLive, Queued
<1> QED
  BY <1>3, <1>4, <1>5 DEF FcfsInv
-----------------------------------------------------------------------------
(* What a step does to the queues and to the executors is enough to know    *)
(* that each task stays in one place: an executor e gives its task up, to   *)
(* the end of a queue or for good, or takes one from the head of a queue.   *)
LEMMA StepInv == FcfsInv /\ [FcfsNext]_fcfsVars => FcfsInv'
<1> SUFFICES ASSUME FcfsInv, [FcfsNext]_fcfsVars PROVE FcfsInv'
  OBVIOUS
<1>0. /\ FcfsTypeOK /\ OnePlace /\ PlacedTasksAreLive
      /\ IsInjective(ready) /\ IsInjective(wait) /\ Range(ready) \cap Range(wait) = {}
      /\ \A e \in Executors : running[e] # None =>
            running[e] \notin Range(ready) /\ running[e] \notin Range(wait)
      /\ \A e, f \in Executors : running[e] = running[f] /\ running[e] # None => e = f
  BY InPlace DEF FcfsInv, Queued
<1>1. /\ Range(ready) \subseteq live /\ Range(wait) \subseteq live
      /\ \A e \in Executors : running[e] # None => running[e] \in live
      /\ stopped # {} => ~open /\ live = {}
  BY <1>0 DEF PlacedTasksAreLive, Queued, OnCpu
(* The goal, in the same words.                                             *)
<1>2. ASSUME FcfsTypeOK',
             IsInjective(ready'), IsInjective(wait'), Range(ready') \cap Range(wait') = {},
             \A e \in Executors : running'[e] # None =>
                 /\ running'[e] \notin Range(ready') /\ running'[e] \notin Range(wait')
                 /\ running'[e] \in live',
             \A e, f \in Executors :
                 running'[e] = running'[f] /\ running'[e] # None => e = f,
             Range(ready') \subseteq live', Range(wait') \subseteq live',
             stopped' # {} => ~open' /\ live' = {}
      PROVE  FcfsInv'
  <2>1. /\ OnePlace' <=> /\ IsInjective(ready') /\ IsInjective(wait')
                         /\ Range(ready') \cap Range(wait') = {}
                         /\ \A e \in Executors : running'[e] # None =>
                               running'[e] \notin Range(ready') \cup Range(wait')
                         /\ \A e, f \in Executors :
                               running'[e] = running'[f] /\ running'[e] # None => e = f
    BY DEF OnePlace, OnCpu, Queued
  <2>2. PlacedTasksAreLive'
    BY <1>2 DEF PlacedTasksAreLive, Queued, OnCpu
  <2> QED
    BY <1>2, <2>1, <2>2 DEF FcfsInv
<1>3. ASSUME NEW t \in Tasks, Announce(t) PROVE FcfsInv'
  <2>1. UNCHANGED <<ready, wait, running, stopped, open>> /\ live' = live \cup {t}
    BY <1>3 DEF Announce
  <2>2. stopped = {}
    <3>1. ASSUME stopped # {} PROVE FALSE
      <4>1. ~open /\ live = {}
        BY <1>1, <3>1
      <4>2. PICK e \in CExecs : running[e] # None
        BY <1>3, <4>1 DEF Announce, CallerExists
      <4> QED
        BY <1>1, <4>1, <4>2
    <3> QED
      BY <3>1
  <2>3. FcfsTypeOK'
    BY <1>0, <2>1 DEF FcfsTypeOK
  <2> QED
    BY <1>0, <1>1, <1>2, <2>1, <2>2, <2>3
<1>4. ASSUME NEW t \in Tasks, Admit(t) PROVE FcfsInv'
  <2>1. /\ t \in live /\ t \notin Range(ready) /\ t \notin Range(wait)
        /\ \A e \in Executors : running[e] # None => running[e] # t
        /\ ready' = Append(ready, t)
        /\ UNCHANGED <<wait, running, stopped, open, live>>
    BY <1>4 DEF Admit, Queued, OnCpu
  <2>2. /\ ready' \in Seq(Tasks) /\ Range(ready') = Range(ready) \cup {t}
        /\ IsInjective(ready')
    BY <1>0, <2>1, AppendElements DEF FcfsTypeOK
  <2>3. FcfsTypeOK'
    BY <1>0, <2>1, <2>2 DEF FcfsTypeOK
  <2> QED
    BY <1>0, <1>1, <1>2, <2>1, <2>2, <2>3
<1>5. ASSUME NEW e \in Executors, Dispatch(e) PROVE FcfsInv'
  <2> DEFINE t == Head(ready)
  <2>1. /\ ready # <<>> /\ ready' = Tail(ready) /\ running' = [running EXCEPT ![e] = t]
        /\ UNCHANGED <<wait, stopped, open, live>>
    BY <1>5 DEF Dispatch
  <2>2. /\ ready' \in Seq(Tasks) /\ t \in Tasks /\ t \in Range(ready)
        /\ Range(ready') \subseteq Range(ready) /\ IsInjective(ready')
        /\ t \notin Range(ready')
    BY <1>0, <2>1, TailElements DEF FcfsTypeOK
  <2>3. running' \in [Executors -> Tasks \cup {None}] /\ running'[e] = t
        /\ \A f \in Executors \ {e} : running'[f] = running[f]
    BY <1>0, <2>1, <2>2 DEF FcfsTypeOK
  <2>4. FcfsTypeOK'
    BY <1>0, <2>1, <2>2, <2>3 DEF FcfsTypeOK
  <2>5. t \notin Range(wait) /\ t \in live
    BY <1>0, <1>1, <2>2
  <2>6. \A f \in Executors : running'[f] # None =>
           /\ running'[f] \notin Range(ready') /\ running'[f] \notin Range(wait')
           /\ running'[f] \in live'
    BY <1>0, <1>1, <2>1, <2>2, <2>3, <2>5
  <2>7. \A f, g \in Executors :
           running'[f] = running'[g] /\ running'[f] # None => f = g
    BY <1>0, <2>2, <2>3
  <2> QED
    BY <1>0, <1>1, <1>2, <2>1, <2>2, <2>4, <2>6, <2>7
<1>6. ASSUME DispatchIo PROVE FcfsInv'
  <2> DEFINE t == Head(wait)
  <2>1. /\ wait # <<>> /\ wait' = Tail(wait)
        /\ running' = [running EXCEPT ![IExec] = t]
        /\ UNCHANGED <<ready, stopped, open, live>>
    BY <1>6 DEF DispatchIo
  <2>2. /\ wait' \in Seq(Tasks) /\ t \in Tasks /\ t \in Range(wait)
        /\ Range(wait') \subseteq Range(wait) /\ IsInjective(wait')
        /\ t \notin Range(wait')
    BY <1>0, <2>1, TailElements DEF FcfsTypeOK
  <2>3. running' \in [Executors -> Tasks \cup {None}] /\ running'[IExec] = t
        /\ \A f \in Executors \ {IExec} : running'[f] = running[f]
    BY <1>0, <2>1, <2>2 DEF FcfsTypeOK
  <2>4. FcfsTypeOK'
    BY <1>0, <2>1, <2>2, <2>3 DEF FcfsTypeOK
  <2>5. t \notin Range(ready) /\ t \in live
    BY <1>0, <1>1, <2>2
  <2>6. \A f \in Executors : running'[f] # None =>
           /\ running'[f] \notin Range(ready') /\ running'[f] \notin Range(wait')
           /\ running'[f] \in live'
    BY <1>0, <1>1, <2>1, <2>2, <2>3, <2>5
  <2>7. \A f, g \in Executors :
           running'[f] = running'[g] /\ running'[f] # None => f = g
    BY <1>0, <2>2, <2>3
  <2> QED
    BY <1>0, <1>1, <1>2, <2>1, <2>2, <2>4, <2>6, <2>7
(* The three ways to give a task up.                                        *)
<1>7. ASSUME NEW e \in Executors, Requeue(e) \/ Request(e) \/ Exit(e)
      PROVE  FcfsInv'
  <2> DEFINE t == running[e]
  <2>1. /\ t # None /\ t \in Tasks /\ running' = [running EXCEPT ![e] = None]
        /\ UNCHANGED <<stopped, open>>
    BY <1>0, <1>7 DEF Requeue, Request, Exit, FcfsTypeOK
  <2>2. /\ running' \in [Executors -> Tasks \cup {None}] /\ running'[e] = None
        /\ \A f \in Executors \ {e} : running'[f] = running[f]
    BY <1>0, <2>1 DEF FcfsTypeOK
  <2>3. /\ t \notin Range(ready) /\ t \notin Range(wait) /\ t \in live
        /\ \A f \in Executors \ {e} : running'[f] # t
    BY <1>0, <1>1, <2>1, <2>2
  <2>4. /\ Append(ready, t) \in Seq(Tasks) /\ IsInjective(Append(ready, t))
        /\ Range(Append(ready, t)) = Range(ready) \cup {t}
        /\ Append(wait, t) \in Seq(Tasks) /\ IsInjective(Append(wait, t))
        /\ Range(Append(wait, t)) = Range(wait) \cup {t}
    BY <1>0, <2>1, <2>3, AppendElements DEF FcfsTypeOK
  <2>5. CASE Requeue(e)
    <3>1. ready' = Append(ready, t) /\ UNCHANGED <<wait, live>>
      BY <2>5 DEF Requeue
    <3>2. FcfsTypeOK'
      BY <1>0, <2>2, <2>4, <3>1 DEF FcfsTypeOK
    <3> QED
      BY <1>0, <1>1, <1>2, <2>1, <2>2, <2>3, <2>4, <3>1, <3>2
  <2>6. CASE Request(e)
    <3>1. wait' = Append(wait, t) /\ UNCHANGED <<ready, live>>
      BY <2>6 DEF Request
    <3>2. FcfsTypeOK'
      BY <1>0, <2>2, <2>4, <3>1 DEF FcfsTypeOK
    <3> QED
      BY <1>0, <1>1, <1>2, <2>1, <2>2, <2>3, <2>4, <3>1, <3>2
  <2>7. CASE Exit(e)
    <3>1. live' = live \ {t} /\ UNCHANGED <<ready, wait>>
      BY <2>7 DEF Exit
    <3>2. FcfsTypeOK'
      BY <1>0, <2>2, <3>1 DEF FcfsTypeOK
    <3> QED
      BY <1>0, <1>1, <1>2, <2>1, <2>2, <2>3, <3>1, <3>2
  <2> QED
    BY <1>7, <2>5, <2>6, <2>7
<1>8. ASSUME NEW e \in Executors, Stop(e) PROVE FcfsInv'
  <2>1. ~open /\ live = {} /\ UNCHANGED <<open, live, ready, wait, running>>
    BY <1>8 DEF Stop
  <2>2. FcfsTypeOK'
    BY <1>0, <2>1 DEF FcfsTypeOK
  <2> QED
    BY <1>0, <1>1, <1>2, <2>1, <2>2
<1>9. ASSUME Shutdown \/ UNCHANGED fcfsVars PROVE FcfsInv'
  <2>1. /\ UNCHANGED <<live, ready, wait, running, stopped>> /\ open' \in {open, FALSE}
    BY <1>9 DEF Shutdown, fcfsVars
  <2>2. FcfsTypeOK'
    BY <1>0, <2>1 DEF FcfsTypeOK
  <2> QED
    BY <1>0, <1>1, <1>2, <2>1, <2>2
<1> QED
  BY <1>3, <1>4, <1>5, <1>6, <1>7, <1>8, <1>9 DEF FcfsNext

-----------------------------------------------------------------------------
(* The theorems.                                                            *)

LEMMA FcfsInvariance == FcfsSpec => []FcfsInv
  BY FcfsInitInv, StepInv, PTL DEF FcfsSpec, FcfsSafety

(* For any tasks and executors, a task that is queued is so once, in one    *)
(* queue, and on no executor, and no two executors run the same task.       *)
THEOREM EachTaskInOnePlace == FcfsSpec => []OnePlace
  BY FcfsInvariance, PTL DEF FcfsInv

(* For any tasks and executors, what is queued or runs was created and has  *)
(* not exited, and an executor stops only when nothing is left to run.      *)
THEOREM NothingLeftBehind == FcfsSpec => []PlacedTasksAreLive
  BY FcfsInvariance, PTL DEF FcfsInv
=============================================================================
