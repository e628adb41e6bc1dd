---------------------------- MODULE ShellProofs ----------------------------
(***************************************************************************)
(* Theorems about the shell, for every set of process numbers and any      *)
(* number of jobs.                                                         *)
(***************************************************************************)
EXTENDS Shell, TLAPS

(* The number of the child just forked is a number, and while the shell     *)
(* waits for a foreground job its number is currPid.                        *)
Foreground == /\ spc \in {"forked", "waitpid"} => pid \in Pids
              /\ spc = "waitpid" => currPid = pid

(* The inductive invariant: EveryChildListed needs pid to be the number     *)
(* that is not recorded yet, CtrlCEndsForeground needs Foreground.          *)
ShellInv == TypeOK /\ EveryChildListed /\ Foreground /\ JobsComplete

USE ShellAssumption DEF job, loop, system, vars, jobIndex, Alive, Children

(* What jobIdList holds are process numbers.                                *)
LEMMA JobsAreNumbers ==
  ASSUME TypeOK, NEW i \in 0 .. jobIndex - 1
  PROVE  JobAt(i) \in Pids
  BY DEF TypeOK, JobAt

(* There are no children and no jobs at first.                              *)
LEMMA InitInv == Init => ShellInv
<1> SUFFICES ASSUME Init PROVE ShellInv
  OBVIOUS
<1>1. TypeOK
  <2>1. jobIdList \in Seq(Pids)
    BY DEF Init
  <2>2. bg \in BOOLEAN /\ listed \subseteq Nat
    BY Zenon DEF Init
  <2> QED BY <2>1, <2>2 DEF Init, TypeOK
<1>2. EveryChildListed /\ Foreground /\ JobsComplete
  BY DEF Init, EveryChildListed, Foreground, JobsComplete
<1> QED BY <1>1, <1>2 DEF ShellInv

(* Every step but that of fork leaves what has ended ended.                 *)
LEMMA NothingRevives ==
  ASSUME TypeOK, [Next]_vars, NEW p \in Pids, ~forkProcess
  PROVE  /\ proc'[p] # "free" => proc[p] # "free"
         /\ proc'[p] \in Alive => proc[p] \in Alive
<1> USE DEF TypeOK
<1>1. CASE \E q \in Pids : userCmdHandler(q) \/ ProgramEnds(q)
  BY <1>1 DEF userCmdHandler, ProgramEnds
<1>2. CASE CtrlC
  BY <1>2 DEF CtrlC, intHandler
<1>3. CASE CtrlZ
  BY <1>3 DEF CtrlZ
<1>4. CASE ListJob
  BY <1>4 DEF ListJob, Meant
<1>5. CASE WaitForeground \/ WaitJob
  BY <1>5 DEF WaitForeground, WaitJob, Waits
<1>6. CASE UNCHANGED proc
  BY <1>6
<1> QED
  BY <1>1, <1>2, <1>3, <1>4, <1>5, <1>6
     DEF Next, Command, ShellStep, ForkFails, jobs, myExit, fg, RecordJob, ListEnds

(* Each step keeps the types.                                               *)
LEMMA NextType == TypeOK /\ Foreground /\ [Next]_vars => TypeOK'
<1> SUFFICES ASSUME TypeOK, Foreground, [Next]_vars PROVE TypeOK'
  OBVIOUS
<1> USE DEF TypeOK
<1>1. CASE forkProcess
  BY <1>1 DEF forkProcess
<1>2. CASE RecordJob
  BY <1>2 DEF RecordJob, WithNewJob, ToBeKilled, Foreground
<1>3. CASE WaitForeground \/ WaitJob
  BY <1>3 DEF WaitForeground, WaitJob, Waits
<1>4. CASE ListJob
  <2>1. proc' \in [Pids -> Alive \cup {"free", "zombie"}]
    <3>1. CASE UNCHANGED proc
      BY <3>1
    <3>2. CASE \E p \in Meant(j) : proc' = [proc EXCEPT ![p] = "free"]
      BY <3>2 DEF Meant
    <3> QED BY <1>4, <3>1, <3>2 DEF ListJob
  <2>2. j' \in Nat /\ listed' \subseteq Nat
    <3>1. j' = j + 1 /\ (listed' = listed \/ listed' = listed \cup {j})
      BY <1>4, Zenon DEF ListJob, Following
    <3>2. j' \in Nat
      BY <3>1
    <3>3. \A x \in listed' : x \in Nat
      BY <3>1
    <3> QED BY <3>2, <3>3, Zenon
  <2>3. UNCHANGED <<inherited, job, spc>>
    BY <1>4 DEF ListJob
  <2> QED BY <2>1, <2>2, <2>3
<1>5. CASE myExit \/ ForkFails \/ \E cnt \in {1, 2} : fg(cnt)
  BY <1>5 DEF myExit, ForkFails, fg
<1>9. CASE ListEnds
  BY <1>9 DEF ListEnds
<1>10. CASE jobs
  BY <1>10 DEF jobs
<1>6. CASE \E q \in Pids : userCmdHandler(q) \/ ProgramEnds(q)
  BY <1>6 DEF userCmdHandler, ProgramEnds
<1>7. CASE CtrlC \/ CtrlZ
  BY <1>7 DEF CtrlC, CtrlZ
<1>8. CASE UNCHANGED vars
  BY <1>8
<1> QED
  BY <1>1, <1>2, <1>3, <1>4, <1>5, <1>6, <1>7, <1>8, <1>9, <1>10 DEF Next, Command, ShellStep

(* A child that was forked is pid until RecordJob puts it into the list,    *)
(* from which nothing is removed.                                           *)
LEMMA NextListed ==
  TypeOK /\ Foreground /\ EveryChildListed /\ [Next]_vars => EveryChildListed'
<1> SUFFICES ASSUME TypeOK, Foreground, EveryChildListed, [Next]_vars,
                    NEW p \in Pids, proc'[p] # "free"
             PROVE  \/ \E i \in 1 .. jobIndex' : jobIdList'[i] = p
                    \/ spc' = "forked" /\ p = pid'
  BY DEF EveryChildListed
<1> USE DEF TypeOK, EveryChildListed
<1>1. CASE forkProcess
  BY <1>1 DEF forkProcess
<1>2. CASE RecordJob
  <2>1. proc[p] # "free" /\ jobIdList' = Append(jobIdList, pid) /\ spc = "forked" /\ pid \in Pids
    BY <1>2 DEF RecordJob, WithNewJob, Foreground
  <2>2. CASE p = pid
    BY <2>1, <2>2
  <2>3. CASE p # pid
    BY <2>1, <2>3
  <2> QED BY <2>2, <2>3
<1>3. CASE ~forkProcess /\ ~RecordJob
  <2>1. proc[p] # "free"
    BY <1>3, NothingRevives
  <2>2. spc # "forked" \/ (spc' = "forked" /\ pid' = pid)
    BY <1>3 DEF Next, Command, ShellStep, ForkFails, jobs, myExit, fg, WaitForeground, WaitJob,
                Waits, ListJob, ListEnds, userCmdHandler, ProgramEnds, CtrlC, CtrlZ
  <2>3. jobIdList' = jobIdList
    BY <1>3 DEF Next, Command, ShellStep, ForkFails, jobs, myExit, fg, WaitForeground, WaitJob,
                Waits, ListJob, ListEnds, userCmdHandler, ProgramEnds, CtrlC, CtrlZ
  <2> QED BY <2>1, <2>2, <2>3
<1> QED BY <1>1, <1>2, <1>3

(* Only fork and RecordJob assign pid and currPid.                          *)
LEMMA NextForeground == Foreground /\ [Next]_vars => Foreground'
  BY DEF Foreground, Next, Command, ShellStep, forkProcess, ForkFails, jobs, myExit, fg,
         RecordJob, ToBeKilled, WaitForeground, WaitJob, Waits, ListJob, ListEnds,
         userCmdHandler, ProgramEnds, CtrlC, CtrlZ

(* The loop of jobs leaves a job out only when it is not running.           *)
LEMMA NextJobs == TypeOK /\ JobsComplete /\ [Next]_vars => JobsComplete'
<1> SUFFICES ASSUME TypeOK, JobsComplete, [Next]_vars, spc' = "jobs",
                    NEW i \in 0 .. jobIndex' - 1, i < j', proc'[JobAt(i)'] \in Alive
             PROVE  i \in listed'
  BY DEF JobsComplete
<1> USE DEF TypeOK
<1>1. CASE jobs
  BY <1>1 DEF jobs
<1>2. CASE ListJob
  <2>1. jobIndex' = jobIndex /\ JobAt(i)' = JobAt(i) /\ spc = "jobs"
    BY <1>2 DEF ListJob, JobAt
  <2>2. JobAt(i) \in Pids /\ ~forkProcess
    BY <1>2, <2>1, JobsAreNumbers DEF ListJob, forkProcess
  <2>3. proc[JobAt(i)] \in Alive
    BY <2>1, <2>2, NothingRevives
  <2>4. CASE i < j
    BY <1>2, <2>1, <2>3, <2>4 DEF ListJob, JobsComplete
  <2>5. CASE i = j
    <3>1. Meant(j) = {JobAt(i)}
      BY <2>2, <2>3, <2>5 DEF Meant, IsMeant
    <3> QED BY <1>2, <2>3, <2>5, <3>1 DEF ListJob
  <2>6. i < j + 1
    BY <1>2 DEF ListJob, Following
  <2> QED BY <2>4, <2>5, <2>6
<1>3. CASE ~jobs /\ ~ListJob
  <2>1. spc = "jobs" /\ UNCHANGED <<jobIdList, j, listed>> /\ ~forkProcess
    BY <1>3 DEF Next, Command, ShellStep, forkProcess, ForkFails, myExit, fg, RecordJob,
                WaitForeground, WaitJob, Waits, ListEnds, userCmdHandler, ProgramEnds, CtrlC, CtrlZ
  <2>2. JobAt(i) \in Pids /\ JobAt(i)' = JobAt(i) /\ i \in 0 .. jobIndex - 1
    BY <2>1, JobsAreNumbers DEF JobAt
  <2>3. proc[JobAt(i)] \in Alive
    BY <2>1, <2>2, NothingRevives
  <2> QED BY <2>1, <2>2, <2>3 DEF JobsComplete
<1> QED BY <1>1, <1>2, <1>3

(* The inductive invariant of the shell holds in every execution.           *)
THEOREM Invariance == Spec => []ShellInv
<1>1. ShellInv /\ [Next]_vars => ShellInv'
  BY NextType, NextListed, NextForeground, NextJobs DEF ShellInv
<1> QED BY InitInv, <1>1, PTL DEF Spec

(* Every variable keeps its type.                                           *)
THEOREM TypeCorrect == Spec => []TypeOK
  BY Invariance, PTL DEF ShellInv

(* No process the shell forked and has not waited for is missing from       *)
(* jobIdList.                                                               *)
THEOREM ChildrenListed == Spec => []EveryChildListed
  BY Invariance, PTL DEF ShellInv

(* jobs prints every job that is still running when it ends, although       *)
(* processes end while it looks.                                            *)
THEOREM JobsCorrect == Spec => []JobsComplete
  BY Invariance, PTL DEF ShellInv

(* Ctrl+C ends the job the user waits for, whatever it does.                *)
THEOREM ForegroundEnds == Spec => CtrlCEndsForeground
<1>1. ShellInv /\ [Next]_vars => [CtrlC /\ spc = "waitpid" => proc'[pid] \notin {"forked", "running", "stopped"}]_vars
  <2> SUFFICES ASSUME ShellInv, CtrlC, spc = "waitpid" PROVE proc'[pid] \notin Alive
    OBVIOUS
  <2>1. pid \in Pids /\ currPid = pid
    BY DEF ShellInv, Foreground
  <2> QED BY <2>1 DEF CtrlC, intHandler, ShellInv, TypeOK
<1> QED BY Invariance, <1>1, PTL DEF Spec, CtrlCEndsForeground
=============================================================================
