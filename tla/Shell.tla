------------------------------- MODULE Shell -------------------------------
(***************************************************************************)
(* The shell, Project 1/Codes/Project 1.c: its jobs, the processes it      *)
(* forks, and the keys Ctrl+C and Ctrl+Z, which the terminal turns into    *)
(* signals to the shell and to all its children.  The kernel is modelled   *)
(* from how the shell uses it.                                             *)
(*                                                                         *)
(* A pipe's first command is a child of the second, never waited for here: *)
(* doPiping is one process.  No process outside the shell gets the number  *)
(* of a child that was reaped; another child may.                          *)
(***************************************************************************)
EXTENDS Integers, Sequences

CONSTANTS Pids,          \* bound: process numbers the kernel gives
          MaxJobs        \* bound: jobs started (1000 entries in jobIdList)

ASSUME ShellAssumption == Pids \subseteq Nat \ {0} /\ MaxJobs \in Nat

VARIABLES
    proc,          \* state of each process number
    inherited,     \* currPid in the memory of a child before its execvp
    jobIdList,     \* its first jobIndex entries, from 0; the others are 0
    currPid,
    spc,           \* where the shell is
    pid, bg,       \* locals of forkProcess
    j, listed      \* in jobs: its local, and the lines it has printed

job    == <<jobIdList, currPid, pid, bg>>
loop   == <<j, listed>>
system == <<proc, inherited>>
vars   == <<system, job, spc, loop>>

jobIndex == Len(jobIdList)
JobAt(i) == IF i < jobIndex THEN jobIdList[i + 1] ELSE 0

Alive    == {"forked", "running", "stopped"}
Children == {p \in Pids : proc[p] # "free"}

TypeOK ==
    /\ proc \in [Pids -> Alive \cup {"free", "zombie"}]
    /\ inherited \in [Pids -> Pids \cup {-1}]
    /\ jobIdList \in Seq(Pids)
    /\ currPid \in Pids \cup {-1} /\ pid \in Pids \cup {-1}
    /\ bg \in BOOLEAN
    /\ spc \in {"prompt", "forked", "waitpid", "fg", "jobs", "exited", "crashed"}
    /\ j \in Nat /\ listed \subseteq Nat

Init ==
    /\ proc = [p \in Pids |-> "free"]
    /\ inherited = [p \in Pids |-> -1]
    /\ jobIdList = <<>> /\ currPid = -1
    /\ pid = -1 /\ bg = FALSE
    /\ spc = "prompt"
    /\ j = 0 /\ listed = {}

-----------------------------------------------------------------------------
(* The commands.  cd, pwd and wrong arguments change nothing here.          *)
forkProcess ==
    /\ spc = "prompt" /\ jobIndex < MaxJobs
    /\ \E p \in Pids :
          /\ proc[p] = "free"
          /\ proc' = [proc EXCEPT ![p] = "forked"]
          /\ inherited' = [inherited EXCEPT ![p] = currPid]
          /\ pid' = p
    /\ bg' \in BOOLEAN
    /\ spc' = "forked"
    /\ UNCHANGED <<jobIdList, currPid, loop>>

ForkFails ==
    /\ spc = "prompt" /\ spc' = "exited"
    /\ UNCHANGED <<system, job, loop>>

OnlyInBackground == IF bg THEN Append(jobIdList, pid) ELSE jobIdList  \* mutant
CurrentJob       == Append(jobIdList, currPid)                    \* mutant
WithNewJob       == Append(jobIdList, pid)
UnlessForeground == IF bg THEN pid ELSE currPid                   \* mutant
ToBeKilled       == pid

(* In the parent, while the child may already be anywhere.                  *)

RecordJob ==
    /\ spc = "forked"
    /\ jobIdList' = WithNewJob
    /\ currPid' = ToBeKilled
    /\ spc' = IF bg THEN "prompt" ELSE "waitpid"
    /\ UNCHANGED <<system, pid, bg, loop>>

(* waitpid returns when the child has ended, or at once if there is none.   *)
(* (The shell has no child when jobIdList[0] is still 0.)                   *)
Waits(p) ==
    /\ p \in Pids => proc[p] \notin Alive
    /\ proc' = [q \in Pids |-> IF q = p THEN "free" ELSE proc[q]]
    /\ spc' = "prompt"
    /\ UNCHANGED <<inherited, job, loop>>

WaitForeground == spc = "waitpid" /\ Waits(pid)

(* Without an argument atoi(NULL) is called; with one, job stays 0.         *)
fg(cnt) ==
    /\ spc = "prompt"
    /\ spc' = IF cnt = 1 THEN "crashed" ELSE "fg"
    /\ UNCHANGED <<system, job, loop>>
WaitJob == spc = "fg" /\ Waits(JobAt(0))

(* The loop runs to jobIndex inclusive; its last waitpid has the argument 0 *)
(* and takes any child that has ended.                                      *)
jobs ==
    /\ spc = "prompt" /\ spc' = "jobs"
    /\ j' = 0 /\ listed' = {}
    /\ UNCHANGED <<system, job>>

IsMeant(i, p) == IF JobAt(i) = 0 THEN proc[p] # "free" ELSE p = JobAt(i)
Meant(i) == {p \in Children : IsMeant(i, p)}

Same(i)  == i                                                     \* mutant
Second(i) == i + 2                                                \* mutant
Following(i) == i + 1

ListJob ==
    /\ spc = "jobs" /\ j <= jobIndex
    /\ LET ended == {p \in Meant(j) : proc[p] = "zombie"} IN
       \/ /\ ended # {}
          /\ \E p \in ended : proc' = [proc EXCEPT ![p] = "free"]
          /\ UNCHANGED listed
       \/ /\ ended = {}
          /\ listed' = IF Meant(j) # {} THEN listed \cup {j} ELSE listed
          /\ UNCHANGED proc
    /\ j' = Following(j)
    /\ UNCHANGED <<inherited, job, spc>>

ListEnds ==
    /\ spc = "jobs" /\ j > jobIndex /\ spc' = "prompt"
    /\ j' = 0 /\ listed' = {}
    /\ UNCHANGED <<system, job>>

(* exit, or the end of the input.                                           *)
myExit ==
    /\ spc = "prompt" /\ spc' = "exited"
    /\ UNCHANGED <<system, job, loop>>

-----------------------------------------------------------------------------
(* The child: userCmdHandler ends in execvp, or in exit if that fails.      *)
userCmdHandler(p) ==
    /\ proc[p] = "forked"
    /\ \E result \in {"running", "zombie"} : proc' = [proc EXCEPT ![p] = result]
    /\ inherited' = [inherited EXCEPT ![p] = -1]
    /\ UNCHANGED <<job, spc, loop>>

ProgramEnds(p) ==
    /\ proc[p] = "running"
    /\ proc' = [proc EXCEPT ![p] = "zombie"]
    /\ UNCHANGED <<inherited, job, spc, loop>>

(* intHandler runs in the shell, and in children before their execvp with   *)
(* the currPid they inherited.  Programs may die of SIGINT or ignore it;    *)
(* a stopped one does not get it.  SA_RESTART: waitpid and getline go on.   *)
intHandler(p) == proc[p] \in Alive /\ (p = currPid \/ \E q \in Pids :
                                           proc[q] = "forked" /\ inherited[q] = p)

CtrlC ==
    /\ spc \notin {"exited", "crashed"}
    /\ \E die \in SUBSET {p \in Pids : proc[p] = "running"} :
          proc' = [p \in Pids |-> IF p \in die \/ intHandler(p) THEN "zombie" ELSE proc[p]]
    /\ UNCHANGED <<inherited, job, spc, loop>>

(* tstpHandler does nothing in the shell and in a child before its execvp.  *)
CtrlZ ==
    /\ spc \notin {"exited", "crashed"}
    /\ \E stop \in SUBSET {p \in Pids : proc[p] = "running"} :
          proc' = [p \in Pids |-> IF p \in stop THEN "stopped" ELSE proc[p]]
    /\ UNCHANGED <<inherited, job, spc, loop>>

-----------------------------------------------------------------------------
Command == \/ forkProcess \/ ForkFails \/ jobs \/ myExit
           \/ \E cnt \in {1, 2} : fg(cnt)
ShellStep == RecordJob \/ WaitForeground \/ WaitJob \/ ListJob \/ ListEnds

Next == \/ Command \/ ShellStep \/ CtrlC \/ CtrlZ
        \/ \E p \in Pids : userCmdHandler(p) \/ ProgramEnds(p)
        \/ spc \in {"exited", "crashed"} /\ UNCHANGED vars

(* The shell is scheduled; a user who waits for the prompt keeps pressing   *)
(* Ctrl+C.  Programs may run for ever.                                      *)
Fairness == WF_vars(ShellStep) /\ WF_vars(CtrlC /\ spc = "waitpid")
Spec == Init /\ [][Next]_vars /\ Fairness

-----------------------------------------------------------------------------
(* Every process the shell has forked and not waited for is in jobIdList,   *)
(* or about to be: jobs misses none.                                        *)
EveryChildListed ==
    \A p \in Children : \/ \E i \in 1 .. jobIndex : jobIdList[i] = p
                        \/ spc = "forked" /\ p = pid

(* Ctrl+C ends the job the user is waiting for, be it stopped, not yet at   *)
(* its execvp, or ignoring the signal: currPid is that job's number.        *)
CtrlCEndsForeground ==
    [][CtrlC /\ spc = "waitpid" => proc'[pid] \notin Alive]_vars

(* Whatever ends while jobs runs, a job it has passed and not printed is    *)
(* not running.                                                             *)
JobsComplete ==
    spc = "jobs" => \A i \in 0 .. jobIndex - 1 :
                        i < j /\ proc[JobAt(i)] \in Alive => i \in listed

(* The prompt comes back after every command but fg: intHandler and waitpid *)
(* do not miss each other.                                                  *)
PromptReturns == spc \in {"forked", "waitpid", "jobs"} ~> spc = "prompt"
=============================================================================
