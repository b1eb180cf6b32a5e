---------------------------- MODULE ProcessProps ----------------------------
(***************************************************************************)
(* What makes the process management of src/kernel/process.c correct.      *)
(***************************************************************************)
EXTENDS Process

\* Every field and global of process.c keeps its type.
TypeOK ==
  /\ state \in [Pid -> States]
  /\ ppid \in [Pid -> Pid \cup {Orphan}]
  /\ prio \in [Pid -> 0..MaxPrio]
  /\ wake \in [Pid -> Clock]
  /\ s \in [Pid -> Int]
  /\ children \in [Pid -> SUBSET (Pid \ {Idle})]
  /\ blocked \subseteq Pid \ {Idle}
  /\ nbProcs \in Int /\ pidIndex \in 1..MaxProcs
  /\ freePids \subseteq Pid \ {Idle}
  /\ act \in Seq(Pid) /\ sleep \in Seq(Pid) /\ dead \in Seq(Pid)
  /\ cur \in Pid
  /\ clock \in Clock
  /\ pc \in {"boot", "user", "kill", "wake", "waitpid", "abort", "undefined"}

\* Each process is chained, once, in the list its state names and in no
\* other: queue_del asserts as much, and ordonnance relies on it.
QueuesMatchStates ==
  /\ NoDup(act) /\ Elems(act) = {p \in Pid : state[p] = "ACTIVABLE"}
  /\ NoDup(sleep) /\ Elems(sleep) = {p \in Pid : state[p] = "ASLEEP"}
  /\ NoDup(dead)
  /\ pc # "undefined" => Elems(dead) = {p \in Pid : state[p] = "DYING"} \ {cur}

\* The running process is the only one marked CHOSEN, except inside
\* ordonnance, where it may already have left that state.
OneChosen ==
  /\ \A p \in Pid : state[p] = "CHOSEN" => p = cur
  /\ pc \in {"boot", "user", "waitpid", "abort"} => state[cur] = "CHOSEN"
  /\ pc = "kill" => state[cur] \notin {"NONE", "ACTIVABLE"}
  /\ pc = "wake" => state[cur] # "NONE"

\* idle is always running or ready, so that ordonnance always finds a process
\* (its assert(cur_proc)).
IdleReady == state[Idle] \in {"CHOSEN", "ACTIVABLE"}

Terminated == {"ZOMBIE", "DYING"}

\* A process and its parent agree: head_child holds exactly the processes
\* whose ppid it is; the parent of a process has not terminated, so that the
\* parent of a zombie can still wait for it, and a dying process has none.
FamilyTree ==
  /\ \A p \in Pid \ {Idle} : state[p] # "NONE" /\ ppid[p] # Orphan =>
       ppid[p] # p /\ state[ppid[p]] \notin Terminated \cup {"NONE"}
  /\ \A p \in Pid :
       children[p] = {c \in Pid \ {Idle} : state[c] # "NONE" /\ ppid[c] = p}
  /\ \A p \in Pid : state[p] = "ZOMBIE" => ppid[p] # Orphan
  /\ \A p \in Pid : state[p] = "DYING" => ppid[p] = Orphan

\* No process is blocked in waitpid for a child that is gone or is a zombie
\* already: waitpid_end never misses the parent it has to wake.
NoLostWait ==
  \A p \in Pid : state[p] = "WAITPID" =>
    LET t == IF s[p] < 0 THEN children[p] ELSE {s[p]} IN
      /\ t # {} /\ t \subseteq children[p]
      /\ \A c \in t : state[c] # "ZOMBIE"

\* A process woken out of waitpid finds in s.waitpid the pid of a child that
\* is a zombie still, however long it waits for the processor and whatever
\* the others do in between.
WaitedChildThere ==
  \A p \in blocked : state[p] \in {"CHOSEN", "ACTIVABLE"} =>
    s[p] \in children[p] /\ state[s[p]] = "ZOMBIE"

\* A process whose kernel stack is inside waitpid waits, or waits for the
\* processor, or is returning: it never gets back to user code by another way.
BlockedInWaitpid ==
  /\ \A p \in blocked : state[p] \in {"WAITPID", "ACTIVABLE", "CHOSEN"}
  /\ \A p \in Pid : state[p] = "WAITPID" => p \in blocked
  /\ cur \in blocked /\ state[cur] = "CHOSEN" => pc = "waitpid"
  /\ pc = "waitpid" => cur \in blocked

\* Every pid handed out so far is in use or free, never both, and nb_procs
\* counts those in use.
PidPool ==
  /\ freePids \cap Live = {}
  /\ freePids \cup Live = 0..(pidIndex - 1)
  /\ nbProcs = Cardinality(Live)

\* get_new_pid does not reach its panic: while nb_procs is below MAX_NB_PROCS
\* there is a freed or a never used pid.
PidAvailable == nbProcs < MaxProcs => NewPid \in Pid

\* The ready processes are sorted by priority and the sleepers by wake-up
\* time: ordonnance takes the last of the former, and stops waking at the
\* first sleeper whose time has not come.
QueuesSorted == Sorted(act, prio) /\ Sorted(sleep, wake)

\* A process that was listed as dying stays allocated until the next
\* ordonnance destroys it: head_dead never leads to freed memory.
DeadStayAllocated == \A p \in Elems(dead) : state[p] # "NONE"

\* What the proofs show every step to keep.
IInv ==
  /\ TypeOK /\ QueuesMatchStates /\ OneChosen /\ IdleReady /\ FamilyTree
  /\ NoLostWait /\ WaitedChildThere /\ BlockedInWaitpid /\ PidPool

-----------------------------------------------------------------------------
\* A terminated process never runs again: it stays as it is, with its return
\* value, until it is freed, and the pid comes back to life in a start only.
TerminatedStay ==
  \A p \in Pid :
    /\ state[p] \in Terminated =>
         \/ state'[p] = state[p] /\ s'[p] = s[p] /\ ppid'[p] = ppid[p]
         \/ state'[p] = "NONE"
    /\ state[p] = "NONE" => state'[p] \in {"NONE", "ACTIVABLE"}
NoRevival == [][TerminatedStay]_vars

\* A zombie whose parent lives is freed by that parent's waitpid and by
\* nothing else: its return value is not lost.
ReapedByParent ==
  \A p \in Pid :
    state[p] = "ZOMBIE" /\ state'[p] = "NONE" =>
      \/ ppid[p] = cur
      \/ state'[ppid[p]] \in Terminated \cup {"NONE"}
OnlyParentReaps == [][ReapedByParent]_vars

\* When ordonnance is over, no sleeper is overdue and the process that runs
\* has the highest priority of those that could.
BestElected ==
  [][pc = "wake" /\ pc' # "wake" =>
       /\ \A p \in Pid : state'[p] = "ACTIVABLE" => prio[p] <= prio[cur']
       /\ \A p \in Pid : state'[p] = "ASLEEP" => wake[p] > clock]_vars

\* A ready process is not overtaken by its equals: whoever enters the ready
\* queue, or enters its priority level, goes behind it, and those that were
\* behind stay behind.
Fifo ==
  [][\A x \in Elems(act) \cap Elems(act') : \A y \in Elems(act') \ {x} :
       /\ prio'[x] = prio[x] /\ prio'[y] = prio[x]
       /\ \/ y \notin Elems(act)
          \/ prio[y] # prio[x]
          \/ Place(act, y) < Place(act, x)
       => Place(act', y) < Place(act', x)]_vars

-----------------------------------------------------------------------------
\* Every sleeper is woken: its wake-up time comes, or someone ends its sleep.
SleeperWoken ==
  \A p \in Pid :
    state[p] = "ASLEEP" ~> (state[p] # "ASLEEP" \/ pc = "undefined")

\* A ready process that no other exceeds in priority runs in the end, unless
\* its priority is changed for ever: equals share the processor in turn.
TopRuns ==
  \A p \in Pid :
    <>[](state[p] = "ACTIVABLE" /\ \A r \in Pid : state[r] \in {"CHOSEN", "ACTIVABLE"} => prio[r] <= prio[p])
      => \/ <>(pc = "undefined")
         \/ []<><<prio'[p] # prio[p]>>_vars

-----------------------------------------------------------------------------
(* The process table implements the promises of module Lifecycle.          *)

lifeOf == [p \in Pid |-> CASE state[p] = "NONE"   -> "free"
                          [] state[p] = "ZOMBIE" -> "zombie"
                          [] state[p] = "DYING"  -> "gone"
                          [] OTHER               -> "alive"]
valueOf == [p \in Pid |-> IF state[p] = "ZOMBIE" THEN s[p] ELSE 0]

Tree == INSTANCE Lifecycle WITH Proc <- Pid, Root <- Idle, NoParent <- Orphan,
                                Value <- RetVals \cup {0},
                                life <- lifeOf, parent <- ppid, value <- valueOf

\* start, exit, kill and waitpid keep the promises made in process.h about
\* zombies, orphans and return values, whatever the scheduler does.
TerminationContract == Tree!LInit /\ [][Tree!LNext]_(Tree!lvars)
=============================================================================
