------------------------------ MODULE Process ------------------------------
(***************************************************************************)
(* The process table, the scheduler and the process life cycle of          *)
(* src/kernel/process.c: start, exit, kill, waitpid, chprio, wait_clock,   *)
(* the clock tick and ordonnance.                                          *)
(*                                                                         *)
(* Every interrupt and system call gate is an interrupt gate, so a handler *)
(* runs with interrupts off and the only place where the processor changes *)
(* hands is ctx_sw, at the end of ordonnance.  One action is one handler   *)
(* up to its call of ordonnance; ordonnance itself takes the steps         *)
(* KillProcs, WakeProcs (one per process woken) and Elect, in that order   *)
(* and with nothing in between (pc says how far it is); the code a blocked *)
(* waitpid runs once it is elected again is the action WaitpidReturn.      *)
(*                                                                         *)
(* Waits for input (WAITIO), semaphores and messages are the subject of    *)
(* the modules Console, Semaphores and Messages.                           *)
(*                                                                         *)
(* The definitions whose name holds an underscore are faulty variants of   *)
(* the one that follows them: each breaks a property of ProcessProps.      *)
(***************************************************************************)
EXTENDS PrioQueue

CONSTANTS
  MaxProcs,   \* MAX_NB_PROCS: the size of procs
  MaxPrio,    \* MAX_PRIO
  ShellPrio,  \* the priority launch_new_shell gives to the shell
  ClockMod,   \* the tick counter g_tics counts modulo ClockMod (2^32)
  RetVals     \* the values processes pass to exit

ASSUME ProcessAssumption ==
  /\ MaxProcs \in Nat /\ MaxProcs > 1
  /\ MaxPrio \in Nat /\ ShellPrio \in 1..MaxPrio
  /\ ClockMod \in Nat \ {0}
  /\ RetVals \subseteq Int

Pid    == 0..(MaxProcs - 1)
Idle   == 0            \* the pid of the idle process
Orphan == -1           \* ppid of a process whose parent has terminated
Prio   == 1..MaxPrio   \* is_valid_prio
Clock  == 0..(ClockMod - 1)

States == {"NONE", "CHOSEN", "ACTIVABLE", "ASLEEP", "DYING", "ZOMBIE", "WAITPID"}

VARIABLES
  (* the fields of the Process structures, by pid *)
  state,      \* "NONE" where procs[pid] is NULL
  ppid, prio, wake,
  s,          \* the union of retval and waitpid
  children,   \* the pids chained in head_child
  blocked,    \* the processes whose kernel stack is inside waitpid
  (* the globals *)
  nbProcs, pidIndex,
  freePids,   \* the pids of head_pid, which is sorted by pid
  act, sleep, dead,   \* head_act, head_sleep, head_dead
  cur,        \* the pid of cur_proc
  clock,      \* g_tics
  (* where the kernel is *)
  pc          \* "boot", "user", in ordonnance "kill" or "wake", "waitpid",
              \* in abort_shell_wait "abort", or "undefined"

table == <<state, ppid, prio, wake, s, children, blocked>>
pids  == <<nbProcs, pidIndex, freePids>>
sched == <<act, sleep, dead, cur>>
vars  == <<table, pids, sched, clock, pc>>

Live    == {p \in Pid : state[p] # "NONE"}
User == pc = "user" /\ cur # Idle   \* a process is about to make a call

-----------------------------------------------------------------------------
(* init_process, and launch_new_shell as its first start. *)

Init ==
  /\ state = [p \in Pid |-> IF p = Idle THEN "CHOSEN" ELSE "NONE"]
  /\ ppid = [p \in Pid |-> IF p = Idle THEN Idle ELSE Orphan]
  /\ prio = [p \in Pid |-> 0]
  /\ wake = [p \in Pid |-> 0]
  /\ s = [p \in Pid |-> 0]
  /\ children = [p \in Pid |-> {}]
  /\ blocked = {}
  /\ nbProcs = 1 /\ pidIndex = 1 /\ freePids = {}
  /\ act = <<>> /\ sleep = <<>> /\ dead = <<>>
  /\ cur = Idle
  /\ clock = 0
  /\ pc = "boot"

\* get_new_pid: the lowest freed pid, else one never used.  Neither may be
\* left, in which case the code panics: see PidAvailable.
NewPid == IF freePids # {} THEN CHOOSE p \in freePids : \A r \in freePids : p <= r
                           ELSE pidIndex

\* start: the process is created below its caller and preempts it if it has
\* a higher priority.
Create(n) ==
  /\ nbProcs < MaxProcs
  /\ NewPid \in Pid
  /\ LET p == NewPid IN
       /\ state' = [state EXCEPT ![p] = "ACTIVABLE"]
       /\ ppid' = [ppid EXCEPT ![p] = cur]
       /\ prio' = [prio EXCEPT ![p] = n]
       /\ children' = [children EXCEPT ![cur] = @ \cup {p}, ![p] = {}]
       /\ act' = QueueAdd(act, p, prio')
       /\ freePids' = freePids \ {p}
       /\ pidIndex' = IF freePids = {} THEN pidIndex + 1 ELSE pidIndex
  /\ nbProcs' = nbProcs + 1
  /\ pc' = IF n > prio[cur] THEN "kill" ELSE "user"
  /\ UNCHANGED <<wake, s, blocked, sleep, dead, cur, clock>>

LaunchShell == pc = "boot" /\ Create(ShellPrio)

Start(n) == User /\ Create(n)

-----------------------------------------------------------------------------
(* Termination. *)

ZombieChildren_None(p) == {}
ZombieChildren(p) == {c \in children[p] : state[c] = "ZOMBIE"}

\* free_process of the processes of F: their entries are cleared and their
\* pids are free again.
Wipe(x, F, v) == [p \in Pid |-> IF p \in F THEN v ELSE x[p]]

FreePids_CountsOnce(F) ==
  /\ freePids' = freePids \cup F
  /\ nbProcs' = IF F = {} THEN nbProcs ELSE nbProcs - 1
  /\ UNCHANGED pidIndex
FreePids_Leaks(F) ==
  /\ freePids' = freePids
  /\ nbProcs' = nbProcs - Cardinality(F)
  /\ UNCHANGED pidIndex
FreePids(F) ==
  /\ freePids' = freePids \cup F
  /\ nbProcs' = nbProcs - Cardinality(F)
  /\ UNCHANGED pidIndex

\* waitpid_end: the parent is blocked in a waitpid that p's end satisfies, and
\* the pid of p is left in its s.waitpid.
ParentWaits_NoAny(p) ==
  /\ ppid[p] > 0
  /\ state[ppid[p]] = "WAITPID"
  /\ s[ppid[p]] = p
ParentWaits(p) ==
  /\ ppid[p] > 0
  /\ state[ppid[p]] = "WAITPID"
  /\ s[ppid[p]] = p \/ s[ppid[p]] < 0

WaitResult_Forgotten(p, r) == s[r]
WaitResult(p, r) == IF ParentWaits(p) /\ r = ppid[p] THEN p ELSE s[r]

\* The children that lose their parent when p terminates.
Orphans_Kept(p) == {}
Orphans(p) == children[p]

\* finish_process(p) after retval was stored in p, for a p that is chained
\* in `queue' (the ready queue) no more.  It frees p's zombie children and
\* orphans the others, makes p a zombie or, if p is itself an orphan, a dying
\* process, which is freed at once in the case p \in F, and wakes the parent.
\* The orphans stay linked in p's head_child; only kill_recursive still walks
\* that list, and does nothing on its way: it is emptied here.
Finish(p, retval, queue, F) ==
  LET gone == ZombieChildren(p) \cup F
      end  == IF ppid[p] >= 0 THEN "ZOMBIE" ELSE "DYING"
  IN /\ state' = [r \in Pid |->
                    IF r \in gone THEN "NONE"
                    ELSE IF r = p THEN end
                    ELSE IF ParentWaits(p) /\ r = ppid[p] THEN "ACTIVABLE"
                    ELSE state[r]]
     /\ s' = [r \in Pid |-> IF r \in gone THEN 0
                            ELSE IF r = p THEN retval ELSE WaitResult(p, r)]
     /\ ppid' = Wipe(ppid, Orphans(p) \cup F, Orphan)
     /\ children' = Wipe(children, gone \cup {p}, {})
     /\ prio' = Wipe(prio, gone, 0)
     /\ wake' = Wipe(wake, gone, 0)
     /\ blocked' = blocked \ ({p} \cup gone)
     /\ act' = IF ParentWaits(p) THEN QueueAdd(queue, ppid[p], prio) ELSE queue
     /\ FreePids(gone)

\* _exit, and with the value 0 kill of the running process by itself, which is
\* also what the exception handlers do.
Exit(retval) ==
  /\ User
  /\ Finish(cur, retval, act, {})
  /\ pc' = "kill"
  /\ UNCHANGED <<sleep, dead, cur, clock>>

\* is_killable, and the states of the other processes kill accepts.
Killable == Pid \ {Idle}
KilledStates_Zombie == {"ACTIVABLE", "ASLEEP", "WAITPID", "ZOMBIE"}
KilledStates == {"ACTIVABLE", "ASLEEP", "WAITPID"}

\* kill takes a ready or sleeping process out of its list.
ActWithout(p) == IF state[p] = "ACTIVABLE" THEN QueueDel(act, p) ELSE act
SleepWithout_Forgets(p) == sleep
SleepWithout(p) == IF state[p] = "ASLEEP" THEN QueueDel(sleep, p) ELSE sleep

\* kill of another process.
Kill(p) ==
  /\ User
  /\ p \in Killable \ {cur}
  /\ state[p] \in KilledStates
  /\ Finish(p, 0, ActWithout(p), {r \in {p} : ppid[p] < 0})
  /\ sleep' = SleepWithout(p)
  /\ UNCHANGED <<dead, cur, clock, pc>>

\* kill does not refuse an orphan that has terminated and that the next
\* ordonnance is to free: it finishes it again and frees it, but leaves it
\* chained in head_dead.  Nothing is said of what kill_procs does with it.
KillDying(p) ==
  /\ User
  /\ state[p] = "DYING"
  /\ Finish(p, 0, act, {p})
  /\ pc' = "undefined"
  /\ UNCHANGED <<sleep, dead, cur, clock>>

-----------------------------------------------------------------------------
(* waitpid *)

\* The end of waitpid: child c is unchained from the caller and freed.
Reap(c) ==
  /\ state' = [state EXCEPT ![c] = "NONE"]
  /\ ppid' = [ppid EXCEPT ![c] = Orphan]
  /\ prio' = [prio EXCEPT ![c] = 0]
  /\ wake' = [wake EXCEPT ![c] = 0]
  /\ s' = [s EXCEPT ![c] = 0]
  /\ children' = [children EXCEPT ![cur] = @ \ {c}, ![c] = {}]
  /\ FreePids({c})
  /\ UNCHANGED <<sched, clock>>

\* waitpid(pid) with pid > 0 and waitpid(-1), and the children they accept;
\* with none the call fails, as does waitpid(0).
Targets == {-1} \cup (Pid \ {Idle})
Awaited_NotChild(pid) == IF pid > 0 THEN {pid} ELSE children[cur]
Awaited(pid) == IF pid > 0 THEN children[cur] \cap {pid} ELSE children[cur]

\* A zombie is there already: waitpid takes the first of head_child, which
\* is sorted by pid.
WaitpidZombie(pid) ==
  /\ User
  /\ \E c \in Awaited(pid) :
       /\ state[c] = "ZOMBIE"
       /\ \A d \in Awaited(pid) : state[d] = "ZOMBIE" => c <= d
       /\ Reap(c)
  /\ UNCHANGED <<blocked, pc>>

WaitpidBlock(pid) ==
  /\ User
  /\ Awaited(pid) # {}
  /\ \A c \in Awaited(pid) : state[c] # "ZOMBIE"
  /\ state' = [state EXCEPT ![cur] = "WAITPID"]
  /\ s' = [s EXCEPT ![cur] = pid]
  /\ blocked' = blocked \cup {cur}
  /\ pc' = "kill"
  /\ UNCHANGED <<ppid, prio, wake, children, pids, sched, clock>>

\* The rest of waitpid, when the process has been woken and elected.
WaitpidReturn ==
  /\ pc = "waitpid"
  /\ Reap(s[cur])
  /\ blocked' = blocked \ {cur}
  /\ pc' = "user"

-----------------------------------------------------------------------------
(* Priorities and sleep. *)

\* The ready queue after the priority of p has been written, when p is in it.
Requeued_Not(p) == act
Requeued(p) == IF state[p] = "ACTIVABLE" THEN QueueAdd(QueueDel(act, p), p, prio') ELSE act

\* chprio to a priority that differs from the current one.
Chprio(p, n) ==
  /\ User
  /\ p \in Pid \ {Idle} /\ state[p] \notin {"NONE", "ZOMBIE"}
  /\ n # prio[p]
  /\ prio' = [prio EXCEPT ![p] = n]
  /\ act' = Requeued(p)
  /\ pc' = IF p = cur THEN "kill" ELSE "user"
  /\ UNCHANGED <<state, ppid, wake, s, children, blocked, pids, sleep, dead, cur, clock>>

\* wait_clock, which sleep and sleep_clock call with a tick modulo 2^32.
WaitClock(w) ==
  /\ User
  /\ state' = [state EXCEPT ![cur] = "ASLEEP"]
  /\ wake' = [wake EXCEPT ![cur] = w]
  /\ sleep' = QueueAdd(sleep, cur, wake')
  /\ pc' = "kill"
  /\ UNCHANGED <<ppid, prio, s, children, blocked, pids, act, dead, cur, clock>>

\* add_proc_activable of a process taken out of the sleeping ones.
Awaken(p) ==
  /\ state' = [state EXCEPT ![p] = "ACTIVABLE"]
  /\ sleep' = QueueDel(sleep, p)
  /\ act' = QueueAdd(act, p, prio)
  /\ UNCHANGED <<ppid, prio, wake, s, children, blocked, pids, dead, cur, clock>>

\* One turn of the loop of abort_shell_wait (Ctrl-C while idle runs), which
\* wakes every sleeper from the last one on; it reschedules nothing.
AbortShellWait ==
  /\ pc \in {"user", "abort"} /\ cur = Idle
  /\ sleep # <<>>
  /\ Awaken(QueueTop(sleep))
  /\ pc' = IF Len(sleep) > 1 THEN "abort" ELSE "user"

-----------------------------------------------------------------------------
(* The clock interrupt, and ordonnance. *)

\* tic_PIT
Tick_NoWrap ==
  /\ pc = "user"
  /\ clock' = clock + 1
  /\ pc' = "kill"
  /\ UNCHANGED <<table, pids, sched>>
Tick_NoOrdonnance ==
  /\ pc = "user"
  /\ clock' = (clock + 1) % ClockMod
  /\ UNCHANGED <<table, pids, sched, pc>>
Tick ==
  /\ pc = "user"
  /\ clock' = (clock + 1) % ClockMod
  /\ pc' = "kill"
  /\ UNCHANGED <<table, pids, sched>>

KillProcs ==
  /\ pc = "kill"
  /\ LET F == Elems(dead) IN
       /\ state' = Wipe(state, F, "NONE")
       /\ ppid' = Wipe(ppid, F, Orphan)
       /\ prio' = Wipe(prio, F, 0)
       /\ wake' = Wipe(wake, F, 0)
       /\ s' = Wipe(s, F, 0)
       /\ children' = Wipe(children, F, {})
       /\ FreePids(F)
  /\ dead' = <<>>
  /\ pc' = "wake"
  /\ UNCHANGED <<blocked, act, sleep, cur, clock>>

SleeperDue_Late == sleep # <<>> /\ wake[QueueBottom(sleep)] < clock
SleeperDue == sleep # <<>> /\ wake[QueueBottom(sleep)] <= clock

WakeProcs ==
  /\ pc = "wake"
  /\ SleeperDue
  /\ Awaken(QueueBottom(sleep))
  /\ UNCHANGED pc

\* The outgoing process is listed as dying or as ready; the ready process of
\* highest priority that has been waiting longest becomes the current one.
Preempted(p) == p = cur /\ state[p] = "CHOSEN"
Ready == IF Preempted(cur) THEN QueueAdd(act, cur, prio) ELSE act

\* The elected process goes on where it was: in waitpid or in its own code.
Resumed_User(p) == "user"
Resumed(p) == IF p \in blocked THEN "waitpid" ELSE "user"

Elect ==
  /\ pc = "wake"
  /\ ~ SleeperDue
  /\ Ready # <<>>
  /\ dead' = IF state[cur] = "DYING" THEN QueueAdd(dead, cur, prio) ELSE dead
  /\ cur' = QueueTop(Ready)
  /\ act' = QueueOut(Ready)
  /\ state' = [p \in Pid |-> IF p = cur' THEN "CHOSEN"
                             ELSE IF Preempted(p) THEN "ACTIVABLE"
                             ELSE state[p]]
  /\ pc' = Resumed(cur')
  /\ UNCHANGED <<ppid, prio, wake, s, children, blocked, pids, sleep, clock>>

-----------------------------------------------------------------------------
\* Nothing is said of what follows undefined behaviour.
Undefined == pc = "undefined" /\ UNCHANGED vars

Ordonnance == KillProcs \/ WakeProcs \/ Elect

Next ==
  \/ LaunchShell
  \/ \E n \in Prio : Start(n)
  \/ \E v \in RetVals \cup {0} : Exit(v)
  \/ \E p \in Pid : Kill(p)
  \/ \E p \in Pid : KillDying(p)
  \/ \E t \in Targets : WaitpidZombie(t)
  \/ \E t \in Targets : WaitpidBlock(t)
  \/ WaitpidReturn
  \/ \E p \in Pid, n \in Prio : Chprio(p, n)
  \/ \E w \in Clock : WaitClock(w)
  \/ AbortShellWait
  \/ Tick
  \/ Ordonnance
  \/ Undefined

Spec == Init /\ [][Next]_vars

(* The kernel never leaves a handler unfinished, and the clock interrupt,  *)
(* pending in the interrupt controller while a handler runs, is taken as   *)
(* soon as one ends: however many calls the processes make between two     *)
(* ticks, the ticks go on.                                                 *)
Fairness ==
  /\ WF_vars(LaunchShell) /\ WF_vars(Ordonnance) /\ WF_vars(WaitpidReturn)
  /\ WF_vars(pc = "abort" /\ AbortShellWait)
  /\ SF_vars(Tick)

FairSpec == Spec /\ Fairness
=============================================================================
