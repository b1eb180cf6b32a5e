----------------------------- MODULE Lifecycle -----------------------------
(***************************************************************************)
(* What start, exit, kill and waitpid promise about parents and children   *)
(* (the comments of src/kernel/process.h), without the scheduler, the      *)
(* queues or the way a waiting parent is woken:                            *)
(*   - a process that terminates while its parent is there is kept with    *)
(*     its return value until the parent collects it, once, or terminates; *)
(*   - its children are left without a parent: those that had terminated   *)
(*     disappear with it, the others disappear when they terminate.        *)
(***************************************************************************)
EXTENDS Integers

CONSTANTS
  Proc,      \* the process identifiers
  Root,      \* the one that exists from the start
  NoParent,  \* the parent of the processes that have none left, not in Proc
  Value      \* the return values

VARIABLES
  life,    \* "free", "alive", "zombie", or "gone": terminated, uncollectable
  parent,
  value    \* the return value of a zombie

lvars == <<life, parent, value>>

LInit ==
  /\ life = [p \in Proc |-> IF p = Root THEN "alive" ELSE "free"]
  /\ parent = [p \in Proc |-> IF p = Root THEN Root ELSE NoParent]
  /\ value = [p \in Proc |-> 0]

Create(p, c) ==
  /\ life[p] = "alive" /\ life[c] = "free"
  /\ life' = [life EXCEPT ![c] = "alive"]
  /\ parent' = [parent EXCEPT ![c] = p]
  /\ UNCHANGED value

Offspring(p) == {c \in Proc \ {Root} : life[c] # "free" /\ parent[c] = p}

\* p terminates with value v; without a parent it disappears, now or later.
Terminate(p, v) ==
  /\ life[p] = "alive" /\ p # Root
  /\ LET dropped == {c \in Offspring(p) : life[c] = "zombie"} IN
     \E end \in IF parent[p] = NoParent THEN {"gone", "free"} ELSE {"zombie"} :
       /\ life' = [c \in Proc |-> IF c = p THEN end
                                  ELSE IF c \in dropped THEN "free" ELSE life[c]]
       /\ parent' = [c \in Proc |-> IF c \in Offspring(p) THEN NoParent ELSE parent[c]]
       /\ value' = [c \in Proc |-> IF c = p /\ end = "zombie" THEN v
                                   ELSE IF c \in dropped THEN 0 ELSE value[c]]

\* The parent collects the return value of c.
Collect(c) ==
  /\ life[c] = "zombie" /\ life[parent[c]] = "alive"
  /\ life' = [life EXCEPT ![c] = "free"]
  /\ parent' = [parent EXCEPT ![c] = NoParent]
  /\ value' = [value EXCEPT ![c] = 0]

Disappear(c) ==
  /\ life[c] = "gone"
  /\ life' = [life EXCEPT ![c] = "free"]
  /\ UNCHANGED <<parent, value>>

LNext ==
  \/ \E p, c \in Proc : Create(p, c) \/ Collect(c) \/ Disappear(c)
  \/ \E p \in Proc, v \in Value : Terminate(p, v)

LSpec == LInit /\ [][LNext]_lvars
=============================================================================
