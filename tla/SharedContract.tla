--------------------------- MODULE SharedContract ---------------------------
(***************************************************************************)
(* What the calls of src/kernel/shmem.c promise to programs, by their      *)
(* comments: a page has a name as long as a process has it mapped, a       *)
(* process sees it at one address, and an address that was valid never     *)
(* leads to anything else afterwards.                                      *)
(***************************************************************************)
EXTENDS Integers, Functions

CONSTANTS Proc, Key, Address

VARIABLES
  view,      \* the key of the page that each process sees at an address
  spent      \* the addresses it has been given

cvars == <<view, spent>>

CInit ==
  /\ view = [p \in Proc |-> <<>>]
  /\ spent = [p \in Proc |-> {}]

\* What a process sees, with one page more and without one.
With(seen, a, k) == [b \in DOMAIN seen \cup {a} |-> IF b = a THEN k ELSE seen[b]]
Without(seen, k) == Restrict(seen, {b \in DOMAIN seen : seen[b] # k})

Sees(p, k) == k \in Range(view[p])

Given(p, a) ==
  /\ a \in Address \ spent[p]
  /\ spent' = [spent EXCEPT ![p] = @ \cup {a}]

Create(p, k, a) ==
  /\ \A q \in Proc : ~ Sees(q, k)
  /\ Given(p, a)
  /\ view' = [view EXCEPT ![p] = With(@, a, k)]

Acquire(p, k, a) ==
  /\ \E q \in Proc : Sees(q, k)
  /\ ~ Sees(p, k)
  /\ Given(p, a)
  /\ view' = [view EXCEPT ![p] = With(@, a, k)]

\* A call that fails may use up an address.
Refuse(p, a) == Given(p, a) /\ UNCHANGED view

Release(p, k) ==
  /\ Sees(p, k)
  /\ view' = [view EXCEPT ![p] = Without(@, k)]
  /\ UNCHANGED spent

Leave(p) ==
  /\ view' = [view EXCEPT ![p] = <<>>]
  /\ spent' = [spent EXCEPT ![p] = {}]

CNext == \E p \in Proc :
  \/ Leave(p)
  \/ \E k \in Key : Release(p, k)
  \/ \E a \in Address : \/ Refuse(p, a)
                        \/ \E k \in Key : Create(p, k, a) \/ Acquire(p, k, a)

CSpec == CInit /\ [][CNext]_cvars
=============================================================================
