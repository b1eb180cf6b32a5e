------------------------------ MODULE Console ------------------------------
(***************************************************************************)
(* The keyboard input of src/kernel/console.c: the interrupt handler that  *)
(* stores what is typed in a circular buffer, and the processes that wait  *)
(* for a line (cons_read) or for a key (wait_for_keyboard), chained in     *)
(* head_io by bloque_io of src/kernel/process.c.                           *)
(*                                                                         *)
(* A key is "c" (a character), "cr", "bs", "tab" (when it asks for a       *)
(* completion), "up", "down", or "none": an event that stores nothing, as  *)
(* the release of a key.  The echo, the strings that cons_read returns and *)
(* the games' inputGame are left out.                                      *)
(*                                                                         *)
(* The definitions whose name holds an underscore are faulty variants of   *)
(* the one that follows them.                                              *)
(***************************************************************************)
EXTENDS Scheduler

CONSTANTS
  TailleTamp,    \* TAILLE_TAMP
  Keys,          \* the keys that are pressed
  Lengths,       \* the lengths passed to cons_read
  Inserts,       \* the lengths of the strings passed to ecrire_clavier
  CarefulTypist, \* see Careful
  KillsWaiters   \* processes are killed also while they are in head_io

ASSUME ConsoleAssumption ==
  /\ TailleTamp \in Nat \ {0, 1}
  /\ Keys \subseteq {"c", "cr", "bs", "tab", "up", "down", "none"}
  /\ Lengths \subseteq Nat \ {0} /\ Inserts \subseteq Nat \ {0}
  /\ CarefulTypist \in BOOLEAN
  /\ KillsWaiters \in BOOLEAN

VARIABLES
  tampon, casesDispos, indiceEcr, indiceLec,
  nbLig,      \* nb_lig
  flags,      \* which of tab_pressed, up and down are set
  headIo,     \* head_io
  call        \* the call that a process is stopped in: <<>>, <<"key">>, <<"line", n>>

input == <<tampon, casesDispos, indiceEcr, indiceLec, nbLig, flags>>
vars  == <<sched, input, headIo, call>>

Init ==
  /\ SchedInit
  /\ tampon = [i \in 0..(TailleTamp - 1) |-> "nul"]
  /\ casesDispos = TailleTamp
  /\ indiceEcr = 0 /\ indiceLec = 0
  /\ nbLig = 0
  /\ flags = {}
  /\ headIo = <<>>
  /\ call = [p \in Proc |-> <<>>]

Avancer(i, n) == (i + n) % TailleTamp
Behind(i, n)  == (i - n) % TailleTamp
Reculer_NoWrap(i) == IF i > 0 THEN i - 1 ELSE 0
Reculer(i) == IF i > 0 THEN i - 1 ELSE TailleTamp - 1

-----------------------------------------------------------------------------
(* The keyboard interrupt. *)

Stored(k) == k \notin {"bs", "none"} /\ casesDispos > 0

\* The backspace; nb_lig stays as it is, whatever is erased.
Backspace ==
  /\ indiceEcr' = IF casesDispos # TailleTamp THEN Reculer(indiceEcr) ELSE indiceEcr
  /\ casesDispos' = IF casesDispos # TailleTamp THEN casesDispos + 1 ELSE casesDispos
  /\ UNCHANGED <<tampon, indiceLec, nbLig>>

\* The arrows are noticed even when there is no room to store them.
KeyboardData(k) ==
  /\ flags' = flags \cup ({k} \cap {"up", "down"})
                    \cup (IF Stored(k) THEN {k} \cap {"tab"} ELSE {})
  /\ \/ /\ Stored(k)
        /\ tampon' = [tampon EXCEPT ![indiceEcr] = k]
        /\ indiceEcr' = Avancer(indiceEcr, 1)
        /\ casesDispos' = casesDispos - 1
        /\ nbLig' = IF k = "cr" THEN nbLig + 1 ELSE nbLig
        /\ UNCHANGED indiceLec
     \/ k = "bs" /\ Backspace
     \/ /\ k # "bs" /\ ~ Stored(k)
        /\ UNCHANGED <<tampon, casesDispos, indiceEcr, indiceLec, nbLig>>

\* debloque_io: the first waiter is made ready; ordonnance is not called.
DebloqueIo ==
  /\ headIo' = IF headIo = <<>> THEN headIo ELSE QueueOut(headIo)
  /\ Wake(IF headIo = <<>> THEN <<>> ELSE <<QueueTop(headIo)>>, FALSE)

\* Two assumptions on whoever types.  A backspace erases no carriage return.
\* Nothing at all is typed behind a tab or an arrow until a read has noticed
\* it: cons_look then erases the last character, whatever it is by that time.
Careful(k) ==
  k # "none" => /\ flags = {}
                /\ k = "bs" => \/ casesDispos = TailleTamp
                               \/ tampon[Reculer(indiceEcr)] # "cr"
                /\ k \in {"up", "down"} => casesDispos > 0

\* Interrupts are off in the kernel: the handler interrupts a process or idle.
TraitantClavier(k) ==
  /\ pc = "user"
  /\ CarefulTypist => Careful(k)
  /\ KeyboardData(k)
  /\ DebloqueIo
  /\ UNCHANGED call

-----------------------------------------------------------------------------
(* cons_read, wait_for_keyboard and get_InputGame. *)

\* The current process begins the call c, or comes back from bloque_io in it.
At(c) == User \/ (pc = "resumed" /\ call[cur] = c)

BloqueIo(c) ==
  /\ Block("WAITIO")
  /\ headIo' = QueueAdd(headIo, cur, prio)
  /\ call' = [call EXCEPT ![cur] = c]
  /\ UNCHANGED input

Leaves ==
  /\ stopped' = stopped \ {cur}
  /\ pc' = "user"
  /\ call' = [call EXCEPT ![cur] = <<>>]
  /\ UNCHANGED <<state, prio, act, cur, headIo>>

\* Whether cons_read goes on; Ready_Woken tests it only once.
Ready_Woken == pc = "resumed" \/ nbLig # 0 \/ flags # {}
Ready == nbLig # 0 \/ flags # {}

ConsReadBlock(n) ==
  /\ At(<<"line", n>>)
  /\ ~ Ready
  /\ BloqueIo(<<"line", n>>)

\* cons_look: the characters are looked at, and the last one typed erased.
ConsLook(n) ==
  /\ At(<<"line", n>>)
  /\ Ready /\ flags # {}
  /\ flags' = flags \ {CHOOSE f \in flags : \/ f = "tab"
                                            \/ f = "up" /\ "tab" \notin flags
                                            \/ flags = {"down"}}
  /\ Backspace
  /\ Leaves

\* The places that cons_read(length n) goes over: to a carriage return, at most n.
Consumed(n) ==
  CHOOSE k \in 1..n :
    /\ \A i \in 1..(k - 1) : tampon[Avancer(indiceLec, i - 1)] # "cr"
    /\ k = n \/ tampon[Avancer(indiceLec, k - 1)] = "cr"

\* The line that has been read is not counted any more.
LinesLeft_Kept(k) == nbLig
LinesLeft(k) == IF tampon[Avancer(indiceLec, k - 1)] = "cr" THEN nbLig - 1 ELSE nbLig

ConsRead(n) ==
  /\ At(<<"line", n>>)
  /\ Ready /\ flags = {}
  /\ LET k == Consumed(n) IN
       /\ casesDispos' = casesDispos + k
       /\ indiceLec' = Avancer(indiceLec, k)
       /\ nbLig' = LinesLeft(k)
  /\ Leaves
  /\ UNCHANGED <<tampon, indiceEcr, flags>>

WaitKeyboardBlock ==
  /\ At(<<"key">>)
  /\ casesDispos = TailleTamp
  /\ BloqueIo(<<"key">>)

WaitKeyboard ==
  /\ At(<<"key">>)
  /\ casesDispos # TailleTamp
  /\ Leaves
  /\ UNCHANGED input

\* get_InputGame forgets the arrows, but leaves them in tampon.
GetInputGame ==
  /\ User
  /\ flags' = flags \ {"up", "down"}
  /\ UNCHANGED <<sched, tampon, casesDispos, indiceEcr, indiceLec, nbLig, headIo, call>>

-----------------------------------------------------------------------------
(* clear_line and ecrire_clavier, with which the shell rewrites the line.   *)
(* The careful typist types nothing between an arrow and the new line.      *)

Rewrites ==
  /\ User
  /\ CarefulTypist => flags = {}

\* The backspaces of clear_line: as many as there are places behind the
\* pointer up to one that holds a carriage return, read or not, but none once
\* the buffer is empty.
HoldsReturn == \E i \in DOMAIN tampon : tampon[i] = "cr"

Backspaces ==
  (CHOOSE d \in 1..TailleTamp :
     /\ tampon[Behind(indiceEcr, d)] = "cr"
     /\ \A e \in 1..(d - 1) : tampon[Behind(indiceEcr, e)] # "cr") - 1

ClearLine ==
  /\ Rewrites
  /\ HoldsReturn
  /\ LET unread == TailleTamp - casesDispos
         n == IF Backspaces < unread THEN Backspaces ELSE unread
     IN /\ indiceEcr' = Behind(indiceEcr, n)
        /\ casesDispos' = casesDispos + n
  /\ UNCHANGED <<sched, tampon, indiceLec, nbLig, flags, headIo, call>>

\* Without a carriage return in the buffer clear_line goes round for ever,
\* and interrupts are off.
ClearLineStuck ==
  /\ Rewrites
  /\ ~ HoldsReturn
  /\ pc' = "stuck"
  /\ UNCHANGED <<state, prio, act, cur, stopped, input, headIo, call>>

\* ecrire_clavier of n characters, the end of a command or one of the history.
EcrireClavier(n) ==
  /\ Rewrites
  /\ LET m == IF n < casesDispos THEN n ELSE casesDispos IN
       /\ tampon' = [i \in DOMAIN tampon |->
                       IF Behind(i, indiceEcr) < m THEN "c" ELSE tampon[i]]
       /\ indiceEcr' = Avancer(indiceEcr, m)
       /\ casesDispos' = casesDispos - m
  /\ UNCHANGED <<sched, indiceLec, nbLig, flags, headIo, call>>

-----------------------------------------------------------------------------
(* The other system calls.  kill leaves a waiter in head_io, and chprio     *)
(* leaves it at its place.                                                  *)

Kill(p) ==
  /\ Ended(p)
  /\ state[p] = "WAITIO" => KillsWaiters
  /\ call' = [call EXCEPT ![p] = <<>>]
  /\ UNCHANGED <<input, headIo>>

Start(p, n) == Started(p, n) /\ UNCHANGED <<input, headIo, call>>

Chprio(p, n) == Repriorised(p, n) /\ UNCHANGED <<input, headIo, call>>

Tick == Preempted /\ UNCHANGED <<input, headIo, call>>

Ordonnance == Elected /\ UNCHANGED <<input, headIo, call>>

Next ==
  \/ \E k \in Keys : TraitantClavier(k)
  \/ \E n \in Lengths : ConsReadBlock(n) \/ ConsLook(n) \/ ConsRead(n)
  \/ WaitKeyboardBlock
  \/ WaitKeyboard
  \/ GetInputGame
  \/ ClearLine
  \/ ClearLineStuck
  \/ pc = "stuck" /\ UNCHANGED vars
  \/ \E n \in Inserts : EcrireClavier(n)
  \/ \E p \in Proc : Kill(p)
  \/ \E p \in Proc, n \in Prio : Start(p, n)
  \/ \E p \in Proc, n \in Prio : Chprio(p, n)
  \/ Tick
  \/ Ordonnance

Spec == Init /\ [][Next]_vars
=============================================================================
