-------------------------- MODULE ConsoleContract --------------------------
(***************************************************************************)
(* What src/kernel/console.c promises to whoever reads the keyboard: what  *)
(* was typed is a sequence, read from its beginning, line by line and only *)
(* once a line is complete.                                                *)
(***************************************************************************)
EXTENDS Integers, Sequences

CONSTANTS Client, Char, Room, Length, Insert

VARIABLES
  text,    \* typed and not yet read
  waits,   \* what each client waits for: "nothing", "key" or "line"
  alive    \* the clients that exist

cvars == <<text, waits, alive>>

CInit == text = <<>> /\ waits = [p \in Client |-> "nothing"] /\ alive = Client

Type(k) ==
  /\ Len(text) < Room
  /\ text' = Append(text, k)
  /\ UNCHANGED <<waits, alive>>

Erase ==
  /\ text # <<>>
  /\ text' = SubSeq(text, 1, Len(text) - 1)
  /\ UNCHANGED <<waits, alive>>

\* What was typed after the last carriage return.
Clear == \E k \in 0..Len(text) :
  /\ k = 0 \/ text[k] = "cr"
  /\ \A i \in (k + 1)..Len(text) : text[i] # "cr"
  /\ text' = SubSeq(text, 1, k)
  /\ UNCHANGED <<waits, alive>>

\* A program writes as if it was typed; what finds no room is lost.
Write(n) == \E k \in 0..n :
  /\ Len(text) + k <= Room
  /\ k = n \/ Len(text) + k = Room
  /\ text' = text \o [i \in 1..k |-> "c"]
  /\ UNCHANGED <<waits, alive>>

HasLine == \E i \in 1..Len(text) : text[i] = "cr"

Await(p) ==
  /\ waits[p] = "nothing" /\ p \in alive
  /\ \/ ~ HasLine /\ waits' = [waits EXCEPT ![p] = "line"]
     \/ text = <<>> /\ waits' = [waits EXCEPT ![p] = "key"]
  /\ UNCHANGED <<text, alive>>

\* A client that is not in another call gets its answer.
Answer(p, w) ==
  /\ p \in alive /\ waits[p] \in {"nothing", w}
  /\ waits' = [waits EXCEPT ![p] = "nothing"]
  /\ UNCHANGED alive

\* cons_read takes characters up to a carriage return, at most n.
Take(p, n) ==
  /\ HasLine
  /\ \E k \in 1..Len(text) :
       /\ \A i \in 1..(k - 1) : text[i] # "cr"
       /\ k = n \/ text[k] = "cr"
       /\ k <= n
       /\ text' = SubSeq(text, k + 1, Len(text))
  /\ Answer(p, "line")

\* cons_read notices a tab or an arrow, and takes it away.
Notice(p) ==
  /\ text # <<>> /\ text[Len(text)] \in {"tab", "up", "down"}
  /\ text' = SubSeq(text, 1, Len(text) - 1)
  /\ Answer(p, "line")

\* wait_for_keyboard
Wake(p) == text # <<>> /\ Answer(p, "key") /\ UNCHANGED text

End(p) ==
  /\ alive' = alive \ {p}
  /\ waits' = [waits EXCEPT ![p] = "nothing"]
  /\ UNCHANGED text

Begin(p) == p \notin alive /\ alive' = alive \cup {p} /\ UNCHANGED <<text, waits>>

CNext ==
  \/ \E k \in Char : Type(k)
  \/ Erase
  \/ Clear
  \/ \E n \in Insert : Write(n)
  \/ \E p \in Client : \/ Await(p) \/ Notice(p) \/ Wake(p) \/ End(p) \/ Begin(p)
                       \/ \E n \in Length : Take(p, n)

CSpec == CInit /\ [][CNext]_cvars
=============================================================================
