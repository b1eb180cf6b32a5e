--------------------------- MODULE ConsoleProps ---------------------------
(***************************************************************************)
(* The properties of module Console.                                       *)
(***************************************************************************)
EXTENDS Console

\* What has been typed and not read, from indice_lec on.
Unread == [i \in 1..(TailleTamp - casesDispos) |-> tampon[Avancer(indiceLec, i - 1)]]

\* The two indices, the room that is left and the number of lines describe
\* the same text, although the interrupt handler and the readers write
\* different ones of them: nb_lig counts the carriage returns to be read, so
\* that cons_read neither blocks beside a complete line nor reads past the
\* end of what was typed.
BufferInStep ==
  /\ casesDispos \in 0..TailleTamp
  /\ indiceEcr = Avancer(indiceLec, TailleTamp - casesDispos)
  /\ nbLig = Cardinality({i \in 1..Len(Unread) : Unread[i] = "cr"})

\* The readers see the keyboard of module ConsoleContract: characters are
\* delivered in the order in which they were typed, each to one reader, and
\* a reader that waited, and may have been overtaken between its wake-up and
\* its election, returns only with a line, a tab or an arrow; clear_line takes
\* away what was typed after the last return, and no line before it.
Contract == INSTANCE ConsoleContract WITH
  Client <- Proc,
  Char   <- Keys \ {"bs", "none"},
  Room   <- TailleTamp,
  Length <- Lengths,
  Insert <- Inserts,
  text   <- Unread,
  waits  <- [p \in Proc |-> IF call[p] = <<>> THEN "nothing" ELSE call[p][1]],
  alive  <- {p \in Proc : state[p] # "ENDED"}
ConsolePromise == Contract!CSpec
=============================================================================
