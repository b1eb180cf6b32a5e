------------------------------ MODULE Messages ------------------------------
(***************************************************************************)
(* The message queues of src/kernel/messages.c, with the parts of kill and *)
(* chprio (src/kernel/process.c) that deal with processes in WAITMSG.      *)
(*                                                                         *)
(* A queue is known by its fid, its place in `queues'.  A MsgQueue that is *)
(* deleted stays there, dead, until pcreate takes it again.                *)
(*                                                                         *)
(* The definitions whose name holds an underscore are faulty variants of   *)
(* the one that follows them: each breaks a property of MessageProps.      *)
(***************************************************************************)
EXTENDS Scheduler

CONSTANTS
  NbQueues,    \* NB_QUEUES
  Sizes,       \* the capacities passed to pcreate
  Msg,         \* the messages
  ResetIds,    \* the queues that preset is called for
  Receivers    \* how preceive is called: with a pointer (TRUE), or with NULL

ASSUME MessageAssumption ==
  /\ NbQueues \in Nat \ {0}
  /\ Sizes \subseteq Nat \ {0}
  /\ Msg \subseteq Int
  /\ ResetIds \subseteq 0..(NbQueues - 1)
  /\ Receivers \subseteq BOOLEAN

Fid == 0..(NbQueues - 1)

VARIABLES
  (* the fields of MsgQueue, by fid *)
  alive,                   \* it has been created, and is not dead
  messages,                \* the function from 0..size-1 of the buffer
  size, rindex, windex, nbMessages, nbReaders, nbWriters,
  readers, writers,
  (* the globals *)
  created,                 \* created_queues
  remaining,               \* remaining_queues
  list,                    \* list_queues
  (* the fields of Process *)
  message, hasMsgError,
  blockedQueue,            \* the fid of the queue p waits for, as which side
  received,                \* where p's last preceive stored the message
  call                     \* the call that p is stopped in

buffer == <<messages, size, rindex, windex, nbMessages>>
waits  == <<nbReaders, nbWriters, readers, writers, blockedQueue>>
table  == <<alive, created, remaining, list>>
mine   == <<message, hasMsgError, received, call>>
vars   == <<sched, buffer, waits, table, mine>>

Init ==
  /\ SchedInit
  /\ alive = [q \in Fid |-> FALSE]
  /\ messages = [q \in Fid |-> <<>>]
  /\ size = [q \in Fid |-> 0]
  /\ rindex = [q \in Fid |-> 0]
  /\ windex = [q \in Fid |-> 0]
  /\ nbMessages = [q \in Fid |-> 0]
  /\ nbReaders = [q \in Fid |-> 0]
  /\ nbWriters = [q \in Fid |-> 0]
  /\ readers = [q \in Fid |-> <<>>]
  /\ writers = [q \in Fid |-> <<>>]
  /\ created = 0 /\ remaining = NbQueues /\ list = <<>>
  /\ message = [p \in Proc |-> 0]
  /\ hasMsgError = [p \in Proc |-> FALSE]
  /\ blockedQueue = [p \in Proc |-> <<>>]
  /\ received = [p \in Proc |-> 0]
  /\ call = [p \in Proc |-> "none"]

-----------------------------------------------------------------------------
(* pcreate and pdestroy. *)

\* The queue pcreate takes: the one deleted first, else one never used.
NewFid == IF list # <<>> THEN Head(list) ELSE created

Opened(n) ==
  LET q == NewFid IN
  /\ alive' = [alive EXCEPT ![q] = TRUE]
  /\ messages' = [messages EXCEPT ![q] = [i \in 0..(n - 1) |-> 0]]
  /\ size' = [size EXCEPT ![q] = n]
  /\ rindex' = [rindex EXCEPT ![q] = 0]
  /\ windex' = [windex EXCEPT ![q] = 0]
  /\ nbMessages' = [nbMessages EXCEPT ![q] = 0]
  /\ nbReaders' = [nbReaders EXCEPT ![q] = 0]
  /\ nbWriters' = [nbWriters EXCEPT ![q] = 0]
  /\ readers' = [readers EXCEPT ![q] = <<>>]
  /\ writers' = [writers EXCEPT ![q] = <<>>]

Pcreate(n) ==
  /\ User
  /\ remaining > 0
  /\ list # <<>> \/ created < NbQueues
  /\ Opened(n)
  /\ created' = IF list # <<>> THEN created ELSE created + 1
  /\ list' = IF list # <<>> THEN Tail(list) ELSE list
  /\ remaining' = remaining - 1
  /\ UNCHANGED <<sched, blockedQueue, mine>>

\* No memory for the buffer: the queue goes back to the end of the list.
PutBack_Lost == Tail(list)
PutBack == Append(Tail(list), Head(list))

PcreateNoMemory ==
  /\ User
  /\ remaining > 0
  /\ list # <<>>
  /\ list' = PutBack
  /\ UNCHANGED <<sched, buffer, waits, alive, created, remaining, mine>>

\* force_reload_proc of all waiters, from the first of each list on.
Expelled_Writers(q) == Reverse(writers[q])
Expelled(q) == Reverse(readers[q] \o writers[q])

Expel(q) ==
  LET ps == Expelled(q) IN
  /\ hasMsgError' = [p \in Proc |-> p \in Elems(ps) \/ hasMsgError[p]]
  /\ blockedQueue' = [p \in Proc |-> IF p \in Elems(ps) THEN <<>> ELSE blockedQueue[p]]
  /\ Wake(ps, TRUE)
  /\ readers' = [readers EXCEPT ![q] = <<>>]
  /\ writers' = [writers EXCEPT ![q] = <<>>]
  /\ nbReaders' = [nbReaders EXCEPT ![q] = 0]
  /\ nbWriters' = [nbWriters EXCEPT ![q] = 0]
  /\ nbMessages' = [nbMessages EXCEPT ![q] = 0]
  /\ UNCHANGED <<rindex, windex, message, received, call>>

Preset(q) ==
  /\ User /\ alive[q]
  /\ Expel(q)
  /\ UNCHANGED <<messages, size, table>>

Pdelete(q) ==
  /\ User /\ alive[q]
  /\ Expel(q)
  /\ alive' = [alive EXCEPT ![q] = FALSE]
  /\ messages' = [messages EXCEPT ![q] = <<>>]
  /\ size' = [size EXCEPT ![q] = 0]
  /\ list' = Append(list, q)
  /\ remaining' = remaining + 1
  /\ UNCHANGED created

-----------------------------------------------------------------------------
(* psend and preceive. *)

\* write_message, in a buffer whose nb_messages was n.
Write_NoWrap(q, msg, n) ==
  /\ messages' = [messages EXCEPT ![q][windex[q]] = msg]
  /\ windex' = [windex EXCEPT ![q] = @ + 1]
  /\ nbMessages' = [nbMessages EXCEPT ![q] = n + 1]
Write(q, msg, n) ==
  /\ messages' = [messages EXCEPT ![q][windex[q]] = msg]
  /\ windex' = [windex EXCEPT ![q] = (@ + 1) % size[q]]
  /\ nbMessages' = [nbMessages EXCEPT ![q] = n + 1]

\* The current process stays in the call c while others run: it waits
\* (queue_wait) in the list side of q, or has only called ordonnance.
Wait(q, side, c) ==
  /\ Block("WAITMSG")
  /\ blockedQueue' = [blockedQueue EXCEPT ![cur] = <<q, side>>]
  /\ call' = [call EXCEPT ![cur] = c]

\* p, taken out of a list, is made ready, and the current process stays in
\* its call behind ordonnance.
Serve(p, c) ==
  /\ state' = [state EXCEPT ![p] = "ACTIVABLE"]
  /\ act' = QueueAdd(act, p, prio)
  /\ blockedQueue' = [blockedQueue EXCEPT ![p] = <<>>]
  /\ stopped' = stopped \cup {cur}
  /\ call' = [call EXCEPT ![cur] = c]
  /\ pc' = "ordonnance"
  /\ UNCHANGED <<prio, cur>>

\* pop_reader is preferred to the buffer.
HasReader_Never(q) == FALSE
HasReader(q) == nbReaders[q] # 0 /\ nbMessages[q] \in {0, size[q]}

PsendHand(q, msg) ==
  /\ User /\ alive[q]
  /\ HasReader(q)
  /\ LET p == QueueTop(readers[q]) IN
       /\ message' = [message EXCEPT ![p] = msg]
       /\ Serve(p, "send")
  /\ readers' = [readers EXCEPT ![q] = QueueOut(@)]
  /\ nbReaders' = [nbReaders EXCEPT ![q] = @ - 1]
  /\ UNCHANGED <<buffer, nbWriters, writers, table, hasMsgError, received>>

PsendBlock(q, msg) ==
  /\ User /\ alive[q]
  /\ nbMessages[q] = size[q] /\ nbReaders[q] = 0
  /\ message' = [message EXCEPT ![cur] = msg]
  /\ writers' = [writers EXCEPT ![q] = QueueAdd(@, cur, prio)]
  /\ nbWriters' = [nbWriters EXCEPT ![q] = @ + 1]
  /\ Wait(q, "writers", "send")
  /\ UNCHANGED <<buffer, nbReaders, readers, table, hasMsgError, received>>

PsendWrite(q, msg) ==
  /\ User /\ alive[q]
  /\ nbMessages[q] # size[q] /\ ~ HasReader(q)
  /\ Write(q, msg, nbMessages[q])
  /\ UNCHANGED <<sched, size, rindex, waits, table, mine>>

\* With an empty buffer preceive would also take the message of a sender that
\* waits; NoWaitInVain of MessageProps says that there never is one.
PreceiveBlock(q, ptr) ==
  /\ User /\ alive[q]
  /\ nbMessages[q] = 0 /\ nbWriters[q] = 0
  /\ readers' = [readers EXCEPT ![q] = QueueAdd(@, cur, prio)]
  /\ nbReaders' = [nbReaders EXCEPT ![q] = @ + 1]
  /\ Wait(q, "readers", IF ptr THEN "receive" ELSE "discard")
  /\ UNCHANGED <<buffer, nbWriters, writers, table, message, hasMsgError, received>>

\* The reading of the buffer: with a null pointer rindex stays.
Read(q, ptr) ==
  /\ received' = IF ptr THEN [received EXCEPT ![cur] = messages[q][rindex[q]]] ELSE received
  /\ rindex' = IF ptr THEN [rindex EXCEPT ![q] = (@ + 1) % size[q]] ELSE rindex

\* After the reading of a full buffer, a sender that waits is let in.
LetsIn_Never(q) == FALSE
LetsIn(q) == nbMessages[q] = size[q] /\ nbWriters[q] # 0

Preceive(q, ptr) ==
  /\ User /\ alive[q]
  /\ nbMessages[q] # 0 /\ ~ LetsIn(q)
  /\ Read(q, ptr)
  /\ nbMessages' = [nbMessages EXCEPT ![q] = @ - 1]
  /\ UNCHANGED <<sched, messages, size, windex, waits, table, message, hasMsgError, call>>

\* The sender to let in is the one of highest priority; LetIn_First takes the
\* other end of the list.
LetIn_First(q) == QueueBottom(writers[q])
LetIn(q) == QueueTop(writers[q])

PreceiveLetIn(q, ptr) ==
  /\ User /\ alive[q]
  /\ nbMessages[q] # 0 /\ LetsIn(q)
  /\ Read(q, ptr)
  /\ LET p == LetIn(q) IN
       /\ Write(q, message[p], nbMessages[q] - 1)
       /\ Serve(p, "send")
       /\ writers' = [writers EXCEPT ![q] = QueueDel(@, p)]
  /\ nbWriters' = [nbWriters EXCEPT ![q] = @ - 1]
  /\ UNCHANGED <<size, nbReaders, readers, table, message, hasMsgError>>

\* The end of psend and preceive behind ordonnance: a receiver that waited
\* takes its message, then check_errors clears the error.
CheckErrors_Keeps == hasMsgError
CheckErrors == [hasMsgError EXCEPT ![cur] = FALSE]

Resume ==
  /\ Returned
  /\ received' = IF call[cur] = "receive" THEN [received EXCEPT ![cur] = message[cur]]
                                          ELSE received
  /\ hasMsgError' = CheckErrors
  /\ call' = [call EXCEPT ![cur] = "none"]
  /\ UNCHANGED <<buffer, waits, table, message>>

-----------------------------------------------------------------------------
(* The other system calls. *)

\* The lists of one side without p, and with p at the place of its priority.
Without(p, side, lists) ==
  [q \in Fid |-> IF blockedQueue[p] = <<q, side>> THEN QueueDel(lists[q], p) ELSE lists[q]]

Replaced(p, side, lists) ==
  [q \in Fid |-> IF blockedQueue[p] = <<q, side>> THEN Requeued(lists[q], p) ELSE lists[q]]

\* kill of a waiter lowers the counter its msg_counter points to.
Uncounted_Not(p, side, n) == n
Uncounted(p, side, n) ==
  [q \in Fid |-> IF blockedQueue[p] = <<q, side>> THEN n[q] - 1 ELSE n[q]]

Kill(p) ==
  /\ Ended(p)
  /\ readers' = Without(p, "readers", readers)
  /\ writers' = Without(p, "writers", writers)
  /\ nbReaders' = Uncounted(p, "readers", nbReaders)
  /\ nbWriters' = Uncounted(p, "writers", nbWriters)
  /\ blockedQueue' = [blockedQueue EXCEPT ![p] = <<>>]
  /\ call' = [call EXCEPT ![p] = "none"]
  /\ UNCHANGED <<buffer, table, message, hasMsgError, received>>

\* The structure of the new process is filled with zeros.
Start(p, n) ==
  /\ Started(p, n)
  /\ message' = [message EXCEPT ![p] = 0]
  /\ hasMsgError' = [hasMsgError EXCEPT ![p] = FALSE]
  /\ received' = [received EXCEPT ![p] = 0]
  /\ UNCHANGED <<buffer, waits, table, call>>

Chprio(p, n) ==
  /\ Repriorised(p, n)
  /\ readers' = Replaced(p, "readers", readers)
  /\ writers' = Replaced(p, "writers", writers)
  /\ UNCHANGED <<buffer, nbReaders, nbWriters, blockedQueue, table, mine>>

Tick == Preempted /\ UNCHANGED <<buffer, waits, table, mine>>

Ordonnance == Elected /\ UNCHANGED <<buffer, waits, table, mine>>

Next ==
  \/ \E n \in Sizes : Pcreate(n)
  \/ PcreateNoMemory
  \/ \E q \in ResetIds : Preset(q)
  \/ \E q \in Fid :
       \/ Pdelete(q)
       \/ \E m \in Msg : PsendHand(q, m) \/ PsendBlock(q, m) \/ PsendWrite(q, m)
       \/ \E ptr \in Receivers : \/ PreceiveBlock(q, ptr) \/ Preceive(q, ptr)
                                 \/ PreceiveLetIn(q, ptr)
  \/ Resume
  \/ \E p \in Proc : Kill(p)
  \/ \E p \in Proc, n \in Prio : Start(p, n)
  \/ \E p \in Proc, n \in Prio : Chprio(p, n)
  \/ Tick
  \/ Ordonnance

Spec == Init /\ [][Next]_vars
=============================================================================
