---------------------------- MODULE MessageProps ----------------------------
(***************************************************************************)
(* The properties of module Messages.                                      *)
(***************************************************************************)
EXTENDS Messages

\* The values of the variables of messages.c.
TypeOK ==
  /\ alive \in [Fid -> BOOLEAN]
  /\ \A q \in Fid :
       /\ size[q] \in Sizes \cup {0}
       /\ messages[q] \in [0..(size[q] - 1) -> Msg \cup {0}]
       /\ Elems(readers[q]) \cup Elems(writers[q]) \subseteq Proc
       /\ alive[q] => /\ {rindex[q], windex[q]} \subseteq 0..(size[q] - 1)
                      /\ nbMessages[q] \in 0..size[q]
  /\ message \in [Proc -> Msg \cup {0}]
  /\ received \in [Proc -> Msg \cup {0}]
  /\ hasMsgError \in [Proc -> BOOLEAN]
  /\ call \in [Proc -> {"none", "send", "receive", "discard"}]

\* nb_readers and nb_writers, from which psend and preceive decide whom to
\* serve (pop_reader and pop_writer assert that there is somebody), count the
\* processes of the lists, whatever kills, resets and deletions intervene.
WaitersCounted ==
  \A q \in Fid : nbReaders[q] = Len(readers[q]) /\ nbWriters[q] = Len(writers[q])

\* Nobody waits in vain: a receiver only for a queue that is empty and that
\* no sender waits for, and a sender only for a queue that is full.
NoWaitInVain ==
  \A q \in Fid :
    /\ readers[q] # <<>> => nbMessages[q] = 0 /\ writers[q] = <<>>
    /\ writers[q] # <<>> => nbMessages[q] = size[q]

\* How often p is chained in w.
Occurs(p, w) == Cardinality({i \in 1..Len(w) : w[i] = p})

\* A process in WAITMSG is chained once, in the list its blocked_queue names
\* and that kill and chprio will look for it in, and the queue is not dead;
\* no list holds another process.
WaitersChained ==
  \A p \in Proc :
    /\ state[p] = "WAITMSG" <=> blockedQueue[p] # <<>>
    /\ \A q \in Fid : /\ Occurs(p, readers[q]) = IF blockedQueue[p] = <<q, "readers">> THEN 1 ELSE 0
                      /\ Occurs(p, writers[q]) = IF blockedQueue[p] = <<q, "writers">> THEN 1 ELSE 0
                      /\ blockedQueue[p] # <<>> /\ blockedQueue[p][1] = q => alive[q]

\* has_msg_error tells of the wait that is ending and of no other: it is set
\* only while the process is still inside the call it was expelled from.
ErrorIsCurrent ==
  \A p \in Proc : hasMsgError[p] /\ state[p] # "ENDED" => p \in stopped /\ state[p] # "WAITMSG"

\* remaining_queues, which pcreate tests first, counts the queues that it can
\* take from list_queues or make; none is lost or listed twice.
QueuesAccounted ==
  /\ remaining = Cardinality({q \in Fid : ~ alive[q]})
  /\ Elems(list) = {q \in 0..(created - 1) : ~ alive[q]}
  /\ NoDup(list)

\* The indices and the number of messages tell the same: writing goes on
\* nb_messages places after reading.
IndicesAgree ==
  \A q \in Fid : alive[q] => windex[q] = (rindex[q] + nbMessages[q]) % size[q]

\* Among the processes that wait on the same side of a queue, the one served
\* has the highest priority, also after chprio.
Served(p) == state[p] = "WAITMSG" /\ state'[p] = "ACTIVABLE" /\ ~ hasMsgError'[p]
ServedFirst ==
  [][\A p, r \in Proc :
       Served(p) /\ blockedQueue[r] = blockedQueue[p] => prio[r] <= prio[p]]_vars

\* The queues keep the promises of module MessageContract.
Contract == INSTANCE MessageContract WITH
  Client  <- Proc,
  Queue   <- Fid,
  Room    <- Sizes,
  room    <- size,
  content <- [q \in Fid |-> [i \in 1..nbMessages[q] |->
                messages[q][(rindex[q] + i - 1) % size[q]]]],
  want    <- [p \in Proc |-> IF blockedQueue[p] = <<>> THEN <<>>
                             ELSE IF blockedQueue[p][2] = "readers"
                             THEN <<"get", blockedQueue[p][1]>>
                             ELSE <<"put", blockedQueue[p][1], message[p]>>],
  answer  <- [p \in Proc |-> IF p \notin stopped \/ state[p] = "WAITMSG" THEN <<>>
                             ELSE IF hasMsgError[p] THEN <<"error">>
                             ELSE IF call[p] = "receive" THEN <<"given", message[p]>>
                             ELSE <<"done">>],
  got     <- received
MessagePromise == Contract!CSpec
=============================================================================
