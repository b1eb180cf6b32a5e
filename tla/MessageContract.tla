-------------------------- MODULE MessageContract --------------------------
(***************************************************************************)
(* What src/kernel/messages.c promises: a queue is a bounded sequence of   *)
(* messages, received in the order in which they were accepted; whoever    *)
(* has to wait is served once, or told that the queue was reset.           *)
(***************************************************************************)
EXTENDS Integers, Sequences

CONSTANTS Client, Queue, Msg, Room   \* Room: the capacities

VARIABLES
  room,      \* the capacity of each queue, 0 if it does not exist
  content,   \* its accepted messages
  want,      \* what each client waits for
  answer,    \* what its blocking call will return, <<>> if it is in none
  got        \* the message it has received last

cvars == <<room, content, want, answer, got>>

Nothing   == <<>>
Get(q)    == <<"get", q>>
Put(q, m) == <<"put", q, m>>
Done      == <<"done">>
Error     == <<"error">>
Given(m)  == <<"given", m>>

CInit ==
  /\ room = [q \in Queue |-> 0]
  /\ content = [q \in Queue |-> <<>>]
  /\ want = [p \in Client |-> Nothing]
  /\ answer = [p \in Client |-> Nothing]
  /\ got = [p \in Client |-> 0]

Open(q, n) ==
  /\ room[q] = 0
  /\ room' = [room EXCEPT ![q] = n]
  /\ UNCHANGED <<content, want, answer, got>>

\* preset (keep) and pdelete.
Empty(q, keep) ==
  /\ room[q] > 0
  /\ room' = [room EXCEPT ![q] = IF keep THEN @ ELSE 0]
  /\ content' = [content EXCEPT ![q] = <<>>]
  /\ LET expelled == {p \in Client : want[p] # Nothing /\ want[p][2] = q}
     IN /\ want' = [p \in Client |-> IF p \in expelled THEN Nothing ELSE want[p]]
        /\ answer' = [p \in Client |-> IF p \in expelled THEN Error ELSE answer[p]]
  /\ UNCHANGED got

Idle(p) == want[p] = Nothing /\ answer[p] = Nothing

\* A message is accepted, or given to the client r that waits for one.
Send(q, m) ==
  /\ room[q] > 0 /\ Len(content[q]) < room[q]
  /\ \A r \in Client : want[r] # Get(q)
  /\ content' = [content EXCEPT ![q] = Append(@, m)]
  /\ UNCHANGED <<room, want, answer, got>>

SendTo(p, q, m, r) ==
  /\ Idle(p)
  /\ want[r] = Get(q)
  /\ want' = [want EXCEPT ![r] = Nothing]
  /\ answer' = [answer EXCEPT ![r] = Given(m), ![p] = Done]
  /\ UNCHANGED <<room, content, got>>

\* The client waits: for room, or for a message.
Await(p, w) ==
  /\ Idle(p)
  /\ \E q \in Queue :
       /\ room[q] > 0
       /\ \/ w = Get(q) /\ content[q] = <<>>
          \/ Len(content[q]) = room[q] /\ \E m \in Msg : w = Put(q, m)
  /\ want' = [want EXCEPT ![p] = w]
  /\ UNCHANGED <<room, content, answer, got>>

\* The oldest message is received; a sender that waits for room gets it.
Receive(p, q) ==
  /\ Idle(p)
  /\ content[q] # <<>>
  /\ \A s \in Client, m \in Msg : want[s] # Put(q, m)
  /\ got' = [got EXCEPT ![p] = Head(content[q])]
  /\ content' = [content EXCEPT ![q] = Tail(@)]
  /\ UNCHANGED <<room, want, answer>>

ReceiveAndAdmit(p, q, s, m) ==
  /\ Idle(p)
  /\ content[q] # <<>>
  /\ want[s] = Put(q, m)
  /\ got' = [got EXCEPT ![p] = Head(content[q])]
  /\ content' = [content EXCEPT ![q] = Append(Tail(@), m)]
  /\ want' = [want EXCEPT ![s] = Nothing]
  /\ answer' = [answer EXCEPT ![s] = Done, ![p] = Done]
  /\ UNCHANGED room

\* The blocking call returns; or the client is ended; or a new one begins.
\* A call that fails leaves any value where the message should be.
Return(p) ==
  /\ answer[p] # Nothing
  /\ \/ answer[p] = Done /\ UNCHANGED got
     \/ \E m \in Msg : answer[p] = Given(m) /\ got' = [got EXCEPT ![p] = m]
     \/ \E m \in Msg \cup {0, got[p]} : answer[p] = Error /\ got' = [got EXCEPT ![p] = m]
  /\ answer' = [answer EXCEPT ![p] = Nothing]
  /\ UNCHANGED <<room, content, want>>

End(p) ==
  /\ want' = [want EXCEPT ![p] = Nothing]
  /\ answer' = [answer EXCEPT ![p] = Nothing]
  /\ UNCHANGED <<room, content, got>>

Begin(p) ==
  /\ got' = [got EXCEPT ![p] = 0]
  /\ UNCHANGED <<room, content, want, answer>>

CNext ==
  \/ \E q \in Queue : \/ \E n \in Room : Open(q, n)
                      \/ \E keep \in BOOLEAN : Empty(q, keep)
                      \/ \E m \in Msg : Send(q, m)
                      \/ \E p \in Client : \/ Await(p, Get(q)) \/ Receive(p, q)
                                           \/ \E m \in Msg : Await(p, Put(q, m))
                      \/ \E p, r \in Client, m \in Msg : \/ SendTo(p, q, m, r)
                                                         \/ ReceiveAndAdmit(p, q, r, m)
  \/ \E p \in Client : Return(p) \/ End(p) \/ Begin(p)

CSpec == CInit /\ [][CNext]_cvars
=============================================================================
