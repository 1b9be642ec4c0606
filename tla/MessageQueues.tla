---------------------------- MODULE MessageQueues ----------------------------
(***************************************************************************)
(* The message queues of the execution library: the map _msgs of           *)
(* mpc_context (context.hpp).  A registered party has a queue for every    *)
(* party of the set it was registered with, itself included.  Every        *)
(* operator takes the map and returns what it is afterwards.               *)
(*                                                                         *)
(* The code finds a party by a hash of its address, index and alpha; here  *)
(* parties are found by themselves.                                        *)
(***************************************************************************)
EXTENDS Naturals, Sequences, FiniteSets, Functions

NoQueues == [p \in {} |-> {}]

Knows(msgs, receiver, sender) ==
    receiver \in DOMAIN msgs /\ sender \in DOMAIN msgs[receiver]

\* A mutant of Sent: the message goes in front of those that wait.
SentInFront(msgs, sender, receiver, msg) ==
    [msgs EXCEPT ![receiver][sender] = <<msg>> \o @]

\* mpc_context::send, when nothing is thrown.
Sent(msgs, sender, receiver, msg) ==
    [msgs EXCEPT ![receiver][sender] = Append(@, msg)]

(***************************************************************************)
(* mpc_context::receive, when nothing is thrown.  The message is copied    *)
(* from a reference to the place it has just been removed from: undefined  *)
(* by the language, but a std::deque leaves the storage of a message that  *)
(* has no destructor as it was, and frees it, if at all, without touching  *)
(* the end of the block, where the last message lies.                      *)
(***************************************************************************)
FirstMessage(msgs, receiver, sender) == Head(msgs[receiver][sender])

\* A mutant of Received: the message stays.
ReceivedKept(msgs, receiver, sender) == msgs

Received(msgs, receiver, sender) == [msgs EXCEPT ![receiver][sender] = Tail(@)]

\* How many parties register_parties gets through before it meets one that is
\* registered already.
Registrable(msgs, parties) ==
    LET fresh(i) == /\ parties[i] \notin DOMAIN msgs
                    /\ \A j \in 1 .. i - 1 : parties[j] # parties[i]
    IN Cardinality({i \in DOMAIN parties : \A j \in 1 .. i : fresh(j)})

\* A mutant of Registered: a party gets no queue for those that come after it.
RegisteredSoFar(msgs, parties) ==
    LET new == {parties[i] : i \in 1 .. Registrable(msgs, parties)}
        before(p) == {parties[j] : j \in 1 .. CHOOSE i \in DOMAIN parties : parties[i] = p}
    IN [p \in DOMAIN msgs \cup new |->
           IF p \in new THEN [q \in before(p) |-> <<>>] ELSE msgs[p]]

\* mpc_context::register_parties: those before the offending one stay.
Registered(msgs, parties) ==
    LET new == {parties[i] : i \in 1 .. Registrable(msgs, parties)}
    IN [p \in DOMAIN msgs \cup new |->
           IF p \in new THEN [q \in Range(parties) |-> <<>>] ELSE msgs[p]]
=============================================================================
