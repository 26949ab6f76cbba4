--------------------------- MODULE SessionBroker ---------------------------
(***************************************************************************)
(* What a signalling service promises to its users, with no word of how    *)
(* tools/signaling_server.cpp keeps its tables: users come and go, some    *)
(* announce that they can send a screen, and a session pairs two users who *)
(* are online, each of whom is in that session only.  A session ends in    *)
(* the very step in which one of its users leaves, and ends for no other   *)
(* reason.  SignalingServer is shown to implement this module.             *)
(***************************************************************************)

CONSTANTS
    Users,      \* whoever may connect
    Ids,        \* session ids
    None        \* no user

VARIABLES
    online,     \* the users that are connected
    offered,    \* the users that announced themselves as senders
    paired      \* the pair of users each session id binds

vars == <<online, offered, paired>>

Pair == [sender : Users \cup {None}, receiver : Users \cup {None}]

NoPair == [sender |-> None, receiver |-> None]

Members(id) == {paired[id].sender, paired[id].receiver} \ {None}

Idle(u) == \A id \in Ids : u \notin Members(id)

TypeOK ==
    /\ online \subseteq Users
    /\ offered \subseteq Users
    /\ paired \in [Ids -> Pair]

Init ==
    /\ online = {}
    /\ offered = {}
    /\ paired = [id \in Ids |-> NoPair]

Join(u) ==
    /\ u \notin online
    /\ online' = online \cup {u}
    /\ UNCHANGED <<offered, paired>>

Offer(u) ==
    /\ u \in online
    /\ offered' = offered \cup {u}
    /\ UNCHANGED <<online, paired>>

\* A session starts between an idle user that offered and another idle user.
Start(id, snd, rcv) ==
    /\ paired[id] = NoPair
    /\ snd \in offered \cap online
    /\ rcv \in online \ {snd}
    /\ Idle(snd) /\ Idle(rcv)
    /\ paired' = [paired EXCEPT ![id] = [sender |-> snd, receiver |-> rcv]]
    /\ UNCHANGED <<online, offered>>

\* A user leaves, and with it every session it was in.
Leave(u) ==
    /\ u \in online
    /\ online' = online \ {u}
    /\ offered' = offered \ {u}
    /\ paired' = [id \in Ids |-> IF u \in Members(id) THEN NoPair ELSE paired[id]]

Next ==
    \/ \E u \in Users : Join(u) \/ Offer(u) \/ Leave(u)
    \/ \E id \in Ids, snd, rcv \in Users : Start(id, snd, rcv)

Spec == Init /\ [][Next]_vars
=============================================================================
