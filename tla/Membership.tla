----------------------------- MODULE Membership -----------------------------
(***************************************************************************)
(* Who is in the chain, as ZooKeeper tells it: a server registers an       *)
(* ephemeral sequential child of /chain, dies, and loses the child some    *)
(* time after that.  Module Chain implements this one, and the client      *)
(* (module ClientStub) is modelled against it.                             *)
(***************************************************************************)
EXTENDS Integers, FiniteSetsExt

CONSTANT Server               \* one that starts again is a new member

VARIABLES life,               \* per server: "off" until it registers, "up", "dead"
          children,           \* the servers that have a child of /chain
          id                  \* per server, the number of its child (0: none)

members == <<life, children, id>>

MembersInit ==
    /\ life = [s \in Server |-> "off"]
    /\ children = {}
    /\ id = [s \in Server |-> 0]

Join(s) ==
    /\ life[s] = "off"
    /\ life' = [life EXCEPT ![s] = "up"]
    /\ children' = children \cup {s}
    /\ id' = [id EXCEPT ![s] = 1 + Max({id[t] : t \in Server})]

Die(s) ==
    /\ life[s] = "up"
    /\ life' = [life EXCEPT ![s] = "dead"]
    /\ UNCHANGED <<children, id>>

Expire(s) ==
    /\ s \in children
    /\ children' = children \ {s}
    /\ UNCHANGED <<life, id>>

MembersNext == \E s \in Server : Join(s) \/ Die(s) \/ Expire(s)

MembersSpec == MembersInit /\ [][MembersNext]_members

(* The ends of a chain: node names are padded with zeros, so that their    *)
(* order as strings is that of their numbers.                              *)
HeadOf(S) == CHOOSE s \in S : \A t \in S : id[s] <= id[t]
TailOf(S) == CHOOSE s \in S : \A t \in S : id[s] >= id[t]
=============================================================================
