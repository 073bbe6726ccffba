---------------------------- MODULE PeerRegistry -----------------------------
(***************************************************************************)
(* What an administrator who waits for each answer gets from wg-conf: a    *)
(* registry of clients and a set of keys that may connect.  A client has a *)
(* name and an address of its own and a key that was never used before; a  *)
(* key is let in only while its client is registered, and a key whose      *)
(* client is gone is shut out in the end.                                  *)
(***************************************************************************)
EXTENDS Naturals

VARIABLES
  clients,   \* the registered clients: name, key, ip
  live,      \* the keys that may connect
  used       \* the keys ever given to a client

vars == <<clients, live, used>>

ClientKeys == {c.key : c \in clients}

Init ==
  /\ \A c, d \in clients :
       c.name = d.name \/ c.ip = d.ip \/ c.key = d.key => c = d
  /\ live \subseteq ClientKeys
  /\ used = ClientKeys

\* A new client, with nothing another client has or had.
Register ==
  \E c \in clients' \ clients :
    /\ clients' = clients \cup {c}
    /\ \A d \in clients : c.name # d.name /\ c.ip # d.ip
    /\ c.key \notin used
    /\ used' = used \cup {c.key}
    /\ UNCHANGED live

\* One client leaves; its key may stay live for a while.
Unregister ==
  /\ \E c \in clients : clients' = clients \ {c}
  /\ UNCHANGED <<live, used>>

Grant ==
  /\ \E k \in ClientKeys : live' = live \cup {k}
  /\ UNCHANGED <<clients, used>>

Withdraw ==
  /\ \E k \in live : live' = live \ {k}
  /\ UNCHANGED <<clients, used>>

\* The interface is started again from the registered clients.
Reload == live' = ClientKeys /\ UNCHANGED <<clients, used>>

\* The key of a client that has left is shut out.
Lapse ==
  /\ \E k \in live \ ClientKeys : live' = live \ {k}
  /\ UNCHANGED <<clients, used>>

Next == Register \/ Unregister \/ Grant \/ Withdraw \/ Reload

Safety == Init /\ [][Next]_vars

Spec == Safety /\ WF_vars(Lapse)
=============================================================================
