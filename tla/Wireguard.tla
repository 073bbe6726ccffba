------------------------------ MODULE Wireguard ------------------------------
(***************************************************************************)
(* internal/wireguard: the peers of the live interface, as AddPeer and     *)
(* RemovePeer change them.  The device is a set of records: a public key   *)
(* and the address routed to it, NoIP when another peer has taken it.      *)
(***************************************************************************)
EXTENDS Naturals

NoIP == 0

LiveKeys(d) == {p.key : p \in d}

\* An address is routed to one peer at most: giving it to one takes it from
\* the other (the kernel's cryptokey routing).
Unroute(d, i) == {[p EXCEPT !.ip = IF @ = i THEN NoIP ELSE @] : p \in d}

\* AddPeer: ConfigureDevice with one peer, neither Remove nor ReplacePeers.
DevAdd(d, k, i) ==
  {p \in Unroute(d, i) : p.key # k} \cup {[key |-> k, ip |-> i]}

\* RemovePeer: a key that is not on the device is not an error.
DevRemove(d, k) == {p \in d : p.key # k}

\* wg-quick up: the interface starts from the blocks of the file; where two
\* blocks claim one address the later block has it.
QuickUp(blocks) ==
  {[key |-> b.key,
    ip  |-> IF \E c \in blocks : c.ip = b.ip /\ c.key > b.key THEN NoIP ELSE b.ip]
     : b \in blocks}
=============================================================================
