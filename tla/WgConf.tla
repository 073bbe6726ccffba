------------------------------- MODULE WgConf -------------------------------
(***************************************************************************)
(* internal/wgconf: the server configuration file wg0.conf as the program  *)
(* reads and edits it.                                                     *)
(*                                                                         *)
(* A configuration is a record: `iface` says that the [Interface] section  *)
(* (with the server's private key) is there, `blocks` is the set of client *)
(* blocks.  Keys are numbers in the order in which they were issued;       *)
(* AppendPeer writes at the end of the file and RemovePeer keeps the       *)
(* order, so the order of the blocks in the file is the order of their     *)
(* keys and a set is enough: the first block of a name is the one with the *)
(* smallest key, the last block the one with the greatest (until two       *)
(* rewrites of the file run into each other: see Splices).  The preshared  *)
(* key and the IPv6 address follow the key and the IPv4 octet and are left *)
(* out.                                                                    *)
(***************************************************************************)
EXTENDS Naturals

CONSTANTS Names,       \* client names, the names nameRe accepts
          LastOctet    \* last host octet FindFreeIP tries (254 in the code)

ASSUME LastOctetAssumption == LastOctet \in Nat

\* The host octets FindFreeIP goes through.
Octets == 2 .. LastOctet

\* A parsed "### Client" block.
Block == [name : Names, key : Nat \ {0}, ip : Octets]

Config == [iface : BOOLEAN, blocks : SUBSET Block]

\* What os.WriteFile leaves between its truncation and its write.
Truncated == [iface |-> FALSE, blocks |-> {}]

Named(blocks, n) == {b \in blocks : b.name = n}
NamesOf(blocks)  == {b.name : b \in blocks}
KeysOf(blocks)   == {b.key : b \in blocks}

\* The block a loop over the parsed peers finds when it stops at the first
\* match, and the block whose values survive when it goes on to the last.
IsFirst(b, blocks) ==
  b \in blocks /\ \A c \in Named(blocks, b.name) : b.key <= c.key
IsLast(b, blocks) ==
  b \in blocks /\ \A c \in Named(blocks, b.name) : b.key >= c.key

\* Mutants: the loop runs one octet too far; the used addresses are written
\* differently from the candidates and never match.
FreeOctetsTooFar(blocks) == (2 .. LastOctet + 1) \ {b.ip : b \in blocks}
FreeOctetsNoMatch(blocks) == Octets

FreeOctets(blocks) == Octets \ {b.ip : b \in blocks}

\* FindFreeIP returns the first free host octet.  Only the addresses of the
\* client blocks count as used.
FindFreeIP(i, blocks) ==
  i \in FreeOctets(blocks) /\ \A j \in FreeOctets(blocks) : i <= j

\* AppendPeer: one write at the end of whatever the file holds by then.
AppendPeer(cf, b) == [cf EXCEPT !.blocks = @ \cup {b}]

\* Mutant: the lines before the removed block are not copied.
WithoutPeerTail(cf, n) ==
  [iface |-> cf.iface /\ Named(cf.blocks, n) = {}, blocks |-> cf.blocks \ Named(cf.blocks, n)]

\* Mutant: the loop does not see where the block ends.
WithoutPeerToEnd(cf, n) ==
  [cf EXCEPT !.blocks = {b \in @ : \A c \in Named(@, n) : b.key < c.key}]

\* The content RemovePeer computes from the file it read: every block that
\* carries the name goes, everything else stays.
WithoutPeer(cf, n) == [cf EXCEPT !.blocks = @ \ Named(@, n)]

\* A block and what the lines left over from another one below it make of it: its
\* last AllowedIPs counts, and its last PublicKey.
Overlaid(l, c) == {l, [l EXCEPT !.ip = c.ip], [c EXCEPT !.name = l.name]}

\* os.WriteFile truncates the file when it opens it and writes at offset 0: of a
\* longer text that was written in between, the end stays.  Where the cut falls
\* depends on the lengths of the lines, so any blocks of `old` may be below it,
\* and a block it cuts leaves its last lines to the block above.
Splices(new, old) ==
  [iface  : {new.iface, new.iface \/ old.iface},
   blocks :
     {new.blocks \cup rest : rest \in SUBSET old.blocks} \cup
     UNION {{(new.blocks \ {l}) \cup {m} \cup rest :
               m \in Overlaid(l, c), rest \in SUBSET (old.blocks \ {c})} :
             l \in new.blocks, c \in old.blocks}]
=============================================================================
