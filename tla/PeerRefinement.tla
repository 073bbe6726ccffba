--------------------------- MODULE PeerRefinement ----------------------------
(***************************************************************************)
(* PeerService implements PeerRegistry when changes wait for one another   *)
(* and no call fails; when calls fail and the process dies it still does,  *)
(* except that the file may be lost.  While RemovePeer rewrites the file,  *)
(* between its truncation and its write, the registered clients are those  *)
(* it is about to write: the truncation is the step that unregisters.      *)
(***************************************************************************)
EXTENDS PeerService

Registered ==
  LET rewriting == {r \in Procs : pc[r] = "remove.write"}
  IN IF rewriting = {} THEN conf.blocks
     ELSE Pending(CHOOSE r \in rewriting : TRUE).blocks

Registry == INSTANCE PeerRegistry WITH
  clients <- Registered, live <- LiveKeys(dev), used <- KeysOf(issued)

\* Every behaviour of the service is one of the registry: the interleaved calls
\* of Create, Revoke, Stop, Start and of the dashboard's lists come down to
\* registrations with fresh names, addresses and keys, to grants of registered
\* keys, and a revoked key is shut out in the end.
ImplementsRegistry == Registry!Spec

\* A rewrite of the file that fails or dies half-way leaves it truncated, and
\* nobody registered.
FileLost ==
  /\ faults' # faults \/ crashes' # crashes
  /\ Registered' = {}
  /\ UNCHANGED <<LiveKeys(dev), KeysOf(issued)>>

\* With failures and crashes too: whatever was cut off before, a step that
\* completes is a step of the registry, so that no key is let in whose client is
\* gone, and no client is lost but by a revocation or with the whole file.
ServesRegistry ==
  /\ Registry!Init
  /\ [][Registry!Next \/ FileLost]_(Registry!vars)
=============================================================================
