------------------------------ MODULE PeerProps ------------------------------
(***************************************************************************)
(* What the peer service promises.  The first group holds however requests *)
(* overlap, calls fail and the process dies, until two rewrites of the     *)
(* server file run into each other and one client's lines end up in the    *)
(* block of another (spliced); the second needs changes that wait for one  *)
(* another (SerialWrites); the third is about what the four places come to *)
(* in the end.                                                             *)
(***************************************************************************)
EXTENDS PeerService

Bound(n, k) == spliced \/ [name |-> n, key |-> k] \in issued

\* The key found under name n in a row, a file or a local config, if any.
Own(n, k) == k = NoKey \/ Bound(n, k)

\* Wherever the program or one of its handlers keeps a key under a name, the
\* key was issued for that name: Revoke, Stop and Start of one peer cannot
\* reach the key of another, and GetConfig cannot hand out another's config.
\* Lost rewrites and appends do not break it, only a splice of two does.
KeysKeepTheirName ==
  /\ \A b \in conf.blocks : Bound(b.name, b.key)
  /\ \A n \in Present(peers) : Own(n, peers[n].key) /\ Own(n, peers[n].cfg.key)
  /\ \A n \in Names : Own(n, files[n].key)

\* The UNIQUE constraint on public_key never makes an import, and so never
\* makes List, Stop, Start or the start of the program, fail, before two rewrites
\* of the file run into each other.
ImportNeverConflicts ==
  ~spliced => \A r \in Procs : pc[r] = "sync.import" =>
    \A b \in loc[r].view : ~KeyTaken(peers, b.name, b.key)

\* Imports, lists and downloads of configs, from copies of any age, never change
\* the settings of a client that stays in the table: its limit is changed by
\* SetLimit only, and it is switched by Start, Stop, a Create that meets the row
\* of an earlier client, or a GetConfig that writes back a row from before the
\* Jc lines.
SettingsKept ==
  [][\A n \in Present(peers) : peers'[n] # NoRow =>
       /\ peers'[n].limit # peers[n].limit =>
            \E r \in Reqs : Name(r) = n /\ LimitSet(r)
       /\ peers'[n].enabled # peers[n].enabled =>
            \E r \in Reqs : Name(r) = n /\ (SwitchSet(r) \/ CreateUpsert(r) \/ ConfigUpsert(r))]_vars

-----------------------------------------------------------------------------
(* Why KeysKeepTheirName holds: the inductive invariant.                     *)

SyncCalls   == {"sync.parse", "sync.load", "sync.import", "sync.prune"}
MainCalls   == {"main.list", "main.apply"}
CreateCalls == {"create.parse", "create.append", "create.dev", "create.upsert",
                "create.audit", "create.save"}
RemoveCalls == {"remove.read", "remove.truncate", "remove.write"}
RevokeCalls == {"revoke.parse", "revoke.get", "revoke.dev", "revoke.delete",
                "revoke.file", "revoke.audit"}
SwitchCalls == {"switch.find", "switch.get", "switch.dev", "switch.set", "switch.audit"}
LimitCalls  == {"limit.get", "limit.set", "limit.audit"}
ConfigCalls == {"config.get", "config.load", "config.upsert", "config.save", "config.find"}

\* A request makes the calls of its own operation.
Fits(op, l) ==
  /\ l \in SyncCalls   => op \in {"list", "stop", "start", "main"}
  /\ l \in MainCalls   => op = "main"
  /\ l \in CreateCalls => op = "create"
  /\ l \in RemoveCalls => op \in {"create", "revoke"}
  /\ l \in RevokeCalls => op = "revoke"
  /\ l \in SwitchCalls => op \in {"stop", "start"}
  /\ l \in LimitCalls  => op = "limit"
  /\ l \in ConfigCalls => op = "config"

\* An operation other than a list has a name, and Create an address to append.
Control ==
  \A r \in Procs :
    /\ Fits(Op(r), pc[r])
    /\ Op(r) = "main" <=> r = Main
    /\ Op(r) \in AllOps \ {"list"} => Name(r) \in Names
    /\ pc[r] = "create.append" => loc[r].ip \in Octets

\* What a handler for name n has in hand, however old it is.
Held(n, locals) ==
  /\ \A b \in locals.view : Bound(b.name, b.key)
  /\ \A m \in Names : Own(m, locals.cfgs[m].key)
  /\ Own(n, locals.key)
  /\ Own(n, locals.cfg.key)
  /\ locals.rec # NoRow => Own(n, locals.rec.key) /\ Own(n, locals.rec.cfg.key)

\* A request that waits has nothing in hand.
LocalsKeepTheirName ==
  \A r \in Procs :
    /\ pc[r] \in {"idle", "done"} => loc[r] = NoLoc
    /\ Held(Name(r), loc[r])

\* No key is issued twice.
IssuedOnce ==
  /\ \A e \in issued : 0 < e.key /\ e.key < nextKey
  /\ \A e, f \in issued : e.key = f.key => e.name = f.name

IInv ==
  /\ TypeOK
  /\ Control
  /\ IssuedOnce
  /\ KeysKeepTheirName
  /\ LocalsKeepTheirName

-----------------------------------------------------------------------------

\* No change is under way; lists and configs may be.
Quiet == up /\ \A r \in Reqs : ~Writing(r)

\* The configuration never gives a name, an address or a key to two clients.
BlocksDistinct ==
  \A b, c \in conf.blocks :
    b.name = c.name \/ b.ip = c.ip \/ b.key = c.key => b = c

\* The [Interface] section is there whenever no rewrite of the file is under way.
InterfaceKept == conf.iface \/ \E r \in Procs : pc[r] = "remove.write"

\* A client whose block is gone cannot connect any more: as long as the file is
\* whole, each key that still connects without a block is the doing of a failed
\* call or a crash of its own.  No list, and no retry of the change, makes more.
RevokedIsDead ==
  Quiet /\ conf.iface =>
    Cardinality(LiveKeys(dev) \ KeysOf(conf.blocks)) <= faults + crashes

\* A client the table calls stopped cannot connect, even after a crash between
\* the interface and the table: the startup sequence repairs what it left.  Calls
\* that fail and a restart of the interface may let it in until the next start.
StoppedIsDead ==
  Quiet /\ faults = 0 /\ quickUps = 0 => \A b \in conf.blocks :
    peers[b.name] # NoRow /\ ~peers[b.name].enabled => b.key \notin LiveKeys(dev)

\* Whatever failed and died before, a startup whose device calls succeed shuts out
\* every client the table calls stopped: those a Start left live when it failed
\* to mark them, those of a Stop that failed, those wg-quick let in.
StartupRepairs ==
  [][\A r \in Procs : MainApply(r) /\ up' /\ quickUps = 0 =>
       \A n \in Present(peers) : ~peers[n].enabled => peers[n].key \notin LiveKeys(dev')]_vars

\* A live client has its own address routed to it: AddPeer for another client
\* never takes it.
RoutesHeld ==
  \A p \in dev : \A b \in conf.blocks : p.key = b.key => p.ip = b.ip

\* Once the revocation of a client is in the audit log its key is dead for good,
\* in the file and on the interface.
RevocationFinal ==
  \A e \in audit : e.op = "revoke" /\ e.key # NoKey =>
    e.key \notin LiveKeys(dev) \cup KeysOf(conf.blocks)

-----------------------------------------------------------------------------

\* The table lists the clients of the file, each with the key of its last block.
Mirrored ==
  /\ Present(peers) = NamesOf(conf.blocks)
  /\ \A b \in conf.blocks : IsLast(b, conf.blocks) => peers[b.name].key = b.key

\* However changes, failures and lists interleave, the table comes to agree with
\* the file for good, unless two rewrites of the file run into each other:
\* SyncFromConfig repairs what stale lists left in it.
EventuallyMirrored == []~spliced => <>[]Mirrored

-----------------------------------------------------------------------------
(* What a comment says and the code does not keep.                           *)

\* The comment on RemovePeer: it removes a client's block, so nothing else goes.
\* Two of them read and rewrite the file without a lock.
RemovesOnlyTheBlock ==
  [][\A r \in Procs : RemoveWrite(r) => conf'.iface]_vars
=============================================================================
