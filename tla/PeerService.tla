----------------------------- MODULE PeerService -----------------------------
(***************************************************************************)
(* internal/peer: the handlers that create, list, stop, start, limit and   *)
(* revoke peers, and the startup sequence of cmd/wg-conf that runs before  *)
(* they do.                                                                *)
(*                                                                         *)
(* The program keeps one fact in four places, without a lock: the server's *)
(* configuration file (conf), the live interface (dev), the peers table    *)
(* (peers) and the client files (files).  net/http runs each request in a  *)
(* goroutine of its own, so every call that reads or writes one of the     *)
(* four is one action, and the requests interleave between them.           *)
(***************************************************************************)
EXTENDS PeerTable, Wireguard, FiniteSets

CONSTANTS
  Reqs,           \* requests the program may be handling; one use each
  Dashboards,     \* requests that are the dashboard's timer: List, for ever
  Main,           \* the startup sequence
  NoName,         \* stands for the name of a request without one
  Ops,            \* the operations requests choose from
  SerialWrites,   \* TRUE: the administrator waits for an answer before the
                  \* next change; FALSE: changes overlap
  Standings,      \* what a peer may be when the program starts
  FirstKey,       \* keys below it were issued before the program started
  FaultKinds,     \* which calls may fail: "db", "dev", "file"
  MaxFaults,      \* bound on the calls that fail
  MaxCrashes,     \* bound on the times the process dies and is restarted
  MaxQuickUps     \* bound on the times wg-quick restarts the interface

AllOps == {"create", "list", "config", "revoke", "stop", "start", "limit"}
Mutators == {"create", "revoke", "stop", "start", "limit"}

ASSUME ServiceAssumption ==
  /\ Dashboards \subseteq Reqs
  /\ Main \notin Reqs
  /\ NoName \notin Names
  /\ Ops \subseteq AllOps
  /\ SerialWrites \in BOOLEAN
  /\ FaultKinds \subseteq {"db", "dev", "file"}
  /\ {MaxFaults, MaxCrashes, MaxQuickUps} \subseteq Nat
  /\ Standings \subseteq {"absent", "enabled", "stopped", "imported", "legacy"}
  /\ FirstKey \in Nat \ {0}

VARIABLES
  conf,      \* wg0.conf
  files,     \* wg0-client-NAME.conf, NoCfg when there is none
  dev,       \* the live interface
  peers,     \* the peers table
  audit,     \* audit_log: the operation, the name and (history) the key
  nextKey,   \* the next key wgtypes will generate
  issued,    \* history: which name each key was issued for
  spliced,   \* history: two rewrites of the file have run into each other
  pc,        \* the call each request makes next
  req,       \* its operation and name
  loc,       \* its local variables
  ans,       \* its answer
  up,        \* the startup sequence is over and requests are served
  faults, crashes, quickUps    \* what MaxFaults, MaxCrashes, MaxQuickUps bound

fresh == <<nextKey, issued, spliced>>
world == <<conf, files, dev, peers, audit, nextKey, issued, spliced>>
procs == <<pc, req, loc, ans, up>>
env   == <<faults, crashes, quickUps>>
vars  == <<conf, files, dev, peers, audit, nextKey, issued, spliced,
           pc, req, loc, ans, up, faults, crashes, quickUps>>

Procs == Reqs \cup {Main}

\* The locals of a handler: the blocks and the section it parsed, the client
\* files it loaded, the row it read, and the key, address and config it holds;
\* todo is what ApplyDisabledPeers still has to take off the interface.
NoLoc == [view |-> {}, iface |-> FALSE, cfgs |-> [n \in Names |-> NoCfg],
          rec |-> NoRow, key |-> NoKey, ip |-> NoIP, cfg |-> NoCfg, todo |-> {}]

-----------------------------------------------------------------------------
(* The states the program may start in: for each name, absent; created by   *)
(* the program and enabled or stopped; imported: in the file and live, made *)
(* by angristan's script, not in the table yet; legacy: in the table with a *)
(* config from before the Jc lines and with no client file.  The interface  *)
(* was either brought up from the file just now or left by an earlier run.  *)

BlockOf(k, n) == [name |-> n, key |-> k[n], ip |-> k[n] + 1]

RowOf(st, k) ==
  CASE st \in {"absent", "imported"} -> NoRow
    [] st \in {"enabled", "stopped"} ->
         [key |-> k, enabled |-> st = "enabled",
          cfg |-> [key |-> k, junk |-> TRUE], limit |-> 0]
    [] OTHER -> [key |-> k, enabled |-> TRUE,
                 cfg |-> [key |-> k, junk |-> FALSE], limit |-> 0]

FileOf(st, k) ==
  CASE st \in {"absent", "legacy"}    -> NoCfg
    [] st \in {"enabled", "stopped"}  -> [key |-> k, junk |-> TRUE]
    [] OTHER                          -> [key |-> k, junk |-> FALSE]

Init ==
  /\ \E st \in [Names -> Standings] :
     \E k \in [Names -> 0 .. FirstKey - 1] :
       LET known == {n \in Names : st[n] # "absent"}
           blocks == {BlockOf(k, n) : n \in known}
           stopped == {BlockOf(k, n) : n \in {m \in known : st[m] = "stopped"}}
       IN /\ \A n \in Names : (k[n] = 0) <=> (st[n] = "absent")
          /\ \A m, n \in known : k[m] = k[n] => m = n
          /\ blocks \subseteq Block
          /\ conf  = [iface |-> TRUE, blocks |-> blocks]
          /\ files = [n \in Names |-> FileOf(st[n], k[n])]
          /\ dev \in {QuickUp(blocks), QuickUp(blocks \ stopped)}
          /\ peers = [n \in Names |-> RowOf(st[n], k[n])]
          /\ issued = {[name |-> n, key |-> k[n]] : n \in known}
  /\ audit = {}
  /\ nextKey = FirstKey
  /\ spliced = FALSE
  /\ pc  = [r \in Procs |-> IF r = Main THEN "sync.parse" ELSE "idle"]
  /\ req = [r \in Procs |-> [op |-> IF r = Main THEN "main" ELSE "none",
                             name |-> NoName]]
  /\ loc = [r \in Procs |-> NoLoc]
  /\ ans = [r \in Procs |-> "none"]
  /\ up = FALSE
  /\ faults = 0 /\ crashes = 0 /\ quickUps = 0

-----------------------------------------------------------------------------
(* Control.  pc[r] names the call r makes next; everything between two      *)
(* calls is local to the goroutine and belongs to the action of the first.  *)

Op(r)      == req[r].op
Name(r)    == req[r].name
InFlight(r) == pc[r] \notin {"idle", "done"}
Writing(r) == InFlight(r) /\ Op(r) \in Mutators

Step(r, l, locals) ==
  /\ pc'  = [pc EXCEPT ![r] = l]
  /\ loc' = [loc EXCEPT ![r] = locals]
  /\ UNCHANGED <<req, ans, up>>

Goto(r, l) == Step(r, l, loc[r])

\* The handler returns.  The dashboard's timer will ask again.
Answer(r, a) ==
  /\ pc'  = [pc EXCEPT ![r] = IF r \in Dashboards THEN "idle" ELSE "done"]
  /\ loc' = [loc EXCEPT ![r] = NoLoc]
  /\ ans' = [ans EXCEPT ![r] = IF r \in Dashboards THEN "none" ELSE a]
  /\ up'  = (up \/ r = Main)
  /\ UNCHANGED req

\* A call returns an error that the handler returns.  main logs it and goes on.
Abort(r) == IF r = Main /\ pc[r] # "main.list" /\ pc[r] # "main.apply"
            THEN Step(r, "main.list", NoLoc)
            ELSE Answer(r, "error")

FirstCall == [create |-> "create.parse", list  |-> "sync.parse",
              config |-> "config.get",   limit |-> "limit.get",
              revoke |-> "revoke.parse", stop  |-> "sync.parse",
              start  |-> "sync.parse"]

\* A request arrives: a dashboard asks for the list, another request for any
\* operation on any name.
Arrive(r) ==
  /\ up /\ r \in Reqs /\ pc[r] = "idle"
  /\ \E op \in IF r \in Dashboards THEN {"list"} ELSE Ops :
     \E n \in IF op = "list" THEN {NoName} ELSE Names :
       /\ SerialWrites /\ op \in Mutators => \A q \in Reqs : ~Writing(q)
       /\ req' = [req EXCEPT ![r] = [op |-> op, name |-> n]]
       /\ pc'  = [pc EXCEPT ![r] = FirstCall[op]]
  /\ UNCHANGED <<world, loc, ans, up, env>>

-----------------------------------------------------------------------------
(* SyncFromConfig, the first part of List, Stop, Start and of main.         *)

SyncParse(r) ==
  /\ pc[r] = "sync.parse"
  /\ Step(r, "sync.load", [loc[r] EXCEPT !.view = conf.blocks])
  /\ UNCHANGED <<world, env>>

\* The client files found for the names: one without the Jc lines gets them in
\* memory, one that cannot be read counts as absent.
Loaded(names) ==
  [n \in Names |-> IF n \in names /\ files[n] # NoCfg
                   THEN [files[n] EXCEPT !.junk = TRUE] ELSE NoCfg]

\* The files of all the names are read in one step.
SyncLoad(r) ==
  /\ pc[r] = "sync.load"
  /\ Step(r, "sync.import", [loc[r] EXCEPT !.cfgs = Loaded(NamesOf(loc[r].view))])
  /\ UNCHANGED <<world, env>>

\* The transaction fails as a whole when a key is in another name's row.  In a
\* spliced file the order is no longer that of the keys.
SyncImport(r) ==
  /\ pc[r] = "sync.import"
  /\ \E pick \in [NamesOf(loc[r].view) -> loc[r].view] :
       /\ \A n \in DOMAIN pick :
            pick[n].name = n /\ (spliced \/ IsLast(pick[n], loc[r].view))
       /\ IF \E n \in DOMAIN pick : KeyTaken(peers, n, pick[n].key)
          THEN Abort(r) /\ UNCHANGED peers
          ELSE /\ peers' = ImportRows(peers, pick, loc[r].cfgs)
               /\ Step(r, "sync.prune", [loc[r] EXCEPT !.cfgs = NoLoc.cfgs])
  /\ UNCHANGED <<conf, files, dev, audit, fresh, env>>

\* What follows SyncFromConfig in its callers.  The queries of List that come
\* after it only read.
SyncPrune(r) ==
  /\ pc[r] = "sync.prune"
  /\ peers' = PruneRows(peers, NamesOf(loc[r].view))
  /\ CASE Op(r) = "main" -> Step(r, "main.list", NoLoc)
       [] Op(r) = "list" -> Answer(r, "ok")
       [] OTHER          -> Step(r, "switch.find", NoLoc)
  /\ UNCHANGED <<conf, files, dev, audit, fresh, env>>

-----------------------------------------------------------------------------
(* main: ApplyDisabledPeers, then the server listens.                       *)

\* Mutant: it takes the enabled peers off.
MainListEnabled(r) ==
  /\ pc[r] = "main.list"
  /\ LET on == {n \in Present(peers) : peers[n].enabled /\ peers[n].key # NoKey}
     IN Step(r, "main.apply", [loc[r] EXCEPT !.todo = {peers[n].key : n \in on}])
  /\ UNCHANGED <<world, env>>

MainList(r) ==
  /\ pc[r] = "main.list"
  /\ LET off == {n \in Present(peers) : ~peers[n].enabled /\ peers[n].key # NoKey}
     IN Step(r, "main.apply", [loc[r] EXCEPT !.todo = {peers[n].key : n \in off}])
  /\ UNCHANGED <<world, env>>

\* Mutant: it returns after the first peer.
MainApplyFirstOnly(r) ==
  /\ pc[r] = "main.apply"
  /\ \/ /\ loc[r].todo = {}
        /\ Answer(r, "ok")
        /\ UNCHANGED dev
     \/ \E k \in loc[r].todo :
          /\ dev' = DevRemove(dev, k)
          /\ Step(r, "main.apply", [loc[r] EXCEPT !.todo = {}])
  /\ UNCHANGED <<conf, files, peers, audit, fresh, env>>

MainApply(r) ==
  /\ pc[r] = "main.apply"
  /\ \/ /\ loc[r].todo = {}
        /\ Answer(r, "ok")
        /\ UNCHANGED dev
     \/ \E k \in loc[r].todo :
          /\ dev' = DevRemove(dev, k)
          /\ Step(r, "main.apply", [loc[r] EXCEPT !.todo = @ \ {k}])
  /\ UNCHANGED <<conf, files, peers, audit, fresh, env>>

-----------------------------------------------------------------------------
(* Create                                                                   *)

\* Mutant: names are not compared.
CreateParseAnyName(r) ==
  /\ pc[r] = "create.parse"
  /\ IF FreeOctets(conf.blocks) = {} THEN Answer(r, "ErrNoFreeIP")
     ELSE \E i \in FreeOctets(conf.blocks) :
            /\ FindFreeIP(i, conf.blocks)
            /\ Step(r, "create.append", [loc[r] EXCEPT !.ip = i])
  /\ UNCHANGED <<world, env>>

CreateParse(r) ==
  /\ pc[r] = "create.parse"
  /\ IF Named(conf.blocks, Name(r)) # {} THEN Answer(r, "ErrPeerExists")
     ELSE IF FreeOctets(conf.blocks) = {} THEN Answer(r, "ErrNoFreeIP")
     ELSE \E i \in FreeOctets(conf.blocks) :
            /\ FindFreeIP(i, conf.blocks)
            /\ Step(r, "create.append", [loc[r] EXCEPT !.ip = i])
  /\ UNCHANGED <<world, env>>

\* Mutant: the key generator repeats itself.
CreateAppendSameKey(r) ==
  /\ pc[r] = "create.append"
  /\ conf' = AppendPeer(conf, [name |-> Name(r), key |-> FirstKey, ip |-> loc[r].ip])
  /\ issued' = issued \cup {[name |-> Name(r), key |-> FirstKey]}
  /\ Step(r, "create.dev", [loc[r] EXCEPT !.key = FirstKey])
  /\ UNCHANGED <<files, dev, peers, audit, nextKey, spliced, env>>

\* The key pair is drawn here, with the append: that makes keys grow along the
\* file, and nothing sees the key before.
CreateAppend(r) ==
  /\ pc[r] = "create.append"
  /\ conf' = AppendPeer(conf, [name |-> Name(r), key |-> nextKey, ip |-> loc[r].ip])
  /\ nextKey' = nextKey + 1
  /\ issued' = issued \cup {[name |-> Name(r), key |-> nextKey]}
  /\ Step(r, "create.dev", [loc[r] EXCEPT !.key = nextKey])
  /\ UNCHANGED <<files, dev, peers, audit, spliced, env>>

CreateDev(r) ==
  /\ pc[r] = "create.dev"
  /\ dev' = DevAdd(dev, loc[r].key, loc[r].ip)
  /\ Goto(r, "create.upsert")
  /\ UNCHANGED <<conf, files, peers, audit, fresh, env>>

NewCfg(r) == [key |-> loc[r].key, junk |-> TRUE]

CreateUpsert(r) ==
  /\ pc[r] = "create.upsert"
  /\ IF KeyTaken(peers, Name(r), loc[r].key)
     THEN Answer(r, "error") /\ UNCHANGED peers
     ELSE /\ peers' = UpsertRow(peers, Name(r),
                        [key |-> loc[r].key, enabled |-> TRUE,
                         cfg |-> NewCfg(r), limit |-> 0])
          /\ Goto(r, "create.audit")
  /\ UNCHANGED <<conf, files, dev, audit, fresh, env>>

Entry(r) == [op |-> Op(r), name |-> Name(r), key |-> loc[r].key]

CreateAudit(r) ==
  /\ pc[r] = "create.audit"
  /\ audit' = audit \cup {Entry(r)}
  /\ Goto(r, "create.save")
  /\ UNCHANGED <<conf, files, dev, peers, fresh, env>>

CreateSave(r) ==
  /\ pc[r] = "create.save"
  /\ files' = [files EXCEPT ![Name(r)] = NewCfg(r)]
  /\ Answer(r, "ok")
  /\ UNCHANGED <<conf, dev, peers, audit, fresh, env>>

-----------------------------------------------------------------------------
(* RemovePeer of wgconf, called by Revoke and by Create to take its block   *)
(* back.  It reads the whole file, then truncates it, then writes it.       *)

\* Mutant: Revoke leaves the interface alone.
AfterRemoveNoDevice(r) ==
  IF Op(r) = "revoke" THEN Step(r, "revoke.delete", [loc[r] EXCEPT !.view = {}, !.iface = FALSE])
                      ELSE Answer(r, "error")

AfterRemove(r) ==
  IF Op(r) = "revoke" THEN Step(r, "revoke.dev", [loc[r] EXCEPT !.view = {}, !.iface = FALSE])
                      ELSE Answer(r, "error")

RemoveRead(r) ==
  /\ pc[r] = "remove.read"
  /\ Step(r, "remove.truncate",
          [loc[r] EXCEPT !.view = conf.blocks, !.iface = conf.iface])
  /\ UNCHANGED <<world, env>>

RemoveTruncate(r) ==
  /\ pc[r] = "remove.truncate"
  /\ conf' = Truncated
  /\ Goto(r, "remove.write")
  /\ UNCHANGED <<files, dev, peers, audit, fresh, env>>

\* What r will leave in the file.
Pending(r) == WithoutPeer([iface |-> loc[r].iface, blocks |-> loc[r].view], Name(r))

\* What was written since r truncated the file is overwritten, except the end of
\* it if it is longer.
RemoveWrite(r) ==
  /\ pc[r] = "remove.write"
  /\ \/ conf' = Pending(r) /\ UNCHANGED spliced
     \/ conf # Truncated /\ conf' \in Splices(Pending(r), conf) /\ spliced' = TRUE
  /\ AfterRemove(r)
  /\ UNCHANGED <<files, dev, peers, audit, nextKey, issued, env>>

-----------------------------------------------------------------------------
(* Revoke                                                                   *)

\* view keeps whether the file holds the name, key the key it holds for it.
RevokeParse(r) ==
  /\ pc[r] = "revoke.parse"
  /\ \/ /\ Named(conf.blocks, Name(r)) = {}
        /\ Goto(r, "revoke.get")
     \/ \E b \in Named(conf.blocks, Name(r)) :
          /\ spliced \/ IsFirst(b, conf.blocks)
          /\ Step(r, "revoke.get", [loc[r] EXCEPT !.view = {b}, !.key = b.key])
  /\ UNCHANGED <<world, env>>

RevokeGet(r) ==
  /\ pc[r] = "revoke.get"
  /\ LET rec == peers[Name(r)]
     IN IF loc[r].view # {} THEN Goto(r, "remove.read")
        ELSE IF rec = NoRow THEN Answer(r, "ErrPeerNotFound")
        ELSE Step(r, IF rec.key = NoKey THEN "revoke.delete" ELSE "revoke.dev",
                  [loc[r] EXCEPT !.key = rec.key])
  /\ UNCHANGED <<world, env>>

RevokeDev(r) ==
  /\ pc[r] = "revoke.dev"
  /\ dev' = DevRemove(dev, loc[r].key)
  /\ Goto(r, "revoke.delete")
  /\ UNCHANGED <<conf, files, peers, audit, fresh, env>>

RevokeDelete(r) ==
  /\ pc[r] = "revoke.delete"
  /\ peers' = DeleteRow(peers, Name(r))
  /\ Goto(r, "revoke.file")
  /\ UNCHANGED <<conf, files, dev, audit, fresh, env>>

RevokeFile(r) ==
  /\ pc[r] = "revoke.file"
  /\ files' = [files EXCEPT ![Name(r)] = NoCfg]
  /\ Goto(r, "revoke.audit")
  /\ UNCHANGED <<conf, dev, peers, audit, fresh, env>>

\* The last call of Revoke, Stop, Start and SetLimit.
LastAudit(r) ==
  /\ pc[r] \in {"revoke.audit", "switch.audit", "limit.audit"}
  /\ audit' = audit \cup {Entry(r)}
  /\ Answer(r, "ok")
  /\ UNCHANGED <<conf, files, dev, peers, fresh, env>>

-----------------------------------------------------------------------------
(* Stop and Start, after SyncFromConfig.                                    *)

\* Mutant: the address of the first block in the file is taken.
SwitchFindFirstAddress(r) ==
  /\ pc[r] = "switch.find"
  /\ IF Named(conf.blocks, Name(r)) = {} THEN Answer(r, "ErrPeerNotFound")
     ELSE \E b \in Named(conf.blocks, Name(r)), c \in conf.blocks :
            /\ spliced \/ IsFirst(b, conf.blocks)
            /\ \A e \in conf.blocks : c.key <= e.key
            /\ Step(r, "switch.get", [loc[r] EXCEPT !.key = b.key, !.ip = c.ip])
  /\ UNCHANGED <<world, env>>

\* findConfigPeer
SwitchFind(r) ==
  /\ pc[r] = "switch.find"
  /\ IF Named(conf.blocks, Name(r)) = {} THEN Answer(r, "ErrPeerNotFound")
     ELSE \E b \in Named(conf.blocks, Name(r)) :
            /\ spliced \/ IsFirst(b, conf.blocks)
            /\ Step(r, "switch.get", [loc[r] EXCEPT !.key = b.key, !.ip = b.ip])
  /\ UNCHANGED <<world, env>>

\* Nothing to do when the row already says so.
SwitchGet(r) ==
  /\ pc[r] = "switch.get"
  /\ LET rec == peers[Name(r)]
     IN IF rec # NoRow /\ rec.enabled = (Op(r) = "start")
        THEN Answer(r, "unchanged") ELSE Goto(r, "switch.dev")
  /\ UNCHANGED <<world, env>>

\* Mutant: Stop only marks the row.
SwitchDevMarkOnly(r) ==
  /\ pc[r] = "switch.dev"
  /\ dev' = IF Op(r) = "stop" THEN dev ELSE DevAdd(dev, loc[r].key, loc[r].ip)
  /\ Goto(r, "switch.set")
  /\ UNCHANGED <<conf, files, peers, audit, fresh, env>>

SwitchDev(r) ==
  /\ pc[r] = "switch.dev"
  /\ dev' = IF Op(r) = "stop" THEN DevRemove(dev, loc[r].key)
                              ELSE DevAdd(dev, loc[r].key, loc[r].ip)
  /\ Goto(r, "switch.set")
  /\ UNCHANGED <<conf, files, peers, audit, fresh, env>>

SwitchSet(r) ==
  /\ pc[r] = "switch.set"
  /\ IF peers[Name(r)] = NoRow
     THEN Answer(r, "error") /\ UNCHANGED peers
     ELSE /\ peers' = SetEnabled(peers, Name(r), Op(r) = "start")
          /\ Goto(r, "switch.audit")
  /\ UNCHANGED <<conf, files, dev, audit, fresh, env>>

-----------------------------------------------------------------------------
(* SetLimit                                                                 *)

LimitGet(r) ==
  /\ pc[r] = "limit.get"
  /\ IF peers[Name(r)] = NoRow THEN Answer(r, "ErrPeerNotFound")
                               ELSE Goto(r, "limit.set")
  /\ UNCHANGED <<world, env>>

LimitSet(r) ==
  /\ pc[r] = "limit.set"
  /\ IF peers[Name(r)] = NoRow
     THEN Answer(r, "error") /\ UNCHANGED peers
     ELSE /\ \E l \in Limits : peers' = SetLimit(peers, Name(r), l)
          /\ Goto(r, "limit.audit")
  /\ UNCHANGED <<conf, files, dev, audit, fresh, env>>

-----------------------------------------------------------------------------
(* GetConfig, behind /config and /qr.                                       *)

\* EnsureJunkParams, and where it leads: the row is rewritten only if the
\* config changed.  A config without an [Interface] and a [Peer] section is
\* refused.
Ensured(r, rec, c) ==
  \/ Step(r, IF c.junk THEN "config.save" ELSE "config.upsert",
          [loc[r] EXCEPT !.rec = IF c.junk THEN NoRow ELSE rec,
                         !.cfg = [c EXCEPT !.junk = TRUE]])
  \/ ~c.junk /\ Answer(r, "error")

ConfigGet(r) ==
  /\ pc[r] = "config.get"
  /\ LET rec == peers[Name(r)]
     IN IF rec # NoRow /\ rec.cfg # NoCfg
        THEN Ensured(r, rec, rec.cfg)
        ELSE Step(r, "config.load", [loc[r] EXCEPT !.rec = rec])
  /\ UNCHANGED <<world, env>>

ConfigLoad(r) ==
  /\ pc[r] = "config.load"
  /\ IF files[Name(r)] = NoCfg
     THEN Step(r, "config.find", NoLoc)
     ELSE Ensured(r, loc[r].rec, files[Name(r)])
  /\ UNCHANGED <<world, env>>

\* The row as it was read, or one for a name without a row; the error of the
\* upsert is dropped.
ConfigUpsert(r) ==
  /\ pc[r] = "config.upsert"
  /\ LET rec == loc[r].rec
         key == IF rec = NoRow THEN NoKey ELSE rec.key
         new == [key |-> key, enabled |-> rec = NoRow \/ rec.enabled,
                 cfg |-> loc[r].cfg, limit |-> 0]
     IN peers' = IF KeyTaken(peers, Name(r), key) THEN peers
                 ELSE UpsertRow(peers, Name(r), new)
  /\ Step(r, "config.save", [loc[r] EXCEPT !.rec = NoRow])
  /\ UNCHANGED <<conf, files, dev, audit, fresh, env>>

ConfigSave(r) ==
  /\ pc[r] = "config.save"
  /\ files' = [files EXCEPT ![Name(r)] = loc[r].cfg]
  /\ Answer(r, "ok")
  /\ UNCHANGED <<conf, dev, peers, audit, fresh, env>>

ConfigFind(r) ==
  /\ pc[r] = "config.find"
  /\ Answer(r, IF Named(conf.blocks, Name(r)) # {} THEN "ErrConfigMissing"
                                                   ELSE "ErrPeerNotFound")
  /\ UNCHANGED <<world, env>>

-----------------------------------------------------------------------------
(* A call that fails.  The database fails in particular when the client has *)
(* gone: the handlers pass it the context of the HTTP request.              *)

DbCalls   == {"sync.import", "sync.prune", "main.list", "create.upsert",
              "create.audit", "revoke.get", "revoke.delete", "revoke.audit",
              "switch.get", "switch.set", "switch.audit", "limit.get",
              "limit.set", "limit.audit", "config.get", "config.upsert"}
DevCalls  == {"main.apply", "create.dev", "revoke.dev", "switch.dev"}
FileCalls == {"sync.parse", "sync.load", "create.parse", "create.append",
              "create.save", "remove.read", "remove.truncate", "remove.write",
              "revoke.parse", "revoke.file", "switch.find", "config.load",
              "config.find", "config.save"}

CanFail(r) ==
  \/ "db"   \in FaultKinds /\ pc[r] \in DbCalls
  \/ "dev"  \in FaultKinds /\ pc[r] \in DevCalls /\ ~(r = Main /\ loc[r].todo = {})
  \/ "file" \in FaultKinds /\ pc[r] \in FileCalls

\* The calls whose error the code drops.
Shrugged == {"sync.load", "create.audit", "create.save", "revoke.file",
             "config.load", "config.upsert", "config.save"}

ShrugOff(r) ==
  \/ /\ pc[r] = "sync.load"
     /\ \E n \in NamesOf(loc[r].view) :
          Step(r, "sync.import",
               [loc[r] EXCEPT !.cfgs = Loaded(NamesOf(loc[r].view) \ {n})])
  \/ pc[r] = "create.audit"  /\ Goto(r, "create.save")
  \/ pc[r] = "revoke.file"   /\ Goto(r, "revoke.audit")
  \/ pc[r] = "config.load"   /\ Step(r, "config.find", NoLoc)
  \/ pc[r] = "config.upsert" /\ Step(r, "config.save", [loc[r] EXCEPT !.rec = NoRow])
  \/ pc[r] \in {"create.save", "config.save"} /\ Answer(r, "ok")

\* Mutant: Revoke drops the error of the device and goes on.
CallFailsDeviceDropped(r) ==
  /\ faults < MaxFaults
  /\ CanFail(r)
  /\ faults' = faults + 1
  /\ \/ pc[r] = "create.dev" /\ Goto(r, "remove.read")
     \/ pc[r] = "revoke.dev" /\ Goto(r, "revoke.delete")
     \/ pc[r] \in Shrugged /\ ShrugOff(r)
     \/ pc[r] \notin Shrugged \cup {"create.dev", "revoke.dev"} /\ Abort(r)
  /\ UNCHANGED <<world, crashes, quickUps>>

\* The call fails before it changes anything (a failed write of the
\* configuration leaves the file truncated).  Create takes its block back when
\* the device refuses the peer; every other error is returned.
CallFails(r) ==
  /\ faults < MaxFaults
  /\ CanFail(r)
  /\ faults' = faults + 1
  /\ \/ pc[r] = "create.dev" /\ Goto(r, "remove.read")
     \/ pc[r] \in Shrugged /\ ShrugOff(r)
     \/ pc[r] \notin Shrugged \cup {"create.dev"} /\ Abort(r)
  /\ UNCHANGED <<world, crashes, quickUps>>

-----------------------------------------------------------------------------
(* The world around the program.                                            *)

\* The process dies (SIGKILL, power) and systemd starts it again: requests in
\* flight are lost wherever they were.
Crash ==
  /\ crashes < MaxCrashes
  /\ crashes' = crashes + 1
  /\ up' = FALSE
  /\ pc'  = [r \in Procs |-> IF r = Main THEN "sync.parse"
                             ELSE IF r \in Dashboards THEN "idle"
                             ELSE IF InFlight(r) THEN "done" ELSE pc[r]]
  /\ ans' = [r \in Procs |-> IF r \in Reqs \ Dashboards /\ InFlight(r)
                             THEN "lost" ELSE ans[r]]
  /\ loc' = [r \in Procs |-> NoLoc]
  /\ UNCHANGED <<world, req, faults, quickUps>>

\* wg-quick down and up, or a reboot of the host just before the process
\* starts again; a file that is truncated at that moment is not considered.
QuickRestart ==
  /\ quickUps < MaxQuickUps
  /\ conf.iface
  /\ quickUps' = quickUps + 1
  /\ dev' = QuickUp(conf.blocks)
  /\ UNCHANGED <<conf, files, peers, audit, fresh, procs, faults, crashes>>

-----------------------------------------------------------------------------

SyncCall(r)   == SyncParse(r) \/ SyncLoad(r) \/ SyncImport(r) \/ SyncPrune(r)
MainCall(r)   == MainList(r) \/ MainApply(r)
CreateCall(r) == \/ CreateParse(r)  \/ CreateAppend(r) \/ CreateDev(r)
                 \/ CreateUpsert(r) \/ CreateAudit(r)  \/ CreateSave(r)
RemoveCall(r) == RemoveRead(r) \/ RemoveTruncate(r) \/ RemoveWrite(r)
RevokeCall(r) == \/ RevokeParse(r)  \/ RevokeGet(r)  \/ RevokeDev(r)
                 \/ RevokeDelete(r) \/ RevokeFile(r)
SwitchCall(r) == SwitchFind(r) \/ SwitchGet(r) \/ SwitchDev(r) \/ SwitchSet(r)
LimitCall(r)  == LimitGet(r) \/ LimitSet(r)
ConfigCall(r) == \/ ConfigGet(r)  \/ ConfigLoad(r) \/ ConfigUpsert(r)
                 \/ ConfigSave(r) \/ ConfigFind(r)

\* The next call of r succeeds.
Call(r) == \/ SyncCall(r)   \/ MainCall(r)   \/ CreateCall(r) \/ RemoveCall(r)
           \/ RevokeCall(r) \/ SwitchCall(r) \/ LimitCall(r)  \/ ConfigCall(r)
           \/ LastAudit(r)

\* Every request has been answered.
Rest == up /\ (\A r \in Reqs : pc[r] = "done") /\ UNCHANGED vars

Next ==
  \/ \E r \in Procs : Arrive(r) \/ Call(r) \/ CallFails(r)
  \/ Crash
  \/ QuickRestart
  \/ Rest

Spec == Init /\ [][Next]_vars

\* A goroutine that has a call to make makes it, and the dashboard's timer
\* rings (setInterval in index.html).  No fairness for the arrival of other
\* requests, for failures, for crashes and for restarts of the interface.
Fairness ==
  /\ \A r \in Procs : WF_vars(Call(r) \/ CallFails(r))
  /\ \A r \in Dashboards : WF_vars(Arrive(r))

FairSpec == Spec /\ Fairness

-----------------------------------------------------------------------------
(* Type correctness.                                                        *)

Labels == DbCalls \cup DevCalls \cup FileCalls \cup {"idle", "done"}

Locals == [view : SUBSET Block, iface : BOOLEAN, cfgs : [Names -> Cfg],
           rec : Row \cup {NoRow}, key : Nat, ip : Octets \cup {NoIP},
           cfg : Cfg, todo : SUBSET Nat]

Answers == {"none", "ok", "unchanged", "error", "lost", "ErrPeerExists",
            "ErrNoFreeIP", "ErrPeerNotFound", "ErrConfigMissing"}

Entries == [op : Mutators, name : Names, key : Nat]

\* Every variable holds values of the kind the code keeps there.
TypeOK ==
  /\ conf \in Config
  /\ files \in [Names -> Cfg]
  /\ dev \subseteq [key : Nat, ip : Octets \cup {NoIP}]
  /\ peers \in Table
  /\ audit \subseteq Entries
  /\ nextKey \in Nat \ {0}
  /\ issued \subseteq [name : Names, key : Nat]
  /\ spliced \in BOOLEAN
  /\ pc \in [Procs -> Labels]
  /\ req \in [Procs -> [op : AllOps \cup {"main", "none"}, name : Names \cup {NoName}]]
  /\ loc \in [Procs -> Locals]
  /\ ans \in [Procs -> Answers]
  /\ up \in BOOLEAN
  /\ {faults, crashes, quickUps} \subseteq Nat
=============================================================================
