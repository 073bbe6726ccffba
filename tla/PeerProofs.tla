----------------------------- MODULE PeerProofs ------------------------------
(***************************************************************************)
(* Proofs about the peer service, for any clients, any number of requests  *)
(* that overlap in any way, any failures, crashes and restarts.  The state *)
(* falls into two parts that are proved apart: what the requests have in   *)
(* hand (ProcInv) and what is stored (StoreInv).                           *)
(***************************************************************************)
EXTENDS PeerProps, TLAPS

ProcTypes ==
  /\ pc \in [Procs -> Labels]
  /\ req \in [Procs -> [op : AllOps \cup {"main", "none"}, name : Names \cup {NoName}]]
  /\ loc \in [Procs -> Locals]
  /\ ans \in [Procs -> Answers]
  /\ up \in BOOLEAN

ProcInv == ProcTypes /\ Control /\ LocalsKeepTheirName

StoreTypes ==
  /\ conf \in Config
  /\ files \in [Names -> Cfg]
  /\ dev \subseteq [key : Nat, ip : Octets \cup {NoIP}]
  /\ peers \in Table
  /\ audit \subseteq Entries
  /\ nextKey \in Nat \ {0}
  /\ issued \subseteq [name : Names, key : Nat]
  /\ spliced \in BOOLEAN

StoreInv == StoreTypes /\ IssuedOnce /\ KeysKeepTheirName

EnvTypes == {faults, crashes, quickUps} \subseteq Nat

\* The two parts and the bounds make up the inductive invariant.
LEMMA Parts == IInv <=> ProcInv /\ StoreInv /\ EnvTypes
  BY DEF IInv, TypeOK, ProcInv, ProcTypes, StoreInv, StoreTypes, EnvTypes

\* Keys stay issued, and a splice stays in the history.
Later == issued \subseteq issued' /\ (spliced => spliced')

BoundNext(n, k) == spliced' \/ [name |-> n, key |-> k] \in issued'

OwnNext(n, k) == k = NoKey \/ BoundNext(n, k)

\* Held after the step, for a value of the locals before or after it.
HeldNext(n, lo) ==
  /\ \A b \in lo.view : BoundNext(b.name, b.key)
  /\ \A m \in Names : OwnNext(m, lo.cfgs[m].key)
  /\ OwnNext(n, lo.key)
  /\ OwnNext(n, lo.cfg.key)
  /\ lo.rec # NoRow => OwnNext(n, lo.rec.key) /\ OwnNext(n, lo.rec.cfg.key)

LEMMA HeldStays ==
  ASSUME Later, NEW n, NEW lo, Held(n, lo)
  PROVE  HeldNext(n, lo)
  BY DEF Later, Held, HeldNext, Own, OwnNext, Bound, BoundNext

LEMMA NoLocFits ==
  /\ NoLoc \in Locals
  /\ \A n : Held(n, NoLoc)
  <1>1. NoCfg \in Cfg
    BY DEF NoCfg, Cfg, NoKey
  <1>2. NoLoc \in Locals
    BY <1>1 DEF NoLoc, Locals, NoKey
  <1>3. ASSUME NEW n PROVE Held(n, NoLoc)
    BY DEF Held, NoLoc, Own, NoCfg, NoKey
  <1> QED BY <1>2, <1>3

-----------------------------------------------------------------------------
(* How a request moves on.                                                   *)

\* A request that goes on to a call of its own operation keeps ProcInv if what
\* it then has in hand is its own.
LEMMA StepKeeps ==
  ASSUME ProcInv, Later,
         NEW r \in Procs, NEW l \in Labels \ {"idle", "done"}, NEW lo \in Locals,
         Fits(Op(r), l), l = "create.append" => lo.ip \in Octets,
         HeldNext(Name(r), lo), Step(r, l, lo)
  PROVE  ProcInv'
  <1>1. ProcTypes'
    BY DEF ProcInv, ProcTypes, Step
  <1>2. /\ \A q \in Procs : pc'[q] = IF q = r THEN l ELSE pc[q]
        /\ \A q \in Procs : loc'[q] = IF q = r THEN lo ELSE loc[q]
        /\ \A q \in Procs : Op(q)' = Op(q) /\ Name(q)' = Name(q)
    BY DEF ProcInv, ProcTypes, Step, Op, Name
  <1>3. Control'
    BY <1>2 DEF ProcInv, Control, Fits
  <1>4. ASSUME NEW q \in Procs
        PROVE  /\ pc'[q] \in {"idle", "done"} => loc'[q] = NoLoc
               /\ Held(Name(q), loc[q])'
    <2>1. CASE q = r
      BY <1>2, <2>1 DEF Held, HeldNext, Own, OwnNext, Bound, BoundNext
    <2>2. CASE q # r
      <3>1. Held(Name(q), loc[q]) /\ (pc[q] \in {"idle", "done"} => loc[q] = NoLoc)
        BY DEF ProcInv, LocalsKeepTheirName
      <3>2. HeldNext(Name(q), loc[q])
        BY <3>1, HeldStays
      <3>3. Name(q)' = Name(q) /\ loc'[q] = loc[q]
        BY <1>2, <2>2
      <3>4. Held(Name(q), loc[q])'
        BY <3>2, <3>3 DEF Held, HeldNext, Own, OwnNext, Bound, BoundNext
      <3> QED BY <1>2, <2>2, <3>1, <3>4
    <2> QED BY <2>1, <2>2
  <1> QED BY <1>1, <1>3, <1>4 DEF ProcInv, LocalsKeepTheirName

\* The same when no key is issued.
LEMMA StepKeepsHeld ==
  ASSUME ProcInv, UNCHANGED <<issued, spliced>>,
         NEW r \in Procs, NEW l \in Labels \ {"idle", "done"}, NEW lo \in Locals,
         Fits(Op(r), l), l = "create.append" => lo.ip \in Octets,
         Held(Name(r), lo), Step(r, l, lo)
  PROVE  ProcInv'
  <1>1. Later
    BY DEF Later
  <1>2. HeldNext(Name(r), lo)
    BY <1>1, HeldStays
  <1> QED BY <1>1, <1>2, StepKeeps

LEMMA AnswerLater ==
  ASSUME ProcInv, Later,
         NEW r \in Procs, NEW a \in Answers, Answer(r, a)
  PROVE  ProcInv'
  <1>1. ProcTypes'
    BY NoLocFits DEF ProcInv, ProcTypes, Answer, Labels, Answers
  <1>2. /\ \A q \in Procs : pc'[q] = IF q = r THEN IF r \in Dashboards THEN "idle" ELSE "done"
                                              ELSE pc[q]
        /\ \A q \in Procs : loc'[q] = IF q = r THEN NoLoc ELSE loc[q]
        /\ \A q \in Procs : Op(q)' = Op(q) /\ Name(q)' = Name(q)
    BY DEF ProcInv, ProcTypes, Answer, Op, Name
  <1>3. Fits(Op(r), "idle") /\ Fits(Op(r), "done")
    BY DEF Fits, SyncCalls, MainCalls, CreateCalls, RemoveCalls, RevokeCalls,
           SwitchCalls, LimitCalls, ConfigCalls
  <1>4. Control'
    BY <1>2, <1>3 DEF ProcInv, Control, Fits
  <1>5. ASSUME NEW q \in Procs
        PROVE  /\ pc'[q] \in {"idle", "done"} => loc'[q] = NoLoc
               /\ Held(Name(q), loc[q])'
    <2>1. CASE q = r
      <3>1. Held(Name(q), NoLoc)
        BY NoLocFits
      <3> QED BY <1>2, <2>1, <3>1, HeldStays, NoLocFits DEF Held, HeldNext, Own, OwnNext, Bound, BoundNext
    <2>2. CASE q # r
      <3>1. Held(Name(q), loc[q]) /\ (pc[q] \in {"idle", "done"} => loc[q] = NoLoc)
        BY DEF ProcInv, LocalsKeepTheirName
      <3>2. HeldNext(Name(q), loc[q])
        BY <3>1, HeldStays
      <3>3. Name(q)' = Name(q) /\ loc'[q] = loc[q]
        BY <1>2, <2>2
      <3>4. Held(Name(q), loc[q])'
        BY <3>2, <3>3 DEF Held, HeldNext, Own, OwnNext, Bound, BoundNext
      <3> QED BY <1>2, <2>2, <3>1, <3>4
    <2> QED BY <2>1, <2>2
  <1> QED BY <1>1, <1>4, <1>5 DEF ProcInv, LocalsKeepTheirName

LEMMA AnswerKeeps ==
  ASSUME ProcInv, UNCHANGED <<issued, spliced>>,
         NEW r \in Procs, NEW a \in Answers, Answer(r, a)
  PROVE  ProcInv'
  <1>1. Later
    BY DEF Later
  <1> QED BY <1>1, AnswerLater

LEMMA AbortKeeps ==
  ASSUME ProcInv, UNCHANGED <<issued, spliced>>, NEW r \in Procs, Abort(r)
  PROVE  ProcInv'
  <1>1. CASE r = Main /\ pc[r] # "main.list" /\ pc[r] # "main.apply"
    <2>1. Op(r) = "main"
      BY <1>1 DEF ProcInv, Control
    <2>2. Fits(Op(r), "main.list")
      BY <2>1 DEF Fits, SyncCalls, MainCalls, CreateCalls, RemoveCalls, RevokeCalls,
                  SwitchCalls, LimitCalls, ConfigCalls
    <2>3. "main.list" \in Labels \ {"idle", "done"}
      BY DEF Labels, DbCalls
    <2>4. Step(r, "main.list", NoLoc)
      BY <1>1 DEF Abort
    <2> QED BY <2>2, <2>3, <2>4, NoLocFits, StepKeepsHeld
  <1>2. CASE ~(r = Main /\ pc[r] # "main.list" /\ pc[r] # "main.apply")
    <2>1. Answer(r, "error")
      BY <1>2 DEF Abort
    <2>2. "error" \in Answers
      BY DEF Answers
    <2> QED BY <2>1, <2>2, AnswerKeeps
  <1> QED BY <1>1, <1>2

Calls == SyncCalls \cup MainCalls \cup CreateCalls \cup RemoveCalls \cup RevokeCalls
         \cup SwitchCalls \cup LimitCalls \cup ConfigCalls

\* The calls of one group belong to the same operations, and outside lists and
\* the start of the program a request has a name.
LEMMA Groups ==
  ASSUME ProcInv, NEW r \in Procs
  PROVE  /\ pc[r] \in SyncCalls   => \A l \in SyncCalls   : Fits(Op(r), l)
         /\ pc[r] \in MainCalls   => \A l \in MainCalls   : Fits(Op(r), l)
         /\ pc[r] \in CreateCalls => \A l \in CreateCalls \cup RemoveCalls : Fits(Op(r), l)
         /\ pc[r] \in RemoveCalls => \A l \in RemoveCalls : Fits(Op(r), l)
         /\ pc[r] \in RevokeCalls => \A l \in RevokeCalls \cup RemoveCalls : Fits(Op(r), l)
         /\ pc[r] \in SwitchCalls => \A l \in SwitchCalls : Fits(Op(r), l)
         /\ pc[r] \in LimitCalls  => \A l \in LimitCalls  : Fits(Op(r), l)
         /\ pc[r] \in ConfigCalls => \A l \in ConfigCalls : Fits(Op(r), l)
         /\ Op(r) = "revoke" => \A l \in RevokeCalls : Fits(Op(r), l)
         /\ Op(r) \in {"stop", "start"} => \A l \in SwitchCalls : Fits(Op(r), l)
         /\ r = Main => \A l \in MainCalls : Fits(Op(r), l)
  <1>1. Fits(Op(r), pc[r]) /\ (Op(r) = "main" <=> r = Main)
    BY DEF ProcInv, Control
  <1> QED
    BY <1>1 DEF Fits, SyncCalls, MainCalls, CreateCalls, RemoveCalls, RevokeCalls,
                SwitchCalls, LimitCalls, ConfigCalls

LEMMA IsNamed ==
  ASSUME ProcInv, NEW r \in Procs,
         pc[r] \in CreateCalls \cup RemoveCalls \cup RevokeCalls \cup SwitchCalls
                   \cup LimitCalls \cup ConfigCalls
  PROVE  Name(r) \in Names
  <1>1. /\ Fits(Op(r), pc[r])
        /\ Op(r) \in AllOps \ {"list"} => Name(r) \in Names
    BY DEF ProcInv, Control
  <1> QED BY <1>1 DEF Fits, AllOps

LEMMA CallLabels == Calls \subseteq Labels \ {"idle", "done"}
  BY DEF Calls, Labels, DbCalls, DevCalls, FileCalls, SyncCalls, MainCalls, CreateCalls,
         RemoveCalls, RevokeCalls, SwitchCalls, LimitCalls, ConfigCalls

LEMMA HasHeld ==
  ASSUME ProcInv, NEW r \in Procs
  PROVE  loc[r] \in Locals /\ Held(Name(r), loc[r])
  BY DEF ProcInv, ProcTypes, LocalsKeepTheirName

-----------------------------------------------------------------------------
(* What is stored.                                                           *)

LEMMA StoreSame ==
  ASSUME StoreInv, UNCHANGED world
  PROVE  StoreInv'
  BY DEF StoreInv, StoreTypes, IssuedOnce, KeysKeepTheirName, Present, Own, Bound, world

LEMMA DevChange ==
  ASSUME StoreInv, UNCHANGED <<conf, files, peers, audit, nextKey, issued, spliced>>,
         dev' \subseteq [key : Nat, ip : Octets \cup {NoIP}]
  PROVE  StoreInv'
  BY DEF StoreInv, StoreTypes, IssuedOnce, KeysKeepTheirName, Present, Own, Bound

LEMMA ConfChange ==
  ASSUME StoreInv, UNCHANGED <<files, dev, peers, audit, nextKey, issued, spliced>>,
         conf' \in Config, \A b \in conf'.blocks : Bound(b.name, b.key)
  PROVE  StoreInv'
  BY DEF StoreInv, StoreTypes, IssuedOnce, KeysKeepTheirName, Present, Own, Bound

LEMMA FilesChange ==
  ASSUME StoreInv, UNCHANGED <<conf, dev, peers, audit, nextKey, issued, spliced>>,
         NEW n \in Names, NEW c \in Cfg, Own(n, c.key),
         files' = [files EXCEPT ![n] = c]
  PROVE  StoreInv'
  BY DEF StoreInv, StoreTypes, IssuedOnce, KeysKeepTheirName, Present, Own, Bound

LEMMA AuditChange ==
  ASSUME StoreInv, UNCHANGED <<conf, files, dev, peers, nextKey, issued, spliced>>,
         NEW e \in Entries, audit' = audit \cup {e}
  PROVE  StoreInv'
  BY DEF StoreInv, StoreTypes, IssuedOnce, KeysKeepTheirName, Present, Own, Bound

\* A row may be written with keys of its own name.
OwnRow(n, row) == row = NoRow \/ (row \in Row /\ Own(n, row.key) /\ Own(n, row.cfg.key))

LEMMA TableChange ==
  ASSUME StoreInv, UNCHANGED <<conf, files, dev, audit, nextKey, issued, spliced>>,
         NEW t, peers' = [n \in Names |-> t[n]], \A n \in Names : OwnRow(n, t[n])
  PROVE  StoreInv'
  <1>1. peers' \in Table
    BY DEF Table, OwnRow
  <1>2. \A n \in Names : peers'[n] # NoRow => Own(n, peers'[n].key) /\ Own(n, peers'[n].cfg.key)
    BY DEF OwnRow
  <1> QED
    BY <1>1, <1>2 DEF StoreInv, StoreTypes, IssuedOnce, KeysKeepTheirName, Present, Own, Bound

LEMMA RowsAreOwn ==
  ASSUME StoreInv
  PROVE  peers \in Table /\ \A n \in Names : OwnRow(n, peers[n])
  BY DEF StoreInv, StoreTypes, Table, KeysKeepTheirName, Present, OwnRow

\* One row changes.
LEMMA RowChange ==
  ASSUME StoreInv, UNCHANGED <<conf, files, dev, audit, nextKey, issued, spliced>>,
         NEW n \in Names, NEW row, OwnRow(n, row), peers' = [peers EXCEPT ![n] = row]
  PROVE  StoreInv'
  <1>1. peers' = [m \in Names |-> peers'[m]] /\ \A m \in Names : OwnRow(m, peers'[m])
    BY RowsAreOwn DEF Table
  <1> QED BY <1>1, TableChange

-----------------------------------------------------------------------------
(* The steps, one lemma for each operation.                                  *)

Inv == ProcInv /\ StoreInv

LEMMA LoadedOwn ==
  ASSUME StoreInv, NEW names
  PROVE  Loaded(names) \in [Names -> Cfg] /\ \A n \in Names : Own(n, Loaded(names)[n].key)
  <1>1. \A n \in Names : files[n] \in Cfg /\ Own(n, files[n].key)
    BY DEF StoreInv, StoreTypes, KeysKeepTheirName
  <1>2. NoCfg \in Cfg /\ NoCfg.key = NoKey
    BY DEF NoCfg, Cfg, NoKey
  <1>3. \A n \in Names : [files[n] EXCEPT !.junk = TRUE] \in Cfg
                         /\ [files[n] EXCEPT !.junk = TRUE].key = files[n].key
    BY <1>1 DEF Cfg
  <1> QED BY <1>1, <1>2, <1>3 DEF Loaded, Own

LEMMA ImportOwn ==
  ASSUME StoreInv, NEW n \in Names, NEW k \in Nat, Own(n, k), NEW c \in Cfg, Own(n, c.key)
  PROVE  OwnRow(n, ImportRow(peers[n], k, c))
  <1>1. OwnRow(n, peers[n])
    BY RowsAreOwn
  <1>2. CASE peers[n] = NoRow
    BY <1>2, LimitsAssumption DEF OwnRow, ImportRow, Row
  <1>3. CASE peers[n] # NoRow
    BY <1>1, <1>3, NoRowAssumption DEF OwnRow, ImportRow, Row
  <1> QED BY <1>2, <1>3

LEMMA SyncKeeps ==
  ASSUME Inv, NEW r \in Procs, SyncCall(r)
  PROVE  Inv'
  <1>0. loc[r] \in Locals /\ Held(Name(r), loc[r])
    BY HasHeld DEF Inv
  <1>1. CASE SyncParse(r)
    <2> DEFINE lo == [loc[r] EXCEPT !.view = conf.blocks]
    <2>1. lo \in Locals
      BY <1>0 DEF Inv, StoreInv, StoreTypes, Config, Locals
    <2>2. Held(Name(r), lo)
      BY <1>0 DEF Held, Locals, Inv, StoreInv, KeysKeepTheirName
    <2>3. Fits(Op(r), "sync.load") /\ "sync.load" \in Labels \ {"idle", "done"}
      BY <1>1, Groups, CallLabels DEF SyncParse, SyncCalls, Calls, Inv
    <2>4. ProcInv'
      BY <1>1, <2>1, <2>2, <2>3, StepKeepsHeld DEF SyncParse, Inv, world
    <2> QED BY <1>1, <2>4, StoreSame DEF SyncParse, Inv
  <1>2. CASE SyncLoad(r)
    <2> DEFINE lo == [loc[r] EXCEPT !.cfgs = Loaded(NamesOf(loc[r].view))]
    <2>1. lo \in Locals
      BY <1>0, LoadedOwn DEF Inv, Locals
    <2>2. Held(Name(r), lo)
      BY <1>0, LoadedOwn DEF Held, Locals, Inv
    <2>3. Fits(Op(r), "sync.import") /\ "sync.import" \in Labels \ {"idle", "done"}
      BY <1>2, Groups, CallLabels DEF SyncLoad, SyncCalls, Calls, Inv
    <2>4. ProcInv'
      BY <1>2, <2>1, <2>2, <2>3, StepKeepsHeld DEF SyncLoad, Inv, world
    <2> QED BY <1>2, <2>4, StoreSame DEF SyncLoad, Inv
  <1>3. CASE SyncImport(r)
    <2>1. PICK pick \in [NamesOf(loc[r].view) -> loc[r].view] :
            /\ \A n \in DOMAIN pick : pick[n].name = n
            /\ IF \E n \in DOMAIN pick : KeyTaken(peers, n, pick[n].key)
               THEN Abort(r) /\ UNCHANGED peers
               ELSE /\ peers' = ImportRows(peers, pick, loc[r].cfgs)
                    /\ Step(r, "sync.prune", [loc[r] EXCEPT !.cfgs = NoLoc.cfgs])
      BY <1>3 DEF SyncImport
    <2>2. UNCHANGED <<conf, files, dev, audit, nextKey, issued, spliced>>
      BY <1>3 DEF SyncImport, fresh
    <2>3. CASE \E n \in DOMAIN pick : KeyTaken(peers, n, pick[n].key)
      <3>1. ProcInv'
        BY <2>1, <2>2, <2>3, AbortKeeps DEF Inv
      <3> QED BY <2>1, <2>2, <2>3, <3>1, StoreSame DEF Inv, world
    <2>4. CASE ~ \E n \in DOMAIN pick : KeyTaken(peers, n, pick[n].key)
      <3> DEFINE lo == [loc[r] EXCEPT !.cfgs = NoLoc.cfgs]
                 t == ImportRows(peers, pick, loc[r].cfgs)
      <3>1. lo \in Locals
        BY <1>0, NoLocFits DEF Locals
      <3>2. Held(Name(r), lo)
        BY <1>0, NoLocFits DEF Held, Locals
      <3>3. Fits(Op(r), "sync.prune") /\ "sync.prune" \in Labels \ {"idle", "done"}
        BY <1>3, Groups, CallLabels DEF SyncImport, SyncCalls, Calls, Inv
      <3>4. ProcInv'
        BY <2>1, <2>2, <2>4, <3>1, <3>2, <3>3, StepKeepsHeld DEF Inv
      <3>5. ASSUME NEW n \in Names PROVE OwnRow(n, t[n])
        <4>1. CASE n \in DOMAIN pick
          <5>1. pick[n] \in loc[r].view /\ pick[n].name = n
            BY <2>1, <4>1
          <5>2. pick[n].key \in Nat /\ Own(n, pick[n].key)
            BY <1>0, <5>1 DEF Held, Locals, Block, Own
          <5>3. loc[r].cfgs[n] \in Cfg /\ Own(n, loc[r].cfgs[n].key)
            BY <1>0 DEF Held, Locals
          <5>4. t[n] = ImportRow(peers[n], pick[n].key, loc[r].cfgs[n])
            BY <4>1 DEF ImportRows
          <5> QED BY <5>2, <5>3, <5>4, ImportOwn DEF Inv
        <4>2. CASE n \notin DOMAIN pick
          BY <4>2, RowsAreOwn DEF ImportRows, Inv
        <4> QED BY <4>1, <4>2
      <3>6. peers' = [n \in Names |-> t[n]]
        BY <2>1, <2>4 DEF ImportRows
      <3>7. StoreInv'
        BY <2>2, <3>5, <3>6, TableChange DEF Inv
      <3> QED BY <3>4, <3>7 DEF Inv
    <2> QED BY <2>3, <2>4
  <1>4. CASE SyncPrune(r)
    <2>1. UNCHANGED <<conf, files, dev, audit, nextKey, issued, spliced>>
      BY <1>4 DEF SyncPrune, fresh
    <2>2. StoreInv'
      <3> DEFINE t == PruneRows(peers, NamesOf(loc[r].view))
      <3>1. \A n \in Names : OwnRow(n, t[n])
        BY RowsAreOwn DEF PruneRows, OwnRow, Inv
      <3>2. peers' = [n \in Names |-> t[n]]
        BY <1>4 DEF SyncPrune, PruneRows
      <3> QED BY <2>1, <3>1, <3>2, TableChange DEF Inv
    <2>3. CASE Op(r) = "main"
      <3>1. Step(r, "main.list", NoLoc)
        BY <1>4, <2>3 DEF SyncPrune
      <3>2. r = Main
        BY <2>3 DEF Inv, ProcInv, Control
      <3>3. Fits(Op(r), "main.list") /\ "main.list" \in Labels \ {"idle", "done"}
        BY <3>2, Groups, CallLabels DEF MainCalls, Calls, Inv
      <3>4. ProcInv'
        BY <2>1, <3>1, <3>3, NoLocFits, StepKeepsHeld DEF Inv
      <3> QED BY <2>2, <3>4 DEF Inv
    <2>4. CASE Op(r) = "list"
      <3>1. Answer(r, "ok") /\ "ok" \in Answers
        BY <1>4, <2>4 DEF SyncPrune, Answers
      <3>2. ProcInv'
        BY <2>1, <3>1, AnswerKeeps DEF Inv
      <3> QED BY <2>2, <3>2 DEF Inv
    <2>5. CASE Op(r) # "main" /\ Op(r) # "list"
      <3>1. Step(r, "switch.find", NoLoc)
        BY <1>4, <2>5 DEF SyncPrune
      <3>2. Op(r) \in {"stop", "start"}
        BY <1>4, <2>5 DEF SyncPrune, Inv, ProcInv, Control, Fits, SyncCalls
      <3>3. Fits(Op(r), "switch.find") /\ "switch.find" \in Labels \ {"idle", "done"}
        BY <3>2, Groups, CallLabels DEF SwitchCalls, Calls, Inv
      <3>4. ProcInv'
        BY <2>1, <3>1, <3>3, NoLocFits, StepKeepsHeld DEF Inv
      <3> QED BY <2>2, <3>4 DEF Inv
    <2> QED BY <2>3, <2>4, <2>5
  <1> QED BY <1>1, <1>2, <1>3, <1>4 DEF SyncCall

LEMMA DevRemoveType ==
  ASSUME StoreInv, NEW k
  PROVE  DevRemove(dev, k) \subseteq [key : Nat, ip : Octets \cup {NoIP}]
  BY DEF DevRemove, StoreInv, StoreTypes

LEMMA DevAddType ==
  ASSUME StoreInv, NEW k \in Nat, NEW i \in Octets \cup {NoIP}
  PROVE  DevAdd(dev, k, i) \subseteq [key : Nat, ip : Octets \cup {NoIP}]
  <1>1. Unroute(dev, i) \subseteq [key : Nat, ip : Octets \cup {NoIP}]
    BY DEF Unroute, StoreInv, StoreTypes
  <1> QED BY <1>1 DEF DevAdd

LEMMA MainKeeps ==
  ASSUME Inv, NEW r \in Procs, MainCall(r)
  PROVE  Inv'
  <1>0. loc[r] \in Locals /\ Held(Name(r), loc[r])
    BY HasHeld DEF Inv
  <1>1. Fits(Op(r), "main.apply") /\ "main.apply" \in Labels \ {"idle", "done"}
    BY Groups, CallLabels DEF MainCall, MainList, MainApply, MainCalls, Calls, Inv
  <1>2. CASE MainList(r)
    <2> DEFINE off == {n \in Present(peers) : ~peers[n].enabled /\ peers[n].key # NoKey}
               lo == [loc[r] EXCEPT !.todo = {peers[n].key : n \in off}]
    <2>1. {peers[n].key : n \in off} \subseteq Nat
      BY DEF Inv, StoreInv, StoreTypes, Table, Row, Present
    <2>2. lo \in Locals
      BY <1>0, <2>1 DEF Locals
    <2>3. Held(Name(r), lo)
      BY <1>0 DEF Held, Locals
    <2>4. Step(r, "main.apply", lo) /\ UNCHANGED world
      BY <1>2 DEF MainList
    <2>5. ProcInv'
      BY <1>1, <2>2, <2>3, <2>4, StepKeepsHeld DEF Inv, world
    <2> QED BY <2>4, <2>5, StoreSame DEF Inv
  <1>3. CASE MainApply(r)
    <2>1. UNCHANGED <<conf, files, peers, audit, nextKey, issued, spliced>>
      BY <1>3 DEF MainApply, fresh
    <2>2. CASE loc[r].todo = {} /\ Answer(r, "ok") /\ UNCHANGED dev
      <3>1. ProcInv'
        BY <2>1, <2>2, AnswerKeeps DEF Inv, Answers
      <3> QED BY <2>1, <2>2, <3>1, StoreSame DEF Inv, world
    <2>3. ASSUME NEW k \in loc[r].todo, dev' = DevRemove(dev, k),
                 Step(r, "main.apply", [loc[r] EXCEPT !.todo = @ \ {k}])
          PROVE  Inv'
      <3> DEFINE lo == [loc[r] EXCEPT !.todo = @ \ {k}]
      <3>1. lo \in Locals /\ Held(Name(r), lo)
        BY <1>0 DEF Held, Locals
      <3>2. ProcInv'
        BY <1>1, <2>1, <2>3, <3>1, StepKeepsHeld DEF Inv
      <3>3. StoreInv'
        BY <2>1, <2>3, DevRemoveType, DevChange DEF Inv
      <3> QED BY <3>2, <3>3 DEF Inv
    <2> QED BY <1>3, <2>2, <2>3 DEF MainApply
  <1> QED BY <1>2, <1>3 DEF MainCall

\* The new key is one no name has: nextKey is above every issued key.
LEMMA AppendKeeps ==
  ASSUME Inv, NEW r \in Procs, CreateAppend(r)
  PROVE  Inv'
  <1>1. Name(r) \in Names /\ loc[r].ip \in Octets /\ pc[r] = "create.append"
    BY IsNamed DEF CreateAppend, CreateCalls, Inv, ProcInv, Control
  <1>2. Later /\ BoundNext(Name(r), nextKey)
    BY DEF CreateAppend, Later, BoundNext
  <1>3. ProcInv'
    <2> DEFINE lo == [loc[r] EXCEPT !.key = nextKey]
    <2>1. loc[r] \in Locals /\ Held(Name(r), loc[r])
      BY HasHeld DEF Inv
    <2>2. lo \in Locals
      BY <2>1 DEF Inv, StoreInv, StoreTypes, Locals
    <2>3. lo.key = nextKey /\ lo.view = loc[r].view /\ lo.cfgs = loc[r].cfgs
          /\ lo.cfg = loc[r].cfg /\ lo.rec = loc[r].rec
      BY <2>1 DEF Locals
    <2>4. HeldNext(Name(r), lo)
      BY <1>2, <2>1, <2>3, HeldStays DEF HeldNext, OwnNext
    <2>5. Fits(Op(r), "create.dev") /\ "create.dev" \in Labels \ {"idle", "done"}
      BY <1>1, Groups, CallLabels DEF CreateCalls, Calls, Inv
    <2> QED BY <1>2, <2>2, <2>4, <2>5, StepKeeps DEF CreateAppend, Inv
  <1>4. StoreInv'
    <2> DEFINE b == [name |-> Name(r), key |-> nextKey, ip |-> loc[r].ip]
    <2>1. b \in Block /\ nextKey \in Nat \ {0}
      BY <1>1 DEF Inv, StoreInv, StoreTypes, Block
    <2>2. /\ conf' = [conf EXCEPT !.blocks = @ \cup {b}]
          /\ nextKey' = nextKey + 1
          /\ issued' = issued \cup {[name |-> Name(r), key |-> nextKey]}
          /\ UNCHANGED <<files, dev, peers, audit, spliced>>
      BY DEF CreateAppend, AppendPeer
    <2>3. StoreTypes'
      BY <1>1, <2>1, <2>2 DEF Inv, StoreInv, StoreTypes, Config
    <2>4. IssuedOnce'
      BY <2>1, <2>2 DEF Inv, StoreInv, StoreTypes, IssuedOnce
    <2>5. conf'.blocks = conf.blocks \cup {b}
      BY <2>2 DEF Inv, StoreInv, StoreTypes, Config
    <2>6. KeysKeepTheirName'
      BY <1>2, <2>2, <2>5 DEF Inv, StoreInv, KeysKeepTheirName, Own, Bound, BoundNext, Present
    <2> QED BY <2>3, <2>4, <2>6 DEF StoreInv
  <1> QED BY <1>3, <1>4 DEF Inv

\* Steps that only read, and answers that change nothing.
LEMMA ReadKeeps ==
  ASSUME Inv, UNCHANGED world, NEW r \in Procs,
         NEW l \in Labels \ {"idle", "done"}, NEW lo \in Locals,
         Fits(Op(r), l), l = "create.append" => lo.ip \in Octets,
         Held(Name(r), lo), Step(r, l, lo)
  PROVE  Inv'
  <1>1. ProcInv'
    BY StepKeepsHeld DEF Inv, world
  <1> QED BY <1>1, StoreSame DEF Inv

LEMMA RefuseKeeps ==
  ASSUME Inv, UNCHANGED world, NEW r \in Procs, NEW a \in Answers, Answer(r, a)
  PROVE  Inv'
  <1>1. ProcInv'
    BY AnswerKeeps DEF Inv, world
  <1> QED BY <1>1, StoreSame DEF Inv

LEMMA Refusals ==
  {"ok", "unchanged", "error", "lost", "ErrPeerExists", "ErrNoFreeIP",
   "ErrPeerNotFound", "ErrConfigMissing"} \subseteq Answers
  BY DEF Answers

LEMMA UpsertOwn ==
  ASSUME StoreInv, NEW n \in Names,
         NEW new \in Row, Own(n, new.key), Own(n, new.cfg.key)
  PROVE  \E row : OwnRow(n, row) /\ UpsertRow(peers, n, new) = [peers EXCEPT ![n] = row]
  <1> DEFINE old == peers[n]
             c == IF new.cfg = NoCfg THEN old.cfg ELSE new.cfg
             i == IF new.limit > 0 THEN new.limit ELSE old.limit
             row == [key |-> new.key, enabled |-> new.enabled, cfg |-> c, limit |-> i]
  <1>1. OwnRow(n, old)
    BY RowsAreOwn
  <1>2. CASE old = NoRow
    BY <1>2 DEF UpsertRow, OwnRow
  <1>3. CASE old # NoRow
    <2>1. old \in Row /\ Own(n, old.key) /\ Own(n, old.cfg.key)
      BY <1>1, <1>3 DEF OwnRow
    <2>2. c \in Cfg /\ i \in Limits /\ Own(n, c.key)
      BY <2>1 DEF Row
    <2>3. OwnRow(n, row)
      BY <2>2 DEF OwnRow, Row
    <2>4. UpsertRow(peers, n, new) = [peers EXCEPT ![n] = row]
      BY <1>3 DEF UpsertRow
    <2> QED BY <2>3, <2>4
  <1> QED BY <1>2, <1>3

LEMMA CreateKeeps ==
  ASSUME Inv, NEW r \in Procs, CreateCall(r)
  PROVE  Inv'
  <1>0. loc[r] \in Locals /\ Held(Name(r), loc[r])
    BY HasHeld DEF Inv
  <1>1. pc[r] \in CreateCalls /\ Name(r) \in Names
    BY IsNamed DEF CreateCall, CreateParse, CreateAppend, CreateDev, CreateUpsert,
                   CreateAudit, CreateSave, CreateCalls, Inv
  <1>2. \A l \in CreateCalls : Fits(Op(r), l) /\ l \in Labels \ {"idle", "done"}
    BY <1>1, Groups, CallLabels DEF Calls, Inv
  <1>3. CASE CreateParse(r)
    <2>1. UNCHANGED world
      BY <1>3 DEF CreateParse
    <2>2. ASSUME NEW i \in Octets, Step(r, "create.append", [loc[r] EXCEPT !.ip = i])
          PROVE  Inv'
      <3> DEFINE lo == [loc[r] EXCEPT !.ip = i]
      <3>1. lo \in Locals /\ Held(Name(r), lo) /\ lo.ip \in Octets
        BY <1>0 DEF Held, Locals
      <3>2. "create.append" \in CreateCalls
        BY DEF CreateCalls
      <3> QED BY <1>2, <2>1, <2>2, <3>1, <3>2, ReadKeeps
    <2> QED BY <1>3, <2>1, <2>2, RefuseKeeps, Refusals DEF CreateParse, FreeOctets
  <1>4. CASE CreateAppend(r)
    BY <1>4, AppendKeeps
  <1>5. CASE CreateDev(r)
    <2>1. UNCHANGED <<conf, files, peers, audit, nextKey, issued, spliced>>
      BY <1>5 DEF CreateDev, fresh
    <2>2. StoreInv'
      BY <1>0, <1>5, <2>1, DevAddType, DevChange DEF CreateDev, Inv, Locals
    <2>3. Step(r, "create.upsert", loc[r]) /\ "create.upsert" \in CreateCalls \ {"create.append"}
      BY <1>5 DEF CreateDev, Goto, CreateCalls
    <2>4. ProcInv'
      BY <1>0, <1>2, <2>1, <2>3, StepKeepsHeld DEF Inv
    <2> QED BY <2>2, <2>4 DEF Inv
  <1>6. CASE CreateUpsert(r)
    <2>1. UNCHANGED <<conf, files, dev, audit, nextKey, issued, spliced>>
      BY <1>6 DEF CreateUpsert, fresh
    <2>2. CASE Answer(r, "error") /\ UNCHANGED peers
      BY <2>1, <2>2, RefuseKeeps, Refusals DEF world
    <2>3. CASE /\ peers' = UpsertRow(peers, Name(r),
                             [key |-> loc[r].key, enabled |-> TRUE,
                              cfg |-> NewCfg(r), limit |-> 0])
               /\ Goto(r, "create.audit")
      <3> DEFINE new == [key |-> loc[r].key, enabled |-> TRUE, cfg |-> NewCfg(r), limit |-> 0]
      <3>1. new \in Row /\ Own(Name(r), new.key) /\ Own(Name(r), new.cfg.key)
        BY <1>0, LimitsAssumption DEF Row, Cfg, NewCfg, Held, Locals
      <3>2. PICK row : OwnRow(Name(r), row) /\ peers' = [peers EXCEPT ![Name(r)] = row]
        BY <1>1, <2>3, <3>1, UpsertOwn DEF Inv, OwnRow
      <3>3. StoreInv'
        BY <1>1, <2>1, <3>2, RowChange DEF Inv
      <3>4. Step(r, "create.audit", loc[r]) /\ "create.audit" \in CreateCalls \ {"create.append"}
        BY <2>3 DEF Goto, CreateCalls
      <3>5. ProcInv'
        BY <1>0, <1>2, <2>1, <3>4, StepKeepsHeld DEF Inv
      <3> QED BY <3>3, <3>5 DEF Inv
    <2> QED BY <1>6, <2>2, <2>3 DEF CreateUpsert
  <1>7. CASE CreateAudit(r)
    <2>1. UNCHANGED <<conf, files, dev, peers, nextKey, issued, spliced>>
      BY <1>7 DEF CreateAudit, fresh
    <2>2. Op(r) = "create"
      BY <1>1 DEF Inv, ProcInv, Control, Fits
    <2>3. Entry(r) \in Entries
      BY <1>0, <1>1, <2>2 DEF Entry, Entries, Mutators, Locals
    <2>4. StoreInv'
      BY <1>7, <2>1, <2>3, AuditChange DEF CreateAudit, Inv
    <2>5. Step(r, "create.save", loc[r]) /\ "create.save" \in CreateCalls \ {"create.append"}
      BY <1>7 DEF CreateAudit, Goto, CreateCalls
    <2>6. ProcInv'
      BY <1>0, <1>2, <2>1, <2>5, StepKeepsHeld DEF Inv
    <2> QED BY <2>4, <2>6 DEF Inv
  <1>8. CASE CreateSave(r)
    <2>1. UNCHANGED <<conf, dev, peers, audit, nextKey, issued, spliced>>
      BY <1>8 DEF CreateSave, fresh
    <2>2. NewCfg(r) \in Cfg /\ Own(Name(r), NewCfg(r).key)
      BY <1>0 DEF NewCfg, Cfg, Held, Locals
    <2>3. StoreInv'
      BY <1>1, <1>8, <2>1, <2>2, FilesChange DEF CreateSave, Inv
    <2>4. ProcInv'
      BY <1>8, <2>1, AnswerKeeps, Refusals DEF CreateSave, Inv
    <2> QED BY <2>3, <2>4 DEF Inv
  <1> QED BY <1>3, <1>4, <1>5, <1>6, <1>7, <1>8 DEF CreateCall

\* Whatever stays of a longer text, it parses to blocks.
LEMMA SpliceIsConfig ==
  ASSUME NEW new \in Config, NEW old \in Config
  PROVE  Splices(new, old) \subseteq Config
  <1>1. \A l \in new.blocks, c \in old.blocks : Overlaid(l, c) \subseteq Block
    BY DEF Overlaid, Config, Block
  <1>2. new.blocks \subseteq Block /\ old.blocks \subseteq Block
        /\ new.iface \in BOOLEAN /\ old.iface \in BOOLEAN
    BY DEF Config
  <1>3. {new.iface, new.iface \/ old.iface} \subseteq BOOLEAN
    BY <1>2
  <1> DEFINE B == {new.blocks \cup rest : rest \in SUBSET old.blocks}
             M(l, c) == {(new.blocks \ {l}) \cup {m} \cup rest :
                           m \in Overlaid(l, c), rest \in SUBSET (old.blocks \ {c})}
             U == UNION {M(l, c) : l \in new.blocks, c \in old.blocks}
  <1>4. B \subseteq SUBSET Block
    BY <1>2
  <1>5. U \subseteq SUBSET Block
    <2>1. ASSUME NEW l \in new.blocks, NEW c \in old.blocks, NEW s \in M(l, c)
          PROVE  s \subseteq Block
      <3>1. PICK m \in Overlaid(l, c), rest \in SUBSET (old.blocks \ {c}) :
              s = (new.blocks \ {l}) \cup {m} \cup rest
        OBVIOUS
      <3> QED BY <1>1, <1>2, <3>1
    <2> HIDE DEF M
    <2> QED BY <2>1
  <1>6. Splices(new, old) = [iface : {new.iface, new.iface \/ old.iface}, blocks : B \cup U]
    BY DEF Splices
  <1> HIDE DEF B, U
  <1> QED BY <1>3, <1>4, <1>5, <1>6 DEF Config

\* After a splice nothing is promised of the keys.
LEMMA SpliceChange ==
  ASSUME StoreInv, UNCHANGED <<files, dev, peers, audit, nextKey, issued>>,
         conf' \in Config, spliced' = TRUE
  PROVE  StoreInv'
  BY DEF StoreInv, StoreTypes, IssuedOnce, KeysKeepTheirName, Present, Own, Bound

LEMMA RemoveKeeps ==
  ASSUME Inv, NEW r \in Procs, RemoveCall(r)
  PROVE  Inv'
  <1>0. loc[r] \in Locals /\ Held(Name(r), loc[r])
    BY HasHeld DEF Inv
  <1>1. pc[r] \in RemoveCalls /\ Name(r) \in Names
    BY IsNamed DEF RemoveCall, RemoveRead, RemoveTruncate, RemoveWrite, RemoveCalls, Inv
  <1>2. \A l \in RemoveCalls : Fits(Op(r), l) /\ l \in Labels \ {"idle", "done"}
    BY <1>1, Groups, CallLabels DEF Calls, Inv
  <1>3. CASE RemoveRead(r)
    <2> DEFINE lo == [loc[r] EXCEPT !.view = conf.blocks, !.iface = conf.iface]
    <2>1. conf.blocks \subseteq Block /\ conf.iface \in BOOLEAN
          /\ \A b \in conf.blocks : Bound(b.name, b.key)
      BY DEF Inv, StoreInv, StoreTypes, Config, KeysKeepTheirName
    <2>2. lo \in Locals /\ Held(Name(r), lo)
      BY <1>0, <2>1 DEF Held, Locals
    <2>3. "remove.truncate" \in RemoveCalls /\ UNCHANGED world /\ Step(r, "remove.truncate", lo)
      BY <1>3 DEF RemoveCalls, RemoveRead
    <2> QED BY <1>2, <2>2, <2>3, ReadKeeps
  <1>4. CASE RemoveTruncate(r)
    <2>1. UNCHANGED <<files, dev, peers, audit, nextKey, issued, spliced>>
      BY <1>4 DEF RemoveTruncate, fresh
    <2>2. conf' \in Config /\ conf'.blocks = {}
      BY <1>4 DEF RemoveTruncate, Truncated, Config
    <2>3. StoreInv'
      BY <2>1, <2>2, ConfChange DEF Inv
    <2>4. "remove.write" \in RemoveCalls /\ Step(r, "remove.write", loc[r])
      BY <1>4 DEF RemoveCalls, RemoveTruncate, Goto
    <2>5. ProcInv'
      BY <1>0, <1>2, <2>1, <2>4, StepKeepsHeld DEF Inv
    <2> QED BY <2>3, <2>5 DEF Inv
  <1>5. CASE RemoveWrite(r)
    <2>1. UNCHANGED <<files, dev, peers, audit, nextKey, issued>>
      BY <1>5 DEF RemoveWrite
    <2>2. Pending(r) = [iface |-> loc[r].iface,
                        blocks |-> loc[r].view \ Named(loc[r].view, Name(r))]
      BY DEF Pending, WithoutPeer
    <2>3. Pending(r) \in Config /\ \A b \in Pending(r).blocks : Bound(b.name, b.key)
      BY <1>0, <2>2 DEF Config, Locals, Held
    <2>4. StoreInv' /\ Later
      <3>1. CASE conf' = Pending(r) /\ UNCHANGED spliced
        BY <2>1, <2>3, <3>1, ConfChange DEF Inv, Later
      <3>2. CASE conf' \in Splices(Pending(r), conf) /\ spliced' = TRUE
        <4>1. conf' \in Config
          BY <2>3, <3>2, SpliceIsConfig DEF Inv, StoreInv, StoreTypes
        <4> QED BY <2>1, <3>2, <4>1, SpliceChange DEF Inv, Later
      <3> QED BY <1>5, <3>1, <3>2 DEF RemoveWrite
    <2>5. CASE Op(r) = "revoke"
      <3> DEFINE lo == [loc[r] EXCEPT !.view = {}, !.iface = FALSE]
      <3>1. lo \in Locals /\ Held(Name(r), lo)
        BY <1>0 DEF Held, Locals
      <3>2. Step(r, "revoke.dev", lo)
        BY <1>5, <2>5 DEF RemoveWrite, AfterRemove
      <3>3. Fits(Op(r), "revoke.dev") /\ "revoke.dev" \in Labels \ {"idle", "done"}
        BY <2>5, Groups, CallLabels DEF RevokeCalls, Calls, Inv
      <3>4. ProcInv'
        BY <2>4, <3>1, <3>2, <3>3, HeldStays, StepKeeps DEF Inv
      <3> QED BY <2>4, <3>4 DEF Inv
    <2>6. CASE Op(r) # "revoke"
      <3>1. Answer(r, "error")
        BY <1>5, <2>6 DEF RemoveWrite, AfterRemove
      <3>2. ProcInv'
        BY <2>4, <3>1, AnswerLater, Refusals DEF Inv
      <3> QED BY <2>4, <3>2 DEF Inv
    <2> QED BY <2>5, <2>6
  <1> QED BY <1>3, <1>4, <1>5 DEF RemoveCall

LEMMA RevokeKeeps ==
  ASSUME Inv, NEW r \in Procs, RevokeCall(r)
  PROVE  Inv'
  <1>0. loc[r] \in Locals /\ Held(Name(r), loc[r])
    BY HasHeld DEF Inv
  <1>1. pc[r] \in RevokeCalls /\ Name(r) \in Names
    BY IsNamed DEF RevokeCall, RevokeParse, RevokeGet, RevokeDev, RevokeDelete,
                   RevokeFile, RevokeCalls, Inv
  <1>2. \A l \in RevokeCalls \cup RemoveCalls : Fits(Op(r), l) /\ l \in Labels \ {"idle", "done"}
    BY <1>1, Groups, CallLabels DEF Calls, Inv
  <1>3. {"revoke.get", "revoke.dev", "revoke.delete", "revoke.file", "revoke.audit",
         "remove.read"} \subseteq (RevokeCalls \cup RemoveCalls) \ {"create.append"}
    BY DEF RevokeCalls, RemoveCalls
  <1>4. CASE RevokeParse(r)
    <2>1. UNCHANGED world
      BY <1>4 DEF RevokeParse
    <2>2. CASE Step(r, "revoke.get", loc[r])
      BY <1>0, <1>2, <1>3, <2>1, <2>2, ReadKeeps
    <2>3. ASSUME NEW b \in Named(conf.blocks, Name(r)),
                 Step(r, "revoke.get", [loc[r] EXCEPT !.view = {b}, !.key = b.key])
          PROVE  Inv'
      <3> DEFINE lo == [loc[r] EXCEPT !.view = {b}, !.key = b.key]
      <3>1. b \in Block /\ Bound(b.name, b.key) /\ b.name = Name(r)
        BY DEF Named, Inv, StoreInv, StoreTypes, Config, KeysKeepTheirName
      <3>2. lo \in Locals /\ Held(Name(r), lo)
        BY <1>0, <3>1 DEF Held, Locals, Block, Own
      <3> QED BY <1>2, <1>3, <2>1, <2>3, <3>2, ReadKeeps
    <2> QED BY <1>4, <2>2, <2>3 DEF RevokeParse, Goto
  <1>5. CASE RevokeGet(r)
    <2> DEFINE rec == peers[Name(r)]
    <2>1. UNCHANGED world
      BY <1>5 DEF RevokeGet
    <2>2. CASE Step(r, "remove.read", loc[r])
      BY <1>0, <1>2, <1>3, <2>1, <2>2, ReadKeeps
    <2>3. CASE rec # NoRow
               /\ Step(r, IF rec.key = NoKey THEN "revoke.delete" ELSE "revoke.dev",
                       [loc[r] EXCEPT !.key = rec.key])
      <3> DEFINE lo == [loc[r] EXCEPT !.key = rec.key]
      <3>1. rec \in Row /\ Own(Name(r), rec.key)
        BY <1>1, <2>3, RowsAreOwn DEF OwnRow, Inv
      <3>2. lo \in Locals /\ Held(Name(r), lo)
        BY <1>0, <3>1 DEF Held, Locals, Row
      <3> QED BY <1>2, <1>3, <2>1, <2>3, <3>2, ReadKeeps
    <2> QED BY <1>5, <2>1, <2>2, <2>3, RefuseKeeps, Refusals DEF RevokeGet, Goto
  <1>6. CASE RevokeDev(r)
    <2>1. UNCHANGED <<conf, files, peers, audit, nextKey, issued, spliced>>
      BY <1>6 DEF RevokeDev, fresh
    <2>2. StoreInv'
      BY <1>6, <2>1, DevRemoveType, DevChange DEF RevokeDev, Inv
    <2>3. ProcInv'
      BY <1>0, <1>2, <1>3, <1>6, <2>1, StepKeepsHeld DEF RevokeDev, Goto, Inv
    <2> QED BY <2>2, <2>3 DEF Inv
  <1>7. CASE RevokeDelete(r)
    <2>1. UNCHANGED <<conf, files, dev, audit, nextKey, issued, spliced>>
      BY <1>7 DEF RevokeDelete, fresh
    <2>2. StoreInv'
      BY <1>1, <1>7, <2>1, RowChange DEF RevokeDelete, DeleteRow, OwnRow, Inv
    <2>3. ProcInv'
      BY <1>0, <1>2, <1>3, <1>7, <2>1, StepKeepsHeld DEF RevokeDelete, Goto, Inv
    <2> QED BY <2>2, <2>3 DEF Inv
  <1>8. CASE RevokeFile(r)
    <2>1. UNCHANGED <<conf, dev, peers, audit, nextKey, issued, spliced>>
      BY <1>8 DEF RevokeFile, fresh
    <2>2. NoCfg \in Cfg /\ Own(Name(r), NoCfg.key)
      BY DEF NoCfg, Cfg, NoKey, Own
    <2>3. StoreInv'
      BY <1>1, <1>8, <2>1, <2>2, FilesChange DEF RevokeFile, Inv
    <2>4. ProcInv'
      BY <1>0, <1>2, <1>3, <1>8, <2>1, StepKeepsHeld DEF RevokeFile, Goto, Inv
    <2> QED BY <2>3, <2>4 DEF Inv
  <1> QED BY <1>4, <1>5, <1>6, <1>7, <1>8 DEF RevokeCall

LEMMA AuditKeeps ==
  ASSUME Inv, NEW r \in Procs, LastAudit(r)
  PROVE  Inv'
  <1>1. UNCHANGED <<conf, files, dev, peers, nextKey, issued, spliced>>
    BY DEF LastAudit, fresh
  <1>2. pc[r] \in RevokeCalls \cup SwitchCalls \cup LimitCalls /\ Name(r) \in Names
    BY IsNamed DEF LastAudit, RevokeCalls, SwitchCalls, LimitCalls, Inv
  <1>3. Op(r) \in Mutators
    BY <1>2 DEF Inv, ProcInv, Control, Fits, Mutators
  <1>4. Entry(r) \in Entries
    BY <1>2, <1>3, HasHeld DEF Entry, Entries, Locals, Inv
  <1>5. StoreInv'
    BY <1>1, <1>4, AuditChange DEF LastAudit, Inv
  <1>6. ProcInv'
    BY <1>1, AnswerKeeps, Refusals DEF LastAudit, Inv
  <1> QED BY <1>5, <1>6 DEF Inv

LEMMA SwitchKeeps ==
  ASSUME Inv, NEW r \in Procs, SwitchCall(r)
  PROVE  Inv'
  <1>0. loc[r] \in Locals /\ Held(Name(r), loc[r])
    BY HasHeld DEF Inv
  <1>1. pc[r] \in SwitchCalls /\ Name(r) \in Names
    BY IsNamed DEF SwitchCall, SwitchFind, SwitchGet, SwitchDev, SwitchSet, SwitchCalls, Inv
  <1>2. \A l \in SwitchCalls : Fits(Op(r), l) /\ l \in Labels \ {"idle", "done"}
    BY <1>1, Groups, CallLabels DEF Calls, Inv
  <1>3. {"switch.get", "switch.dev", "switch.set", "switch.audit"}
          \subseteq SwitchCalls \ {"create.append"}
    BY DEF SwitchCalls
  <1>4. CASE SwitchFind(r)
    <2>1. UNCHANGED world
      BY <1>4 DEF SwitchFind
    <2>2. ASSUME NEW b \in Named(conf.blocks, Name(r)),
                 Step(r, "switch.get", [loc[r] EXCEPT !.key = b.key, !.ip = b.ip])
          PROVE  Inv'
      <3> DEFINE lo == [loc[r] EXCEPT !.key = b.key, !.ip = b.ip]
      <3>1. b \in Block /\ Bound(b.name, b.key) /\ b.name = Name(r)
        BY DEF Named, Inv, StoreInv, StoreTypes, Config, KeysKeepTheirName
      <3>2. lo \in Locals /\ Held(Name(r), lo)
        BY <1>0, <3>1 DEF Held, Locals, Block, Own
      <3> QED BY <1>2, <1>3, <2>1, <2>2, <3>2, ReadKeeps
    <2> QED BY <1>4, <2>1, <2>2, RefuseKeeps, Refusals DEF SwitchFind
  <1>5. CASE SwitchGet(r)
    <2>1. UNCHANGED world /\ (Answer(r, "unchanged") \/ Step(r, "switch.dev", loc[r]))
      BY <1>5 DEF SwitchGet, Goto
    <2> QED BY <1>0, <1>2, <1>3, <2>1, ReadKeeps, RefuseKeeps, Refusals
  <1>6. CASE SwitchDev(r)
    <2>1. UNCHANGED <<conf, files, peers, audit, nextKey, issued, spliced>>
      BY <1>6 DEF SwitchDev, fresh
    <2>2. dev' \subseteq [key : Nat, ip : Octets \cup {NoIP}]
      BY <1>0, <1>6, DevAddType, DevRemoveType DEF SwitchDev, Inv, Locals
    <2>3. StoreInv'
      BY <2>1, <2>2, DevChange DEF Inv
    <2>4. ProcInv'
      BY <1>0, <1>2, <1>3, <1>6, <2>1, StepKeepsHeld DEF SwitchDev, Goto, Inv
    <2> QED BY <2>3, <2>4 DEF Inv
  <1>7. CASE SwitchSet(r)
    <2>1. UNCHANGED <<conf, files, dev, audit, nextKey, issued, spliced>>
      BY <1>7 DEF SwitchSet, fresh
    <2>2. CASE Answer(r, "error") /\ UNCHANGED peers
      BY <2>1, <2>2, RefuseKeeps, Refusals DEF world
    <2>3. CASE /\ peers[Name(r)] # NoRow
               /\ peers' = SetEnabled(peers, Name(r), Op(r) = "start")
               /\ Goto(r, "switch.audit")
      <3> DEFINE row == [peers[Name(r)] EXCEPT !.enabled = (Op(r) = "start")]
      <3>1. OwnRow(Name(r), peers[Name(r)])
        BY <1>1, RowsAreOwn DEF Inv
      <3>2. OwnRow(Name(r), row)
        BY <2>3, <3>1 DEF OwnRow, Row
      <3>3. peers' = [peers EXCEPT ![Name(r)] = row]
        BY <2>3 DEF SetEnabled
      <3>4. StoreInv'
        BY <1>1, <2>1, <3>2, <3>3, RowChange DEF Inv
      <3>5. ProcInv'
        BY <1>0, <1>2, <1>3, <2>1, <2>3, StepKeepsHeld DEF Goto, Inv
      <3> QED BY <3>4, <3>5 DEF Inv
    <2> QED BY <1>7, <2>2, <2>3 DEF SwitchSet
  <1> QED BY <1>4, <1>5, <1>6, <1>7 DEF SwitchCall

LEMMA LimitKeeps ==
  ASSUME Inv, NEW r \in Procs, LimitCall(r)
  PROVE  Inv'
  <1>0. loc[r] \in Locals /\ Held(Name(r), loc[r])
    BY HasHeld DEF Inv
  <1>1. pc[r] \in LimitCalls /\ Name(r) \in Names
    BY IsNamed DEF LimitCall, LimitGet, LimitSet, LimitCalls, Inv
  <1>2. \A l \in LimitCalls : Fits(Op(r), l) /\ l \in Labels \ {"idle", "done"}
    BY <1>1, Groups, CallLabels DEF Calls, Inv
  <1>3. {"limit.set", "limit.audit"} \subseteq LimitCalls \ {"create.append"}
    BY DEF LimitCalls
  <1>4. CASE LimitGet(r)
    <2>1. UNCHANGED world /\ (Answer(r, "ErrPeerNotFound") \/ Step(r, "limit.set", loc[r]))
      BY <1>4 DEF LimitGet, Goto
    <2> QED BY <1>0, <1>2, <1>3, <2>1, ReadKeeps, RefuseKeeps, Refusals
  <1>5. CASE LimitSet(r)
    <2>1. UNCHANGED <<conf, files, dev, audit, nextKey, issued, spliced>>
      BY <1>5 DEF LimitSet, fresh
    <2>2. CASE Answer(r, "error") /\ UNCHANGED peers
      BY <2>1, <2>2, RefuseKeeps, Refusals DEF world
    <2>3. ASSUME peers[Name(r)] # NoRow, NEW l \in Limits,
                 peers' = SetLimit(peers, Name(r), l), Goto(r, "limit.audit")
          PROVE  Inv'
      <3> DEFINE row == [peers[Name(r)] EXCEPT !.limit = l]
      <3>1. OwnRow(Name(r), peers[Name(r)])
        BY <1>1, RowsAreOwn DEF Inv
      <3>2. OwnRow(Name(r), row)
        BY <2>3, <3>1 DEF OwnRow, Row
      <3>3. peers' = [peers EXCEPT ![Name(r)] = row]
        BY <2>3 DEF SetLimit
      <3>4. StoreInv'
        BY <1>1, <2>1, <3>2, <3>3, RowChange DEF Inv
      <3>5. ProcInv'
        BY <1>0, <1>2, <1>3, <2>1, <2>3, StepKeepsHeld DEF Goto, Inv
      <3> QED BY <3>4, <3>5 DEF Inv
    <2> QED BY <1>5, <2>2, <2>3 DEF LimitSet
  <1> QED BY <1>4, <1>5 DEF LimitCall

\* EnsureJunkParams keeps the key of a config.
LEMMA EnsuredKeeps ==
  ASSUME Inv, UNCHANGED world, NEW r \in Procs, pc[r] \in ConfigCalls,
         NEW rec \in Row \cup {NoRow}, OwnRow(Name(r), rec),
         NEW c \in Cfg, Own(Name(r), c.key), Ensured(r, rec, c)
  PROVE  Inv'
  <1> DEFINE kept == IF c.junk THEN NoRow ELSE rec
             lo == [loc[r] EXCEPT !.rec = kept, !.cfg = [c EXCEPT !.junk = TRUE]]
             l  == IF c.junk THEN "config.save" ELSE "config.upsert"
  <1>1. loc[r] \in Locals /\ Held(Name(r), loc[r])
    BY HasHeld DEF Inv
  <1>2. [c EXCEPT !.junk = TRUE] \in Cfg /\ [c EXCEPT !.junk = TRUE].key = c.key
    BY DEF Cfg
  <1>3. lo \in Locals
    BY <1>1, <1>2 DEF Locals
  <1>4. kept # NoRow => Own(Name(r), kept.key) /\ Own(Name(r), kept.cfg.key)
    BY DEF OwnRow
  <1>5. lo.rec = kept /\ lo.cfg = [c EXCEPT !.junk = TRUE] /\ lo.view = loc[r].view
        /\ lo.cfgs = loc[r].cfgs /\ lo.key = loc[r].key
    BY <1>1 DEF Locals
  <1>6. Held(Name(r), lo)
    BY <1>1, <1>2, <1>4, <1>5 DEF Held
  <1>7. Fits(Op(r), l) /\ l \in Labels \ {"idle", "done"} /\ l # "create.append"
    BY Groups, CallLabels DEF ConfigCalls, Calls, Inv
  <1>8. Step(r, l, lo) \/ Answer(r, "error")
    BY DEF Ensured
  <1>9. ASSUME Answer(r, "error") PROVE Inv'
    BY <1>9, RefuseKeeps, Refusals
  <1> QED BY <1>3, <1>6, <1>7, <1>8, <1>9, ReadKeeps

LEMMA ConfigKeeps ==
  ASSUME Inv, NEW r \in Procs, ConfigCall(r)
  PROVE  Inv'
  <1>0. loc[r] \in Locals /\ Held(Name(r), loc[r])
    BY HasHeld DEF Inv
  <1>1. pc[r] \in ConfigCalls /\ Name(r) \in Names
    BY IsNamed DEF ConfigCall, ConfigGet, ConfigLoad, ConfigUpsert, ConfigSave,
                   ConfigFind, ConfigCalls, Inv
  <1>2. \A l \in ConfigCalls : Fits(Op(r), l) /\ l \in Labels \ {"idle", "done"}
    BY <1>1, Groups, CallLabels DEF Calls, Inv
  <1>3. {"config.load", "config.find", "config.save"} \subseteq ConfigCalls \ {"create.append"}
    BY DEF ConfigCalls
  <1>4. OwnRow(Name(r), peers[Name(r)]) /\ peers[Name(r)] \in Row \cup {NoRow}
    BY <1>1, RowsAreOwn DEF OwnRow, Inv
  <1>5. CASE ConfigGet(r)
    <2> DEFINE rec == peers[Name(r)]
               lo == [loc[r] EXCEPT !.rec = rec]
    <2>1. UNCHANGED world
      BY <1>5 DEF ConfigGet
    <2>2. CASE rec # NoRow /\ Ensured(r, rec, rec.cfg)
      <3>1. rec.cfg \in Cfg /\ Own(Name(r), rec.cfg.key)
        BY <1>4, <2>2 DEF OwnRow, Row
      <3> QED BY <1>1, <1>4, <2>1, <2>2, <3>1, EnsuredKeeps
    <2>3. CASE Step(r, "config.load", lo)
      <3>1. lo \in Locals /\ Held(Name(r), lo)
        BY <1>0, <1>4 DEF Held, Locals, OwnRow
      <3> QED BY <1>2, <1>3, <2>1, <2>3, <3>1, ReadKeeps
    <2> QED BY <1>5, <2>2, <2>3 DEF ConfigGet
  <1>6. CASE ConfigLoad(r)
    <2>1. UNCHANGED world
      BY <1>6 DEF ConfigLoad
    <2>2. CASE Step(r, "config.find", NoLoc)
      BY <1>2, <1>3, <2>1, <2>2, NoLocFits, ReadKeeps
    <2>3. CASE Ensured(r, loc[r].rec, files[Name(r)])
      <3>1. files[Name(r)] \in Cfg /\ Own(Name(r), files[Name(r)].key)
        BY <1>1 DEF Inv, StoreInv, StoreTypes, KeysKeepTheirName
      <3>2. loc[r].rec \in Row \cup {NoRow} /\ OwnRow(Name(r), loc[r].rec)
        BY <1>0 DEF Held, Locals, OwnRow
      <3> QED BY <1>1, <2>1, <2>3, <3>1, <3>2, EnsuredKeeps
    <2> QED BY <1>6, <2>2, <2>3 DEF ConfigLoad
  <1>7. CASE ConfigUpsert(r)
    <2> DEFINE rec == loc[r].rec
               key == IF rec = NoRow THEN NoKey ELSE rec.key
               new == [key |-> key, enabled |-> rec = NoRow \/ rec.enabled,
                       cfg |-> loc[r].cfg, limit |-> 0]
               lo  == [loc[r] EXCEPT !.rec = NoRow]
    <2>1. UNCHANGED <<conf, files, dev, audit, nextKey, issued, spliced>>
      BY <1>7 DEF ConfigUpsert, fresh
    <2>2. key \in Nat /\ Own(Name(r), key) /\ (rec = NoRow \/ rec.enabled) \in BOOLEAN
      BY <1>0 DEF Locals, Held, Row, NoKey, Own
    <2>3. new \in Row /\ Own(Name(r), new.key) /\ Own(Name(r), new.cfg.key)
      BY <1>0, <2>2, LimitsAssumption DEF Locals, Held, Row
    <2>4. peers' = peers \/ peers' = UpsertRow(peers, Name(r), new)
      BY <1>7 DEF ConfigUpsert
    <2>5. StoreInv'
      <3>1. CASE peers' = peers
        BY <2>1, <3>1, StoreSame DEF world, Inv
      <3>2. CASE peers' = UpsertRow(peers, Name(r), new)
        <4>1. PICK row : OwnRow(Name(r), row)
                         /\ UpsertRow(peers, Name(r), new) = [peers EXCEPT ![Name(r)] = row]
          BY <1>1, <2>3, UpsertOwn DEF Inv
        <4> QED BY <1>1, <2>1, <3>2, <4>1, RowChange DEF Inv
      <3> QED BY <2>4, <3>1, <3>2
    <2>6. lo \in Locals /\ Held(Name(r), lo)
      BY <1>0 DEF Held, Locals
    <2>7. Step(r, "config.save", lo)
      BY <1>7 DEF ConfigUpsert
    <2>8. ProcInv'
      BY <1>2, <1>3, <2>1, <2>6, <2>7, StepKeepsHeld DEF Inv
    <2> QED BY <2>5, <2>8 DEF Inv
  <1>8. CASE ConfigSave(r)
    <2>1. UNCHANGED <<conf, dev, peers, audit, nextKey, issued, spliced>>
      BY <1>8 DEF ConfigSave, fresh
    <2>2. loc[r].cfg \in Cfg /\ Own(Name(r), loc[r].cfg.key)
      BY <1>0 DEF Held, Locals
    <2>3. StoreInv'
      BY <1>1, <1>8, <2>1, <2>2, FilesChange DEF ConfigSave, Inv
    <2>4. ProcInv'
      BY <1>8, <2>1, AnswerKeeps, Refusals DEF ConfigSave, Inv
    <2> QED BY <2>3, <2>4 DEF Inv
  <1>9. CASE ConfigFind(r)
    BY <1>9, RefuseKeeps, Refusals DEF ConfigFind
  <1> QED BY <1>5, <1>6, <1>7, <1>8, <1>9 DEF ConfigCall

LEMMA FailKeeps ==
  ASSUME Inv, NEW r \in Procs, CallFails(r)
  PROVE  Inv'
  <1>0. loc[r] \in Locals /\ Held(Name(r), loc[r])
    BY HasHeld DEF Inv
  <1>1. UNCHANGED world
    BY DEF CallFails
  <1>2. CASE pc[r] = "create.dev" /\ Step(r, "remove.read", loc[r])
    <2>1. Fits(Op(r), "remove.read") /\ "remove.read" \in Labels \ {"idle", "done"}
      BY <1>2, Groups, CallLabels DEF CreateCalls, RemoveCalls, Calls, Inv
    <2> QED BY <1>0, <1>1, <1>2, <2>1, ReadKeeps
  <1>3. CASE ShrugOff(r)
    <2>1. ASSUME pc[r] = "sync.load", NEW n \in NamesOf(loc[r].view),
                 Step(r, "sync.import",
                      [loc[r] EXCEPT !.cfgs = Loaded(NamesOf(loc[r].view) \ {n})])
          PROVE  Inv'
      <3> DEFINE lo == [loc[r] EXCEPT !.cfgs = Loaded(NamesOf(loc[r].view) \ {n})]
      <3>1. lo \in Locals /\ Held(Name(r), lo)
        BY <1>0, LoadedOwn DEF Held, Locals, Inv
      <3>2. Fits(Op(r), "sync.import") /\ "sync.import" \in Labels \ {"idle", "done"}
        BY <2>1, Groups, CallLabels DEF SyncCalls, Calls, Inv
      <3> QED BY <1>1, <2>1, <3>1, <3>2, ReadKeeps
    <2>2. CASE pc[r] = "create.audit" /\ Step(r, "create.save", loc[r])
      <3>1. Fits(Op(r), "create.save") /\ "create.save" \in Labels \ {"idle", "done"}
        BY <2>2, Groups, CallLabels DEF CreateCalls, Calls, Inv
      <3> QED BY <1>0, <1>1, <2>2, <3>1, ReadKeeps
    <2>3. CASE pc[r] = "revoke.file" /\ Step(r, "revoke.audit", loc[r])
      <3>1. Fits(Op(r), "revoke.audit") /\ "revoke.audit" \in Labels \ {"idle", "done"}
        BY <2>3, Groups, CallLabels DEF RevokeCalls, Calls, Inv
      <3> QED BY <1>0, <1>1, <2>3, <3>1, ReadKeeps
    <2>4. CASE pc[r] = "config.load" /\ Step(r, "config.find", NoLoc)
      <3>1. Fits(Op(r), "config.find") /\ "config.find" \in Labels \ {"idle", "done"}
        BY <2>4, Groups, CallLabels DEF ConfigCalls, Calls, Inv
      <3> QED BY <1>1, <2>4, <3>1, NoLocFits, ReadKeeps
    <2>5. CASE pc[r] = "config.upsert" /\ Step(r, "config.save", [loc[r] EXCEPT !.rec = NoRow])
      <3> DEFINE lo == [loc[r] EXCEPT !.rec = NoRow]
      <3>1. lo \in Locals /\ Held(Name(r), lo)
        BY <1>0 DEF Held, Locals
      <3>2. Fits(Op(r), "config.save") /\ "config.save" \in Labels \ {"idle", "done"}
        BY <2>5, Groups, CallLabels DEF ConfigCalls, Calls, Inv
      <3> QED BY <1>1, <2>5, <3>1, <3>2, ReadKeeps
    <2>6. CASE Answer(r, "ok")
      BY <1>1, <2>6, RefuseKeeps, Refusals
    <2> QED BY <1>3, <2>1, <2>2, <2>3, <2>4, <2>5, <2>6 DEF ShrugOff, Goto
  <1>4. CASE Abort(r)
    <2>1. ProcInv'
      BY <1>1, <1>4, AbortKeeps DEF Inv, world
    <2> QED BY <1>1, <2>1, StoreSame DEF Inv
  <1> QED BY <1>2, <1>3, <1>4 DEF CallFails, Goto

LEMMA ArriveKeeps ==
  ASSUME Inv, NEW r \in Procs, Arrive(r)
  PROVE  Inv'
  <1>1. PICK op \in (IF r \in Dashboards THEN {"list"} ELSE Ops) :
          \E n \in IF op = "list" THEN {NoName} ELSE Names :
            /\ req' = [req EXCEPT ![r] = [op |-> op, name |-> n]]
            /\ pc'  = [pc EXCEPT ![r] = FirstCall[op]]
    BY DEF Arrive
  <1>2. PICK n \in (IF op = "list" THEN {NoName} ELSE Names) :
            /\ req' = [req EXCEPT ![r] = [op |-> op, name |-> n]]
            /\ pc'  = [pc EXCEPT ![r] = FirstCall[op]]
    BY <1>1
  <1>3. r \in Reqs /\ pc[r] = "idle" /\ UNCHANGED <<world, loc, ans, up>> /\ r # Main
    BY ServiceAssumption DEF Arrive
  <1>4. op \in AllOps
    BY <1>1, ServiceAssumption DEF AllOps
  <1>5. FirstCall[op] \in Labels /\ Fits(op, FirstCall[op])
        /\ FirstCall[op] \notin {"idle", "done", "create.append"}
    BY <1>4 DEF FirstCall, AllOps, Labels, DbCalls, FileCalls, Fits, SyncCalls, MainCalls,
         CreateCalls, RemoveCalls, RevokeCalls, SwitchCalls, LimitCalls, ConfigCalls
  <1>6. ProcTypes'
    BY <1>2, <1>3, <1>4, <1>5 DEF Inv, ProcInv, ProcTypes
  <1>7. /\ \A q \in Procs : pc'[q] = IF q = r THEN FirstCall[op] ELSE pc[q]
        /\ \A q \in Procs : Op(q)' = IF q = r THEN op ELSE Op(q)
        /\ \A q \in Procs : Name(q)' = IF q = r THEN n ELSE Name(q)
    BY <1>2 DEF Inv, ProcInv, ProcTypes, Op, Name
  <1>8. Control'
    <2> SUFFICES ASSUME NEW q \in Procs
                 PROVE  /\ Fits(Op(q)', pc'[q])
                        /\ Op(q)' = "main" <=> q = Main
                        /\ Op(q)' \in AllOps \ {"list"} => Name(q)' \in Names
                        /\ pc'[q] = "create.append" => loc'[q].ip \in Octets
      BY DEF Control, Fits
    <2>1. CASE q = r
      BY <1>3, <1>4, <1>5, <1>7, <2>1 DEF AllOps
    <2>2. CASE q # r
      BY <1>3, <1>7, <2>2 DEF Inv, ProcInv, Control
    <2> QED BY <2>1, <2>2
  <1>9. LocalsKeepTheirName'
    <2> SUFFICES ASSUME NEW q \in Procs
                 PROVE  /\ pc'[q] \in {"idle", "done"} => loc'[q] = NoLoc
                        /\ Held(Name(q), loc[q])'
      BY DEF LocalsKeepTheirName
    <2>1. issued' = issued /\ spliced' = spliced /\ loc' = loc
      BY <1>3 DEF world
    <2>2. Held(Name(q)', loc[q]) /\ (pc'[q] \in {"idle", "done"} => loc[q] = NoLoc)
      <3>1. CASE q = r
        BY <1>3, <1>5, <1>7, <3>1, NoLocFits DEF Inv, ProcInv, LocalsKeepTheirName
      <3>2. CASE q # r
        BY <1>7, <3>2 DEF Inv, ProcInv, LocalsKeepTheirName
      <3> QED BY <3>1, <3>2
    <2> QED BY <2>1, <2>2 DEF Held, Own, Bound
  <1> QED BY <1>3, <1>6, <1>8, <1>9, StoreSame DEF Inv, ProcInv

LEMMA CrashKeeps ==
  ASSUME Inv, Crash
  PROVE  Inv'
  <1>1. /\ \A q \in Procs : loc'[q] = NoLoc
        /\ \A q \in Procs : pc'[q] \in {"idle", "done"} \/ (q = Main /\ pc'[q] = "sync.parse")
        /\ \A q \in Procs : Op(q)' = Op(q) /\ Name(q)' = Name(q)
    BY DEF Crash, Inv, ProcInv, ProcTypes, InFlight, Op, Name
  <1>2. ProcTypes'
    <2>1. pc' \in [Procs -> Labels]
      BY DEF Crash, Inv, ProcInv, ProcTypes, InFlight, Labels, FileCalls
    <2>2. loc' \in [Procs -> Locals]
      BY NoLocFits DEF Crash
    <2>3. ans' \in [Procs -> Answers]
      BY DEF Crash, Inv, ProcInv, ProcTypes, Answers
    <2> QED BY <2>1, <2>2, <2>3 DEF Crash, Inv, ProcInv, ProcTypes
  <1>3. Control'
    <2> SUFFICES ASSUME NEW q \in Procs
                 PROVE  /\ Fits(Op(q)', pc'[q])
                        /\ Op(q)' = "main" <=> q = Main
                        /\ Op(q)' \in AllOps \ {"list"} => Name(q)' \in Names
                        /\ pc'[q] = "create.append" => loc'[q].ip \in Octets
      BY DEF Control, Fits
    <2>1. (Op(q) = "main" <=> q = Main) /\ (Op(q) \in AllOps \ {"list"} => Name(q) \in Names)
      BY DEF Inv, ProcInv, Control
    <2>2. Fits(Op(q), pc'[q]) /\ pc'[q] # "create.append"
      BY <1>1, <2>1 DEF Fits, SyncCalls, MainCalls, CreateCalls, RemoveCalls, RevokeCalls,
                        SwitchCalls, LimitCalls, ConfigCalls
    <2> QED BY <1>1, <2>1, <2>2
  <1>4. LocalsKeepTheirName'
    <2> SUFFICES ASSUME NEW q \in Procs
                 PROVE  /\ pc'[q] \in {"idle", "done"} => loc'[q] = NoLoc
                        /\ Held(Name(q), loc[q])'
      BY DEF LocalsKeepTheirName
    <2>1. issued' = issued /\ spliced' = spliced
      BY DEF Crash, world
    <2> QED BY <1>1, <2>1, NoLocFits DEF Held, Own, Bound
  <1>5. StoreInv'
    BY StoreSame DEF Crash, Inv
  <1> QED BY <1>2, <1>3, <1>4, <1>5 DEF Inv, ProcInv

LEMMA QuickUpType ==
  ASSUME NEW blocks \in SUBSET Block
  PROVE  QuickUp(blocks) \subseteq [key : Nat, ip : Octets \cup {NoIP}]
  BY DEF QuickUp, Block

LEMMA ProcSame ==
  ASSUME ProcInv, UNCHANGED <<pc, req, loc, ans, up, issued, spliced>>
  PROVE  ProcInv'
  BY DEF ProcInv, ProcTypes, Control, LocalsKeepTheirName, Fits, Held, Own, Bound, Op, Name

LEMMA RestartKeeps ==
  ASSUME Inv, QuickRestart
  PROVE  Inv'
  <1>1. UNCHANGED <<conf, files, peers, audit, nextKey, issued, spliced>>
        /\ UNCHANGED <<pc, req, loc, ans, up, issued, spliced>>
    BY DEF QuickRestart, fresh, procs
  <1>2. dev' \subseteq [key : Nat, ip : Octets \cup {NoIP}]
    BY QuickUpType DEF QuickRestart, Inv, StoreInv, StoreTypes, Config
  <1> QED BY <1>1, <1>2, DevChange, ProcSame DEF Inv

LEMMA CallKeeps ==
  ASSUME Inv, NEW r \in Procs, Call(r)
  PROVE  Inv'
  BY SyncKeeps, MainKeeps, CreateKeeps, RemoveKeeps, RevokeKeeps, SwitchKeeps,
     LimitKeeps, ConfigKeeps, AuditKeeps DEF Call

-----------------------------------------------------------------------------
(* The bounds on failures, crashes and restarts.                             *)

LEMMA CallLeavesEnv ==
  ASSUME NEW r \in Procs, Call(r)
  PROVE  UNCHANGED env
  <1>1. SyncCall(r) => UNCHANGED env
    BY DEF SyncCall, SyncParse, SyncLoad, SyncImport, SyncPrune
  <1>2. MainCall(r) => UNCHANGED env
    BY DEF MainCall, MainList, MainApply
  <1>3. CreateCall(r) => UNCHANGED env
    BY DEF CreateCall, CreateParse, CreateAppend, CreateDev, CreateUpsert, CreateAudit,
           CreateSave
  <1>4. RemoveCall(r) => UNCHANGED env
    BY DEF RemoveCall, RemoveRead, RemoveTruncate, RemoveWrite
  <1>5. RevokeCall(r) => UNCHANGED env
    BY DEF RevokeCall, RevokeParse, RevokeGet, RevokeDev, RevokeDelete, RevokeFile
  <1>6. SwitchCall(r) => UNCHANGED env
    BY DEF SwitchCall, SwitchFind, SwitchGet, SwitchDev, SwitchSet
  <1>7. LimitCall(r) => UNCHANGED env
    BY DEF LimitCall, LimitGet, LimitSet
  <1>8. ConfigCall(r) => UNCHANGED env
    BY DEF ConfigCall, ConfigGet, ConfigLoad, ConfigUpsert, ConfigSave, ConfigFind
  <1>9. LastAudit(r) => UNCHANGED env
    BY DEF LastAudit
  <1> QED BY <1>1, <1>2, <1>3, <1>4, <1>5, <1>6, <1>7, <1>8, <1>9 DEF Call

LEMMA EnvKeeps ==
  ASSUME EnvTypes, Next
  PROVE  EnvTypes'
  <1>1. CASE UNCHANGED env
    BY <1>1 DEF env, EnvTypes
  <1>2. ASSUME NEW r \in Procs, Arrive(r) \/ Call(r) PROVE UNCHANGED env
    BY <1>2, CallLeavesEnv DEF Arrive
  <1>3. ASSUME NEW r \in Procs, CallFails(r) PROVE EnvTypes'
    BY <1>3 DEF CallFails, EnvTypes
  <1>4. Crash \/ QuickRestart => EnvTypes'
    BY DEF Crash, QuickRestart, EnvTypes
  <1>5. Rest => UNCHANGED env
    BY DEF Rest, vars, env
  <1> QED BY <1>1, <1>2, <1>3, <1>4, <1>5 DEF Next

-----------------------------------------------------------------------------
(* The theorems.                                                             *)

LEMMA PartsNext ==
  ASSUME Inv', EnvTypes'
  PROVE  IInv'
  BY DEF IInv, TypeOK, Inv, ProcInv, ProcTypes, StoreInv, StoreTypes, EnvTypes

LEMMA NextKeeps ==
  ASSUME IInv, [Next]_vars
  PROVE  IInv'
  <1>1. Inv /\ EnvTypes
    BY Parts DEF Inv
  <1>2. CASE UNCHANGED vars
    <2>1. UNCHANGED <<pc, req, loc, ans, up, issued, spliced>> /\ UNCHANGED world /\ UNCHANGED env
      BY <1>2 DEF vars, world, env
    <2>2. Inv' /\ EnvTypes'
      BY <1>1, <2>1, ProcSame, StoreSame DEF Inv, env, EnvTypes
    <2> QED BY <2>2, PartsNext
  <1>3. CASE Next
    <2>1. ASSUME NEW r \in Procs, Arrive(r) \/ Call(r) \/ CallFails(r) PROVE Inv'
      BY <1>1, <2>1, ArriveKeeps, CallKeeps, FailKeeps
    <2>2. Crash \/ QuickRestart => Inv'
      BY <1>1, CrashKeeps, RestartKeeps
    <2>3. Rest => UNCHANGED vars
      BY DEF Rest
    <2>4. EnvTypes'
      BY <1>1, <1>3, EnvKeeps
    <2> QED BY <1>2, <1>3, <2>1, <2>2, <2>3, <2>4, PartsNext DEF Next
  <1> QED BY <1>2, <1>3

\* The initial states.
LEMMA InitInv == Init => IInv
  <1> SUFFICES ASSUME Init PROVE IInv
    OBVIOUS
  <1>1. PICK st \in [Names -> Standings], k \in [Names -> 0 .. FirstKey - 1] :
          LET known == {n \in Names : st[n] # "absent"}
              blocks == {BlockOf(k, n) : n \in known}
              stopped == {BlockOf(k, n) : n \in {m \in known : st[m] = "stopped"}}
          IN /\ \A n \in Names : (k[n] = 0) <=> (st[n] = "absent")
             /\ \A m, n \in known : k[m] = k[n] => m = n
             /\ blocks \subseteq Block
             /\ conf  = [iface |-> TRUE, blocks |-> blocks]
             /\ files = [n \in Names |-> FileOf(st[n], k[n])]
             /\ dev \in {QuickUp(blocks), QuickUp(blocks \ stopped)}
             /\ peers = [n \in Names |-> RowOf(st[n], k[n])]
             /\ issued = {[name |-> n, key |-> k[n]] : n \in known}
    BY DEF Init
  <1> DEFINE known == {n \in Names : st[n] # "absent"}
             blocks == {BlockOf(k, n) : n \in known}
             stopped == {BlockOf(k, n) : n \in {m \in known : st[m] = "stopped"}}
  <1>2. FirstKey \in Nat \ {0} /\ (\A n \in Names : k[n] \in 0 .. FirstKey - 1)
    BY ServiceAssumption
  <1>3. \A n \in Names : /\ k[n] \in Nat /\ k[n] < FirstKey
                         /\ n \in known => 0 < k[n]
                         /\ n \in known => Own(n, k[n])
    <2> SUFFICES ASSUME NEW n \in Names
                 PROVE  /\ k[n] \in Nat /\ k[n] < FirstKey
                        /\ n \in known => 0 < k[n]
                        /\ n \in known => Own(n, k[n])
      OBVIOUS
    <2>1. k[n] \in Nat /\ k[n] < FirstKey
      BY <1>2
    <2>2. n \in known => k[n] # 0
      BY <1>1
    <2>3. n \in known => Bound(n, k[n])
      <3>1. issued = {[name |-> m, key |-> k[m]] : m \in known}
        BY <1>1
      <3> QED BY <3>1 DEF Bound
    <2> QED BY <2>1, <2>2, <2>3 DEF Own
  <1>4. IssuedOnce
    <2>1. nextKey = FirstKey
      BY DEF Init
    <2> QED BY <1>1, <1>2, <1>3, <2>1 DEF IssuedOnce
  <1>5. \A n \in Names : OwnRow(n, RowOf(st[n], k[n]))
    <2> SUFFICES ASSUME NEW n \in Names PROVE OwnRow(n, RowOf(st[n], k[n]))
      OBVIOUS
    <2>1. st[n] \in {"absent", "enabled", "stopped", "imported", "legacy"}
      BY ServiceAssumption
    <2> QED BY <1>3, <2>1, LimitsAssumption DEF OwnRow, RowOf, Row, Cfg, NoKey
  <1>6. \A n \in Names : FileOf(st[n], k[n]) \in Cfg /\ Own(n, FileOf(st[n], k[n]).key)
    <2> SUFFICES ASSUME NEW n \in Names
                 PROVE  FileOf(st[n], k[n]) \in Cfg /\ Own(n, FileOf(st[n], k[n]).key)
      OBVIOUS
    <2>1. st[n] \in {"absent", "enabled", "stopped", "imported", "legacy"}
      BY ServiceAssumption
    <2> QED BY <1>3, <2>1 DEF FileOf, Cfg, NoCfg, NoKey, Own
  <1>7. \A b \in blocks : Bound(b.name, b.key)
    <2>1. issued = {[name |-> m, key |-> k[m]] : m \in known}
      BY <1>1
    <2> SUFFICES ASSUME NEW b \in blocks PROVE Bound(b.name, b.key)
      OBVIOUS
    <2>2. PICK n \in known : b = BlockOf(k, n)
      OBVIOUS
    <2>3. b.name = n /\ b.key = k[n]
      BY <2>2 DEF BlockOf
    <2> QED BY <2>1, <2>3 DEF Bound
  <1>8. StoreTypes
    <2>1. conf \in Config
      BY <1>1 DEF Config
    <2>2. files \in [Names -> Cfg]
      BY <1>1, <1>6
    <2>3. dev \subseteq [key : Nat, ip : Octets \cup {NoIP}]
      <3>1. blocks \in SUBSET Block /\ blocks \ stopped \in SUBSET Block
        BY <1>1
      <3> HIDE DEF blocks, stopped
      <3>2. dev = QuickUp(blocks) \/ dev = QuickUp(blocks \ stopped)
        BY <1>1 DEF blocks, stopped
      <3> QED BY <3>1, <3>2, QuickUpType
    <2>4. peers \in Table
      BY <1>1, <1>5 DEF Table, OwnRow
    <2>5. audit \subseteq Entries /\ nextKey \in Nat \ {0}
      BY <1>2 DEF Init
    <2>6. issued \subseteq [name : Names, key : Nat]
      BY <1>1, <1>3
    <2>7. spliced \in BOOLEAN
      BY DEF Init
    <2> QED BY <2>1, <2>2, <2>3, <2>4, <2>5, <2>6, <2>7 DEF StoreTypes
  <1>9. KeysKeepTheirName
    BY <1>1, <1>5, <1>6, <1>7 DEF KeysKeepTheirName, Present, OwnRow
  <1>10. ProcTypes
    <2>1. pc \in [Procs -> Labels] /\ ans \in [Procs -> Answers] /\ up \in BOOLEAN
      BY DEF Init, Labels, FileCalls, Answers
    <2>2. req \in [Procs -> [op : AllOps \cup {"main", "none"}, name : Names \cup {NoName}]]
      BY DEF Init
    <2>3. loc \in [Procs -> Locals]
      BY NoLocFits DEF Init
    <2> QED BY <2>1, <2>2, <2>3 DEF ProcTypes
  <1>11. Control /\ LocalsKeepTheirName
    <2> SUFFICES ASSUME NEW r \in Procs
                 PROVE  /\ Fits(Op(r), pc[r])
                        /\ Op(r) = "main" <=> r = Main
                        /\ Op(r) \in AllOps \ {"list"} => Name(r) \in Names
                        /\ pc[r] = "create.append" => loc[r].ip \in Octets
                        /\ pc[r] \in {"idle", "done"} => loc[r] = NoLoc
                        /\ Held(Name(r), loc[r])
      BY DEF Control, LocalsKeepTheirName
    <2>1. /\ pc[r] = IF r = Main THEN "sync.parse" ELSE "idle"
          /\ Op(r) = IF r = Main THEN "main" ELSE "none"
          /\ loc[r] = NoLoc
      BY DEF Init, Op
    <2>2. Fits(Op(r), pc[r])
      BY <2>1 DEF Fits, SyncCalls, MainCalls, CreateCalls, RemoveCalls, RevokeCalls,
                  SwitchCalls, LimitCalls, ConfigCalls
    <2> QED BY <2>1, <2>2, NoLocFits DEF AllOps
  <1>12. EnvTypes
    BY DEF Init, EnvTypes
  <1> QED BY <1>4, <1>8, <1>9, <1>10, <1>11, <1>12, Parts DEF ProcInv, StoreInv

\* The inductive invariant holds in every reachable state, for any clients,
\* requests, bounds and kinds of failure.
THEOREM Inductive == Spec => []IInv
  <1> QED BY InitInv, NextKeeps, PTL DEF Spec

\* Every variable keeps values of the kind the code keeps there.
THEOREM TypeCorrect == Spec => []TypeOK
  <1>1. IInv => TypeOK
    BY DEF IInv
  <1> QED BY <1>1, Inductive, PTL

\* However requests overlap, calls fail and the process dies, until two rewrites
\* of the server file run into each other, the key stored under a name in wg0.conf, in the table or in a client file was issued for
\* that name: Revoke, Stop and Start act on the right key and GetConfig hands
\* out the right config.
THEOREM KeysKept == Spec => []KeysKeepTheirName
  <1>1. IInv => KeysKeepTheirName
    BY DEF IInv
  <1> QED BY <1>1, Inductive, PTL

\* A key that an import writes is in no row of another name.
LEMMA NoConflicts == IInv => ImportNeverConflicts
  <1> SUFFICES ASSUME IInv, ~spliced, NEW r \in Procs, NEW b \in loc[r].view,
                      KeyTaken(peers, b.name, b.key)
               PROVE  FALSE
    BY DEF ImportNeverConflicts
  <1>1. PICK m \in Present(peers) \ {b.name} : peers[m].key = b.key
    BY DEF KeyTaken
  <1>2. Bound(b.name, b.key) /\ b.key # NoKey
    BY DEF IInv, LocalsKeepTheirName, Held, IssuedOnce, Bound, NoKey
  <1>3. Bound(m, b.key)
    BY <1>1, <1>2 DEF IInv, KeysKeepTheirName, Own
  <1> QED BY <1>1, <1>2, <1>3 DEF IInv, IssuedOnce, Bound

\* Until two rewrites of the file run into each other, the UNIQUE constraint on
\* public_key never makes SyncPeersFromConfig fail:
\* a list, Stop, Start or the start of the program can always import what the
\* file held, however old its view of the file is.
THEOREM ImportsSucceed == Spec => []ImportNeverConflicts
  BY NoConflicts, Inductive, PTL
=============================================================================
