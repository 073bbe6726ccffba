-------------------------- MODULE PeerSerialProofs ---------------------------
(***************************************************************************)
(* Proofs about the peer service when changes wait for one another         *)
(* (SerialWrites), while lists, downloads and the start of the program     *)
(* interleave with them at will, calls fail, the process dies and wg-quick *)
(* restarts the interface, any number of times.                            *)
(*                                                                         *)
(* A change works with what it read a few calls earlier.  The invariant    *)
(* says, for each call it may make next, what of that is still true; only  *)
(* the one change under way can make it false.  On top of it a count: each *)
(* failed call and each death of the process leaves at most one key that   *)
(* connects without a block.                                               *)
(***************************************************************************)
EXTENDS PeerProofs, FiniteSetTheorems

Distinct(blocks) ==
  \A b, c \in blocks : b.name = c.name \/ b.ip = c.ip \/ b.key = c.key => b = c

Routed(d, blocks) == \A p \in d, b \in blocks : p.key = b.key => p.ip = b.ip

\* The audit log holds the revocation of the key.
Revoked(au, k) == k # NoKey /\ \E e \in au : e.op = "revoke" /\ e.key = k

\* What holds of the blocks of the file, and of those a removal has read.
Sound(blocks, d, au) ==
  /\ Distinct(blocks)
  /\ Routed(d, blocks)
  /\ \A b \in blocks : ~Revoked(au, b.key)

\* What a change for name n that makes call l next knows.
Knows(cf, d, au, l, op, n, lo) ==
  /\ l = "create.append" => \A b \in cf.blocks : b.name # n /\ b.ip # lo.ip
  /\ l = "create.dev" => [name |-> n, key |-> lo.key, ip |-> lo.ip] \in cf.blocks
  /\ l = "revoke.get" /\ lo.view = {} => \A b \in cf.blocks : b.name # n
  /\ \/ l = "revoke.get" /\ lo.view # {}
     \/ l \in {"remove.read", "remove.truncate"} /\ op = "revoke"
     => \A b \in cf.blocks : b.name = n => b.key = lo.key
  /\ l = "remove.truncate" => lo.view = cf.blocks /\ lo.iface = cf.iface
  /\ l = "remove.write" =>
       /\ cf = Truncated
       /\ Sound(lo.view, d, au)
       /\ op = "revoke" => \A b \in lo.view : b.name = n => b.key = lo.key
  /\ l = "revoke.dev" => lo.key \notin KeysOf(cf.blocks)
  /\ l \in {"revoke.delete", "revoke.file", "revoke.audit"} =>
       lo.key = NoKey \/ lo.key \notin KeysOf(cf.blocks) \cup LiveKeys(d)
  /\ l \in {"switch.get", "switch.dev"} =>
       \E b \in cf.blocks : b.key = lo.key /\ b.ip = lo.ip

WriterKnows(r) == Knows(conf, dev, audit, pc[r], Op(r), Name(r), loc[r])

OneWriter == \A q, r \in Reqs : Writing(q) /\ Writing(r) => q = r

\* No two rewrites of the file have met.  Keys on the interface and in the log have
\* been issued, so that the key of a new client is neither.
KeysPast ==
  /\ ~spliced
  /\ \A p \in dev : p.key < nextKey /\ ~Revoked(audit, p.key)
  /\ \A e \in audit : e.key < nextKey

SerialInv ==
  /\ OneWriter
  /\ KeysPast
  /\ Sound(conf.blocks, dev, audit)
  /\ \A r \in Reqs : WriterKnows(r)

-----------------------------------------------------------------------------
(* Counting the keys that should be dead.                                    *)

\* The file is whole, or will be when the rewrite under way is over.
Whole == conf.iface \/ \E r \in Reqs : pc[r] = "remove.write" /\ loc[r].iface

\* Keys that change r is about to put back into the file or to take off the
\* interface.
Shields(r, k) ==
  \/ pc[r] = "remove.write" /\ k \in KeysOf(loc[r].view)
  \/ pc[r] = "revoke.dev" /\ k = loc[r].key

Orphans ==
  {k \in LiveKeys(dev) : k \notin KeysOf(conf.blocks) /\ ~\E r \in Reqs : Shields(r, k)}

\* A Create the device has refused takes its block back: the key may be live if
\* wg-quick restarted the interface in the meantime.
TakingBack == \E r \in Reqs : Op(r) = "create" /\ pc[r] \in RemoveCalls

Credit == IF TakingBack THEN 1 ELSE 0

DeathsCounted == Whole => Cardinality(Orphans) + Credit <= faults + crashes

\* Nothing but a failure or a crash loses the [Interface] section.
WholeUnlessHit == faults + crashes = 0 => Whole

-----------------------------------------------------------------------------
(* How requests move.                                                        *)

\* Only request r moves.
Alone(r) ==
  /\ UNCHANGED req
  /\ \A q \in Procs : q # r => pc'[q] = pc[q] /\ loc'[q] = loc[q]

LEMMA StepAlone ==
  ASSUME ProcTypes, NEW r \in Procs, NEW l, NEW lo, Step(r, l, lo)
  PROVE  Alone(r) /\ pc'[r] = l /\ loc'[r] = lo
  BY DEF Step, Alone, ProcTypes

LEMMA AnswerAlone ==
  ASSUME ProcTypes, NEW r \in Procs, NEW a, Answer(r, a)
  PROVE  Alone(r) /\ pc'[r] \in {"idle", "done"}
  BY DEF Answer, Alone, ProcTypes

LEMMA AbortAlone ==
  ASSUME ProcTypes, NEW r \in Procs, Abort(r)
  PROVE  Alone(r) /\ pc'[r] \in {"idle", "done", "main.list"}
  BY StepAlone, AnswerAlone DEF Abort

\* Calls a change makes with something it knows.
Knowing == {"create.append", "create.dev", "remove.read", "remove.truncate",
            "remove.write", "revoke.get", "revoke.dev", "revoke.delete",
            "revoke.file", "revoke.audit", "switch.get", "switch.dev"}

LEMMA KnowingCalls ==
  ASSUME ProcInv, NEW r \in Procs, pc[r] \in Knowing
  PROVE  r \in Reqs /\ Writing(r)
  <1>1. Fits(Op(r), pc[r]) /\ (Op(r) = "main" <=> r = Main)
    BY DEF ProcInv, Control
  <1>2. Op(r) \in Mutators /\ Op(r) # "main"
    BY <1>1 DEF Fits, Knowing, CreateCalls, RemoveCalls, RevokeCalls, SwitchCalls, Mutators
  <1> QED BY <1>1, <1>2 DEF Writing, InFlight, Knowing, Procs

LEMMA NothingKnown ==
  ASSUME NEW cf, NEW d, NEW au, NEW l, NEW op, NEW n, NEW lo, l \notin Knowing
  PROVE  Knows(cf, d, au, l, op, n, lo)
  BY DEF Knows, Knowing

\* While one change is under way no other request knows anything.
LEMMA OthersKnowNothing ==
  ASSUME ProcInv, OneWriter, NEW r \in Reqs, Writing(r), NEW q \in Reqs, q # r
  PROVE  pc[q] \notin Knowing
  BY KnowingCalls DEF OneWriter, Procs

LEMMA ArriveKeepsOneWriter ==
  ASSUME SerialWrites, ProcInv, OneWriter, NEW r \in Procs, Arrive(r)
  PROVE  OneWriter' /\ (\A q \in Procs : pc'[q] \in Knowing => q # r)
                   /\ (\A q \in Procs : q # r => pc'[q] = pc[q] /\ loc'[q] = loc[q]
                                                  /\ req'[q] = req[q])
  <1>0. PICK op \in (IF r \in Dashboards THEN {"list"} ELSE Ops) :
          \E n \in IF op = "list" THEN {NoName} ELSE Names :
            /\ SerialWrites /\ op \in Mutators => \A q \in Reqs : ~Writing(q)
            /\ req' = [req EXCEPT ![r] = [op |-> op, name |-> n]]
            /\ pc'  = [pc EXCEPT ![r] = FirstCall[op]]
    BY DEF Arrive
  <1>1. PICK n \in (IF op = "list" THEN {NoName} ELSE Names) :
          /\ SerialWrites /\ op \in Mutators => \A q \in Reqs : ~Writing(q)
          /\ req' = [req EXCEPT ![r] = [op |-> op, name |-> n]]
          /\ pc'  = [pc EXCEPT ![r] = FirstCall[op]]
    BY <1>0
  <1>2. UNCHANGED loc
    BY DEF Arrive
  <1>3. FirstCall[op] \notin Knowing
    <2>1. op \in AllOps
      BY <1>0, ServiceAssumption DEF AllOps
    <2> QED BY <2>1 DEF FirstCall, AllOps, Knowing
  <1>4. /\ pc'[r] = FirstCall[op] /\ Op(r)' = op
        /\ \A q \in Procs : q # r => pc'[q] = pc[q] /\ req'[q] = req[q]
    BY <1>1 DEF ProcInv, ProcTypes, Op
  <1>5. \A q \in Reqs : q # r => (Writing(q)' <=> Writing(q))
    BY <1>4 DEF Writing, InFlight, Op, Procs
  <1>6. \A q \in Reqs : q # r /\ Writing(r)' => ~Writing(q)'
    BY <1>1, <1>4, <1>5 DEF Writing, Op
  <1>7. OneWriter'
    BY <1>5, <1>6 DEF OneWriter
  <1> QED BY <1>2, <1>3, <1>4, <1>7

LEMMA AloneKeepsOneWriter ==
  ASSUME OneWriter, NEW r \in Procs, Alone(r), InFlight(r)
  PROVE  OneWriter'
  <1>1. \A q \in Procs : Writing(q)' => Writing(q)
    BY DEF Alone, Writing, InFlight, Op
  <1> QED BY <1>1 DEF OneWriter, Procs

\* A step that leaves the file, the interface, the log and the keys alone.
LEMMA PlainStep ==
  ASSUME ProcInv, SerialInv, NEW r \in Procs, Alone(r), InFlight(r),
         UNCHANGED <<conf, dev, audit, nextKey, spliced>>,
         r \in Reqs => WriterKnows(r)'
  PROVE  SerialInv'
  <1>1. OneWriter'
    BY AloneKeepsOneWriter DEF SerialInv
  <1>2. KeysPast'
    BY DEF SerialInv, KeysPast
  <1>3. Sound(conf.blocks, dev, audit)'
    BY DEF SerialInv
  <1>4. ASSUME NEW q \in Reqs, q # r PROVE WriterKnows(q)'
    <2>1. pc'[q] = pc[q] /\ loc'[q] = loc[q] /\ Op(q)' = Op(q) /\ Name(q)' = Name(q)
      BY <1>4 DEF Alone, Procs, Op, Name
    <2> QED BY <2>1 DEF SerialInv, WriterKnows
  <1> QED BY <1>1, <1>2, <1>3, <1>4 DEF SerialInv

\* A step of the change under way.
LEMMA ChangeStep ==
  ASSUME ProcInv, SerialInv, NEW r \in Procs, r \in Reqs, Writing(r), Alone(r),
         KeysPast', Sound(conf.blocks, dev, audit)', WriterKnows(r)'
  PROVE  SerialInv'
  <1>1. OneWriter'
    BY AloneKeepsOneWriter DEF SerialInv, Writing
  <1>2. ASSUME NEW q \in Reqs, q # r PROVE WriterKnows(q)'
    <2>1. pc[q] \notin Knowing
      BY <1>2, OthersKnowNothing DEF SerialInv
    <2>2. pc'[q] \notin Knowing
      BY <1>2, <2>1 DEF Alone, Procs
    <2> QED BY <2>2, NothingKnown DEF WriterKnows
  <1> QED BY <1>1, <1>2 DEF SerialInv

LEMMA WriterStep ==
  ASSUME ProcInv, SerialInv, NEW r \in Procs, pc[r] \in Knowing, Alone(r),
         KeysPast', Sound(conf.blocks, dev, audit)', WriterKnows(r)'
  PROVE  SerialInv'
  BY KnowingCalls, ChangeStep

\* A call that leads nowhere where anything is known, and changes neither the
\* file nor the interface nor the log.
LEMMA ForgetfulStep ==
  ASSUME ProcInv, SerialInv, NEW r \in Procs, InFlight(r), Alone(r),
         UNCHANGED <<conf, dev, audit, nextKey, spliced>>, pc'[r] \notin Knowing
  PROVE  SerialInv'
  <1>1. WriterKnows(r)'
    BY NothingKnown DEF WriterKnows
  <1> QED BY <1>1, PlainStep

\* What such a step is.
Forgetful(r) ==
  InFlight(r) /\ Alone(r) /\ UNCHANGED <<conf, dev, audit, nextKey, spliced>> /\ pc'[r] \notin Knowing

LEMMA StepForgets ==
  ASSUME ProcTypes, NEW r \in Procs, InFlight(r), UNCHANGED <<conf, dev, audit, nextKey, spliced>>,
         \/ \E l, lo : l \notin Knowing /\ Step(r, l, lo)
         \/ \E a : Answer(r, a)
         \/ Abort(r)
  PROVE  Forgetful(r)
  <1>1. CASE \E l, lo : l \notin Knowing /\ Step(r, l, lo)
    BY <1>1, StepAlone DEF Forgetful
  <1>2. CASE \E a : Answer(r, a)
    BY <1>2, AnswerAlone DEF Forgetful, Knowing
  <1>3. CASE Abort(r)
    BY <1>3, AbortAlone DEF Forgetful, Knowing
  <1> QED BY <1>1, <1>2, <1>3

LEMMA SyncForgets ==
  ASSUME ProcTypes, NEW r \in Procs, SyncCall(r)
  PROVE  Forgetful(r)
  <1>1. CASE SyncParse(r)
    <2>1. "sync.load" \notin Knowing /\ \E lo : Step(r, "sync.load", lo)
      BY <1>1 DEF SyncParse, Knowing
    <2>2. InFlight(r) /\ UNCHANGED <<conf, dev, audit, nextKey, spliced>>
      BY <1>1 DEF SyncParse, InFlight, world
    <2> QED BY <2>1, <2>2, StepForgets
  <1>2. CASE SyncLoad(r)
    <2>1. "sync.import" \notin Knowing /\ \E lo : Step(r, "sync.import", lo)
      BY <1>2 DEF SyncLoad, Knowing
    <2>2. InFlight(r) /\ UNCHANGED <<conf, dev, audit, nextKey, spliced>>
      BY <1>2 DEF SyncLoad, InFlight, world
    <2> QED BY <2>1, <2>2, StepForgets
  <1>3. CASE SyncImport(r)
    <2>1. "sync.prune" \notin Knowing /\ (Abort(r) \/ \E lo : Step(r, "sync.prune", lo))
      BY <1>3 DEF SyncImport, Knowing
    <2>2. InFlight(r) /\ UNCHANGED <<conf, dev, audit, nextKey, spliced>>
      BY <1>3 DEF SyncImport, InFlight, fresh
    <2> QED BY <2>1, <2>2, StepForgets
  <1>4. CASE SyncPrune(r)
    <2>1. /\ "main.list" \notin Knowing /\ "switch.find" \notin Knowing
          /\ \/ Step(r, "main.list", NoLoc)
             \/ Answer(r, "ok")
             \/ Step(r, "switch.find", NoLoc)
      BY <1>4 DEF SyncPrune, Knowing
    <2>2. InFlight(r) /\ UNCHANGED <<conf, dev, audit, nextKey, spliced>>
      BY <1>4 DEF SyncPrune, InFlight, fresh
    <2> QED BY <2>1, <2>2, StepForgets
  <1> QED BY <1>1, <1>2, <1>3, <1>4 DEF SyncCall

LEMMA MainListForgets ==
  ASSUME ProcTypes, NEW r \in Procs, MainList(r)
  PROVE  Forgetful(r)
  <1>1. "main.apply" \notin Knowing /\ \E lo : Step(r, "main.apply", lo)
    BY DEF MainList, Knowing
  <1>2. InFlight(r) /\ UNCHANGED <<conf, dev, audit, nextKey, spliced>>
    BY DEF MainList, InFlight, world
  <1> QED BY <1>1, <1>2, StepForgets

LEMMA CreateForgets ==
  ASSUME ProcTypes, NEW r \in Procs, CreateUpsert(r) \/ CreateSave(r)
  PROVE  Forgetful(r)
  <1>1. "create.audit" \notin Knowing
    BY DEF Knowing
  <1>2. (\E a : Answer(r, a)) \/ (\E lo : Step(r, "create.audit", lo))
    BY DEF CreateUpsert, CreateSave, Goto
  <1>3. InFlight(r) /\ UNCHANGED <<conf, dev, audit, nextKey, spliced>>
    BY DEF CreateUpsert, CreateSave, InFlight, fresh
  <1> QED BY <1>1, <1>2, <1>3, StepForgets

LEMMA SwitchSetForgets ==
  ASSUME ProcTypes, NEW r \in Procs, SwitchSet(r)
  PROVE  Forgetful(r)
  <1>1. "switch.audit" \notin Knowing
    BY DEF Knowing
  <1>2. (\E a : Answer(r, a)) \/ (\E lo : Step(r, "switch.audit", lo))
    BY DEF SwitchSet, Goto
  <1>3. InFlight(r) /\ UNCHANGED <<conf, dev, audit, nextKey, spliced>>
    BY DEF SwitchSet, InFlight, fresh
  <1> QED BY <1>1, <1>2, <1>3, StepForgets

LEMMA LimitForgets ==
  ASSUME ProcTypes, NEW r \in Procs, LimitCall(r)
  PROVE  Forgetful(r)
  <1>1. "limit.set" \notin Knowing /\ "limit.audit" \notin Knowing
    BY DEF Knowing
  <1>2. \/ \E a : Answer(r, a)
        \/ \E lo : Step(r, "limit.set", lo)
        \/ \E lo : Step(r, "limit.audit", lo)
    BY DEF LimitCall, LimitGet, LimitSet, Goto
  <1>3. InFlight(r) /\ UNCHANGED <<conf, dev, audit, nextKey, spliced>>
    BY DEF LimitCall, LimitGet, LimitSet, InFlight, fresh, world
  <1> QED BY <1>1, <1>2, <1>3, StepForgets

LEMMA ConfigForgets ==
  ASSUME ProcTypes, NEW r \in Procs, ConfigCall(r)
  PROVE  Forgetful(r)
  <1>1. ASSUME NEW rec, NEW c, Ensured(r, rec, c)
        PROVE  (\E l, lo : l \notin Knowing /\ Step(r, l, lo)) \/ (\E a : Answer(r, a))
    <2>1. "config.save" \notin Knowing /\ "config.upsert" \notin Knowing
      BY DEF Knowing
    <2>2. \/ \E lo : Step(r, IF c.junk THEN "config.save" ELSE "config.upsert", lo)
          \/ \E a : Answer(r, a)
      BY <1>1 DEF Ensured
    <2> QED BY <2>1, <2>2
  <1>2. "config.load" \notin Knowing /\ "config.find" \notin Knowing /\ "config.save" \notin Knowing
    BY DEF Knowing
  <1>3. \/ \E rec, c : Ensured(r, rec, c)
        \/ \E lo : Step(r, "config.load", lo)
        \/ \E lo : Step(r, "config.find", lo)
        \/ \E lo : Step(r, "config.save", lo)
        \/ \E a : Answer(r, a)
    BY DEF ConfigCall, ConfigGet, ConfigLoad, ConfigUpsert, ConfigSave, ConfigFind
  <1>4. InFlight(r) /\ UNCHANGED <<conf, dev, audit, nextKey, spliced>>
    BY DEF ConfigCall, ConfigGet, ConfigLoad, ConfigUpsert, ConfigSave, ConfigFind,
           InFlight, fresh, world
  <1>5. (\E l, lo : l \notin Knowing /\ Step(r, l, lo)) \/ (\E a : Answer(r, a))
    BY <1>1, <1>2, <1>3
  <1> QED BY <1>4, <1>5, StepForgets

LEMMA ForgetfulKeeps ==
  ASSUME ProcInv, SerialInv, NEW r \in Procs, Forgetful(r)
  PROVE  SerialInv'
  BY ForgetfulStep DEF Forgetful

-----------------------------------------------------------------------------
(* The calls that read.                                                      *)

LEMMA KnowsNext ==
  ASSUME ProcTypes, NEW r \in Procs, NEW l, NEW lo, Step(r, l, lo),
         Knows(conf', dev', audit', l, Op(r), Name(r), lo)
  PROVE  WriterKnows(r)'
  <1>1. pc'[r] = l /\ loc'[r] = lo /\ Op(r)' = Op(r) /\ Name(r)' = Name(r)
    BY StepAlone DEF Step, Op, Name
  <1> QED BY <1>1 DEF WriterKnows

LEMMA PlainKnows ==
  ASSUME ProcInv, SerialInv, NEW r \in Procs, InFlight(r), NEW l, NEW lo, Step(r, l, lo),
         UNCHANGED <<conf, dev, audit, nextKey, spliced>>,
         Knows(conf, dev, audit, l, Op(r), Name(r), lo)
  PROVE  SerialInv'
  <1>1. Alone(r) /\ WriterKnows(r)'
    BY StepAlone, KnowsNext DEF ProcInv
  <1> QED BY <1>1, PlainStep

LEMMA AnswerForgets ==
  ASSUME ProcInv, SerialInv, NEW r \in Procs, InFlight(r), NEW a, Answer(r, a),
         UNCHANGED <<conf, dev, audit, nextKey, spliced>>
  PROVE  SerialInv'
  BY StepForgets, ForgetfulKeeps DEF ProcInv

LEMMA CreateParseKnows ==
  ASSUME ProcInv, SerialInv, NEW r \in Procs, CreateParse(r)
  PROVE  SerialInv'
  <1>1. InFlight(r) /\ UNCHANGED <<conf, dev, audit, nextKey, spliced>>
    BY DEF CreateParse, InFlight, world
  <1>2. CASE \E a : Answer(r, a)
    BY <1>1, <1>2, AnswerForgets
  <1>3. CASE /\ Named(conf.blocks, Name(r)) = {}
             /\ \E i \in FreeOctets(conf.blocks) :
                  /\ FindFreeIP(i, conf.blocks)
                  /\ Step(r, "create.append", [loc[r] EXCEPT !.ip = i])
    <2>1. PICK i \in FreeOctets(conf.blocks) :
            Step(r, "create.append", [loc[r] EXCEPT !.ip = i])
      BY <1>3
    <2> DEFINE lo == [loc[r] EXCEPT !.ip = i]
    <2>2. lo.ip = i
      BY HasHeld DEF Locals
    <2>3. \A b \in conf.blocks : b.name # Name(r) /\ b.ip # i
      BY <1>3, <2>1 DEF Named, FreeOctets
    <2>4. Knows(conf, dev, audit, "create.append", Op(r), Name(r), lo)
      BY <2>2, <2>3 DEF Knows
    <2> QED BY <1>1, <2>1, <2>4, PlainKnows
  <1> QED BY <1>2, <1>3 DEF CreateParse

LEMMA RemoveReadKnows ==
  ASSUME ProcInv, SerialInv, NEW r \in Procs, RemoveRead(r)
  PROVE  SerialInv'
  <1> DEFINE lo == [loc[r] EXCEPT !.view = conf.blocks, !.iface = conf.iface]
  <1>1. InFlight(r) /\ UNCHANGED <<conf, dev, audit, nextKey, spliced>> /\ Step(r, "remove.truncate", lo)
    BY DEF RemoveRead, InFlight, world
  <1>2. lo.view = conf.blocks /\ lo.iface = conf.iface /\ lo.key = loc[r].key
    BY HasHeld DEF Locals
  <1>3. r \in Reqs
    BY KnowingCalls DEF RemoveRead, Knowing
  <1>4. Op(r) = "revoke" => \A b \in conf.blocks : b.name = Name(r) => b.key = loc[r].key
    BY <1>3 DEF RemoveRead, SerialInv, WriterKnows, Knows
  <1>5. Knows(conf, dev, audit, "remove.truncate", Op(r), Name(r), lo)
    BY <1>2, <1>4 DEF Knows
  <1> QED BY <1>1, <1>5, PlainKnows

LEMMA RevokeParseKnows ==
  ASSUME ProcInv, SerialInv, NEW r \in Procs, RevokeParse(r)
  PROVE  SerialInv'
  <1>1. InFlight(r) /\ UNCHANGED <<conf, dev, audit, nextKey, spliced>>
    BY DEF RevokeParse, InFlight, world
  <1>2. CASE Named(conf.blocks, Name(r)) = {} /\ Goto(r, "revoke.get")
    <2>1. \A b \in conf.blocks : b.name # Name(r)
      BY <1>2 DEF Named
    <2>2. Knows(conf, dev, audit, "revoke.get", Op(r), Name(r), loc[r])
      BY <2>1 DEF Knows
    <2> QED BY <1>1, <1>2, <2>2, PlainKnows DEF Goto
  <1>3. CASE \E b \in Named(conf.blocks, Name(r)) :
               Step(r, "revoke.get", [loc[r] EXCEPT !.view = {b}, !.key = b.key])
    <2>1. PICK b \in Named(conf.blocks, Name(r)) :
            Step(r, "revoke.get", [loc[r] EXCEPT !.view = {b}, !.key = b.key])
      BY <1>3
    <2> DEFINE lo == [loc[r] EXCEPT !.view = {b}, !.key = b.key]
    <2>2. lo.view = {b} /\ lo.key = b.key
      BY HasHeld DEF Locals
    <2>3. \A c \in conf.blocks : c.name = Name(r) => c = b
      BY DEF Named, SerialInv, Sound, Distinct
    <2>4. Knows(conf, dev, audit, "revoke.get", Op(r), Name(r), lo)
      BY <2>2, <2>3 DEF Knows
    <2> QED BY <1>1, <2>1, <2>4, PlainKnows
  <1> QED BY <1>2, <1>3 DEF RevokeParse

\* A key bound to a name is in no block of another name.
LEMMA KeyOfName ==
  ASSUME StoreInv, ~spliced, NEW n, NEW k, Own(n, k), NEW blocks,
         \A b \in blocks : Bound(b.name, b.key) /\ b.name # n
  PROVE  k \notin KeysOf(blocks)
  <1> SUFFICES ASSUME NEW b \in blocks, b.key = k PROVE FALSE
    BY DEF KeysOf
  <1>1. [name |-> b.name, key |-> k] \in issued /\ b.name # n
    BY DEF Bound
  <1>2. 0 < k
    <2>1. 0 < [name |-> b.name, key |-> k].key
      BY <1>1 DEF StoreInv, IssuedOnce
    <2> QED BY <2>1
  <1>3. [name |-> n, key |-> k] \in issued
    BY <1>2 DEF Own, Bound, NoKey
  <1>4. [name |-> b.name, key |-> k].name = [name |-> n, key |-> k].name
    BY <1>1, <1>3, Zenon DEF StoreInv, IssuedOnce
  <1> QED BY <1>1, <1>4

LEMMA RevokeGetKnows ==
  ASSUME ProcInv, StoreInv, SerialInv, NEW r \in Procs, RevokeGet(r)
  PROVE  SerialInv'
  <1>1. InFlight(r) /\ UNCHANGED <<conf, dev, audit, nextKey, spliced>>
    BY DEF RevokeGet, InFlight, world
  <1>2. WriterKnows(r) /\ pc[r] = "revoke.get" /\ Op(r) = "revoke"
    <2>1. r \in Reqs /\ pc[r] = "revoke.get"
      BY KnowingCalls DEF RevokeGet, Knowing
    <2> QED BY <2>1 DEF SerialInv, ProcInv, Control, Fits, RevokeCalls, Procs
  <1>3. CASE loc[r].view # {} /\ Goto(r, "remove.read")
    <2>1. \A b \in conf.blocks : b.name = Name(r) => b.key = loc[r].key
      BY <1>2, <1>3 DEF WriterKnows, Knows
    <2>2. Knows(conf, dev, audit, "remove.read", Op(r), Name(r), loc[r])
      BY <2>1 DEF Knows
    <2> QED BY <1>1, <1>3, <2>2, PlainKnows DEF Goto
  <1>4. CASE \E a : Answer(r, a)
    BY <1>1, <1>4, AnswerForgets
  <1>5. CASE /\ loc[r].view = {} /\ peers[Name(r)] # NoRow
             /\ Step(r, IF peers[Name(r)].key = NoKey THEN "revoke.delete" ELSE "revoke.dev",
                     [loc[r] EXCEPT !.key = peers[Name(r)].key])
    <2> DEFINE k  == peers[Name(r)].key
               lo == [loc[r] EXCEPT !.key = k]
    <2>1. lo.key = k
      BY HasHeld DEF Locals
    <2>2. \A b \in conf.blocks : b.name # Name(r)
      BY <1>2, <1>5 DEF WriterKnows, Knows
    <2>3. k \notin KeysOf(conf.blocks)
      <3>1. Name(r) \in Names
        BY <1>2, IsNamed DEF RevokeCalls
      <3>2. Own(Name(r), k)
        BY <1>5, <3>1 DEF StoreInv, KeysKeepTheirName, Present
      <3>3. \A b \in conf.blocks : Bound(b.name, b.key)
        BY DEF StoreInv, KeysKeepTheirName
      <3> HIDE DEF k
      <3> QED BY <2>2, <3>2, <3>3, KeyOfName DEF SerialInv, KeysPast
    <2>4. CASE k = NoKey
      <3>1. Knows(conf, dev, audit, "revoke.delete", Op(r), Name(r), lo)
        BY <2>1, <2>4 DEF Knows
      <3> QED BY <1>1, <1>5, <2>4, <3>1, PlainKnows
    <2>5. CASE k # NoKey
      <3>1. Knows(conf, dev, audit, "revoke.dev", Op(r), Name(r), lo)
        BY <2>1, <2>3 DEF Knows
      <3> QED BY <1>1, <1>5, <2>5, <3>1, PlainKnows
    <2> QED BY <2>4, <2>5
  <1> QED BY <1>3, <1>4, <1>5 DEF RevokeGet

LEMMA SwitchFindKnows ==
  ASSUME ProcInv, SerialInv, NEW r \in Procs, SwitchFind(r)
  PROVE  SerialInv'
  <1>1. InFlight(r) /\ UNCHANGED <<conf, dev, audit, nextKey, spliced>>
    BY DEF SwitchFind, InFlight, world
  <1>2. CASE \E a : Answer(r, a)
    BY <1>1, <1>2, AnswerForgets
  <1>3. CASE \E b \in Named(conf.blocks, Name(r)) :
               Step(r, "switch.get", [loc[r] EXCEPT !.key = b.key, !.ip = b.ip])
    <2>1. PICK b \in Named(conf.blocks, Name(r)) :
            Step(r, "switch.get", [loc[r] EXCEPT !.key = b.key, !.ip = b.ip])
      BY <1>3
    <2> DEFINE lo == [loc[r] EXCEPT !.key = b.key, !.ip = b.ip]
    <2>2. lo.key = b.key /\ lo.ip = b.ip /\ b \in conf.blocks
      BY HasHeld DEF Locals, Named
    <2>3. Knows(conf, dev, audit, "switch.get", Op(r), Name(r), lo)
      BY <2>2 DEF Knows
    <2> QED BY <1>1, <2>1, <2>3, PlainKnows
  <1> QED BY <1>2, <1>3 DEF SwitchFind

\* Calls that keep what is in hand and what is known of it.
LEMMA PassedOn ==
  ASSUME ProcInv, SerialInv, NEW r \in Procs,
         \/ pc[r] = "revoke.delete" /\ Goto(r, "revoke.file")
         \/ pc[r] = "revoke.file" /\ Goto(r, "revoke.audit")
         \/ pc[r] = "switch.get" /\ Goto(r, "switch.dev"),
         UNCHANGED <<conf, dev, audit, nextKey, spliced>>
  PROVE  SerialInv'
  <1>1. WriterKnows(r) /\ InFlight(r)
    BY KnowingCalls DEF Knowing, SerialInv, InFlight
  <1>2. CASE pc[r] = "revoke.delete" /\ Goto(r, "revoke.file")
    <2>1. Knows(conf, dev, audit, "revoke.file", Op(r), Name(r), loc[r])
      BY <1>1, <1>2 DEF WriterKnows, Knows
    <2> QED BY <1>1, <1>2, <2>1, PlainKnows DEF Goto
  <1>3. CASE pc[r] = "revoke.file" /\ Goto(r, "revoke.audit")
    <2>1. Knows(conf, dev, audit, "revoke.audit", Op(r), Name(r), loc[r])
      BY <1>1, <1>3 DEF WriterKnows, Knows
    <2> QED BY <1>1, <1>3, <2>1, PlainKnows DEF Goto
  <1>4. CASE pc[r] = "switch.get" /\ Goto(r, "switch.dev")
    <2>1. Knows(conf, dev, audit, "switch.dev", Op(r), Name(r), loc[r])
      BY <1>1, <1>4 DEF WriterKnows, Knows
    <2> QED BY <1>1, <1>4, <2>1, PlainKnows DEF Goto
  <1> QED BY <1>2, <1>3, <1>4

LEMMA PassingCalls ==
  ASSUME ProcInv, SerialInv, NEW r \in Procs,
         RevokeDelete(r) \/ RevokeFile(r) \/ SwitchGet(r)
  PROVE  SerialInv'
  <1>1. InFlight(r) /\ UNCHANGED <<conf, dev, audit, nextKey, spliced>>
    BY DEF RevokeDelete, RevokeFile, SwitchGet, InFlight, fresh, world
  <1>2. CASE \E a : Answer(r, a)
    BY <1>1, <1>2, AnswerForgets
  <1>3. CASE \/ pc[r] = "revoke.delete" /\ Goto(r, "revoke.file")
             \/ pc[r] = "revoke.file" /\ Goto(r, "revoke.audit")
             \/ pc[r] = "switch.get" /\ Goto(r, "switch.dev")
    BY <1>1, <1>3, PassedOn
  <1> QED BY <1>2, <1>3 DEF RevokeDelete, RevokeFile, SwitchGet

-----------------------------------------------------------------------------
(* The calls that write.                                                     *)

LEMMA RemoveTruncateKeeps ==
  ASSUME ProcInv, SerialInv, NEW r \in Procs, RemoveTruncate(r)
  PROVE  SerialInv'
  <1>1. pc[r] = "remove.truncate" /\ conf' = Truncated /\ Goto(r, "remove.write")
        /\ UNCHANGED <<dev, audit, nextKey, spliced>>
    BY DEF RemoveTruncate, fresh
  <1>2. WriterKnows(r) /\ pc[r] \in Knowing
    BY <1>1, KnowingCalls DEF Knowing, SerialInv
  <1>3. KeysPast'
    BY <1>1 DEF SerialInv, KeysPast
  <1>4. Sound(conf.blocks, dev, audit)'
    BY <1>1 DEF Sound, Distinct, Routed, Truncated
  <1>5. loc[r].view = conf.blocks
    BY <1>1, <1>2 DEF WriterKnows, Knows
  <1>6. Sound(loc[r].view, dev', audit')
    BY <1>1, <1>5 DEF SerialInv
  <1>7. Op(r) = "revoke" => \A b \in loc[r].view : b.name = Name(r) => b.key = loc[r].key
    BY <1>1, <1>2, <1>5 DEF WriterKnows, Knows
  <1>8. Knows(conf', dev', audit', "remove.write", Op(r), Name(r), loc[r])
    BY <1>1, <1>6, <1>7 DEF Knows
  <1>9. Alone(r) /\ WriterKnows(r)'
    BY <1>1, <1>8, StepAlone, KnowsNext DEF ProcInv, Goto
  <1> QED BY <1>2, <1>3, <1>4, <1>9, WriterStep

LEMMA SoundSubset ==
  ASSUME NEW blocks, NEW d, NEW au, Sound(blocks, d, au), NEW some \in SUBSET blocks
  PROVE  Sound(some, d, au)
  BY DEF Sound, Distinct, Routed

\* A change that is alone finds the file as its truncation left it.
LEMMA WriteIsWhole ==
  ASSUME ProcInv, SerialInv, NEW r \in Procs, RemoveWrite(r)
  PROVE  conf' = Pending(r) /\ UNCHANGED spliced
  <1>1. pc[r] = "remove.write" /\ pc[r] \in Knowing
    BY DEF RemoveWrite, Knowing
  <1>2. WriterKnows(r)
    BY <1>1, KnowingCalls DEF SerialInv
  <1>3. conf = Truncated
    BY <1>1, <1>2 DEF WriterKnows, Knows
  <1> QED BY <1>3 DEF RemoveWrite

LEMMA RemoveWriteKeeps ==
  ASSUME ProcInv, StoreInv, SerialInv, NEW r \in Procs, RemoveWrite(r)
  PROVE  SerialInv'
  <1> DEFINE left == {b \in loc[r].view : b.name # Name(r)}
  <1>1. pc[r] = "remove.write" /\ AfterRemove(r) /\ UNCHANGED <<dev, audit, nextKey, spliced>>
    BY WriteIsWhole DEF RemoveWrite
  <1>2. conf'.blocks = left
    <2>1. conf' = Pending(r)
      BY WriteIsWhole
    <2> QED BY <2>1 DEF Pending, WithoutPeer, Named
  <1>3. WriterKnows(r) /\ pc[r] \in Knowing
    BY <1>1, KnowingCalls DEF Knowing, SerialInv
  <1>4. KeysPast'
    BY <1>1 DEF SerialInv, KeysPast
  <1>5. Sound(loc[r].view, dev, audit)
    BY <1>1, <1>3 DEF WriterKnows, Knows
  <1>6. Sound(conf.blocks, dev, audit)'
    BY <1>1, <1>2, <1>5, SoundSubset
  <1>7. CASE Op(r) = "revoke"
    <2> DEFINE lo == [loc[r] EXCEPT !.view = {}, !.iface = FALSE]
    <2>1. Step(r, "revoke.dev", lo)
      BY <1>1, <1>7 DEF AfterRemove
    <2>2. lo.key = loc[r].key
      BY HasHeld DEF Locals
    <2>3. Own(Name(r), loc[r].key) /\ \A b \in left : Bound(b.name, b.key) /\ b.name # Name(r)
      BY HasHeld DEF Held
    <2>4. lo.key \notin KeysOf(conf'.blocks)
      <3> HIDE DEF left
      <3> QED BY <1>2, <2>2, <2>3, KeyOfName DEF SerialInv, KeysPast
    <2>5. Knows(conf', dev', audit', "revoke.dev", Op(r), Name(r), lo)
      BY <2>4 DEF Knows
    <2>6. Alone(r) /\ WriterKnows(r)'
      BY <2>1, <2>5, StepAlone, KnowsNext DEF ProcInv
    <2> QED BY <1>3, <1>4, <1>6, <2>6, WriterStep
  <1>8. CASE Op(r) # "revoke"
    <2>1. Alone(r) /\ pc'[r] \in {"idle", "done"}
      BY <1>1, <1>8, AnswerAlone DEF AfterRemove, ProcInv
    <2>2. WriterKnows(r)'
      BY <2>1, NothingKnown DEF Knowing, WriterKnows
    <2> QED BY <1>3, <1>4, <1>6, <2>1, <2>2, WriterStep
  <1> QED BY <1>7, <1>8

\* The keys of the blocks have been issued.
LEMMA BlockKeys ==
  ASSUME StoreInv, ~spliced, NEW b \in conf.blocks
  PROVE  b.key \in Nat /\ 0 < b.key /\ b.key < nextKey
  <1>1. b \in Block /\ Bound(b.name, b.key)
    BY DEF StoreInv, StoreTypes, Config, KeysKeepTheirName
  <1>2. [name |-> b.name, key |-> b.key] \in issued
    BY <1>1 DEF Bound
  <1>3. [name |-> b.name, key |-> b.key].key < nextKey
    BY <1>2 DEF StoreInv, IssuedOnce
  <1> QED BY <1>1, <1>3 DEF Block

LEMMA CreateAppendKeeps ==
  ASSUME ProcInv, StoreInv, SerialInv, NEW r \in Procs, CreateAppend(r)
  PROVE  SerialInv'
  <1> DEFINE new == [name |-> Name(r), key |-> nextKey, ip |-> loc[r].ip]
             lo  == [loc[r] EXCEPT !.key = nextKey]
  <1>1. /\ pc[r] = "create.append" /\ conf' = AppendPeer(conf, new)
        /\ nextKey' = nextKey + 1 /\ UNCHANGED <<dev, audit, spliced>> /\ Step(r, "create.dev", lo)
    BY DEF CreateAppend
  <1>2. WriterKnows(r) /\ pc[r] \in Knowing
    BY <1>1, KnowingCalls DEF Knowing, SerialInv
  <1>3. conf'.blocks = conf.blocks \cup {new}
    BY <1>1 DEF AppendPeer, StoreInv, StoreTypes, Config
  <1>4. nextKey \in Nat \ {0} /\ dev \subseteq [key : Nat, ip : Octets \cup {NoIP}]
        /\ audit \subseteq Entries
    BY DEF StoreInv, StoreTypes
  <1>5. KeysPast'
    <2>1. \A p \in dev : p.key \in Nat
      BY <1>4
    <2>2. \A e \in audit : e.key \in Nat
      BY <1>4 DEF Entries
    <2> QED BY <1>1, <1>4, <2>1, <2>2 DEF SerialInv, KeysPast
  <1>6. \A b \in conf.blocks : b.name # Name(r) /\ b.ip # loc[r].ip /\ b.key # nextKey
    <2>1. \A b \in conf.blocks : b.name # Name(r) /\ b.ip # loc[r].ip
      BY <1>1, <1>2 DEF WriterKnows, Knows
    <2>2. \A b \in conf.blocks : b.key # nextKey
      BY <1>4, BlockKeys DEF SerialInv, KeysPast
    <2> QED BY <2>1, <2>2
  <1>7. Sound(conf.blocks, dev, audit)'
    <2>1. Distinct(conf'.blocks)
      BY <1>3, <1>6 DEF SerialInv, Sound, Distinct
    <2>2. Routed(dev, conf'.blocks)
      <3>1. \A p \in dev : p.key # nextKey
        BY <1>4 DEF SerialInv, KeysPast
      <3> QED BY <1>3, <3>1 DEF SerialInv, Sound, Routed
    <2>3. ~Revoked(audit, nextKey)
      BY <1>4 DEF SerialInv, KeysPast, Revoked
    <2>4. \A b \in conf'.blocks : ~Revoked(audit, b.key)
      BY <1>3, <2>3 DEF SerialInv, Sound
    <2> QED BY <1>1, <2>1, <2>2, <2>4 DEF Sound
  <1>8. lo.key = nextKey /\ lo.ip = loc[r].ip
    BY HasHeld DEF Locals
  <1>9. Knows(conf', dev', audit', "create.dev", Op(r), Name(r), lo)
    BY <1>3, <1>8 DEF Knows
  <1>10. Alone(r) /\ WriterKnows(r)'
    BY <1>1, <1>9, StepAlone, KnowsNext DEF ProcInv
  <1> QED BY <1>2, <1>5, <1>7, <1>10, WriterStep

\* Putting a client of the file on the interface, with the address of its block.
LEMMA AddKeeps ==
  ASSUME StoreInv, KeysPast, Sound(conf.blocks, dev, audit),
         UNCHANGED <<conf, audit, nextKey, spliced>>,
         NEW c \in conf.blocks, dev' = DevAdd(dev, c.key, c.ip)
  PROVE  KeysPast' /\ Sound(conf.blocks, dev, audit)'
  <1>0. c.ip # NoIP
    BY DEF StoreInv, StoreTypes, Config, Block, Octets, NoIP
  <1>1. ASSUME NEW p \in dev'
        PROVE  \/ p.key = c.key /\ p.ip = c.ip
               \/ /\ p.key # c.key
                  /\ \E old \in dev : old.key = p.key /\ (p.ip = old.ip \/ (old.ip = c.ip /\ p.ip = NoIP))
    <2>1. CASE p = [key |-> c.key, ip |-> c.ip]
      BY <2>1
    <2>2. CASE p \in Unroute(dev, c.ip) /\ p.key # c.key
      <3>1. PICK old \in dev : p = [old EXCEPT !.ip = IF @ = c.ip THEN NoIP ELSE @]
        BY <2>2 DEF Unroute
      <3>2. old \in [key : Nat, ip : Octets \cup {NoIP}]
        BY DEF StoreInv, StoreTypes
      <3> QED BY <2>2, <3>1, <3>2
    <2> QED BY <2>1, <2>2 DEF DevAdd
  <1>2. KeysPast'
    <2>1. c.key < nextKey /\ ~Revoked(audit, c.key)
      BY BlockKeys DEF Sound, KeysPast
    <2> QED BY <1>1, <2>1 DEF KeysPast
  <1>3. ASSUME NEW p \in dev', NEW b \in conf.blocks, p.key = b.key PROVE p.ip = b.ip
    <2>1. CASE p.key = c.key /\ p.ip = c.ip
      BY <1>3, <2>1 DEF Sound, Distinct
    <2>2. CASE /\ p.key # c.key
               /\ \E old \in dev : old.key = p.key /\ (p.ip = old.ip \/ (old.ip = c.ip /\ p.ip = NoIP))
      <3>1. PICK old \in dev : old.key = p.key /\ (p.ip = old.ip \/ (old.ip = c.ip /\ p.ip = NoIP))
        BY <2>2
      <3>2. old.ip = b.ip
        BY <1>3, <3>1 DEF Sound, Routed
      <3>3. b.ip # c.ip
        BY <1>3, <2>2 DEF Sound, Distinct
      <3> QED BY <3>1, <3>2, <3>3
    <2> QED BY <1>1, <2>1, <2>2
  <1> QED BY <1>2, <1>3 DEF Sound, Routed

LEMMA CreateDevKeeps ==
  ASSUME ProcInv, StoreInv, SerialInv, NEW r \in Procs, CreateDev(r)
  PROVE  SerialInv'
  <1> DEFINE c == [name |-> Name(r), key |-> loc[r].key, ip |-> loc[r].ip]
  <1>1. /\ pc[r] = "create.dev" /\ dev' = DevAdd(dev, loc[r].key, loc[r].ip)
        /\ UNCHANGED <<conf, audit, nextKey, spliced>> /\ Goto(r, "create.upsert")
    BY DEF CreateDev, fresh
  <1>2. WriterKnows(r) /\ pc[r] \in Knowing
    BY <1>1, KnowingCalls DEF Knowing, SerialInv
  <1>3. c \in conf.blocks
    BY <1>1, <1>2 DEF WriterKnows, Knows
  <1>4. dev' = DevAdd(dev, c.key, c.ip)
    BY <1>1
  <1>5. KeysPast' /\ Sound(conf.blocks, dev, audit)'
    <2> HIDE DEF c
    <2> QED BY <1>1, <1>3, <1>4, AddKeeps DEF SerialInv
  <1>6. Alone(r) /\ pc'[r] = "create.upsert"
    BY <1>1, StepAlone DEF ProcInv, Goto
  <1>7. WriterKnows(r)'
    BY <1>6, NothingKnown DEF Knowing, WriterKnows
  <1> QED BY <1>2, <1>5, <1>6, <1>7, WriterStep

\* Taking keys off the interface.
LEMMA LessKeeps ==
  ASSUME KeysPast, Sound(conf.blocks, dev, audit), UNCHANGED <<conf, audit, nextKey, spliced>>,
         dev' \subseteq dev
  PROVE  KeysPast' /\ Sound(conf.blocks, dev, audit)'
  BY DEF KeysPast, Sound, Routed

LEMMA RemovedIsLess ==
  ASSUME NEW d, NEW k
  PROVE  DevRemove(d, k) \subseteq d /\ k \notin LiveKeys(DevRemove(d, k))
  BY DEF DevRemove, LiveKeys

LEMMA RevokeDevKeeps ==
  ASSUME ProcInv, SerialInv, NEW r \in Procs, RevokeDev(r)
  PROVE  SerialInv'
  <1>1. /\ pc[r] = "revoke.dev" /\ dev' = DevRemove(dev, loc[r].key)
        /\ UNCHANGED <<conf, audit, nextKey, spliced>> /\ Goto(r, "revoke.delete")
    BY DEF RevokeDev, fresh
  <1>2. WriterKnows(r) /\ pc[r] \in Knowing
    BY <1>1, KnowingCalls DEF Knowing, SerialInv
  <1>3. KeysPast' /\ Sound(conf.blocks, dev, audit)'
    BY <1>1, RemovedIsLess, LessKeeps DEF SerialInv
  <1>4. loc[r].key \notin KeysOf(conf'.blocks) \cup LiveKeys(dev')
    BY <1>1, <1>2, RemovedIsLess DEF WriterKnows, Knows
  <1>5. Knows(conf', dev', audit', "revoke.delete", Op(r), Name(r), loc[r])
    BY <1>4 DEF Knows
  <1>6. Alone(r) /\ WriterKnows(r)'
    BY <1>1, <1>5, StepAlone, KnowsNext DEF ProcInv, Goto
  <1> QED BY <1>2, <1>3, <1>6, WriterStep

LEMMA SwitchDevKeeps ==
  ASSUME ProcInv, StoreInv, SerialInv, NEW r \in Procs, SwitchDev(r)
  PROVE  SerialInv'
  <1>1. /\ pc[r] = "switch.dev" /\ UNCHANGED <<conf, audit, nextKey, spliced>> /\ Goto(r, "switch.set")
        /\ dev' = IF Op(r) = "stop" THEN DevRemove(dev, loc[r].key)
                                    ELSE DevAdd(dev, loc[r].key, loc[r].ip)
    BY DEF SwitchDev, fresh
  <1>2. WriterKnows(r) /\ pc[r] \in Knowing
    BY <1>1, KnowingCalls DEF Knowing, SerialInv
  <1>3. PICK c \in conf.blocks : c.key = loc[r].key /\ c.ip = loc[r].ip
    BY <1>1, <1>2 DEF WriterKnows, Knows
  <1>4. KeysPast' /\ Sound(conf.blocks, dev, audit)'
    <2>1. CASE Op(r) = "stop"
      BY <1>1, <2>1, RemovedIsLess, LessKeeps DEF SerialInv
    <2>2. CASE Op(r) # "stop"
      BY <1>1, <1>3, <2>2, AddKeeps DEF SerialInv
    <2> QED BY <2>1, <2>2
  <1>5. Alone(r) /\ pc'[r] = "switch.set"
    BY <1>1, StepAlone DEF ProcInv, Goto
  <1>6. WriterKnows(r)'
    BY <1>5, NothingKnown DEF Knowing, WriterKnows
  <1> QED BY <1>2, <1>4, <1>5, <1>6, WriterStep

LEMMA AuditingKeeps ==
  ASSUME ProcInv, StoreInv, SerialInv, NEW r \in Procs, CreateAudit(r) \/ LastAudit(r)
  PROVE  SerialInv'
  <1>1. /\ pc[r] \in {"create.audit", "revoke.audit", "switch.audit", "limit.audit"}
        /\ audit' = audit \cup {Entry(r)} /\ UNCHANGED <<conf, dev, nextKey, spliced>>
    BY DEF CreateAudit, LastAudit, fresh
  <1>2. Alone(r) /\ pc'[r] \notin Knowing
    <2>1. CASE CreateAudit(r)
      <3>1. Step(r, "create.save", loc[r])
        BY <2>1 DEF CreateAudit, Goto
      <3> QED BY <3>1, StepAlone DEF ProcInv, Knowing
    <2>2. CASE LastAudit(r)
      <3>1. Answer(r, "ok")
        BY <2>2 DEF LastAudit
      <3> QED BY <3>1, AnswerAlone DEF ProcInv, Knowing
    <2> QED BY <2>1, <2>2
  <1>3. r \in Reqs /\ Writing(r) /\ (Op(r) = "revoke" => pc[r] = "revoke.audit")
    <2>1. Fits(Op(r), pc[r]) /\ (Op(r) = "main" <=> r = Main)
      BY DEF ProcInv, Control
    <2> QED BY <1>1, <2>1 DEF Fits, CreateCalls, RevokeCalls, SwitchCalls, LimitCalls,
                              Mutators, Writing, InFlight, Procs
  <1>4. Entry(r).key = loc[r].key /\ Entry(r).op = Op(r)
    BY DEF Entry
  <1>5. loc[r].key < nextKey
    <2>1. Own(Name(r), loc[r].key)
      BY HasHeld DEF Held
    <2>2. CASE loc[r].key = NoKey
      BY <2>2 DEF NoKey, StoreInv, StoreTypes
    <2>3. CASE loc[r].key # NoKey
      <3>1. [name |-> Name(r), key |-> loc[r].key] \in issued
        BY <2>1, <2>3 DEF Own, Bound, SerialInv, KeysPast
      <3>2. [name |-> Name(r), key |-> loc[r].key].key < nextKey
        BY <3>1 DEF StoreInv, IssuedOnce
      <3> QED BY <3>2
    <2> QED BY <2>2, <2>3
  <1>6. ASSUME NEW k, Revoked(audit', k), k \in KeysOf(conf.blocks) \cup LiveKeys(dev)
        PROVE  FALSE
    <2>1. ~Revoked(audit, k)
      <3>1. CASE k \in KeysOf(conf.blocks)
        BY <3>1 DEF KeysOf, SerialInv, Sound
      <3>2. CASE k \in LiveKeys(dev)
        BY <3>2 DEF LiveKeys, SerialInv, KeysPast
      <3> QED BY <1>6, <3>1, <3>2
    <2>2. Op(r) = "revoke" /\ k = loc[r].key /\ k # NoKey
      BY <1>1, <1>4, <1>6, <2>1 DEF Revoked
    <2>3. loc[r].key \notin KeysOf(conf.blocks) \cup LiveKeys(dev)
      BY <1>3, <2>2 DEF SerialInv, WriterKnows, Knows
    <2> QED BY <1>6, <2>2, <2>3
  <1>7. KeysPast'
    <2>1. \A p \in dev : ~Revoked(audit', p.key)
      BY <1>6 DEF LiveKeys
    <2> QED BY <1>1, <1>4, <1>5, <2>1 DEF SerialInv, KeysPast
  <1>8. Sound(conf.blocks, dev, audit)'
    <2>1. \A b \in conf.blocks : ~Revoked(audit', b.key)
      BY <1>6 DEF KeysOf
    <2> QED BY <1>1, <2>1 DEF SerialInv, Sound
  <1>9. WriterKnows(r)'
    BY <1>2, NothingKnown DEF WriterKnows
  <1> QED BY <1>2, <1>3, <1>7, <1>8, <1>9, ChangeStep

LEMMA KnowsLess ==
  ASSUME NEW cf, NEW d, NEW au, NEW l, NEW op, NEW n, NEW lo,
         Knows(cf, d, au, l, op, n, lo), NEW some \in SUBSET d
  PROVE  Knows(cf, some, au, l, op, n, lo)
  <1>1. Sound(lo.view, d, au) => Sound(lo.view, some, au)
    BY DEF Sound, Routed
  <1>2. LiveKeys(some) \subseteq LiveKeys(d)
    BY DEF LiveKeys
  <1> QED BY <1>1, <1>2 DEF Knows

LEMMA MainApplyKeeps ==
  ASSUME ProcInv, SerialInv, NEW r \in Procs, MainApply(r)
  PROVE  SerialInv'
  <1>1. pc[r] = "main.apply" /\ UNCHANGED <<conf, audit, nextKey, spliced>> /\ InFlight(r)
    BY DEF MainApply, fresh, InFlight
  <1>2. CASE Answer(r, "ok") /\ UNCHANGED dev
    BY <1>1, <1>2, AnswerForgets
  <1>3. CASE \E k \in loc[r].todo : /\ dev' = DevRemove(dev, k)
                                    /\ Step(r, "main.apply", [loc[r] EXCEPT !.todo = @ \ {k}])
    <2>1. dev' \subseteq dev
      BY <1>3, RemovedIsLess
    <2>2. Alone(r) /\ pc'[r] = "main.apply"
      BY <1>3, StepAlone DEF ProcInv
    <2>3. r \notin Reqs
      <3>1. Fits(Op(r), pc[r]) /\ (Op(r) = "main" <=> r = Main)
        BY DEF ProcInv, Control
      <3> QED BY <1>1, <3>1, ServiceAssumption DEF Fits, MainCalls
    <2>4. KeysPast' /\ Sound(conf.blocks, dev, audit)'
      BY <1>1, <2>1, LessKeeps DEF SerialInv
    <2>5. ASSUME NEW q \in Reqs PROVE WriterKnows(q)'
      <3>1. pc'[q] = pc[q] /\ loc'[q] = loc[q] /\ Op(q)' = Op(q) /\ Name(q)' = Name(q)
        BY <2>2, <2>3 DEF Alone, Procs, Op, Name
      <3>2. Knows(conf, dev, audit, pc[q], Op(q), Name(q), loc[q])
        BY DEF SerialInv, WriterKnows
      <3>3. Knows(conf, dev', audit, pc[q], Op(q), Name(q), loc[q])
        BY <2>1, <3>2, KnowsLess
      <3> QED BY <1>1, <3>1, <3>3 DEF WriterKnows
    <2>6. OneWriter'
      BY <1>1, <2>2, AloneKeepsOneWriter DEF SerialInv
    <2> QED BY <2>4, <2>5, <2>6 DEF SerialInv
  <1> QED BY <1>2, <1>3 DEF MainApply

-----------------------------------------------------------------------------
(* The other steps.                                                          *)

LEMMA ShrugKeeps ==
  ASSUME ProcInv, SerialInv, NEW r \in Procs, ShrugOff(r), UNCHANGED <<conf, dev, audit, nextKey, spliced>>,
         InFlight(r)
  PROVE  SerialInv'
  <1>1. CASE pc[r] = "revoke.file" /\ Goto(r, "revoke.audit")
    BY <1>1, PassedOn
  <1>2. CASE \/ \E lo : Step(r, "sync.import", lo)
             \/ \E lo : Step(r, "create.save", lo)
             \/ \E lo : Step(r, "config.find", lo)
             \/ \E lo : Step(r, "config.save", lo)
             \/ \E a : Answer(r, a)
    <2>1. {"sync.import", "create.save", "config.find", "config.save"} \cap Knowing = {}
      BY DEF Knowing
    <2>2. (\E l, lo : l \notin Knowing /\ Step(r, l, lo)) \/ (\E a : Answer(r, a))
      BY <1>2, <2>1
    <2> QED BY <2>2, StepForgets, ForgetfulKeeps DEF ProcInv
  <1> QED BY <1>1, <1>2 DEF ShrugOff, Goto

LEMMA FailureKeeps ==
  ASSUME ProcInv, SerialInv, NEW r \in Procs, CallFails(r)
  PROVE  SerialInv'
  <1>1. UNCHANGED <<conf, dev, audit, nextKey, spliced>>
    BY DEF CallFails, world
  <1>2. InFlight(r)
    BY DEF CallFails, CanFail, DbCalls, DevCalls, FileCalls, InFlight
  <1>3. CASE pc[r] = "create.dev" /\ Goto(r, "remove.read")
    <2>1. Op(r) = "create"
      BY <1>3 DEF ProcInv, Control, Fits, CreateCalls
    <2>2. Knows(conf, dev, audit, "remove.read", Op(r), Name(r), loc[r])
      BY <2>1 DEF Knows
    <2> QED BY <1>1, <1>2, <1>3, <2>2, PlainKnows DEF Goto
  <1>4. CASE ShrugOff(r)
    BY <1>1, <1>2, <1>4, ShrugKeeps
  <1>5. CASE Abort(r)
    BY <1>1, <1>2, <1>5, StepForgets, ForgetfulKeeps DEF ProcInv
  <1> QED BY <1>3, <1>4, <1>5 DEF CallFails

LEMMA DeathKeeps ==
  ASSUME ProcInv, SerialInv, Crash
  PROVE  SerialInv'
  <1>1. UNCHANGED <<conf, dev, audit, nextKey, spliced>>
    BY DEF Crash, world
  <1>2. \A q \in Reqs : pc'[q] \in {"idle", "done"}
    BY ServiceAssumption DEF Crash, Procs, InFlight
  <1>3. OneWriter'
    BY <1>2 DEF OneWriter, Writing, InFlight
  <1>4. \A q \in Reqs : WriterKnows(q)'
    BY <1>2, NothingKnown DEF WriterKnows, Knowing
  <1> QED BY <1>1, <1>3, <1>4 DEF SerialInv, KeysPast

\* What wg-quick brings up is what the file says.
LEMMA QuickUpSound ==
  ASSUME NEW blocks \in SUBSET Block, NEW au, Distinct(blocks), NEW some \in SUBSET blocks
  PROVE  /\ LiveKeys(QuickUp(some)) = KeysOf(some)
         /\ Routed(QuickUp(some), blocks)
  <1>1. LiveKeys(QuickUp(some)) = KeysOf(some)
    <2> DEFINE Up(b) == [key |-> b.key,
                         ip  |-> IF \E c \in some : c.ip = b.ip /\ c.key > b.key
                                 THEN NoIP ELSE b.ip]
    <2>1. QuickUp(some) = {Up(b) : b \in some}
      BY DEF QuickUp
    <2>2. \A b \in some : Up(b).key = b.key
      OBVIOUS
    <2> HIDE DEF Up
    <2> QED BY <2>1, <2>2 DEF LiveKeys, KeysOf
  <1>2. ASSUME NEW p \in QuickUp(some), NEW b \in blocks, p.key = b.key PROVE p.ip = b.ip
    <2>1. PICK c \in some :
            p = [key |-> c.key,
                 ip |-> IF \E e \in some : e.ip = c.ip /\ e.key > c.key THEN NoIP ELSE c.ip]
      BY DEF QuickUp
    <2>2. c = b
      BY <1>2, <2>1 DEF Distinct
    <2>3. \A e \in some : e.ip = c.ip => e = c
      BY DEF Distinct
    <2>4. c.key \in Nat
      BY DEF Block
    <2>5. ~\E e \in some : e.ip = c.ip /\ e.key > c.key
      BY <2>3, <2>4
    <2> QED BY <2>1, <2>2, <2>5
  <1> QED BY <1>1, <1>2 DEF Routed

LEMMA BounceKeeps ==
  ASSUME ProcInv, StoreInv, SerialInv, QuickRestart
  PROVE  SerialInv'
  <1>1. conf.iface /\ dev' = QuickUp(conf.blocks)
        /\ UNCHANGED <<conf, audit, nextKey, spliced, pc, req, loc>>
    BY DEF QuickRestart, fresh, procs
  <1>2. /\ LiveKeys(dev') = KeysOf(conf.blocks)
        /\ Routed(dev', conf.blocks)
    BY <1>1, QuickUpSound DEF SerialInv, Sound, StoreInv, StoreTypes, Config
  <1>3. KeysPast'
    <2>1. ASSUME NEW p \in dev' PROVE p.key < nextKey /\ ~Revoked(audit, p.key)
      <3>1. p.key \in KeysOf(conf.blocks)
        BY <1>2 DEF LiveKeys
      <3>2. PICK b \in conf.blocks : b.key = p.key
        BY <3>1 DEF KeysOf
      <3>3. b.key < nextKey /\ ~Revoked(audit, b.key)
        BY BlockKeys DEF SerialInv, Sound, KeysPast
      <3> QED BY <3>2, <3>3
    <2> QED BY <1>1, <2>1 DEF SerialInv, KeysPast
  <1>4. Sound(conf.blocks, dev, audit)'
    BY <1>1, <1>2 DEF SerialInv, Sound
  <1>5. ASSUME NEW q \in Reqs PROVE WriterKnows(q)'
    <2>1. Knows(conf, dev, audit, pc[q], Op(q), Name(q), loc[q])
      BY DEF SerialInv, WriterKnows
    <2>2. conf # Truncated
      BY <1>1 DEF Truncated
    <2>3. Knows(conf, dev', audit, pc[q], Op(q), Name(q), loc[q])
      BY <1>2, <2>1, <2>2 DEF Knows
    <2> QED BY <1>1, <2>3 DEF WriterKnows, Op, Name
  <1>6. OneWriter'
    BY <1>1 DEF SerialInv, OneWriter, Writing, InFlight, Op
  <1> QED BY <1>3, <1>4, <1>5, <1>6 DEF SerialInv

LEMMA ArrivalKeeps ==
  ASSUME SerialWrites, ProcInv, SerialInv, NEW r \in Procs, Arrive(r)
  PROVE  SerialInv'
  <1>1. UNCHANGED <<conf, dev, audit, nextKey, spliced>>
    BY DEF Arrive, world
  <1>2. OneWriter' /\ (\A q \in Procs : pc'[q] \in Knowing => q # r)
                   /\ (\A q \in Procs : q # r => pc'[q] = pc[q] /\ loc'[q] = loc[q]
                                                  /\ req'[q] = req[q])
    BY ArriveKeepsOneWriter DEF SerialInv
  <1>3. ASSUME NEW q \in Reqs PROVE WriterKnows(q)'
    <2>1. CASE q = r
      BY <1>2, <2>1, NothingKnown DEF WriterKnows, Procs
    <2>2. CASE q # r
      BY <1>1, <1>2, <2>2 DEF SerialInv, WriterKnows, Op, Name, Procs
    <2> QED BY <2>1, <2>2
  <1> QED BY <1>1, <1>2, <1>3 DEF SerialInv, KeysPast

LEMMA SerialNext ==
  ASSUME SerialWrites, IInv, SerialInv, [Next]_vars
  PROVE  SerialInv'
  <1>1. ProcInv /\ StoreInv
    BY Parts
  <1>2. ASSUME NEW r \in Procs, Call(r) PROVE SerialInv'
    <2>1. SyncCall(r) => SerialInv'
      BY <1>1, SyncForgets, ForgetfulKeeps DEF ProcInv
    <2>2. MainCall(r) => SerialInv'
      BY <1>1, MainListForgets, ForgetfulKeeps, MainApplyKeeps DEF ProcInv, MainCall
    <2>3. CreateCall(r) => SerialInv'
      BY <1>1, CreateForgets, ForgetfulKeeps, CreateParseKnows, CreateAppendKeeps,
         CreateDevKeeps, AuditingKeeps DEF ProcInv, CreateCall
    <2>4. RemoveCall(r) => SerialInv'
      BY <1>1, RemoveReadKnows, RemoveTruncateKeeps, RemoveWriteKeeps DEF RemoveCall
    <2>5. RevokeCall(r) => SerialInv'
      BY <1>1, RevokeParseKnows, RevokeGetKnows, RevokeDevKeeps, PassingCalls DEF RevokeCall
    <2>6. SwitchCall(r) => SerialInv'
      BY <1>1, SwitchFindKnows, PassingCalls, SwitchDevKeeps, SwitchSetForgets,
         ForgetfulKeeps DEF ProcInv, SwitchCall
    <2>7. LimitCall(r) \/ ConfigCall(r) => SerialInv'
      BY <1>1, LimitForgets, ConfigForgets, ForgetfulKeeps DEF ProcInv
    <2>8. LastAudit(r) => SerialInv'
      BY <1>1, AuditingKeeps
    <2> QED BY <1>2, <2>1, <2>2, <2>3, <2>4, <2>5, <2>6, <2>7, <2>8 DEF Call
  <1>3. ASSUME NEW r \in Procs, Arrive(r) \/ CallFails(r) PROVE SerialInv'
    BY <1>1, <1>3, ArrivalKeeps, FailureKeeps
  <1>4. Crash \/ QuickRestart => SerialInv'
    BY <1>1, DeathKeeps, BounceKeeps
  <1>5. Rest \/ UNCHANGED vars => SerialInv'
    BY DEF Rest, vars, SerialInv, OneWriter, Writing, InFlight, Op, KeysPast, WriterKnows, Name
  <1> QED BY <1>2, <1>3, <1>4, <1>5 DEF Next

LEMMA SerialInit == Init => SerialInv
  <1> SUFFICES ASSUME Init PROVE SerialInv
    OBVIOUS
  <1>1. PICK st \in [Names -> Standings], k \in [Names -> 0 .. FirstKey - 1] :
          LET known == {n \in Names : st[n] # "absent"}
              blocks == {BlockOf(k, n) : n \in known}
              stopped == {BlockOf(k, n) : n \in {m \in known : st[m] = "stopped"}}
          IN /\ \A n \in Names : (k[n] = 0) <=> (st[n] = "absent")
             /\ \A m, n \in known : k[m] = k[n] => m = n
             /\ blocks \subseteq Block
             /\ conf = [iface |-> TRUE, blocks |-> blocks]
             /\ dev \in {QuickUp(blocks), QuickUp(blocks \ stopped)}
    BY DEF Init
  <1> DEFINE known == {n \in Names : st[n] # "absent"}
             blocks == {BlockOf(k, n) : n \in known}
             stopped == {BlockOf(k, n) : n \in {m \in known : st[m] = "stopped"}}
  <1>2. conf.blocks = blocks /\ blocks \in SUBSET Block /\ audit = {} /\ nextKey = FirstKey
    BY <1>1 DEF Init
  <1>3. Distinct(blocks)
    <2> SUFFICES ASSUME NEW m \in known, NEW n \in known,
                        \/ BlockOf(k, m).name = BlockOf(k, n).name
                        \/ BlockOf(k, m).ip = BlockOf(k, n).ip
                        \/ BlockOf(k, m).key = BlockOf(k, n).key
                 PROVE  m = n
      BY DEF Distinct
    <2>1. k[m] \in Nat /\ k[n] \in Nat
      BY ServiceAssumption
    <2>2. m = n \/ k[m] + 1 = k[n] + 1 \/ k[m] = k[n]
      BY DEF BlockOf
    <2>3. m = n \/ k[m] = k[n]
      BY <2>1, <2>2
    <2> QED BY <1>1, <2>3
  <1>4. PICK some \in SUBSET blocks : dev = QuickUp(some)
    BY <1>1
  <1> HIDE DEF blocks, stopped
  <1>5. LiveKeys(dev) = KeysOf(some) /\ Routed(dev, blocks)
    BY <1>2, <1>3, <1>4, QuickUpSound
  <1>6. ~\E x : Revoked(audit, x)
    BY <1>2 DEF Revoked
  <1>7. KeysPast
    <2>1. ASSUME NEW p \in dev PROVE p.key < nextKey
      <3>1. PICK b \in some : b.key = p.key
        BY <1>5 DEF LiveKeys, KeysOf
      <3>2. b.key < nextKey
        BY <1>2, <3>1, InitInv, Parts, BlockKeys DEF Init
      <3> QED BY <3>1, <3>2
    <2> QED BY <1>2, <1>6, <2>1 DEF KeysPast, Init
  <1>8. Sound(conf.blocks, dev, audit)
    BY <1>2, <1>3, <1>5, <1>6 DEF Sound
  <1>9. \A q \in Reqs : pc[q] = "idle"
    BY ServiceAssumption DEF Init, Procs
  <1>10. OneWriter /\ \A q \in Reqs : WriterKnows(q)
    BY <1>9, NothingKnown DEF OneWriter, Writing, InFlight, WriterKnows, Knowing
  <1> QED BY <1>7, <1>8, <1>10 DEF SerialInv

-----------------------------------------------------------------------------
(* The counting.                                                             *)

Counts == DeathsCounted /\ WholeUnlessHit

OthersStay(r) ==
  \A q \in Procs : q # r => pc'[q] = pc[q] /\ loc'[q] = loc[q] /\ req'[q] = req[q]

\* Request r is not in the middle of a rewrite after the step, nor taking a block
\* back unless it was.
NoNewRewrite(r) ==
  /\ pc'[r] # "remove.write"
  /\ pc'[r] \in RemoveCalls /\ Op(r)' = "create" => pc[r] \in RemoveCalls /\ Op(r) = "create"

LEMMA OrphansFinite ==
  ASSUME StoreInv, SerialInv
  PROVE  IsFiniteSet(Orphans) /\ Cardinality(Orphans) \in Nat
  <1>1. nextKey \in Nat /\ dev \subseteq [key : Nat, ip : Octets \cup {NoIP}]
    BY DEF StoreInv, StoreTypes
  <1>2. IsFiniteSet(0 .. nextKey)
    BY <1>1, FS_Interval
  <1>3. \A p \in dev : p.key \in 0 .. nextKey
    BY <1>1 DEF SerialInv, KeysPast
  <1>4. Orphans \subseteq 0 .. nextKey
    BY <1>3 DEF Orphans, LiveKeys
  <1> QED BY <1>2, <1>4, FS_Subset, FS_CardinalityType

LEMMA NoMoreOrphans ==
  ASSUME StoreInv, SerialInv, Orphans' \subseteq Orphans
  PROVE  Cardinality(Orphans)' \in Nat /\ Cardinality(Orphans)' <= Cardinality(Orphans)
                                       /\ Cardinality(Orphans) \in Nat
  BY OrphansFinite, FS_Subset, FS_CardinalityType

LEMMA OneMoreOrphan ==
  ASSUME StoreInv, SerialInv, NEW k, Orphans' \subseteq Orphans \cup {k}
  PROVE  Cardinality(Orphans)' \in Nat /\ Cardinality(Orphans)' <= Cardinality(Orphans) + 1
                                       /\ Cardinality(Orphans) \in Nat
  <1>1. IsFiniteSet(Orphans) /\ Cardinality(Orphans) \in Nat
    BY OrphansFinite
  <1>2. /\ IsFiniteSet(Orphans \cup {k})
        /\ Cardinality(Orphans \cup {k}) <= Cardinality(Orphans) + 1
    <2> DEFINE O == Orphans
    <2>1. IsFiniteSet(O) /\ Cardinality(O) \in Nat
      BY <1>1
    <2> HIDE DEF O
    <2>2. /\ IsFiniteSet(O \cup {k})
          /\ Cardinality(O \cup {k}) = IF k \in O THEN Cardinality(O) ELSE Cardinality(O) + 1
      BY <2>1, FS_AddElement
    <2>3. Cardinality(O \cup {k}) <= Cardinality(O) + 1
      BY <2>1, <2>2
    <2> QED BY <2>2, <2>3 DEF O
  <1>3. Cardinality(Orphans \cup {k}) \in Nat
    BY <1>2, FS_CardinalityType
  <1>4. IsFiniteSet(Orphans') /\ Cardinality(Orphans') <= Cardinality(Orphans \cup {k})
        /\ Cardinality(Orphans') \in Nat
    BY <1>2, FS_Subset, FS_CardinalityType
  <1> QED BY <1>1, <1>2, <1>3, <1>4

LEMMA CreditType == Credit \in {0, 1} /\ (TakingBack <=> Credit = 1)
  BY DEF Credit

LEMMA CreditNext ==
  /\ Credit' \in {0, 1}
  /\ (TakingBack' <=> Credit' = 1)
  BY DEF Credit

LEMMA RewriteNext ==
  ASSUME NEW r \in Procs, OthersStay(r), NoNewRewrite(r)
  PROVE  TakingBack' => TakingBack
  BY DEF TakingBack, OthersStay, NoNewRewrite, Op, Procs

\* A step of request r that makes nothing worse.
LEMMA HarmlessStep ==
  ASSUME StoreInv, SerialInv, Counts, EnvTypes, NEW r \in Procs, OthersStay(r),
         NoNewRewrite(r), pc[r] # "remove.write", conf'.iface = conf.iface,
         UNCHANGED <<faults, crashes>>, Orphans' \subseteq Orphans
  PROVE  Counts'
  <1>1. Whole' <=> Whole
    BY DEF Whole, OthersStay, NoNewRewrite, Procs
  <1>2. TakingBack' => TakingBack
    BY RewriteNext
  <1>3. Credit' <= Credit /\ Credit \in {0, 1} /\ Credit' \in {0, 1}
    BY <1>2, CreditType, CreditNext
  <1>4. faults \in Nat /\ crashes \in Nat
    BY DEF EnvTypes
  <1>5. DeathsCounted'
    BY <1>1, <1>3, <1>4, NoMoreOrphans DEF Counts, DeathsCounted
  <1>6. WholeUnlessHit'
    BY <1>1 DEF Counts, WholeUnlessHit
  <1> QED BY <1>5, <1>6 DEF Counts

\* Shields of the others stay, those of r go only with the calls that make them.
LEMMA ShieldsNext ==
  ASSUME NEW r \in Procs, OthersStay(r)
  PROVE  /\ \A q \in Reqs : q # r => \A k : Shields(q, k)' <=> Shields(q, k)
         /\ pc[r] \notin {"remove.write", "revoke.dev"} => \A k : ~Shields(r, k)
  BY DEF Shields, OthersStay, Procs

LEMMA CoveredStep ==
  ASSUME NEW r \in Procs, OthersStay(r), pc[r] \notin {"remove.write", "revoke.dev"},
         \A k \in LiveKeys(dev') : k \in LiveKeys(dev) \cup KeysOf(conf.blocks),
         KeysOf(conf.blocks) \subseteq KeysOf(conf'.blocks)
  PROVE  Orphans' \subseteq Orphans
  <1> SUFFICES ASSUME NEW k \in Orphans' PROVE k \in Orphans
    OBVIOUS
  <1>1. k \in LiveKeys(dev') /\ k \notin KeysOf(conf'.blocks) /\ ~\E q \in Reqs : Shields(q, k)'
    BY DEF Orphans
  <1>2. ~\E q \in Reqs : Shields(q, k)
    BY <1>1, ShieldsNext
  <1> QED BY <1>1, <1>2 DEF Orphans

LEMMA AloneStays ==
  ASSUME NEW r \in Procs, Alone(r)
  PROVE  OthersStay(r) /\ Op(r)' = Op(r)
  BY DEF Alone, OthersStay, Op

\* A call that touches neither the file nor the interface.
LEMMA CalmStep ==
  ASSUME StoreInv, SerialInv, Counts, EnvTypes, NEW r \in Procs, OthersStay(r),
         NoNewRewrite(r), pc[r] \notin {"remove.write", "revoke.dev"},
         UNCHANGED <<conf, dev, faults, crashes>>
  PROVE  Counts'
  <1>1. Orphans' \subseteq Orphans
    BY CoveredStep
  <1> QED BY <1>1, HarmlessStep

\* The calls that only read, or write the table, the client files and the log.
Reads(r) ==
  \/ SyncCall(r)    \/ MainList(r)     \/ CreateParse(r) \/ CreateUpsert(r)
  \/ CreateAudit(r) \/ CreateSave(r)   \/ RemoveRead(r)  \/ RevokeParse(r)
  \/ RevokeGet(r)   \/ RevokeDelete(r) \/ RevokeFile(r)  \/ SwitchFind(r)
  \/ SwitchGet(r)   \/ SwitchSet(r)    \/ LimitCall(r)   \/ ConfigCall(r)
  \/ LastAudit(r)

LEMMA ReadersAlone ==
  ASSUME ProcInv, NEW r \in Procs, Reads(r)
  PROVE  /\ Alone(r) /\ NoNewRewrite(r)
         /\ pc[r] \notin {"remove.write", "revoke.dev"}
         /\ UNCHANGED <<conf, dev, issued>>
  <1>1. CASE SyncCall(r) \/ MainList(r) \/ LimitCall(r) \/ ConfigCall(r)
    <2>1. Forgetful(r)
      BY <1>1, SyncForgets, MainListForgets, LimitForgets, ConfigForgets DEF ProcInv
    <2>2. pc[r] \notin {"remove.write", "revoke.dev"} /\ UNCHANGED issued
      BY <1>1 DEF SyncCall, SyncParse, SyncLoad, SyncImport, SyncPrune, MainList,
                  LimitCall, LimitGet, LimitSet, ConfigCall, ConfigGet, ConfigLoad,
                  ConfigUpsert, ConfigSave, ConfigFind, world, fresh
    <2> QED BY <2>1, <2>2 DEF Forgetful, NoNewRewrite, Knowing, RemoveCalls
  <1>2. CASE CreateUpsert(r) \/ CreateSave(r) \/ SwitchSet(r)
    <2>1. Forgetful(r)
      BY <1>2, CreateForgets, SwitchSetForgets DEF ProcInv
    <2>2. pc[r] \notin {"remove.write", "revoke.dev"} /\ UNCHANGED issued
      BY <1>2 DEF CreateUpsert, CreateSave, SwitchSet, fresh
    <2> QED BY <2>1, <2>2 DEF Forgetful, NoNewRewrite, Knowing, RemoveCalls
  <1>3. CASE \/ CreateParse(r) \/ CreateAudit(r) \/ RemoveRead(r) \/ RevokeParse(r)
             \/ RevokeGet(r) \/ RevokeDelete(r) \/ RevokeFile(r) \/ SwitchFind(r)
             \/ SwitchGet(r) \/ LastAudit(r)
    <2>1. UNCHANGED <<conf, dev, issued>>
      BY <1>3 DEF CreateParse, CreateAudit, RemoveRead, RevokeParse, RevokeGet, RevokeDelete,
                  RevokeFile, SwitchFind, SwitchGet, LastAudit, world, fresh
    <2>2. pc[r] \notin {"remove.write", "revoke.dev"}
      BY <1>3 DEF CreateParse, CreateAudit, RemoveRead, RevokeParse, RevokeGet, RevokeDelete,
                  RevokeFile, SwitchFind, SwitchGet, LastAudit
    <2> DEFINE Asks == {"create.append", "create.save", "revoke.get", "revoke.dev",
                        "revoke.delete", "revoke.file", "revoke.audit", "switch.get",
                        "switch.dev"}
    <2>3. \/ \E a : Answer(r, a)
          \/ \E l \in Asks : \E lo : Step(r, l, lo)
          \/ /\ pc[r] \in {"remove.read", "revoke.get"}
             /\ \E l \in {"remove.read", "remove.truncate"} : \E lo : Step(r, l, lo)
      <3>1. CreateParse(r) => (\E a : Answer(r, a)) \/ (\E lo : Step(r, "create.append", lo))
        BY DEF CreateParse
      <3>2. CreateAudit(r) => \E lo : Step(r, "create.save", lo)
        BY DEF CreateAudit, Goto
      <3>3. RemoveRead(r) => pc[r] = "remove.read" /\ \E lo : Step(r, "remove.truncate", lo)
        BY DEF RemoveRead
      <3>4. RevokeParse(r) => \E lo : Step(r, "revoke.get", lo)
        BY DEF RevokeParse, Goto
      <3>5. RevokeGet(r) => \/ \E a : Answer(r, a)
                            \/ \E l \in {"revoke.dev", "revoke.delete"} : \E lo : Step(r, l, lo)
                            \/ pc[r] = "revoke.get" /\ \E lo : Step(r, "remove.read", lo)
        BY DEF RevokeGet, Goto
      <3>6. RevokeDelete(r) => \E lo : Step(r, "revoke.file", lo)
        BY DEF RevokeDelete, Goto
      <3>7. RevokeFile(r) => \E lo : Step(r, "revoke.audit", lo)
        BY DEF RevokeFile, Goto
      <3>8. SwitchFind(r) => (\E a : Answer(r, a)) \/ (\E lo : Step(r, "switch.get", lo))
        BY DEF SwitchFind
      <3>9. SwitchGet(r) => (\E a : Answer(r, a)) \/ (\E lo : Step(r, "switch.dev", lo))
        BY DEF SwitchGet, Goto
      <3>10. LastAudit(r) => \E a : Answer(r, a)
        BY DEF LastAudit
      <3> QED BY <1>3, <3>1, <3>2, <3>3, <3>4, <3>5, <3>6, <3>7, <3>8, <3>9, <3>10
    <2>4. Alone(r) /\ NoNewRewrite(r)
      <3>1. CASE \E a : Answer(r, a)
        BY <3>1, AnswerAlone DEF ProcInv, NoNewRewrite, RemoveCalls
      <3>2. CASE \E l \in Asks : \E lo : Step(r, l, lo)
        BY <3>2, StepAlone DEF ProcInv, NoNewRewrite, RemoveCalls
      <3>3. CASE /\ pc[r] \in {"remove.read", "revoke.get"}
                 /\ \E l \in {"remove.read", "remove.truncate"} : \E lo : Step(r, l, lo)
        <4>1. Alone(r) /\ pc'[r] \in {"remove.read", "remove.truncate"}
          BY <3>3, StepAlone DEF ProcInv
        <4>2. pc[r] = "revoke.get" => Op(r) = "revoke"
          BY DEF ProcInv, Control, Fits, RevokeCalls
        <4> QED BY <3>3, <4>1, <4>2, AloneStays DEF NoNewRewrite, RemoveCalls
      <3> QED BY <2>3, <3>1, <3>2, <3>3
    <2> QED BY <2>1, <2>2, <2>4
  <1> QED BY <1>1, <1>2, <1>3 DEF Reads

LEMMA ReadersCount ==
  ASSUME ProcInv, StoreInv, SerialInv, Counts, EnvTypes, NEW r \in Procs, env' = env, Reads(r)
  PROVE  Counts'
  <1>1. UNCHANGED <<faults, crashes>>
    BY DEF env
  <1> QED BY <1>1, ReadersAlone, AloneStays, CalmStep

LEMMA AppendCounts ==
  ASSUME ProcInv, StoreInv, SerialInv, Counts, EnvTypes, NEW r \in Procs, env' = env,
         CreateAppend(r)
  PROVE  Counts'
  <1>1. pc[r] = "create.append" /\ UNCHANGED <<dev, faults, crashes>>
    BY DEF CreateAppend, env
  <1>2. Alone(r) /\ pc'[r] = "create.dev"
    BY StepAlone DEF CreateAppend, ProcInv
  <1>3. conf'.iface = conf.iface /\ conf.blocks \subseteq conf'.blocks
    BY DEF CreateAppend, AppendPeer, StoreInv, StoreTypes, Config
  <1>4. KeysOf(conf.blocks) \subseteq KeysOf(conf'.blocks)
    BY <1>3 DEF KeysOf
  <1>5. OthersStay(r) /\ NoNewRewrite(r)
    BY <1>2, AloneStays DEF NoNewRewrite, RemoveCalls
  <1>6. Orphans' \subseteq Orphans
    BY <1>1, <1>4, <1>5, CoveredStep
  <1> QED BY <1>1, <1>3, <1>5, <1>6, HarmlessStep

LEMMA AddedKey ==
  ASSUME NEW d, NEW k, NEW i
  PROVE  LiveKeys(DevAdd(d, k, i)) \subseteq LiveKeys(d) \cup {k}
  <1>1. \A p \in d : [p EXCEPT !.ip = IF @ = i THEN NoIP ELSE @].key = p.key
    OBVIOUS
  <1>2. LiveKeys(Unroute(d, i)) \subseteq LiveKeys(d)
    BY <1>1 DEF LiveKeys, Unroute
  <1> QED BY <1>2 DEF LiveKeys, DevAdd

\* CreateDev, SwitchDev and MainApply: a key that is put on the interface has a
\* block.
LEMMA DeviceCounts ==
  ASSUME ProcInv, StoreInv, SerialInv, Counts, EnvTypes, NEW r \in Procs, env' = env,
         CreateDev(r) \/ SwitchDev(r) \/ MainApply(r)
  PROVE  Counts'
  <1>1. UNCHANGED <<conf, faults, crashes>>
    BY DEF CreateDev, SwitchDev, MainApply, env
  <1>2. pc[r] \in {"create.dev", "switch.dev", "main.apply"}
    BY DEF CreateDev, SwitchDev, MainApply
  <1>3. (\E a : Answer(r, a))
        \/ \E l, lo : Step(r, l, lo) /\ l \in {"create.upsert", "switch.set", "main.apply"}
    BY DEF CreateDev, SwitchDev, MainApply, Goto
  <1>4. Alone(r) /\ NoNewRewrite(r)
    BY <1>3, StepAlone, AnswerAlone DEF ProcInv, NoNewRewrite, RemoveCalls
  <1>5. \A k \in LiveKeys(dev') : k \in LiveKeys(dev) \cup KeysOf(conf.blocks)
    <2>1. CASE dev' \subseteq dev
      BY <2>1 DEF LiveKeys
    <2>2. CASE /\ pc[r] \in {"create.dev", "switch.dev"}
               /\ dev' = DevAdd(dev, loc[r].key, loc[r].ip)
      <3>1. WriterKnows(r)
        BY <2>2, KnowingCalls DEF Knowing, SerialInv
      <3>2. CASE pc[r] = "create.dev"
        <4>1. [name |-> Name(r), key |-> loc[r].key, ip |-> loc[r].ip] \in conf.blocks
          BY <3>1, <3>2 DEF WriterKnows, Knows
        <4>2. [name |-> Name(r), key |-> loc[r].key, ip |-> loc[r].ip].key = loc[r].key
          OBVIOUS
        <4>3. loc[r].key \in KeysOf(conf.blocks)
          BY <4>1, <4>2 DEF KeysOf
        <4> QED BY <2>2, <4>3, AddedKey
      <3>3. CASE pc[r] = "switch.dev"
        <4>1. loc[r].key \in KeysOf(conf.blocks)
          BY <3>1, <3>3 DEF WriterKnows, Knows, KeysOf
        <4> QED BY <2>2, <4>1, AddedKey
      <3> QED BY <2>2, <3>2, <3>3
    <2>3. \/ dev' \subseteq dev
          \/ /\ pc[r] \in {"create.dev", "switch.dev"}
             /\ dev' = DevAdd(dev, loc[r].key, loc[r].ip)
      BY RemovedIsLess DEF CreateDev, SwitchDev, MainApply
    <2> QED BY <2>1, <2>2, <2>3
  <1>6. OthersStay(r)
    BY <1>4, AloneStays
  <1>7. Orphans' \subseteq Orphans
    BY <1>1, <1>2, <1>5, <1>6, CoveredStep
  <1> QED BY <1>1, <1>2, <1>4, <1>6, <1>7, HarmlessStep

LEMMA RevokeDevCounts ==
  ASSUME ProcInv, StoreInv, SerialInv, Counts, EnvTypes, NEW r \in Procs, env' = env,
         RevokeDev(r)
  PROVE  Counts'
  <1>1. /\ pc[r] = "revoke.dev" /\ dev' = DevRemove(dev, loc[r].key)
        /\ UNCHANGED <<conf, faults, crashes>>
    BY DEF RevokeDev, env
  <1>2. Alone(r) /\ pc'[r] = "revoke.delete"
    BY StepAlone DEF RevokeDev, Goto, ProcInv
  <1>3. OthersStay(r) /\ NoNewRewrite(r)
    BY <1>2, AloneStays DEF NoNewRewrite, RemoveCalls
  <1>4. ASSUME NEW k \in Orphans' PROVE k \in Orphans
    <2>1. k \in LiveKeys(dev') /\ k \notin KeysOf(conf.blocks) /\ ~\E q \in Reqs : Shields(q, k)'
      BY <1>1 DEF Orphans
    <2>2. k \in LiveKeys(dev) /\ k # loc[r].key
      BY <1>1, <2>1, RemovedIsLess DEF LiveKeys
    <2>3. ~Shields(r, k)
      BY <1>1, <2>2 DEF Shields
    <2>4. ~\E q \in Reqs : Shields(q, k)
      BY <1>3, <2>1, <2>3, ShieldsNext
    <2> QED BY <2>1, <2>2, <2>4 DEF Orphans
  <1> QED BY <1>1, <1>3, <1>4, HarmlessStep

\* While one change is under way no other is in the middle of anything.
LEMMA OnlyOne ==
  ASSUME ProcInv, OneWriter, NEW r \in Procs, pc[r] \in Knowing,
         NEW q \in Reqs, pc[q] \in Knowing
  PROVE  q = r
  BY KnowingCalls DEF OneWriter, Procs

LEMMA TruncateCounts ==
  ASSUME ProcInv, StoreInv, SerialInv, Counts, EnvTypes, NEW r \in Procs, env' = env,
         RemoveTruncate(r)
  PROVE  Counts'
  <1>1. /\ pc[r] = "remove.truncate" /\ conf' = Truncated
        /\ UNCHANGED <<dev, faults, crashes>>
    BY DEF RemoveTruncate, env
  <1>2. Alone(r) /\ pc'[r] = "remove.write" /\ loc'[r] = loc[r]
    BY StepAlone DEF RemoveTruncate, Goto, ProcInv
  <1>3. r \in Reqs /\ WriterKnows(r) /\ OthersStay(r) /\ Op(r)' = Op(r)
    BY <1>1, <1>2, KnowingCalls, AloneStays DEF Knowing, SerialInv
  <1>4. loc[r].view = conf.blocks /\ loc[r].iface = conf.iface
    BY <1>1, <1>3 DEF WriterKnows, Knows
  <1>5. ASSUME NEW q \in Reqs, pc[q] = "remove.write" PROVE FALSE
    BY <1>1, <1>5, OnlyOne DEF Knowing, SerialInv
  <1>6. ~conf'.iface
    BY <1>1 DEF Truncated
  <1>7. Whole <=> conf.iface
    BY <1>5 DEF Whole
  <1>8. Whole' <=> conf.iface
    BY <1>2, <1>3, <1>4, <1>5, <1>6 DEF Whole, OthersStay, Procs
  <1>9. ASSUME NEW k \in Orphans' PROVE k \in Orphans
    <2>1. k \in LiveKeys(dev) /\ ~\E q \in Reqs : Shields(q, k)'
      BY <1>1 DEF Orphans
    <2>2. k \notin KeysOf(conf.blocks)
      BY <1>2, <1>3, <1>4, <2>1 DEF Shields
    <2>3. ~\E q \in Reqs : Shields(q, k)
      BY <1>1, <1>3, <2>1, ShieldsNext
    <2> QED BY <2>1, <2>2, <2>3 DEF Orphans
  <1>10. TakingBack' => TakingBack
    BY <1>1, <1>3 DEF TakingBack, OthersStay, Op, Procs, RemoveCalls
  <1>11. Credit' <= Credit /\ Credit \in {0, 1} /\ Credit' \in {0, 1}
    BY <1>10, CreditType, CreditNext
  <1>12. DeathsCounted'
    <2>1. faults \in Nat /\ crashes \in Nat
      BY DEF EnvTypes
    <2> QED BY <1>1, <1>7, <1>8, <1>9, <1>11, <2>1, NoMoreOrphans DEF Counts, DeathsCounted
  <1>13. WholeUnlessHit'
    BY <1>1, <1>7, <1>8 DEF Counts, WholeUnlessHit
  <1> QED BY <1>12, <1>13 DEF Counts

LEMMA WriteCounts ==
  ASSUME ProcInv, StoreInv, SerialInv, Counts, EnvTypes, NEW r \in Procs, env' = env,
         RemoveWrite(r)
  PROVE  Counts'
  <1> DEFINE left == {b \in loc[r].view : b.name # Name(r)}
  <1>1. /\ pc[r] = "remove.write" /\ AfterRemove(r)
        /\ UNCHANGED <<dev, faults, crashes>>
    BY DEF RemoveWrite, env
  <1>2. conf'.blocks = left /\ conf'.iface = loc[r].iface
    <2>1. conf' = Pending(r)
      BY WriteIsWhole
    <2> QED BY <2>1 DEF Pending, WithoutPeer, Named
  <1>3. r \in Reqs /\ WriterKnows(r) /\ Op(r) \in {"create", "revoke"}
    <2>1. Fits(Op(r), pc[r])
      BY DEF ProcInv, Control
    <2> QED BY <1>1, <2>1, KnowingCalls DEF Knowing, SerialInv, Fits, RemoveCalls
  <1>4. Alone(r) /\ pc'[r] \notin RemoveCalls
        /\ (Op(r) = "revoke" => pc'[r] = "revoke.dev" /\ loc'[r].key = loc[r].key)
    <2>1. CASE Op(r) = "revoke"
      <3> DEFINE lo == [loc[r] EXCEPT !.view = {}, !.iface = FALSE]
      <3>1. Step(r, "revoke.dev", lo) /\ lo.key = loc[r].key
        BY <1>1, <2>1, HasHeld DEF AfterRemove, Locals
      <3> HIDE DEF lo
      <3>2. Alone(r) /\ pc'[r] = "revoke.dev" /\ loc'[r] = lo
        BY <3>1, StepAlone DEF ProcInv
      <3> QED BY <3>1, <3>2 DEF RemoveCalls
    <2>2. CASE Op(r) # "revoke"
      BY <1>1, <2>2, AnswerAlone DEF AfterRemove, ProcInv, RemoveCalls
    <2> QED BY <2>1, <2>2
  <1>5. OthersStay(r) /\ Op(r)' = Op(r)
    BY <1>4, AloneStays
  <1>6. ASSUME NEW q \in Reqs, pc[q] \in RemoveCalls PROVE q = r
    BY <1>1, <1>6, OnlyOne DEF Knowing, SerialInv, RemoveCalls
  <1>7. \A q \in Reqs : pc'[q] \notin RemoveCalls
    BY <1>4, <1>5, <1>6 DEF OthersStay, Procs
  <1>8. conf = Truncated
    BY <1>1, <1>3 DEF WriterKnows, Knows
  <1>9. Whole <=> loc[r].iface
    BY <1>1, <1>3, <1>6, <1>8 DEF Whole, Truncated, RemoveCalls
  <1>10. Whole' <=> loc[r].iface
    BY <1>2, <1>7 DEF Whole, RemoveCalls
  <1>11. ~TakingBack'
    BY <1>7 DEF TakingBack
  <1>12. Credit' = 0 /\ Credit \in {0, 1} /\ (Op(r) = "create" => Credit = 1)
    <2>1. Op(r) = "create" => TakingBack
      BY <1>1, <1>3 DEF TakingBack, RemoveCalls
    <2> QED BY <1>11, <2>1, CreditType, CreditNext
  <1>13. ASSUME NEW k \in Orphans', k \notin Orphans
         PROVE  \E b \in loc[r].view : b.name = Name(r) /\ b.key = k
                                       /\ ~(pc'[r] = "revoke.dev" /\ k = loc'[r].key)
    <2>1. k \in LiveKeys(dev) /\ k \notin KeysOf(left) /\ ~\E q \in Reqs : Shields(q, k)'
      BY <1>1, <1>2 DEF Orphans
    <2>2. k \notin KeysOf(conf.blocks)
      BY <1>8 DEF Truncated, KeysOf
    <2>3. \E q \in Reqs : Shields(q, k)
      BY <1>13, <2>1, <2>2 DEF Orphans
    <2>4. Shields(r, k)
      BY <1>5, <2>1, <2>3, ShieldsNext
    <2>5. k \in KeysOf(loc[r].view)
      BY <1>1, <2>4 DEF Shields
    <2>6. \E b \in loc[r].view : b.name = Name(r) /\ b.key = k
      BY <2>1, <2>5 DEF KeysOf
    <2>7. ~(pc'[r] = "revoke.dev" /\ k = loc'[r].key)
      BY <1>3, <2>1 DEF Shields
    <2> QED BY <2>6, <2>7
  <1>14. DeathsCounted'
    <2>1. faults \in Nat /\ crashes \in Nat
      BY DEF EnvTypes
    <2>2. CASE Orphans' \subseteq Orphans
      BY <1>1, <1>9, <1>10, <1>12, <2>1, <2>2, NoMoreOrphans DEF Counts, DeathsCounted
    <2>3. CASE ~(Orphans' \subseteq Orphans)
      <3>1. PICK k \in Orphans' : k \notin Orphans
        BY <2>3
      <3>2. PICK b \in loc[r].view : b.name = Name(r) /\ b.key = k
                                     /\ ~(pc'[r] = "revoke.dev" /\ k = loc'[r].key)
        BY <1>13, <3>1
      <3>3. Op(r) = "create"
        <4>1. Op(r) = "revoke" => b.key = loc[r].key
          BY <1>1, <1>3, <3>2 DEF WriterKnows, Knows
        <4> QED BY <1>3, <1>4, <3>2, <4>1
      <3>4. \A c \in loc[r].view : c.name = Name(r) => c = b
        BY <1>1, <1>3, <3>2 DEF WriterKnows, Knows, Sound, Distinct
      <3>5. Orphans' \subseteq Orphans \cup {k}
        BY <1>13, <3>2, <3>4
      <3> QED BY <1>1, <1>9, <1>10, <1>12, <2>1, <3>3, <3>5, OneMoreOrphan DEF Counts, DeathsCounted
    <2> QED BY <2>2, <2>3
  <1>15. WholeUnlessHit'
    BY <1>1, <1>9, <1>10 DEF Counts, WholeUnlessHit
  <1> QED BY <1>14, <1>15 DEF Counts

LEMMA ArrivalCounts ==
  ASSUME SerialWrites, ProcInv, StoreInv, SerialInv, Counts, EnvTypes, NEW r \in Procs, Arrive(r)
  PROVE  Counts'
  <1>1. UNCHANGED <<conf, dev, faults, crashes>> /\ pc[r] = "idle"
    BY DEF Arrive, world, env
  <1>2. OthersStay(r) /\ pc'[r] \notin Knowing
    BY ArriveKeepsOneWriter DEF SerialInv, OthersStay
  <1>3. NoNewRewrite(r)
    BY <1>2 DEF NoNewRewrite, Knowing, RemoveCalls
  <1> QED BY <1>1, <1>2, <1>3, CalmStep

LEMMA BounceCounts ==
  ASSUME ProcInv, StoreInv, SerialInv, Counts, EnvTypes, QuickRestart
  PROVE  Counts'
  <1>1. conf.iface /\ dev' = QuickUp(conf.blocks)
        /\ UNCHANGED <<conf, pc, req, loc, faults, crashes>>
    BY DEF QuickRestart, procs
  <1>2. LiveKeys(dev') = KeysOf(conf.blocks)
    BY <1>1, QuickUpSound DEF SerialInv, Sound, StoreInv, StoreTypes, Config
  <1>3. Orphans' \subseteq Orphans
    BY <1>1, <1>2 DEF Orphans
  <1>4. Whole /\ Whole'
    BY <1>1 DEF Whole
  <1>5. Credit' = Credit /\ Credit \in {0, 1}
    BY <1>1, CreditType DEF Credit, TakingBack, Op
  <1>6. faults \in Nat /\ crashes \in Nat
    BY DEF EnvTypes
  <1>7. DeathsCounted'
    BY <1>1, <1>3, <1>4, <1>5, <1>6, NoMoreOrphans DEF Counts, DeathsCounted
  <1> QED BY <1>1, <1>4, <1>7 DEF Counts, WholeUnlessHit

\* A crash, or a call that fails, is one more; it leaves at most one key behind.
LEMMA HitCounts ==
  ASSUME StoreInv, SerialInv, Counts, EnvTypes,
         faults' + crashes' = faults + crashes + 1,
         Whole' => Whole,
         \/ Orphans' \subseteq Orphans
         \/ Credit' <= Credit /\ \E k : Orphans' \subseteq Orphans \cup {k}
         \/ ~Whole'
  PROVE  Counts'
  <1>1. faults \in Nat /\ crashes \in Nat
    BY DEF EnvTypes
  <1>2. Credit \in {0, 1} /\ Credit' \in {0, 1}
    BY CreditType, CreditNext
  <1>3. WholeUnlessHit'
    BY <1>1 DEF WholeUnlessHit
  <1>4. CASE Orphans' \subseteq Orphans
    <2>1. DeathsCounted'
      BY <1>1, <1>2, <1>4, NoMoreOrphans DEF Counts, DeathsCounted
    <2> QED BY <1>3, <2>1 DEF Counts
  <1>5. CASE Credit' <= Credit /\ \E k : Orphans' \subseteq Orphans \cup {k}
    <2>1. PICK k : Orphans' \subseteq Orphans \cup {k}
      BY <1>5
    <2>2. /\ Cardinality(Orphans)' \in Nat /\ Cardinality(Orphans) \in Nat
          /\ Cardinality(Orphans)' <= Cardinality(Orphans) + 1
      BY <2>1, OneMoreOrphan
    <2>3. DeathsCounted'
      BY <1>1, <1>2, <1>5, <2>2 DEF Counts, DeathsCounted
    <2> QED BY <1>3, <2>3 DEF Counts
  <1>6. CASE ~Whole'
    BY <1>3, <1>6 DEF Counts, DeathsCounted
  <1> QED BY <1>4, <1>5, <1>6

\* Request r leaves the rewrite, if it was in one, without writing.
LEMMA WholeBefore ==
  ASSUME NEW r \in Procs, OthersStay(r), pc'[r] # "remove.write", conf' = conf, Whole'
  PROVE  Whole
  BY DEF Whole, OthersStay, Procs

LEMMA FailureCounts ==
  ASSUME ProcInv, StoreInv, SerialInv, Counts, EnvTypes, NEW r \in Procs, CallFails(r)
  PROVE  Counts'
  <1>1. UNCHANGED <<conf, dev>> /\ faults' + crashes' = faults + crashes + 1
    BY DEF CallFails, world, EnvTypes
  <1>2. CASE pc[r] = "create.dev" /\ Goto(r, "remove.read")
    <2>1. OthersStay(r) /\ pc'[r] = "remove.read"
      BY <1>2, StepAlone, AloneStays DEF Goto, ProcInv
    <2>2. Whole' => Whole
      BY <1>1, <2>1, WholeBefore
    <2>3. Orphans' \subseteq Orphans
      BY <1>1, <1>2, <2>1, CoveredStep
    <2> QED BY <1>1, <2>2, <2>3, HitCounts
  <1>3. CASE (pc[r] \in Shrugged /\ ShrugOff(r)) \/ Abort(r)
    <2> DEFINE Onward == {"sync.import", "create.save", "revoke.audit", "config.find",
                         "config.save"}
    <2>1. Abort(r) \/ (\E a : Answer(r, a)) \/ \E l \in Onward : \E lo : Step(r, l, lo)
      BY <1>3 DEF ShrugOff, Goto
    <2>2. OthersStay(r) /\ Op(r)' = Op(r) /\ pc'[r] \notin RemoveCalls
      BY <2>1, StepAlone, AnswerAlone, AbortAlone, AloneStays DEF ProcInv, RemoveCalls
    <2>3. Whole' => Whole
      BY <1>1, <2>2, WholeBefore DEF RemoveCalls
    <2>4. CASE pc[r] \notin {"remove.write", "revoke.dev"}
      <3>1. Orphans' \subseteq Orphans
        BY <1>1, <2>2, <2>4, CoveredStep
      <3> QED BY <1>1, <2>3, <3>1, HitCounts
    <2>5. CASE pc[r] = "revoke.dev"
      <3>1. ASSUME NEW k \in Orphans', k # loc[r].key PROVE k \in Orphans
        <4>1. k \in LiveKeys(dev) /\ k \notin KeysOf(conf.blocks) /\ ~\E q \in Reqs : Shields(q, k)'
          BY <1>1 DEF Orphans
        <4>2. ~Shields(r, k)
          BY <2>5, <3>1 DEF Shields
        <4>3. ~\E q \in Reqs : Shields(q, k)
          BY <2>2, <4>1, <4>2, ShieldsNext
        <4> QED BY <4>1, <4>3 DEF Orphans
      <3>2. Orphans' \subseteq Orphans \cup {loc[r].key}
        BY <3>1
      <3>3. TakingBack' => TakingBack
        BY <2>2, RewriteNext DEF NoNewRewrite, RemoveCalls
      <3>4. Credit' <= Credit
        BY <3>3, CreditType, CreditNext
      <3> QED BY <1>1, <2>3, <3>2, <3>4, HitCounts
    <2>6. CASE pc[r] = "remove.write"
      <3>1. r \in Reqs /\ WriterKnows(r)
        BY <2>6, KnowingCalls DEF Knowing, SerialInv
      <3>2. ~conf.iface
        BY <2>6, <3>1 DEF WriterKnows, Knows, Truncated
      <3>3. ASSUME NEW q \in Reqs PROVE pc'[q] # "remove.write"
        <4>1. pc[q] = "remove.write" => q = r
          BY <2>6, OnlyOne DEF Knowing, SerialInv
        <4> QED BY <2>2, <4>1 DEF OthersStay, Procs, RemoveCalls
      <3>4. ~Whole'
        BY <1>1, <3>2, <3>3 DEF Whole
      <3> QED BY <1>1, <2>3, <3>4, HitCounts
    <2> QED BY <2>4, <2>5, <2>6
  <1> QED BY <1>2, <1>3 DEF CallFails

LEMMA DeathCounts ==
  ASSUME ProcInv, StoreInv, SerialInv, Counts, EnvTypes, Crash
  PROVE  Counts'
  <1>1. UNCHANGED <<conf, dev>> /\ faults' + crashes' = faults + crashes + 1
    BY DEF Crash, world, EnvTypes
  <1>2. \A q \in Reqs : pc'[q] \in {"idle", "done"}
    BY ServiceAssumption DEF Crash, Procs, InFlight
  <1>3. Whole' <=> conf.iface
    BY <1>1, <1>2 DEF Whole
  <1>4. Whole' => Whole
    BY <1>3 DEF Whole
  <1>5. CASE conf.iface
    <2>1. ~TakingBack'
      BY <1>2 DEF TakingBack, RemoveCalls
    <2>2. Credit' <= Credit
      BY <2>1, CreditType, CreditNext
    <2>3. ASSUME NEW q \in Reqs, pc[q] = "remove.write" PROVE FALSE
      <3>1. WriterKnows(q)
        BY <2>3 DEF SerialInv
      <3>2. conf = Truncated
        BY <2>3, <3>1 DEF WriterKnows, Knows
      <3> QED BY <1>5, <3>2 DEF Truncated
    <2>4. \E k : Orphans' \subseteq Orphans \cup {k}
      <3>1. CASE \E q \in Reqs : pc[q] = "revoke.dev"
        <4>1. PICK q \in Reqs : pc[q] = "revoke.dev"
          BY <3>1
        <4>2. \A p \in Reqs : pc[p] = "revoke.dev" => p = q
          BY <4>1, OnlyOne DEF Knowing, SerialInv, Procs
        <4>3. \A k : k # loc[q].key => ~\E p \in Reqs : Shields(p, k)
          BY <2>3, <4>2 DEF Shields
        <4>4. Orphans' \subseteq Orphans \cup {loc[q].key}
          BY <1>1, <4>3 DEF Orphans
        <4> QED BY <4>4
      <3>2. CASE ~\E q \in Reqs : pc[q] = "revoke.dev"
        <4>1. \A k : ~\E p \in Reqs : Shields(p, k)
          BY <2>3, <3>2 DEF Shields
        <4>2. Orphans' \subseteq Orphans \cup {NoKey}
          BY <1>1, <4>1 DEF Orphans
        <4> QED BY <4>2
      <3> QED BY <3>1, <3>2
    <2> QED BY <1>1, <1>4, <2>2, <2>4, HitCounts
  <1>6. CASE ~conf.iface
    BY <1>1, <1>3, <1>4, <1>6, HitCounts
  <1> QED BY <1>5, <1>6

LEMMA CountsNext ==
  ASSUME SerialWrites, IInv, SerialInv, Counts, [Next]_vars
  PROVE  Counts'
  <1>1. ProcInv /\ StoreInv /\ EnvTypes
    BY Parts
  <1>2. ASSUME NEW r \in Procs, Call(r) PROVE Counts'
    <2>1. env' = env
      BY <1>2, CallLeavesEnv
    <2> QED BY <1>1, <1>2, <2>1, ReadersCount, AppendCounts, DeviceCounts, RevokeDevCounts,
               TruncateCounts, WriteCounts
            DEF Call, MainCall, CreateCall, RemoveCall, RevokeCall, SwitchCall, Reads
  <1>3. ASSUME NEW r \in Procs, Arrive(r) \/ CallFails(r) PROVE Counts'
    BY <1>1, <1>3, ArrivalCounts, FailureCounts
  <1>4. Crash \/ QuickRestart => Counts'
    BY <1>1, DeathCounts, BounceCounts
  <1>5. ASSUME UNCHANGED vars PROVE Counts'
    <2>1. /\ (Whole' <=> Whole) /\ Orphans' = Orphans /\ (TakingBack' <=> TakingBack)
          /\ UNCHANGED <<faults, crashes>>
      BY <1>5 DEF vars, Whole, Orphans, Shields, TakingBack, Op
    <2>2. Credit' = Credit
      BY <2>1 DEF Credit
    <2> QED BY <2>1, <2>2 DEF Counts, DeathsCounted, WholeUnlessHit
  <1> QED BY <1>2, <1>3, <1>4, <1>5 DEF Next, Rest

LEMMA CountsInit == Init => Counts
  <1> SUFFICES ASSUME Init PROVE Counts
    OBVIOUS
  <1>1. conf.iface /\ faults = 0 /\ crashes = 0
    BY DEF Init
  <1>2. \A q \in Reqs : pc[q] = "idle"
    BY ServiceAssumption DEF Init, Procs
  <1>3. Sound(conf.blocks, dev, audit) /\ conf.blocks \in SUBSET Block
    BY SerialInit, InitInv, Parts DEF SerialInv, StoreInv, StoreTypes, Config
  <1>4. \E some \in SUBSET conf.blocks : dev = QuickUp(some)
    BY DEF Init
  <1>5. LiveKeys(dev) \subseteq KeysOf(conf.blocks)
    <2>1. PICK some \in SUBSET conf.blocks : dev = QuickUp(some)
      BY <1>4
    <2>2. LiveKeys(dev) = KeysOf(some)
      BY <1>3, <2>1, QuickUpSound DEF Sound
    <2> QED BY <2>1, <2>2 DEF KeysOf
  <1>6. Orphans = {}
    BY <1>5 DEF Orphans
  <1>7. Cardinality(Orphans) = 0
    BY <1>6, FS_EmptySet
  <1>8. Credit = 0
    BY <1>2 DEF Credit, TakingBack, RemoveCalls
  <1> QED BY <1>1, <1>7, <1>8 DEF Counts, DeathsCounted, WholeUnlessHit, Whole

InBounds == faults <= MaxFaults /\ crashes <= MaxCrashes

LEMMA BoundsKept ==
  ASSUME IInv, InBounds, [Next]_vars
  PROVE  InBounds'
  <1>1. EnvTypes
    BY Parts
  <1>2. ASSUME NEW r \in Procs, Arrive(r) \/ Call(r) PROVE UNCHANGED env
    BY <1>2, CallLeavesEnv DEF Arrive
  <1>3. ASSUME NEW r \in Procs, CallFails(r) PROVE InBounds'
    BY <1>1, <1>3, ServiceAssumption DEF CallFails, InBounds, EnvTypes
  <1>4. Crash \/ QuickRestart => InBounds'
    BY <1>1, ServiceAssumption DEF Crash, QuickRestart, InBounds, EnvTypes
  <1>5. Rest \/ UNCHANGED vars => InBounds'
    BY DEF Rest, vars, InBounds
  <1> QED BY <1>2, <1>3, <1>4, <1>5 DEF Next, env, InBounds

-----------------------------------------------------------------------------
(* The theorems.                                                             *)

\* With changes that wait for one another the invariant holds for any clients,
\* requests and dashboards, and any number of failures, crashes and restarts.
THEOREM SerialInductive ==
  ASSUME SerialWrites
  PROVE  Spec => [](IInv /\ SerialInv)
  <1>1. Init => IInv /\ SerialInv
    BY InitInv, SerialInit
  <1>2. IInv /\ SerialInv /\ [Next]_vars => (IInv /\ SerialInv)'
    BY NextKeeps, SerialNext
  <1> QED BY <1>1, <1>2, PTL DEF Spec

\* AppendPeer and RemovePeer never leave two blocks with a name, an address or a
\* key in common, whatever lists import meanwhile and wherever calls fail or the
\* process dies.
THEOREM BlocksStayDistinct ==
  ASSUME SerialWrites
  PROVE  Spec => []BlocksDistinct
  <1>1. IInv /\ SerialInv => BlocksDistinct
    BY DEF SerialInv, Sound, Distinct, BlocksDistinct
  <1> QED BY <1>1, SerialInductive, PTL

\* A client on the interface has the address of its block: Create and Start give
\* it no other client's, and never take it away.
THEOREM RoutesStayHeld ==
  ASSUME SerialWrites
  PROVE  Spec => []RoutesHeld
  <1>1. IInv /\ SerialInv => RoutesHeld
    BY DEF SerialInv, Sound, Routed, RoutesHeld
  <1> QED BY <1>1, SerialInductive, PTL

\* Once Revoke has written its line in the audit log, nothing brings the key back:
\* no Start that looked the client up before, no rewrite of the file, no restart of
\* the interface or of the program.
THEOREM RevocationIsFinal ==
  ASSUME SerialWrites
  PROVE  Spec => []RevocationFinal
  <1>1. ASSUME SerialInv PROVE RevocationFinal
    <2> SUFFICES ASSUME NEW e \in audit, e.op = "revoke", e.key # NoKey,
                        e.key \in LiveKeys(dev) \cup KeysOf(conf.blocks)
                 PROVE  FALSE
      BY DEF RevocationFinal
    <2>1. Revoked(audit, e.key)
      BY DEF Revoked
    <2>2. CASE e.key \in LiveKeys(dev)
      BY <1>1, <2>1, <2>2 DEF LiveKeys, SerialInv, KeysPast
    <2>3. CASE e.key \in KeysOf(conf.blocks)
      BY <1>1, <2>1, <2>3 DEF KeysOf, SerialInv, Sound
    <2> QED BY <2>2, <2>3
  <1>2. IInv /\ SerialInv => RevocationFinal
    BY <1>1
  <1> QED BY <1>2, SerialInductive, PTL

\* Each failed call and each crash leaves at most one key behind, and loses the
\* [Interface] section at most.
THEOREM CountsInductive ==
  ASSUME SerialWrites
  PROVE  Spec => [](IInv /\ SerialInv /\ Counts /\ InBounds)
  <1>1. Init => IInv /\ SerialInv /\ Counts /\ InBounds
    <2>1. Init => InBounds
      BY ServiceAssumption DEF Init, InBounds
    <2> QED BY <2>1, InitInv, SerialInit, CountsInit
  <1>2. /\ IInv /\ SerialInv /\ Counts /\ InBounds /\ [Next]_vars
        => (IInv /\ SerialInv /\ Counts /\ InBounds)'
    BY NextKeeps, SerialNext, CountsNext, BoundsKept
  <1> QED BY <1>1, <1>2, PTL DEF Spec

\* Revoke, and the undo of a Create the device refused, take a key off the
\* interface or leave its block: while the file is whole, the keys that still
\* connect without a block are no more than the calls that failed and the deaths
\* of the process, whatever restarts of the interface come between.
THEOREM RevokedStayDead ==
  ASSUME SerialWrites
  PROVE  Spec => []RevokedIsDead
  <1>1. IInv /\ SerialInv /\ Counts => RevokedIsDead
    <2> SUFFICES ASSUME IInv, SerialInv, Counts, Quiet, conf.iface
                 PROVE  Cardinality(LiveKeys(dev) \ KeysOf(conf.blocks)) <= faults + crashes
      BY DEF RevokedIsDead
    <2>1. StoreInv /\ EnvTypes /\ ProcInv
      BY Parts
    <2>2. \A q \in Reqs : pc[q] \notin Knowing
      BY <2>1, KnowingCalls DEF Quiet, Procs
    <2>3. Orphans = LiveKeys(dev) \ KeysOf(conf.blocks)
      BY <2>2 DEF Orphans, Shields, Knowing
    <2>4. Cardinality(Orphans) + Credit <= faults + crashes
      BY DEF Counts, DeathsCounted, Whole
    <2>5. Cardinality(Orphans) \in Nat /\ Credit \in {0, 1} /\ faults \in Nat /\ crashes \in Nat
      BY <2>1, OrphansFinite, CreditType DEF EnvTypes
    <2>6. Cardinality(Orphans) <= faults + crashes
      BY <2>4, <2>5
    <2> QED BY <2>3, <2>6
  <1> QED BY <1>1, CountsInductive, PTL

\* The rewrite of RemovePeer puts the [Interface] section back: as long as no call
\* fails and the process does not die, it is missing only while the rewrite is
\* under way.
THEOREM InterfaceStays ==
  ASSUME SerialWrites, MaxFaults = 0, MaxCrashes = 0
  PROVE  Spec => []InterfaceKept
  <1>1. IInv /\ Counts /\ InBounds => InterfaceKept
    <2> SUFFICES ASSUME IInv, Counts, InBounds PROVE InterfaceKept
      OBVIOUS
    <2>1. faults \in Nat /\ crashes \in Nat
      BY Parts DEF EnvTypes
    <2>2. faults + crashes = 0
      BY <2>1 DEF InBounds
    <2> QED BY <2>2 DEF Counts, WholeUnlessHit, Whole, InterfaceKept, Procs
  <1> QED BY <1>1, CountsInductive, PTL
=============================================================================
