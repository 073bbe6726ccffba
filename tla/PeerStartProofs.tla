--------------------------- MODULE PeerStartProofs ----------------------------
(***************************************************************************)
(* Proofs about the settings of clients, for any failures, crashes and     *)
(* restarts.  For requests that overlap in any way: who may change a limit *)
(* or switch a client, and that the startup shuts out the stopped ones.    *)
(* For changes that wait for one another: that stopped clients stay off    *)
(* the interface.                                                          *)
(***************************************************************************)
EXTENDS PeerSerialProofs

\* Calls a handler makes with a key that the interface is to get.
Keyed == {"create.dev", "switch.get", "switch.dev"}

\* No peer of the interface has the empty key of a row without a block.
RealKeys ==
  /\ \A p \in dev : p.key # NoKey
  /\ \A r \in Procs : pc[r] \in Keyed => loc[r].key # NoKey

\* Requests are served when the startup sequence is over.
MainAlone == pc[Main] = "done" \/ (~up /\ \A r \in Reqs : ~InFlight(r))

\* Who is stopped and connects is still to be taken off.
StoppedListed ==
  pc[Main] = "main.apply" /\ quickUps = 0 =>
    \A n \in Present(peers) :
      ~peers[n].enabled /\ peers[n].key \in LiveKeys(dev) => peers[n].key \in loc[Main].todo

StartInv == RealKeys /\ MainAlone /\ StoppedListed

-----------------------------------------------------------------------------
(* The keys.                                                                 *)

LEMMA RealStep ==
  ASSUME RealKeys, NEW r \in Procs, Alone(r),
         \A p \in dev' : p.key # NoKey,
         pc'[r] \in Keyed => loc'[r].key # NoKey
  PROVE  RealKeys'
  BY DEF RealKeys, Alone

\* A call that leads to none of those, and leaves the interface alone.
LEMMA PlainReal ==
  ASSUME ProcTypes, RealKeys, NEW r \in Procs, dev' \subseteq dev,
         \/ \E l : l \notin Keyed /\ \E lo : Step(r, l, lo)
         \/ \E a : Answer(r, a)
         \/ Abort(r)
  PROVE  RealKeys'
  <1>1. Alone(r) /\ pc'[r] \notin Keyed
    <2>1. CASE \E l : l \notin Keyed /\ \E lo : Step(r, l, lo)
      BY <2>1, StepAlone
    <2>2. CASE \E a : Answer(r, a)
      BY <2>2, AnswerAlone DEF Keyed
    <2>3. CASE Abort(r)
      BY <2>3, AbortAlone DEF Keyed
    <2> QED BY <2>1, <2>2, <2>3
  <1>2. \A p \in dev' : p.key # NoKey
    BY DEF RealKeys
  <1> QED BY <1>1, <1>2, RealStep

LEMMA ForgetfulReal ==
  ASSUME RealKeys, NEW r \in Procs, Forgetful(r)
  PROVE  RealKeys'
  BY RealStep DEF Forgetful, Keyed, Knowing, RealKeys

\* Every key in the file is a real one.
LEMMA BlockIsReal ==
  ASSUME StoreInv, NEW b \in conf.blocks
  PROVE  b.key # NoKey
  <1>1. b \in Block
    BY DEF StoreInv, StoreTypes, Config
  <1> QED BY <1>1 DEF Block, NoKey

LEMMA AddReal ==
  ASSUME RealKeys, NEW k, k # NoKey, NEW i
  PROVE  \A p \in DevAdd(dev, k, i) : p.key # NoKey
  <1>1. LiveKeys(DevAdd(dev, k, i)) \subseteq LiveKeys(dev) \cup {k}
    BY AddedKey
  <1>2. \A p \in DevAdd(dev, k, i) : p.key \in LiveKeys(DevAdd(dev, k, i))
    BY DEF LiveKeys
  <1> QED BY <1>1, <1>2 DEF LiveKeys, RealKeys

LEMMA CreateReal ==
  ASSUME ProcInv, StoreInv, RealKeys, NEW r \in Procs, CreateCall(r)
  PROVE  RealKeys'
  <1>1. CASE CreateParse(r)
    <2>1. dev' = dev /\ ((\E a : Answer(r, a)) \/ \E lo : Step(r, "create.append", lo))
      BY <1>1 DEF CreateParse, world
    <2> QED BY <2>1, PlainReal DEF Keyed, ProcInv
  <1>2. CASE CreateAppend(r)
    <2> DEFINE lo == [loc[r] EXCEPT !.key = nextKey]
    <2>1. dev' = dev /\ Step(r, "create.dev", lo)
      BY <1>2 DEF CreateAppend
    <2>2. lo.key = nextKey /\ nextKey # NoKey
      BY HasHeld DEF Locals, StoreInv, StoreTypes, NoKey
    <2> HIDE DEF lo
    <2>3. Alone(r) /\ loc'[r] = lo
      BY <2>1, StepAlone DEF ProcInv
    <2> QED BY <2>1, <2>2, <2>3, RealStep DEF RealKeys
  <1>3. CASE CreateDev(r)
    <2>1. pc[r] = "create.dev" /\ Step(r, "create.upsert", loc[r])
          /\ dev' = DevAdd(dev, loc[r].key, loc[r].ip)
      BY <1>3 DEF CreateDev, Goto
    <2>2. \A p \in dev' : p.key # NoKey
      BY <2>1, AddReal DEF RealKeys, Keyed
    <2>3. Alone(r) /\ pc'[r] = "create.upsert"
      BY <2>1, StepAlone DEF ProcInv
    <2> QED BY <2>2, <2>3, RealStep DEF Keyed
  <1>4. CASE CreateUpsert(r) \/ CreateAudit(r) \/ CreateSave(r)
    <2>1. /\ dev' = dev
          /\ \/ \E a : Answer(r, a)
             \/ \E lo : Step(r, "create.audit", lo)
             \/ \E lo : Step(r, "create.save", lo)
      BY <1>4 DEF CreateUpsert, CreateAudit, CreateSave, Goto
    <2> QED BY <2>1, PlainReal DEF Keyed, ProcInv
  <1> QED BY <1>1, <1>2, <1>3, <1>4 DEF CreateCall

LEMMA RemoveReal ==
  ASSUME ProcInv, RealKeys, NEW r \in Procs, RemoveCall(r)
  PROVE  RealKeys'
  <1>1. /\ dev' = dev
        /\ \/ \E a : Answer(r, a)
           \/ \E lo : Step(r, "remove.truncate", lo)
           \/ \E lo : Step(r, "remove.write", lo)
           \/ \E lo : Step(r, "revoke.dev", lo)
    BY DEF RemoveCall, RemoveRead, RemoveTruncate, RemoveWrite, AfterRemove, Goto, world
  <1> QED BY <1>1, PlainReal DEF Keyed, ProcInv

LEMMA RevokeReal ==
  ASSUME ProcInv, RealKeys, NEW r \in Procs, RevokeCall(r)
  PROVE  RealKeys'
  <1> DEFINE Onward == {"revoke.get", "remove.read", "revoke.dev", "revoke.delete",
                        "revoke.file", "revoke.audit"}
  <1>1. dev' \subseteq dev
    BY RemovedIsLess DEF RevokeCall, RevokeParse, RevokeGet, RevokeDev, RevokeDelete,
                         RevokeFile, world
  <1>2. (\E a : Answer(r, a)) \/ \E l \in Onward : \E lo : Step(r, l, lo)
    BY DEF RevokeCall, RevokeParse, RevokeGet, RevokeDev, RevokeDelete, RevokeFile, Goto
  <1> QED BY <1>1, <1>2, PlainReal DEF Keyed, ProcInv

LEMMA SwitchReal ==
  ASSUME ProcInv, StoreInv, RealKeys, NEW r \in Procs, SwitchCall(r)
  PROVE  RealKeys'
  <1>1. CASE SwitchFind(r)
    <2>1. CASE \E a : Answer(r, a)
      BY <1>1, <2>1, PlainReal DEF SwitchFind, world, ProcInv
    <2>2. CASE \E b \in Named(conf.blocks, Name(r)) :
                 Step(r, "switch.get", [loc[r] EXCEPT !.key = b.key, !.ip = b.ip])
      <3>1. PICK b \in conf.blocks :
              Step(r, "switch.get", [loc[r] EXCEPT !.key = b.key, !.ip = b.ip])
        BY <2>2 DEF Named
      <3> DEFINE lo == [loc[r] EXCEPT !.key = b.key, !.ip = b.ip]
      <3>2. lo.key = b.key /\ b.key # NoKey
        BY HasHeld, BlockIsReal DEF Locals
      <3> HIDE DEF lo
      <3>3. Alone(r) /\ loc'[r] = lo
        BY <3>1, StepAlone DEF ProcInv, lo
      <3>4. dev' = dev
        BY <1>1 DEF SwitchFind, world
      <3> QED BY <3>2, <3>3, <3>4, RealStep DEF RealKeys
    <2> QED BY <1>1, <2>1, <2>2 DEF SwitchFind
  <1>2. CASE SwitchGet(r)
    <2>1. CASE \E a : Answer(r, a)
      BY <1>2, <2>1, PlainReal DEF SwitchGet, world, ProcInv
    <2>2. CASE Step(r, "switch.dev", loc[r])
      <3>1. Alone(r) /\ loc'[r] = loc[r]
        BY <2>2, StepAlone DEF ProcInv
      <3>2. pc[r] \in Keyed /\ dev' = dev
        BY <1>2 DEF SwitchGet, world, Keyed
      <3> QED BY <3>1, <3>2, RealStep DEF RealKeys
    <2> QED BY <1>2, <2>1, <2>2 DEF SwitchGet, Goto
  <1>3. CASE SwitchDev(r)
    <2>1. pc[r] = "switch.dev" /\ Step(r, "switch.set", loc[r])
          /\ dev' \in {DevRemove(dev, loc[r].key), DevAdd(dev, loc[r].key, loc[r].ip)}
      BY <1>3 DEF SwitchDev, Goto
    <2>2. \A p \in dev' : p.key # NoKey
      BY <2>1, AddReal, RemovedIsLess DEF RealKeys, Keyed
    <2>3. Alone(r) /\ pc'[r] = "switch.set"
      BY <2>1, StepAlone DEF ProcInv
    <2> QED BY <2>2, <2>3, RealStep DEF Keyed
  <1>4. CASE SwitchSet(r)
    BY <1>4, SwitchSetForgets, ForgetfulReal DEF ProcInv
  <1> QED BY <1>1, <1>2, <1>3, <1>4 DEF SwitchCall

LEMMA RealNext ==
  ASSUME ProcInv, StoreInv, RealKeys, [Next]_vars
  PROVE  RealKeys'
  <1>1. ASSUME NEW r \in Procs, Call(r) PROVE RealKeys'
    <2>1. CASE SyncCall(r) \/ MainList(r) \/ LimitCall(r) \/ ConfigCall(r)
      BY <2>1, SyncForgets, MainListForgets, LimitForgets, ConfigForgets, ForgetfulReal
         DEF ProcInv
    <2>2. CASE MainApply(r)
      <3>1. dev' \subseteq dev /\ ((\E a : Answer(r, a)) \/ \E lo : Step(r, "main.apply", lo))
        BY <2>2, RemovedIsLess DEF MainApply
      <3> QED BY <3>1, PlainReal DEF Keyed, ProcInv
    <2>3. CASE LastAudit(r)
      BY <2>3, PlainReal DEF LastAudit, ProcInv
    <2> QED BY <1>1, <2>1, <2>2, <2>3, CreateReal, RemoveReal, RevokeReal, SwitchReal
            DEF Call, MainCall
  <1>2. ASSUME NEW r \in Procs, Arrive(r) PROVE RealKeys'
    <2>1. dev' = dev /\ loc' = loc
      BY <1>2 DEF Arrive, world
    <2>2. \A q \in Procs : pc'[q] \in Keyed => pc[q] \in Keyed
      <3>1. PICK op \in AllOps : pc' = [pc EXCEPT ![r] = FirstCall[op]]
        BY <1>2, ServiceAssumption DEF Arrive, AllOps
      <3>2. FirstCall[op] \notin Keyed
        BY DEF FirstCall, AllOps, Keyed
      <3> QED BY <3>1, <3>2 DEF ProcInv, ProcTypes
    <2> QED BY <2>1, <2>2 DEF RealKeys
  <1>3. ASSUME NEW r \in Procs, CallFails(r) PROVE RealKeys'
    <2> DEFINE Onward == {"remove.read", "sync.import", "create.save", "revoke.audit",
                          "config.find", "config.save"}
    <2>1. dev' = dev
      BY <1>3 DEF CallFails, world
    <2>2. Abort(r) \/ (\E a : Answer(r, a)) \/ \E l \in Onward : \E lo : Step(r, l, lo)
      BY <1>3 DEF CallFails, ShrugOff, Goto
    <2> QED BY <2>1, <2>2, PlainReal DEF Keyed, ProcInv
  <1>4. CASE Crash
    <2>1. dev' = dev /\ \A q \in Procs : pc'[q] \notin Keyed
      BY <1>4, ServiceAssumption DEF Crash, world, Keyed, InFlight
    <2> QED BY <2>1 DEF RealKeys
  <1>5. CASE QuickRestart
    <2>1. dev' = QuickUp(conf.blocks) /\ UNCHANGED <<pc, loc>>
      BY <1>5 DEF QuickRestart, procs
    <2>2. \A p \in dev' : p.key # NoKey
      BY <2>1, BlockIsReal DEF QuickUp
    <2> QED BY <2>1, <2>2 DEF RealKeys
  <1>6. CASE Rest \/ UNCHANGED vars
    BY <1>6 DEF Rest, vars, RealKeys
  <1> QED BY <1>1, <1>2, <1>3, <1>4, <1>5, <1>6 DEF Next
-----------------------------------------------------------------------------
(* The startup sequence.                                                     *)

\* While the startup sequence runs nothing else does.
LEMMA OnlyMain ==
  ASSUME ProcInv, MainAlone, NEW r \in Procs, pc[Main] # "done",
         InFlight(r) \/ up
  PROVE  r = Main /\ ~up
  BY DEF MainAlone, Procs

\* A step of the startup sequence, as far as the requests can see.
LEMMA MainStep ==
  ASSUME MainAlone, Alone(Main), pc'[Main] = "done" \/ (pc[Main] # "done" /\ up' = up)
  PROVE  MainAlone'
  BY ServiceAssumption DEF MainAlone, Alone, Procs, InFlight

LEMMA MainStepAlone ==
  ASSUME ProcInv, MainAlone, pc[Main] # "done",
         (\E l, lo : Step(Main, l, lo)) \/ (\E a : Answer(Main, a))
  PROVE  MainAlone'
  <1>1. Main \in Procs /\ Main \notin Dashboards
    BY ServiceAssumption DEF Procs
  <1>2. CASE \E l, lo : Step(Main, l, lo)
    <2>1. Alone(Main) /\ up' = up
      BY <1>1, <1>2, StepAlone DEF ProcInv, Step
    <2> QED BY <2>1, MainStep
  <1>3. CASE \E a : Answer(Main, a)
    <2>1. Alone(Main)
      BY <1>1, <1>3, AnswerAlone DEF ProcInv
    <2>2. pc'[Main] = "done"
      BY <1>1, <1>3 DEF Answer, ProcInv, ProcTypes
    <2> QED BY <2>1, <2>2, MainStep
  <1> QED BY <1>2, <1>3

\* A request that moves is served after the startup, which is over and stays so.
LEMMA OverStaysOver ==
  ASSUME ProcInv, MainAlone, NEW r \in Reqs, InFlight(r) \/ up,
         \A q \in Procs : q # r => pc'[q] = pc[q]
  PROVE  MainAlone' /\ StoppedListed'
  <1>1. pc[Main] = "done" /\ r # Main /\ Main \in Procs
    BY ServiceAssumption DEF MainAlone, Procs
  <1> QED BY <1>1 DEF MainAlone, StoppedListed

\* The calls that the startup sequence makes.
LEMMA CallsOfMain ==
  ASSUME ProcInv, Main \in Procs
  PROVE  pc[Main] \in SyncCalls \cup MainCalls \cup {"idle", "done"}
  <1>1. Fits(Op(Main), pc[Main]) /\ Op(Main) = "main" /\ pc[Main] \in Labels
    BY DEF ProcInv, ProcTypes, Control
  <1> QED BY <1>1 DEF Fits, Labels, DbCalls, DevCalls, FileCalls, SyncCalls, MainCalls,
                      CreateCalls, RemoveCalls, RevokeCalls, SwitchCalls, LimitCalls, ConfigCalls

\* What MainList puts on the list are the keys of the stopped clients.
LEMMA ListLists ==
  ASSUME ProcInv, StoreInv, RealKeys, MainAlone, MainList(Main), Main \in Procs
  PROVE  MainAlone' /\ StoppedListed'
  <1> DEFINE off == {n \in Present(peers) : ~peers[n].enabled /\ peers[n].key # NoKey}
             lo == [loc[Main] EXCEPT !.todo = {peers[n].key : n \in off}]
  <1>1. pc[Main] = "main.list" /\ Step(Main, "main.apply", lo) /\ UNCHANGED <<peers, dev>>
    BY DEF MainList, world
  <1>2. lo.todo = {peers[n].key : n \in off}
    BY HasHeld DEF Locals
  <1>3. \A n \in Present(peers) :
          ~peers[n].enabled /\ peers[n].key \in LiveKeys(dev) => peers[n].key \in lo.todo
    <2> SUFFICES ASSUME NEW n \in Present(peers), ~peers[n].enabled,
                        peers[n].key \in LiveKeys(dev)
                 PROVE  peers[n].key \in lo.todo
      OBVIOUS
    <2>1. peers[n].key # NoKey
      BY DEF RealKeys, LiveKeys
    <2> QED BY <1>2, <2>1
  <1> HIDE DEF lo
  <1>4. loc'[Main] = lo
    BY <1>1, StepAlone DEF ProcInv
  <1>5. MainAlone'
    BY <1>1, MainStepAlone
  <1>6. StoppedListed'
    BY <1>1, <1>3, <1>4 DEF StoppedListed, Present
  <1> QED BY <1>5, <1>6

\* ApplyDisabledPeers crosses a key off when it has taken it off.
LEMMA ApplyCrossesOff ==
  ASSUME ProcInv, MainAlone, StoppedListed, MainApply(Main), Main \in Procs, quickUps' = quickUps
  PROVE  MainAlone' /\ StoppedListed'
  <1>1. pc[Main] = "main.apply" /\ peers' = peers
    BY DEF MainApply
  <1>2. MainAlone'
    BY <1>1, MainStepAlone DEF MainApply
  <1>3. CASE \E a : Answer(Main, a)
    <2>1. pc'[Main] # "main.apply"
      BY <1>3, AnswerAlone DEF ProcInv
    <2> QED BY <1>2, <2>1 DEF StoppedListed
  <1>4. ASSUME NEW k \in loc[Main].todo, dev' = DevRemove(dev, k),
               Step(Main, "main.apply", [loc[Main] EXCEPT !.todo = @ \ {k}])
        PROVE  StoppedListed'
    <2> DEFINE lo == [loc[Main] EXCEPT !.todo = @ \ {k}]
    <2>1. lo.todo = loc[Main].todo \ {k}
      BY HasHeld DEF Locals
    <2> HIDE DEF lo
    <2>2. loc'[Main] = lo
      BY <1>4, StepAlone DEF ProcInv, lo
    <2>3. \A j \in LiveKeys(dev') : j \in LiveKeys(dev) /\ j # k
      BY <1>4 DEF LiveKeys, DevRemove
    <2> QED BY <1>1, <2>1, <2>2, <2>3 DEF StoppedListed, Present
  <1> QED BY <1>2, <1>3, <1>4 DEF MainApply

\* A call, whether it succeeds or fails, answers or leads to the next one.
LEMMA CallMoves ==
  ASSUME NEW r \in Procs, Call(r) \/ CallFails(r)
  PROVE  InFlight(r) /\ ((\E a : Answer(r, a)) \/ \E l, lo : Step(r, l, lo))
  <1>1. CASE SyncCall(r) \/ MainCall(r)
    BY <1>1 DEF SyncCall, SyncParse, SyncLoad, SyncImport, SyncPrune, MainCall, MainList,
                MainApply, Abort, Goto, InFlight
  <1>2. CASE CreateCall(r) \/ RemoveCall(r)
    BY <1>2 DEF CreateCall, CreateParse, CreateAppend, CreateDev, CreateUpsert, CreateAudit,
                CreateSave, RemoveCall, RemoveRead, RemoveTruncate, RemoveWrite, AfterRemove,
                Goto, InFlight
  <1>3. CASE RevokeCall(r) \/ SwitchCall(r) \/ LastAudit(r)
    BY <1>3 DEF RevokeCall, RevokeParse, RevokeGet, RevokeDev, RevokeDelete, RevokeFile,
                SwitchCall, SwitchFind, SwitchGet, SwitchDev, SwitchSet, LastAudit, Goto, InFlight
  <1>4. CASE LimitCall(r) \/ ConfigCall(r)
    BY <1>4 DEF LimitCall, LimitGet, LimitSet, Goto, InFlight,
                ConfigCall, ConfigGet, ConfigLoad, ConfigUpsert, ConfigSave, ConfigFind, Ensured
  <1>5. CASE CallFails(r)
    <2>1. (\E a : Answer(r, a)) \/ \E l, lo : Step(r, l, lo)
      BY <1>5 DEF CallFails, ShrugOff, Abort, Goto
    <2>2. InFlight(r)
      BY <1>5 DEF CallFails, CanFail, DbCalls, DevCalls, FileCalls, InFlight
    <2> QED BY <2>1, <2>2
  <1> QED BY <1>1, <1>2, <1>3, <1>4, <1>5 DEF Call

LEMMA MovesAlone ==
  ASSUME ProcInv, NEW r \in Procs, Call(r) \/ CallFails(r)
  PROVE  InFlight(r) /\ \A q \in Procs : q # r => pc'[q] = pc[q]
  BY CallMoves, StepAlone, AnswerAlone DEF ProcInv, Alone

LEMMA StartNext ==
  ASSUME IInv, StartInv, [Next]_vars
  PROVE  StartInv'
  <1>1. ProcInv /\ StoreInv /\ EnvTypes /\ RealKeys /\ MainAlone /\ StoppedListed
    BY Parts DEF StartInv
  <1>2. Main \in Procs /\ Main \notin Reqs /\ Procs = Reqs \cup {Main}
    BY ServiceAssumption DEF Procs
  <1>3. ASSUME NEW r \in Procs, Call(r) \/ CallFails(r)
        PROVE  MainAlone' /\ StoppedListed'
    <2>1. InFlight(r) /\ \A q \in Procs : q # r => pc'[q] = pc[q]
      BY <1>1, <1>3, MovesAlone
    <2>2. CASE r \in Reqs
      BY <1>1, <2>1, <2>2, OverStaysOver
    <2>3. CASE r = Main
      <3>1. pc[Main] \in SyncCalls \cup MainCalls
        BY <1>1, <1>2, <2>1, <2>3, CallsOfMain DEF InFlight
      <3>2. pc[Main] # "done"
        BY <3>1 DEF SyncCalls, MainCalls
      <3>3. CASE MainList(Main)
        BY <1>1, <1>2, <3>3, ListLists
      <3>4. CASE MainApply(Main)
        <4>1. quickUps' = quickUps
          BY <3>4 DEF MainApply, env
        <4> QED BY <1>1, <1>2, <3>4, <4>1, ApplyCrossesOff
      <3>5. CASE SyncCall(Main) \/ CallFails(Main)
        <4> DEFINE Onward == {"sync.load", "sync.import", "sync.prune", "main.list",
                              "switch.find", "remove.read", "create.save", "revoke.audit",
                              "config.find", "config.save"}
        <4>1. (\E a : Answer(Main, a)) \/ \E l \in Onward : \E lo : Step(Main, l, lo)
          BY <3>5 DEF SyncCall, SyncParse, SyncLoad, SyncImport, SyncPrune, CallFails,
                      ShrugOff, Abort, Goto
        <4>2. MainAlone'
          BY <1>1, <3>2, <4>1, MainStepAlone
        <4>3. pc'[Main] # "main.apply"
          BY <1>1, <1>2, <4>1, StepAlone, AnswerAlone DEF ProcInv
        <4> QED BY <4>2, <4>3 DEF StoppedListed
      <3>6. SyncCall(Main) \/ MainCall(Main) \/ CallFails(Main)
        BY <1>3, <2>3, <3>1 DEF Call, SyncCalls, MainCalls,
             CreateCall, CreateParse, CreateAppend, CreateDev, CreateUpsert, CreateAudit, CreateSave,
             RemoveCall, RemoveRead, RemoveTruncate, RemoveWrite,
             RevokeCall, RevokeParse, RevokeGet, RevokeDev, RevokeDelete, RevokeFile,
             SwitchCall, SwitchFind, SwitchGet, SwitchDev, SwitchSet,
             LimitCall, LimitGet, LimitSet,
             ConfigCall, ConfigGet, ConfigLoad, ConfigUpsert, ConfigSave, ConfigFind, LastAudit
      <3> QED BY <3>3, <3>4, <3>5, <3>6 DEF MainCall
    <2> QED BY <1>2, <2>2, <2>3
  <1>4. ASSUME NEW r \in Procs, Arrive(r)
        PROVE  MainAlone' /\ StoppedListed'
    <2>1. r \in Reqs /\ up /\ \A q \in Procs : q # r => pc'[q] = pc[q]
      BY <1>1, <1>4 DEF Arrive, ProcInv, ProcTypes
    <2> QED BY <1>1, <2>1, OverStaysOver
  <1>5. CASE Crash
    <2>1. /\ ~up' /\ pc'[Main] = "sync.parse"
          /\ \A q \in Reqs : pc'[q] \in {"idle", "done"}
      BY <1>2, <1>5, ServiceAssumption DEF Crash, InFlight
    <2> QED BY <1>1, <1>5, <2>1, RealNext DEF StartInv, MainAlone, StoppedListed, InFlight, Next
  <1>6. CASE QuickRestart
    <2>1. UNCHANGED <<pc, up>> /\ quickUps' # 0
      BY <1>1, <1>6 DEF QuickRestart, procs, EnvTypes
    <2> QED BY <1>1, <2>1, RealNext DEF StartInv, MainAlone, StoppedListed, InFlight
  <1>7. CASE Rest \/ UNCHANGED vars
    <2>1. UNCHANGED <<pc, loc, up, peers, dev, quickUps>>
      BY <1>7 DEF Rest, vars
    <2> QED BY <1>1, <2>1, RealNext DEF StartInv, MainAlone, StoppedListed, InFlight, Present
  <1> QED BY <1>1, <1>3, <1>4, <1>5, <1>6, <1>7, RealNext DEF StartInv, Next

LEMMA StartInit == Init => StartInv
  <1> SUFFICES ASSUME Init PROVE StartInv
    OBVIOUS
  <1>1. /\ pc[Main] = "sync.parse" /\ ~up
        /\ \A q \in Reqs : pc[q] = "idle"
    BY ServiceAssumption DEF Init, Procs
  <1>2. \A p \in dev : p.key # NoKey
    <2>1. StoreInv
      BY InitInv, Parts
    <2>2. PICK some \in SUBSET conf.blocks : dev = QuickUp(some)
      BY DEF Init
    <2> QED BY <2>1, <2>2, BlockIsReal DEF QuickUp
  <1> QED BY <1>1, <1>2 DEF StartInv, RealKeys, MainAlone, StoppedListed, InFlight, Keyed, Procs

-----------------------------------------------------------------------------
(* Limits and switches.                                                      *)

\* The rows that stay keep their settings.
RowsKeep == \A n \in Present(peers) : peers'[n] # NoRow =>
              peers'[n].limit = peers[n].limit /\ peers'[n].enabled = peers[n].enabled

\* What SettingsKept says of a step.
Kept ==
  \A n \in Present(peers) : peers'[n] # NoRow =>
    /\ peers'[n].limit # peers[n].limit =>
         \E r \in Reqs : Name(r) = n /\ LimitSet(r)
    /\ peers'[n].enabled # peers[n].enabled =>
         \E r \in Reqs : Name(r) = n /\ (SwitchSet(r) \/ CreateUpsert(r) \/ ConfigUpsert(r))

LEMMA RowsKeepKept ==
  ASSUME RowsKeep
  PROVE  Kept
  BY DEF RowsKeep, Kept

LEMMA RowTyped ==
  ASSUME StoreInv, NEW n \in Present(peers)
  PROVE  n \in Names /\ peers[n] \in Row
  BY DEF StoreInv, StoreTypes, Table, Present

\* A request with a name, other than the start of the program.
LEMMA NamedRequest ==
  ASSUME ProcInv, NEW r \in Procs, pc[r] \in {"create.upsert", "config.upsert", "switch.set",
                                              "limit.set"}
  PROVE  r \in Reqs /\ Name(r) \in Names
  <1>1. Fits(Op(r), pc[r]) /\ (Op(r) = "main" <=> r = Main)
    BY DEF ProcInv, Control
  <1>2. Op(r) # "main"
    BY <1>1 DEF Fits, CreateCalls, ConfigCalls, SwitchCalls, LimitCalls
  <1>3. Name(r) \in Names
    BY IsNamed DEF CreateCalls, ConfigCalls, SwitchCalls, LimitCalls
  <1> QED BY <1>1, <1>2, <1>3 DEF Procs

LEMMA ImportKeepsRows ==
  ASSUME StoreInv, NEW r \in Procs, SyncImport(r)
  PROVE  RowsKeep
  <1>1. CASE peers' = peers
    BY <1>1 DEF RowsKeep
  <1>2. ASSUME NEW pick, peers' = ImportRows(peers, pick, loc[r].cfgs) PROVE RowsKeep
    <2> SUFFICES ASSUME NEW n \in Present(peers)
                 PROVE  /\ peers'[n].limit = peers[n].limit
                        /\ peers'[n].enabled = peers[n].enabled
      BY DEF RowsKeep
    <2>1. n \in Names /\ peers[n] \in Row /\ peers[n] # NoRow
      BY RowTyped DEF Present
    <2>2. \/ peers'[n] = peers[n]
          \/ peers'[n] = ImportRow(peers[n], pick[n].key, loc[r].cfgs[n])
      BY <1>2, <2>1 DEF ImportRows
    <2> QED BY <2>1, <2>2 DEF ImportRow, Row
  <1> QED BY <1>1, <1>2 DEF SyncImport

LEMMA PruneKeepsRows ==
  ASSUME NEW r \in Procs, SyncPrune(r)
  PROVE  RowsKeep
  BY DEF SyncPrune, PruneRows, RowsKeep, Present

\* An upsert with no limit of its own.
LEMMA UpsertKeepsLimit ==
  ASSUME StoreInv, NEW n \in Names, NEW new \in Row, new.limit = 0,
         peers' = UpsertRow(peers, n, new)
  PROVE  /\ \A m \in Present(peers) : m # n => peers'[m] = peers[m]
         /\ n \in Present(peers) => peers'[n].limit = peers[n].limit
  <1>1. peers \in Table
    BY DEF StoreInv, StoreTypes
  <1>2. ASSUME NEW m \in Present(peers), m # n PROVE peers'[m] = peers[m]
    BY <1>1, <1>2 DEF UpsertRow, Table, Present
  <1>3. ASSUME n \in Present(peers) PROVE peers'[n].limit = peers[n].limit
    BY <1>1, <1>3 DEF UpsertRow, Table, Present
  <1> QED BY <1>2, <1>3

LEMMA CreateKeepsSettings ==
  ASSUME ProcInv, StoreInv, NEW r \in Procs, CreateUpsert(r)
  PROVE  Kept
  <1>1. r \in Reqs /\ Name(r) \in Names
    BY NamedRequest DEF CreateUpsert
  <1> DEFINE new == [key |-> loc[r].key, enabled |-> TRUE, cfg |-> NewCfg(r), limit |-> 0]
  <1>2. CASE peers' = peers
    BY <1>2, RowsKeepKept DEF RowsKeep
  <1>3. CASE peers' = UpsertRow(peers, Name(r), new)
    <2>1. new \in Row /\ new.limit = 0
      BY HasHeld, LimitsAssumption DEF Row, Locals, NewCfg, Cfg
    <2> HIDE DEF new
    <2>2. /\ \A m \in Present(peers) : m # Name(r) => peers'[m] = peers[m]
          /\ Name(r) \in Present(peers) => peers'[Name(r)].limit = peers[Name(r)].limit
      BY <1>1, <1>3, <2>1, UpsertKeepsLimit
    <2> QED BY <1>1, <2>2 DEF Kept
  <1> QED BY <1>2, <1>3 DEF CreateUpsert

LEMMA ConfigKeepsSettings ==
  ASSUME ProcInv, StoreInv, NEW r \in Procs, ConfigUpsert(r)
  PROVE  Kept
  <1>1. r \in Reqs /\ Name(r) \in Names
    BY NamedRequest DEF ConfigUpsert
  <1> DEFINE rec == loc[r].rec
             key == IF rec = NoRow THEN NoKey ELSE rec.key
             new == [key |-> key, enabled |-> rec = NoRow \/ rec.enabled,
                     cfg |-> loc[r].cfg, limit |-> 0]
  <1>2. CASE peers' = peers
    BY <1>2, RowsKeepKept DEF RowsKeep
  <1>3. CASE peers' = UpsertRow(peers, Name(r), new)
    <2>1. new \in Row /\ new.limit = 0
      <3>1. loc[r].cfg \in Cfg /\ loc[r].rec \in Row \cup {NoRow}
        BY HasHeld DEF Locals
      <3>2. key \in Nat
        BY <3>1 DEF Row, NoKey
      <3>3. (rec = NoRow \/ rec.enabled) \in BOOLEAN
        OBVIOUS
      <3> QED BY <3>1, <3>2, <3>3, LimitsAssumption DEF Row
    <2> HIDE DEF new
    <2>2. /\ \A m \in Present(peers) : m # Name(r) => peers'[m] = peers[m]
          /\ Name(r) \in Present(peers) => peers'[Name(r)].limit = peers[Name(r)].limit
      BY <1>1, <1>3, <2>1, UpsertKeepsLimit
    <2> QED BY <1>1, <2>2 DEF Kept
  <1> QED BY <1>2, <1>3 DEF ConfigUpsert

LEMMA SwitchKeepsLimits ==
  ASSUME ProcInv, StoreInv, NEW r \in Procs, SwitchSet(r)
  PROVE  Kept
  <1>1. r \in Reqs /\ Name(r) \in Names /\ peers \in Table
    BY NamedRequest DEF SwitchSet, StoreInv, StoreTypes
  <1>2. CASE peers' = peers
    BY <1>2, RowsKeepKept DEF RowsKeep
  <1>3. CASE peers' = SetEnabled(peers, Name(r), Op(r) = "start")
    <2>1. \A m \in Present(peers) : m # Name(r) => peers'[m] = peers[m]
      BY <1>1, <1>3 DEF SetEnabled, Table, Present
    <2>2. Name(r) \in Present(peers) => peers'[Name(r)].limit = peers[Name(r)].limit
      BY <1>1, <1>3, RowTyped DEF SetEnabled, Table, Row
    <2> QED BY <1>1, <2>1, <2>2 DEF Kept
  <1> QED BY <1>2, <1>3 DEF SwitchSet

LEMMA LimitKeepsSwitches ==
  ASSUME ProcInv, StoreInv, NEW r \in Procs, LimitSet(r)
  PROVE  Kept
  <1>1. r \in Reqs /\ Name(r) \in Names /\ peers \in Table
    BY NamedRequest DEF LimitSet, StoreInv, StoreTypes
  <1>2. CASE peers' = peers
    BY <1>2, RowsKeepKept DEF RowsKeep
  <1>3. ASSUME NEW l \in Limits, peers' = SetLimit(peers, Name(r), l) PROVE Kept
    <2>1. \A m \in Present(peers) : m # Name(r) => peers'[m] = peers[m]
      BY <1>1, <1>3 DEF SetLimit, Table, Present
    <2>2. Name(r) \in Present(peers) => peers'[Name(r)].enabled = peers[Name(r)].enabled
      BY <1>1, <1>3, RowTyped DEF SetLimit, Table, Row
    <2> QED BY <1>1, <2>1, <2>2 DEF Kept
  <1> QED BY <1>2, <1>3 DEF LimitSet

\* Revoke deletes its row.
LEMMA DeleteKeepsRows ==
  ASSUME ProcInv, StoreInv, NEW r \in Procs, RevokeDelete(r)
  PROVE  RowsKeep
  <1>1. peers \in Table /\ peers' = DeleteRow(peers, Name(r))
    BY DEF RevokeDelete, StoreInv, StoreTypes
  <1> QED BY <1>1 DEF DeleteRow, RowsKeep, Present, Table

LEMMA SettingsNext ==
  ASSUME IInv, [Next]_vars
  PROVE  Kept
  <1>1. ProcInv /\ StoreInv
    BY Parts
  <1>2. peers' = peers => Kept
    BY RowsKeepKept DEF RowsKeep
  <1>3. ASSUME NEW r \in Procs, Call(r) PROVE Kept
    <2>1. CASE SyncCall(r) \/ MainCall(r)
      BY <1>1, <1>2, <2>1, ImportKeepsRows, PruneKeepsRows, RowsKeepKept
         DEF SyncCall, SyncParse, SyncLoad, MainCall, MainList, MainApply, world
    <2>2. CASE CreateCall(r) \/ RemoveCall(r)
      BY <1>1, <1>2, <2>2, CreateKeepsSettings
         DEF CreateCall, CreateParse, CreateAppend, CreateDev, CreateAudit, CreateSave,
             RemoveCall, RemoveRead, RemoveTruncate, RemoveWrite, world
    <2>3. CASE RevokeCall(r)
      BY <1>1, <1>2, <2>3, DeleteKeepsRows, RowsKeepKept
         DEF RevokeCall, RevokeParse, RevokeGet, RevokeDev, RevokeFile, world
    <2>4. CASE SwitchCall(r) \/ LimitCall(r)
      BY <1>1, <1>2, <2>4, SwitchKeepsLimits, LimitKeepsSwitches
         DEF SwitchCall, SwitchFind, SwitchGet, SwitchDev, LimitCall, LimitGet, world
    <2>5. CASE ConfigCall(r)
      BY <1>1, <1>2, <2>5, ConfigKeepsSettings
         DEF ConfigCall, ConfigGet, ConfigLoad, ConfigSave, ConfigFind, world
    <2>6. CASE LastAudit(r)
      BY <1>2, <2>6 DEF LastAudit
    <2> QED BY <1>3, <2>1, <2>2, <2>3, <2>4, <2>5, <2>6 DEF Call
  <1>4. ASSUME NEW r \in Procs, Arrive(r) \/ CallFails(r) PROVE Kept
    BY <1>2, <1>4 DEF Arrive, CallFails, world
  <1>5. Crash \/ QuickRestart \/ Rest \/ UNCHANGED vars => Kept
    BY <1>2 DEF Crash, QuickRestart, Rest, vars, world
  <1> QED BY <1>3, <1>4, <1>5 DEF Next

-----------------------------------------------------------------------------
(* The theorems.                                                             *)

\* Whatever failed and died before, and however requests overlapped, the startup
\* sequence of main (SyncFromConfig, then ApplyDisabledPeers), when its device
\* calls succeed, takes every client the table calls stopped off the interface
\* before a request is served.
THEOREM StartupShutsOut == Spec => StartupRepairs
  <1>1. Init => IInv /\ StartInv
    BY InitInv, StartInit
  <1>2. IInv /\ StartInv /\ [Next]_vars => (IInv /\ StartInv)'
    BY NextKeeps, StartNext
  <1>3. ASSUME IInv, StartInv, NEW r \in Procs, MainApply(r), up', quickUps = 0
        PROVE  \A n \in Present(peers) : ~peers[n].enabled => peers[n].key \notin LiveKeys(dev')
    <2>1. ProcInv /\ MainAlone /\ StoppedListed /\ pc[r] = "main.apply"
      BY <1>3, Parts DEF StartInv, MainApply
    <2>2. r = Main
      BY <2>1 DEF ProcInv, Control, Fits, MainCalls
    <2>3. ~up
      BY <2>1, <2>2 DEF MainAlone
    <2>4. loc[r].todo = {} /\ dev' = dev
      BY <1>3, <2>3 DEF MainApply, Step
    <2> QED BY <1>3, <2>1, <2>2, <2>4 DEF StoppedListed
  <1>4. IInv /\ StartInv =>
          [\A r \in Procs : MainApply(r) /\ up' /\ quickUps = 0 =>
             \A n \in Present(peers) : ~peers[n].enabled => peers[n].key \notin LiveKeys(dev')]_vars
    BY <1>3
  <1> QED BY <1>1, <1>2, <1>4, PTL DEF Spec, StartupRepairs

\* Lists, imports and downloads, from copies of any age, never change the limit
\* or the switch of a client that stays in the table: only SetLimit changes a
\* limit, and only Start, Stop, a Create over an older row and a GetConfig that
\* writes back a row from before the Jc lines switch a client.
THEOREM SettingsStay == Spec => SettingsKept
  <1>1. IInv /\ [Next]_vars => Kept
    BY SettingsNext
  <1>2. IInv /\ [Next]_vars =>
          [\A n \in Present(peers) : peers'[n] # NoRow =>
             /\ peers'[n].limit # peers[n].limit =>
                  \E r \in Reqs : Name(r) = n /\ LimitSet(r)
             /\ peers'[n].enabled # peers[n].enabled =>
                  \E r \in Reqs : Name(r) = n
                                  /\ (SwitchSet(r) \/ CreateUpsert(r) \/ ConfigUpsert(r))]_vars
    BY <1>1 DEF Kept
  <1> QED BY <1>2, Inductive, PTL DEF Spec, SettingsKept

-----------------------------------------------------------------------------
(* Stopped clients, while changes wait for one another.                      *)

Stopped(n) == peers[n] # NoRow /\ ~peers[n].enabled

\* A change that lets client n in has done so on the interface, and is about to
\* write it into the row.
Admitting(r) == pc[r] = "create.upsert" \/ (pc[r] = "switch.set" /\ Op(r) = "start")
Admitted(n)  == \E r \in Reqs : Name(r) = n /\ Admitting(r)

\* The stopped clients among the blocks do not connect.
Off(blocks) ==
  \A b \in blocks : Stopped(b.name) /\ ~Admitted(b.name) => b.key \notin LiveKeys(dev)

\* A Stop that is about to mark the row has taken the client off.
TakenOff(r) ==
  pc[r] = "switch.set" /\ Op(r) = "stop" =>
    \A b \in conf.blocks : b.name = Name(r) => b.key \notin LiveKeys(dev)

StoppedOff ==
  /\ Off(conf.blocks)
  /\ \A r \in Reqs : TakenOff(r) /\ (pc[r] = "remove.write" => Off(loc[r].view))

\* The startup sequence imports the file as it is, so that the keys it takes off
\* the interface are those of the blocks.
RowKeys == \A b \in conf.blocks : Stopped(b.name) => peers[b.name].key = b.key

MainSees ==
  /\ pc[Main] \in {"sync.load", "sync.import", "sync.prune"} => loc[Main].view = conf.blocks
  /\ pc[Main] \in {"sync.prune", "main.list", "main.apply"} => RowKeys

\* A config from before the Jc lines.
Raw(c) == c # NoCfg /\ ~c.junk

\* A row has a complete config, or none and there is no old one in its file.
Complete(row, file) == row # NoRow => ~Raw(row.cfg) /\ (Raw(file) => row.cfg # NoCfg)

\* What a handler has in hand for a row or a file.
HandComplete(r) ==
  /\ pc[r] = "sync.import" =>
       \A n \in NamesOf(loc[r].view) :
         ~Raw(loc[r].cfgs[n]) /\ (Raw(files[n]) => loc[r].cfgs[n] # NoCfg)
  /\ pc[r] = "config.load" /\ loc[r].rec # NoRow => ~Raw(files[Name(r)])
  /\ pc[r] = "config.upsert" => loc[r].rec = NoRow
  /\ pc[r] \in {"config.upsert", "config.save"} => loc[r].cfg.junk
  /\ pc[r] = "create.upsert" => loc[r].key # NoKey

\* Where no client of the table has an old config to begin with, no row ever
\* does: GetConfig completes one it found in a client file, and only for a client
\* without a row.
ConfigsComplete ==
  /\ \A n \in Names : Complete(peers[n], files[n])
  /\ \A r \in Procs : HandComplete(r)

StoppedInv ==
  faults = 0 => ConfigsComplete /\ MainSees /\ (quickUps = 0 /\ up => StoppedOff)
-----------------------------------------------------------------------------
(* Old configs.                                                              *)

\* The calls that are made with that in hand.
Filed == {"sync.import", "config.load", "config.upsert", "config.save", "create.upsert"}

\* No old config comes back into a client file.
FilesAge == \A n \in Names : Raw(files'[n]) => Raw(files[n])

LEMMA ConfigStep ==
  ASSUME ProcInv, ConfigsComplete, NEW r \in Procs, Alone(r), FilesAge,
         \A n \in Names : Complete(peers'[n], files'[n]),
         HandComplete(r)'
  PROVE  ConfigsComplete'
  <1>1. ASSUME NEW q \in Procs, q # r PROVE HandComplete(q)'
    <2>1. pc'[q] = pc[q] /\ loc'[q] = loc[q] /\ Name(q)' = Name(q)
      BY <1>1 DEF Alone, Name
    <2>2. HandComplete(q)
      BY DEF ConfigsComplete
    <2>3. NamesOf(loc[q].view) \subseteq Names
      BY HasHeld DEF Locals, NamesOf, Block
    <2>4. pc[q] = "config.load" => Name(q) \in Names
      BY IsNamed DEF ConfigCalls
    <2> QED BY <2>1, <2>2, <2>3, <2>4 DEF HandComplete, FilesAge
  <1> QED BY <1>1 DEF ConfigsComplete

\* A step that changes neither rows nor files and has no config in hand.
LEMMA PlainConfigStep ==
  ASSUME ProcInv, ConfigsComplete, NEW r \in Procs, UNCHANGED <<files, peers>>,
         \/ \E l, lo : l \notin Filed /\ Step(r, l, lo)
         \/ \E a : Answer(r, a)
  PROVE  ConfigsComplete'
  <1>1. Alone(r) /\ pc'[r] \notin Filed
    BY StepAlone, AnswerAlone DEF ProcInv, Filed
  <1>2. HandComplete(r)'
    BY <1>1 DEF HandComplete, Filed
  <1>3. FilesAge /\ \A n \in Names : Complete(peers'[n], files'[n])
    BY DEF ConfigsComplete, FilesAge
  <1> QED BY <1>1, <1>2, <1>3, ConfigStep

\* The rows change, and have no config in hand after it.
LEMMA RowConfigStep ==
  ASSUME ProcInv, ConfigsComplete, NEW r \in Procs, UNCHANGED files,
         \A n \in Names : Complete(peers'[n], files[n]),
         \/ \E l, lo : l \notin Filed /\ Step(r, l, lo)
         \/ \E a : Answer(r, a)
  PROVE  ConfigsComplete'
  <1>1. Alone(r) /\ pc'[r] \notin Filed
    BY StepAlone, AnswerAlone DEF ProcInv, Filed
  <1>2. HandComplete(r)'
    BY <1>1 DEF HandComplete, Filed
  <1> QED BY <1>1, <1>2, ConfigStep DEF FilesAge

\* A client file changes, for a complete config or none.
LEMMA FileConfigStep ==
  ASSUME ProcInv, StoreInv, ConfigsComplete, NEW r \in Procs, UNCHANGED peers,
         NEW m \in Names, NEW c, ~Raw(c), files' = [files EXCEPT ![m] = c],
         \/ \E l, lo : l \notin Filed /\ Step(r, l, lo)
         \/ \E a : Answer(r, a)
  PROVE  ConfigsComplete'
  <1>1. Alone(r) /\ pc'[r] \notin Filed
    BY StepAlone, AnswerAlone DEF ProcInv, Filed
  <1>2. HandComplete(r)'
    BY <1>1 DEF HandComplete, Filed
  <1>3. \A n \in Names : files'[n] = files[n] \/ ~Raw(files'[n])
    BY DEF StoreInv, StoreTypes
  <1>4. FilesAge /\ \A n \in Names : Complete(peers'[n], files'[n])
    BY <1>3 DEF ConfigsComplete, Complete, FilesAge
  <1> QED BY <1>1, <1>2, <1>4, ConfigStep

LEMMA LoadComplete ==
  ASSUME ProcInv, StoreInv, ConfigsComplete, NEW r \in Procs, SyncLoad(r)
  PROVE  ConfigsComplete'
  <1> DEFINE names == NamesOf(loc[r].view)
             lo == [loc[r] EXCEPT !.cfgs = Loaded(names)]
  <1>1. Step(r, "sync.import", lo) /\ UNCHANGED <<files, peers>>
    BY DEF SyncLoad, world
  <1>2. lo.cfgs = Loaded(names) /\ lo.view = loc[r].view /\ names \subseteq Names
    BY HasHeld DEF Locals, NamesOf, Block
  <1>3. ASSUME NEW n \in names
        PROVE  ~Raw(Loaded(names)[n]) /\ (Raw(files[n]) => Loaded(names)[n] # NoCfg)
    <2>1. files[n] \in Cfg /\ n \in Names
      BY <1>2 DEF StoreInv, StoreTypes
    <2>2. CASE files[n] = NoCfg
      BY <1>2, <2>1, <2>2 DEF Loaded, Raw
    <2>3. CASE files[n] # NoCfg
      <3>1. Loaded(names)[n] = [files[n] EXCEPT !.junk = TRUE]
        BY <1>2, <2>1, <2>3 DEF Loaded
      <3>2. Loaded(names)[n].junk
        BY <2>1, <3>1 DEF Cfg
      <3> QED BY <3>2 DEF Raw, NoCfg
    <2> QED BY <2>2, <2>3
  <1> HIDE DEF lo
  <1>4. Alone(r) /\ pc'[r] = "sync.import" /\ loc'[r] = lo
    BY <1>1, StepAlone DEF ProcInv
  <1>5. HandComplete(r)'
    BY <1>1, <1>2, <1>3, <1>4 DEF HandComplete
  <1>6. FilesAge /\ \A n \in Names : Complete(peers'[n], files'[n])
    BY <1>1 DEF ConfigsComplete, FilesAge
  <1> QED BY <1>4, <1>5, <1>6, ConfigStep

LEMMA ImportComplete ==
  ASSUME ProcInv, StoreInv, ConfigsComplete, NEW r \in Procs, SyncImport(r),
         NEW pick, peers' = ImportRows(peers, pick, loc[r].cfgs),
         DOMAIN pick = NamesOf(loc[r].view)
  PROVE  \A n \in Names : Complete(peers'[n], files[n])
  <1> SUFFICES ASSUME NEW n \in Names PROVE Complete(peers'[n], files[n])
    OBVIOUS
  <1>1. Complete(peers[n], files[n]) /\ (peers[n] # NoRow => peers[n] \in Row)
    BY DEF ConfigsComplete, StoreInv, StoreTypes, Table
  <1>2. CASE n \notin DOMAIN pick
    BY <1>1, <1>2 DEF ImportRows
  <1>3. CASE n \in DOMAIN pick
    <2> DEFINE c == loc[r].cfgs[n]
    <2>1. ~Raw(c) /\ (Raw(files[n]) => c # NoCfg)
      BY <1>3 DEF ConfigsComplete, HandComplete, SyncImport
    <2>2. peers'[n] = ImportRow(peers[n], pick[n].key, c)
      BY <1>3 DEF ImportRows
    <2> HIDE DEF c
    <2>3. peers[n] = NoRow => peers'[n].cfg = c
      BY <2>2 DEF ImportRow
    <2>4. peers[n] # NoRow => peers'[n].cfg = IF c = NoCfg THEN peers[n].cfg ELSE c
      BY <1>1, <2>2 DEF ImportRow, Row
    <2> QED BY <1>1, <2>1, <2>3, <2>4 DEF Complete
  <1> QED BY <1>2, <1>3

LEMMA SyncComplete ==
  ASSUME ProcInv, StoreInv, ConfigsComplete, NEW r \in Procs, SyncCall(r)
  PROVE  ConfigsComplete'
  <1>1. CASE SyncParse(r)
    <2>1. UNCHANGED <<files, peers>> /\ "sync.load" \notin Filed
          /\ \E lo : Step(r, "sync.load", lo)
      BY <1>1 DEF SyncParse, Filed, world
    <2> QED BY <2>1, PlainConfigStep
  <1>2. CASE SyncLoad(r)
    BY <1>2, LoadComplete
  <1>3. CASE SyncImport(r)
    <2>1. files' = files /\ "sync.prune" \notin Filed /\ "main.list" \notin Filed
      BY <1>3 DEF SyncImport, Filed
    <2>2. CASE Abort(r) /\ UNCHANGED peers
      <3>1. (\E a : Answer(r, a)) \/ (\E lo : Step(r, "main.list", lo))
        BY <2>2 DEF Abort
      <3> QED BY <2>1, <2>2, <3>1, PlainConfigStep
    <2>3. CASE \E pick \in [NamesOf(loc[r].view) -> loc[r].view] :
                 /\ peers' = ImportRows(peers, pick, loc[r].cfgs)
                 /\ \E lo : Step(r, "sync.prune", lo)
      <3>1. \A n \in Names : Complete(peers'[n], files[n])
        BY <1>3, <2>3, ImportComplete
      <3> QED BY <2>1, <2>3, <3>1, RowConfigStep
    <2> QED BY <1>3, <2>2, <2>3 DEF SyncImport
  <1>4. CASE SyncPrune(r)
    <2>1. \A n \in Names : peers'[n] = peers[n] \/ peers'[n] = NoRow
      BY <1>4 DEF SyncPrune, PruneRows
    <2>2. \A n \in Names : Complete(peers'[n], files[n])
      BY <2>1 DEF ConfigsComplete, Complete
    <2>3. /\ files' = files /\ "main.list" \notin Filed /\ "switch.find" \notin Filed
          /\ \/ \E a : Answer(r, a)
             \/ \E lo : Step(r, "main.list", lo)
             \/ \E lo : Step(r, "switch.find", lo)
      BY <1>4 DEF SyncPrune, Filed
    <2> QED BY <2>2, <2>3, RowConfigStep
  <1> QED BY <1>1, <1>2, <1>3, <1>4 DEF SyncCall

LEMMA CreateComplete ==
  ASSUME ProcInv, StoreInv, ConfigsComplete, NEW r \in Procs, CreateUpsert(r) \/ CreateSave(r)
  PROVE  ConfigsComplete'
  <1>1. Name(r) \in Names /\ ~Raw(NewCfg(r)) /\ NewCfg(r) # NoCfg
    BY IsNamed DEF CreateUpsert, CreateSave, CreateCalls, Raw, NewCfg, NoCfg
  <1>2. CASE CreateSave(r)
    <2>1. files' = [files EXCEPT ![Name(r)] = NewCfg(r)] /\ peers' = peers
          /\ \E a : Answer(r, a)
      BY <1>2 DEF CreateSave
    <2> QED BY <1>1, <2>1, FileConfigStep
  <1>3. CASE CreateUpsert(r)
    <2>1. /\ files' = files /\ "create.audit" \notin Filed
          /\ (\E a : Answer(r, a)) \/ (\E lo : Step(r, "create.audit", lo))
      BY <1>3 DEF CreateUpsert, Goto, Filed
    <2> DEFINE new == [key |-> loc[r].key, enabled |-> TRUE, cfg |-> NewCfg(r), limit |-> 0]
    <2>2. CASE peers' = peers
      BY <2>1, <2>2, PlainConfigStep
    <2>3. CASE peers' = UpsertRow(peers, Name(r), new)
      <3>1. peers \in Table /\ new.cfg = NewCfg(r)
        BY DEF StoreInv, StoreTypes
      <3>2. ASSUME NEW n \in Names PROVE Complete(peers'[n], files[n])
        <4>1. CASE n = Name(r)
          <5>1. peers'[n].cfg = NewCfg(r)
            BY <1>1, <2>3, <3>1, <4>1 DEF UpsertRow, Table
          <5> QED BY <1>1, <5>1 DEF Complete
        <4>2. CASE n # Name(r)
          <5>1. peers'[n] = peers[n]
            BY <2>3, <3>1, <4>2 DEF UpsertRow, Table
          <5> QED BY <5>1 DEF ConfigsComplete
        <4> QED BY <4>1, <4>2
      <3> QED BY <2>1, <3>2, RowConfigStep
    <2> QED BY <1>3, <2>2, <2>3 DEF CreateUpsert
  <1> QED BY <1>2, <1>3

\* A row whose config stays.
LEMMA SettingComplete ==
  ASSUME ProcInv, StoreInv, ConfigsComplete, NEW r \in Procs, SwitchSet(r) \/ LimitSet(r)
  PROVE  ConfigsComplete'
  <1>1. Name(r) \in Names /\ peers \in Table
    BY IsNamed DEF SwitchSet, LimitSet, SwitchCalls, LimitCalls, StoreInv, StoreTypes
  <1>2. /\ files' = files /\ "switch.audit" \notin Filed /\ "limit.audit" \notin Filed
        /\ \/ \E a : Answer(r, a)
           \/ \E lo : Step(r, "switch.audit", lo)
           \/ \E lo : Step(r, "limit.audit", lo)
    BY DEF SwitchSet, LimitSet, Goto, Filed
  <1>3. ASSUME NEW n \in Names
        PROVE  peers'[n] = peers[n] \/ (peers[n] # NoRow /\ peers'[n].cfg = peers[n].cfg)
    <2>1. peers[n] # NoRow => peers[n] \in Row
      BY <1>1 DEF Table
    <2>2. \/ peers' = peers
          \/ /\ peers[Name(r)] # NoRow
             /\ \/ \E e : peers' = SetEnabled(peers, Name(r), e)
                \/ \E l : peers' = SetLimit(peers, Name(r), l)
      BY DEF SwitchSet, LimitSet
    <2> QED BY <1>1, <2>1, <2>2 DEF SetEnabled, SetLimit, Table, Row
  <1>4. ASSUME NEW n \in Names PROVE Complete(peers'[n], files[n])
    BY <1>3 DEF ConfigsComplete, Complete
  <1> QED BY <1>2, <1>4, RowConfigStep

LEMMA RevokeComplete ==
  ASSUME ProcInv, StoreInv, ConfigsComplete, NEW r \in Procs, RevokeCall(r)
  PROVE  ConfigsComplete'
  <1> DEFINE Onward == {"revoke.get", "remove.read", "revoke.dev", "revoke.delete",
                        "revoke.file", "revoke.audit"}
  <1>1. (\E a : Answer(r, a)) \/ \E l, lo : l \notin Filed /\ Step(r, l, lo)
    <2>1. (\E a : Answer(r, a)) \/ \E l \in Onward : \E lo : Step(r, l, lo)
      BY DEF RevokeCall, RevokeParse, RevokeGet, RevokeDev, RevokeDelete, RevokeFile, Goto
    <2> QED BY <2>1 DEF Filed
  <1>2. Name(r) \in Names
    BY IsNamed DEF RevokeCall, RevokeParse, RevokeGet, RevokeDev, RevokeDelete, RevokeFile,
                   RevokeCalls
  <1>3. CASE RevokeParse(r) \/ RevokeGet(r) \/ RevokeDev(r)
    <2>1. UNCHANGED <<files, peers>>
      BY <1>3 DEF RevokeParse, RevokeGet, RevokeDev, world
    <2> QED BY <1>1, <2>1, PlainConfigStep
  <1>4. CASE RevokeDelete(r)
    <2>1. files' = files /\ \A n \in Names : peers'[n] = peers[n] \/ peers'[n] = NoRow
      BY <1>4 DEF RevokeDelete, DeleteRow, StoreInv, StoreTypes, Table
    <2>2. \A n \in Names : Complete(peers'[n], files[n])
      BY <2>1 DEF ConfigsComplete, Complete
    <2> QED BY <1>1, <2>1, <2>2, RowConfigStep
  <1>5. CASE RevokeFile(r)
    <2>1. files' = [files EXCEPT ![Name(r)] = NoCfg] /\ peers' = peers /\ ~Raw(NoCfg)
      BY <1>5 DEF RevokeFile, Raw
    <2> QED BY <1>1, <1>2, <2>1, FileConfigStep
  <1> QED BY <1>3, <1>4, <1>5 DEF RevokeCall

\* GetConfig with a config in hand: it goes on with a complete one, and to the
\* upsert only without a row.
LEMMA EnsuredComplete ==
  ASSUME ProcInv, ConfigsComplete, NEW r \in Procs, NEW rec, NEW c \in Cfg, c.junk \/ rec = NoRow,
         Ensured(r, rec, c), UNCHANGED <<files, peers>>
  PROVE  ConfigsComplete'
  <1> DEFINE lo == [loc[r] EXCEPT !.rec = IF c.junk THEN NoRow ELSE rec,
                                  !.cfg = [c EXCEPT !.junk = TRUE]]
             l == IF c.junk THEN "config.save" ELSE "config.upsert"
  <1>0. Step(r, l, lo) \/ Answer(r, "error")
    BY DEF Ensured
  <1>9. CASE Answer(r, "error")
    BY <1>9, PlainConfigStep
  <1> SUFFICES ASSUME Step(r, l, lo) PROVE ConfigsComplete'
    BY <1>0, <1>9
  <1>1. Step(r, l, lo)
    OBVIOUS
  <1>2. lo.rec = NoRow /\ lo.cfg.junk
    BY HasHeld DEF Locals, Cfg
  <1>3. l \in {"config.save", "config.upsert"}
    OBVIOUS
  <1> HIDE DEF lo, l
  <1>4. Alone(r) /\ pc'[r] = l /\ loc'[r] = lo
    BY <1>1, StepAlone DEF ProcInv
  <1>5. HandComplete(r)'
    BY <1>2, <1>3, <1>4 DEF HandComplete
  <1>6. FilesAge /\ \A n \in Names : Complete(peers'[n], files'[n])
    BY DEF ConfigsComplete, FilesAge
  <1> QED BY <1>4, <1>5, <1>6, ConfigStep

LEMMA ConfigComplete ==
  ASSUME ProcInv, StoreInv, ConfigsComplete, NEW r \in Procs, ConfigCall(r)
  PROVE  ConfigsComplete'
  <1>1. Name(r) \in Names /\ pc[r] \in ConfigCalls
    BY IsNamed DEF ConfigCall, ConfigGet, ConfigLoad, ConfigUpsert, ConfigSave, ConfigFind,
                   ConfigCalls
  <1>2. /\ peers[Name(r)] # NoRow => peers[Name(r)] \in Row
        /\ files[Name(r)] \in Cfg
    BY <1>1 DEF StoreInv, StoreTypes, Table
  <1>3. Complete(peers[Name(r)], files[Name(r)]) /\ HandComplete(r)
    BY <1>1 DEF ConfigsComplete
  <1>4. CASE ConfigGet(r)
    <2> DEFINE rec == peers[Name(r)]
    <2>1. UNCHANGED <<files, peers>>
      BY <1>4 DEF ConfigGet, world
    <2>2. CASE rec # NoRow /\ rec.cfg # NoCfg
      <3>1. rec.cfg \in Cfg /\ rec.cfg.junk
        BY <1>2, <1>3, <2>2 DEF Complete, Raw, Row
      <3>2. Ensured(r, rec, rec.cfg)
        BY <1>4, <2>2 DEF ConfigGet
      <3> HIDE DEF rec
      <3> QED BY <2>1, <3>1, <3>2, EnsuredComplete
    <2>3. CASE ~(rec # NoRow /\ rec.cfg # NoCfg)
      <3> DEFINE lo == [loc[r] EXCEPT !.rec = rec]
      <3>1. Step(r, "config.load", lo)
        BY <1>4, <2>3 DEF ConfigGet
      <3>2. lo.rec # NoRow => ~Raw(files[Name(r)])
        BY <1>3, <2>3, HasHeld DEF Complete, Locals
      <3> HIDE DEF lo
      <3>3. Alone(r) /\ pc'[r] = "config.load" /\ loc'[r] = lo /\ Name(r)' = Name(r)
        BY <3>1, StepAlone DEF ProcInv, Alone, Name
      <3>4. HandComplete(r)'
        BY <2>1, <3>2, <3>3 DEF HandComplete
      <3>5. FilesAge /\ \A n \in Names : Complete(peers'[n], files'[n])
        BY <2>1 DEF ConfigsComplete, FilesAge
      <3> QED BY <3>3, <3>4, <3>5, ConfigStep
    <2> QED BY <2>2, <2>3
  <1>5. CASE ConfigLoad(r)
    <2>1. UNCHANGED <<files, peers>> /\ "config.find" \notin Filed /\ pc[r] = "config.load"
      BY <1>5 DEF ConfigLoad, Filed, world
    <2>2. CASE files[Name(r)] = NoCfg
      <3>1. Step(r, "config.find", NoLoc)
        BY <1>5, <2>2 DEF ConfigLoad
      <3> QED BY <2>1, <3>1, PlainConfigStep
    <2>3. CASE files[Name(r)] # NoCfg
      <3>1. Ensured(r, loc[r].rec, files[Name(r)])
        BY <1>5, <2>3 DEF ConfigLoad
      <3>2. files[Name(r)].junk \/ loc[r].rec = NoRow
        BY <1>3, <2>1, <2>3 DEF HandComplete, Raw
      <3> QED BY <1>2, <2>1, <3>1, <3>2, EnsuredComplete
    <2> QED BY <2>2, <2>3
  <1>6. CASE ConfigUpsert(r)
    <2> DEFINE new == [key |-> NoKey, enabled |-> TRUE, cfg |-> loc[r].cfg, limit |-> 0]
               lo == [loc[r] EXCEPT !.rec = NoRow]
    <2>1. loc[r].rec = NoRow /\ loc[r].cfg.junk
      BY <1>3, <1>6 DEF ConfigUpsert, HandComplete
    <2>2. /\ files' = files /\ Step(r, "config.save", lo)
          /\ peers' = peers \/ peers' = UpsertRow(peers, Name(r), new)
      BY <1>6, <2>1 DEF ConfigUpsert
    <2>3. lo.cfg = loc[r].cfg
      BY HasHeld DEF Locals
    <2>4. ASSUME NEW n \in Names PROVE Complete(peers'[n], files'[n])
      <3>0. peers \in Table /\ Complete(peers[n], files[n])
        BY DEF StoreInv, StoreTypes, ConfigsComplete
      <3>1. CASE peers'[n] = peers[n]
        BY <2>2, <3>0, <3>1
      <3>2. CASE n = Name(r) /\ peers' = UpsertRow(peers, Name(r), new)
        <4>1. loc[r].cfg # NoCfg /\ ~Raw(loc[r].cfg)
          BY <2>1 DEF NoCfg, Raw
        <4>2. peers'[n].cfg = loc[r].cfg
          BY <3>0, <3>2, <4>1 DEF UpsertRow, Table
        <4> QED BY <4>1, <4>2 DEF Complete
      <3>3. n # Name(r) => peers'[n] = peers[n]
        BY <2>2, <3>0 DEF UpsertRow, Table
      <3> QED BY <2>2, <3>1, <3>2, <3>3
    <2> HIDE DEF lo
    <2>5. Alone(r) /\ pc'[r] = "config.save" /\ loc'[r] = lo
      BY <2>2, StepAlone DEF ProcInv
    <2>6. HandComplete(r)' /\ FilesAge
      BY <2>1, <2>2, <2>3, <2>5 DEF HandComplete, FilesAge
    <2> QED BY <2>4, <2>5, <2>6, ConfigStep
  <1>7. CASE ConfigSave(r)
    <2>1. /\ files' = [files EXCEPT ![Name(r)] = loc[r].cfg] /\ peers' = peers
          /\ \E a : Answer(r, a)
      BY <1>7 DEF ConfigSave
    <2>2. ~Raw(loc[r].cfg)
      BY <1>3, <1>7 DEF ConfigSave, HandComplete, Raw
    <2> QED BY <1>1, <2>1, <2>2, FileConfigStep
  <1>8. CASE ConfigFind(r)
    <2>1. UNCHANGED <<files, peers>> /\ \E a : Answer(r, a)
      BY <1>8 DEF ConfigFind, world
    <2> QED BY <2>1, PlainConfigStep
  <1> QED BY <1>4, <1>5, <1>6, <1>7, <1>8 DEF ConfigCall

LEMMA DeviceComplete ==
  ASSUME ProcInv, ConfigsComplete, RealKeys, NEW r \in Procs, CreateDev(r)
  PROVE  ConfigsComplete'
  <1>1. UNCHANGED <<files, peers>> /\ Step(r, "create.upsert", loc[r]) /\ loc[r].key # NoKey
    BY DEF CreateDev, Goto, RealKeys, Keyed
  <1>2. Alone(r) /\ pc'[r] = "create.upsert" /\ loc'[r] = loc[r]
    BY <1>1, StepAlone DEF ProcInv
  <1>3. HandComplete(r)'
    BY <1>1, <1>2 DEF HandComplete
  <1>4. FilesAge /\ \A n \in Names : Complete(peers'[n], files'[n])
    BY <1>1 DEF ConfigsComplete, FilesAge
  <1> QED BY <1>2, <1>3, <1>4, ConfigStep

\* The calls that are about other things.
LEMMA OthersComplete ==
  ASSUME ProcInv, ConfigsComplete, NEW r \in Procs,
         \/ MainCall(r) \/ RemoveCall(r) \/ SwitchFind(r) \/ SwitchGet(r) \/ SwitchDev(r)
         \/ CreateParse(r) \/ CreateAppend(r) \/ CreateAudit(r)
         \/ LimitGet(r) \/ LastAudit(r)
  PROVE  ConfigsComplete'
  <1> DEFINE Onward == {"main.apply", "remove.truncate", "remove.write", "revoke.dev",
                        "switch.get", "switch.dev", "switch.set", "create.append", "create.dev",
                        "create.save", "limit.set"}
  <1>1. UNCHANGED <<files, peers>>
    BY DEF MainCall, MainList, MainApply, RemoveCall, RemoveRead, RemoveTruncate, RemoveWrite,
           SwitchFind, SwitchGet, SwitchDev, CreateParse, CreateAppend, CreateAudit,
           LimitGet, LastAudit, world
  <1>2. (\E a : Answer(r, a)) \/ \E l \in Onward : \E lo : Step(r, l, lo)
    BY DEF MainCall, MainList, MainApply, RemoveCall, RemoveRead, RemoveTruncate, RemoveWrite,
           AfterRemove, SwitchFind, SwitchGet, SwitchDev, CreateParse, CreateAppend,
           CreateAudit, LimitGet, LastAudit, Goto
  <1>3. \A l \in Onward : l \notin Filed
    BY DEF Filed
  <1> QED BY <1>1, <1>2, <1>3, PlainConfigStep

LEMMA CompleteNext ==
  ASSUME IInv, RealKeys, ConfigsComplete, [Next]_vars, faults' = faults
  PROVE  ConfigsComplete'
  <1>1. ProcInv /\ StoreInv /\ EnvTypes
    BY Parts
  <1>2. ASSUME NEW r \in Procs, Call(r) PROVE ConfigsComplete'
    BY <1>1, <1>2, SyncComplete, CreateComplete, SettingComplete, RevokeComplete, ConfigComplete,
       DeviceComplete, OthersComplete DEF Call, CreateCall, SwitchCall, LimitCall
  <1>3. ASSUME NEW r \in Procs, CallFails(r) PROVE ConfigsComplete'
    BY <1>1, <1>3 DEF CallFails, EnvTypes
  <1>4. ASSUME NEW r \in Procs, Arrive(r) PROVE ConfigsComplete'
    <2>1. UNCHANGED <<files, peers, loc>> /\ r \in Reqs
          /\ \A q \in Procs : q # r => pc'[q] = pc[q] /\ Name(q)' = Name(q)
      BY <1>1, <1>4 DEF Arrive, ProcInv, ProcTypes, Name, world
    <2>2. pc'[r] \notin Filed
      <3>1. PICK op \in AllOps : pc' = [pc EXCEPT ![r] = FirstCall[op]]
        BY <1>4, ServiceAssumption DEF Arrive, AllOps
      <3>2. FirstCall[op] \notin Filed
        BY <3>1 DEF FirstCall, AllOps, Filed
      <3> QED BY <1>1, <3>1, <3>2 DEF ProcInv, ProcTypes
    <2>3. ASSUME NEW q \in Procs PROVE HandComplete(q)'
      BY <2>1, <2>2 DEF ConfigsComplete, HandComplete, Filed
    <2> QED BY <2>1, <2>3 DEF ConfigsComplete
  <1>5. CASE Crash
    <2>1. UNCHANGED <<files, peers>> /\ \A q \in Procs : pc'[q] \notin Filed
      BY <1>1, <1>5 DEF Crash, world, Filed, InFlight, ProcInv, ProcTypes
    <2> QED BY <2>1 DEF ConfigsComplete, HandComplete, Filed
  <1>6. CASE QuickRestart \/ Rest \/ UNCHANGED vars
    <2>1. UNCHANGED <<files, peers, pc, loc, req>>
      BY <1>6 DEF QuickRestart, Rest, vars, procs
    <2> QED BY <2>1 DEF ConfigsComplete, HandComplete, Name
  <1> QED BY <1>2, <1>3, <1>4, <1>5, <1>6 DEF Next

-----------------------------------------------------------------------------
(* What the startup sequence sees.                                           *)

LEMMA MainImportSees ==
  ASSUME IInv, SerialInv, MainSees, SyncImport(Main)
  PROVE  MainSees'
  <1>1. ProcInv /\ StoreInv /\ Main \in Procs
    BY Parts DEF Procs
  <1>2. loc[Main].view = conf.blocks /\ conf' = conf
    BY DEF MainSees, SyncImport
  <1>3. PICK pick \in [NamesOf(loc[Main].view) -> loc[Main].view] :
          /\ \A n \in DOMAIN pick : pick[n].name = n /\ IsLast(pick[n], loc[Main].view)
          /\ IF \E n \in DOMAIN pick : KeyTaken(peers, n, pick[n].key)
             THEN Abort(Main) /\ UNCHANGED peers
             ELSE /\ peers' = ImportRows(peers, pick, loc[Main].cfgs)
                  /\ Step(Main, "sync.prune", [loc[Main] EXCEPT !.cfgs = NoLoc.cfgs])
    BY DEF SyncImport, SerialInv, KeysPast
  <1>4. \A n \in DOMAIN pick : ~KeyTaken(peers, n, pick[n].key)
    <2>1. \A b \in loc[Main].view : ~KeyTaken(peers, b.name, b.key)
      BY <1>1, NoConflicts DEF ImportNeverConflicts, SyncImport, SerialInv, KeysPast
    <2> QED BY <1>3, <2>1
  <1> DEFINE lo == [loc[Main] EXCEPT !.cfgs = NoLoc.cfgs]
  <1>5. peers' = ImportRows(peers, pick, loc[Main].cfgs) /\ Step(Main, "sync.prune", lo)
    BY <1>3, <1>4
  <1>6. lo.view = conf.blocks
    BY <1>1, <1>2, HasHeld DEF Locals
  <1> HIDE DEF lo
  <1>7. pc'[Main] = "sync.prune" /\ loc'[Main] = lo
    BY <1>1, <1>5, StepAlone DEF ProcInv
  <1>8. ASSUME NEW b \in conf.blocks PROVE peers'[b.name].key = b.key
    <2>1. b.name \in DOMAIN pick /\ b.name \in Names
      BY <1>1, <1>2 DEF NamesOf, StoreInv, StoreTypes, Config, Block
    <2>2. pick[b.name] = b
      <3>1. pick[b.name] \in conf.blocks /\ pick[b.name].name = b.name
        BY <1>2, <1>3, <2>1
      <3> QED BY <3>1 DEF SerialInv, Sound, Distinct
    <2>3. peers'[b.name] = ImportRow(peers[b.name], b.key, loc[Main].cfgs[b.name])
      BY <1>5, <2>1, <2>2 DEF ImportRows
    <2>4. peers[b.name] # NoRow => peers[b.name] \in Row
      BY <1>1, <2>1 DEF StoreInv, StoreTypes, Table
    <2> QED BY <2>3, <2>4 DEF ImportRow, Row
  <1> QED BY <1>2, <1>6, <1>7, <1>8 DEF MainSees, RowKeys

LEMMA MainCallSees ==
  ASSUME IInv, SerialInv, MainSees, SyncCall(Main) \/ MainCall(Main)
  PROVE  MainSees'
  <1>1. ProcInv /\ StoreInv /\ Main \in Procs /\ Main \notin Dashboards
    BY Parts, ServiceAssumption DEF Procs
  <1>2. CASE SyncParse(Main)
    <2> DEFINE lo == [loc[Main] EXCEPT !.view = conf.blocks]
    <2>1. Step(Main, "sync.load", lo) /\ conf' = conf
      BY <1>2 DEF SyncParse, world
    <2>2. lo.view = conf.blocks
      BY <1>1, HasHeld DEF Locals
    <2> HIDE DEF lo
    <2> QED BY <1>1, <2>1, <2>2, StepAlone DEF ProcInv, MainSees
  <1>3. CASE SyncLoad(Main)
    <2> DEFINE lo == [loc[Main] EXCEPT !.cfgs = Loaded(NamesOf(loc[Main].view))]
    <2>1. Step(Main, "sync.import", lo) /\ conf' = conf /\ loc[Main].view = conf.blocks
      BY <1>3 DEF SyncLoad, world, MainSees
    <2>2. lo.view = conf.blocks
      BY <1>1, <2>1, HasHeld DEF Locals
    <2> HIDE DEF lo
    <2> QED BY <1>1, <2>1, <2>2, StepAlone DEF ProcInv, MainSees
  <1>4. CASE SyncImport(Main)
    BY <1>4, MainImportSees
  <1>5. CASE SyncPrune(Main)
    <2>1. Op(Main) = "main" /\ loc[Main].view = conf.blocks /\ RowKeys /\ conf' = conf
      BY <1>1, <1>5 DEF ProcInv, Control, SyncPrune, MainSees
    <2>2. peers' = PruneRows(peers, NamesOf(conf.blocks)) /\ Step(Main, "main.list", NoLoc)
      BY <1>5, <2>1 DEF SyncPrune
    <2>3. \A b \in conf.blocks : peers'[b.name] = peers[b.name]
      BY <1>1, <2>2 DEF PruneRows, NamesOf, StoreInv, StoreTypes, Config, Block
    <2>4. RowKeys'
      BY <2>1, <2>3 DEF RowKeys, Stopped
    <2> QED BY <1>1, <2>2, <2>4, StepAlone DEF ProcInv, MainSees
  <1>6. CASE MainCall(Main)
    <2>1. RowKeys /\ UNCHANGED <<conf, peers>>
      BY <1>6 DEF MainCall, MainList, MainApply, MainSees, world
    <2>2. RowKeys'
      BY <2>1 DEF RowKeys, Stopped
    <2>3. (\E a : Answer(Main, a)) \/ (\E lo : Step(Main, "main.apply", lo))
      BY <1>6 DEF MainCall, MainList, MainApply
    <2>4. pc'[Main] \in {"idle", "done", "main.apply"}
      BY <1>1, <2>3, StepAlone, AnswerAlone DEF ProcInv
    <2> QED BY <2>2, <2>4 DEF MainSees
  <1> QED BY <1>2, <1>3, <1>4, <1>5, <1>6 DEF SyncCall

LEMMA MainSeesNext ==
  ASSUME IInv, SerialInv, MainAlone, MainSees, [Next]_vars, faults' = faults
  PROVE  MainSees'
  <1>1. ProcInv /\ StoreInv /\ EnvTypes /\ Main \in Procs /\ Main \notin Reqs
    BY Parts, ServiceAssumption DEF Procs
  <1>2. ASSUME NEW r \in Procs, Call(r) PROVE MainSees'
    <2>1. InFlight(r) /\ \A q \in Procs : q # r => pc'[q] = pc[q]
      BY <1>1, <1>2, MovesAlone
    <2>2. CASE r \in Reqs
      <3>1. pc'[Main] = "done"
        BY <1>1, <2>1, <2>2 DEF MainAlone
      <3> QED BY <3>1 DEF MainSees
    <2>3. CASE r = Main
      <3>1. pc[Main] \in SyncCalls \cup MainCalls
        BY <1>1, <2>1, <2>3, CallsOfMain DEF InFlight
      <3>2. SyncCall(Main) \/ MainCall(Main)
        BY <1>2, <2>3, <3>1 DEF Call, SyncCalls, MainCalls,
             CreateCall, CreateParse, CreateAppend, CreateDev, CreateUpsert, CreateAudit, CreateSave,
             RemoveCall, RemoveRead, RemoveTruncate, RemoveWrite,
             RevokeCall, RevokeParse, RevokeGet, RevokeDev, RevokeDelete, RevokeFile,
             SwitchCall, SwitchFind, SwitchGet, SwitchDev, SwitchSet,
             LimitCall, LimitGet, LimitSet,
             ConfigCall, ConfigGet, ConfigLoad, ConfigUpsert, ConfigSave, ConfigFind, LastAudit
      <3> QED BY <3>2, MainCallSees
    <2> QED BY <2>2, <2>3 DEF Procs
  <1>3. ASSUME NEW r \in Procs, CallFails(r) PROVE MainSees'
    BY <1>1, <1>3 DEF CallFails, EnvTypes
  <1>4. ASSUME NEW r \in Procs, Arrive(r) PROVE MainSees'
    <2>1. up /\ r # Main /\ pc'[Main] = pc[Main]
      BY <1>1, <1>4 DEF Arrive, ProcInv, ProcTypes
    <2> QED BY <2>1 DEF MainAlone, MainSees
  <1>5. CASE Crash
    BY <1>1, <1>5 DEF Crash, MainSees
  <1>6. CASE QuickRestart \/ Rest \/ UNCHANGED vars
    <2>1. UNCHANGED <<conf, peers, pc, loc>>
      BY <1>6 DEF QuickRestart, Rest, vars, procs
    <2> QED BY <2>1 DEF MainSees, RowKeys, Stopped
  <1> QED BY <1>2, <1>3, <1>4, <1>5, <1>6 DEF Next

-----------------------------------------------------------------------------
(* Who is stopped after a call.                                              *)

\* The UNIQUE constraint is no obstacle to a Create.
LEMMA NewKeyIsFree ==
  ASSUME ProcInv, StoreInv, ~spliced, ConfigsComplete, NEW r \in Procs, pc[r] = "create.upsert"
  PROVE  ~KeyTaken(peers, Name(r), loc[r].key)
  <1> SUFFICES ASSUME NEW m \in Present(peers) \ {Name(r)}, peers[m].key = loc[r].key
               PROVE  FALSE
    BY DEF KeyTaken
  <1>1. loc[r].key # NoKey /\ Own(Name(r), loc[r].key)
    BY HasHeld DEF ConfigsComplete, HandComplete, Held
  <1>2. Own(m, loc[r].key)
    BY DEF StoreInv, KeysKeepTheirName
  <1> QED BY <1>1, <1>2 DEF StoreInv, IssuedOnce, Own, Bound

\* A call other than the last of a Stop stops nobody, and the last of a change that
\* lets a client in writes it into the row.
LEMMA NobodyStopped ==
  ASSUME ProcInv, StoreInv, ~spliced, ConfigsComplete, NEW r \in Procs, Call(r),
         SwitchSet(r) => Op(r) = "start", NEW n \in Names, Stopped(n)'
  PROVE  Stopped(n) /\ ((CreateUpsert(r) \/ SwitchSet(r)) => n # Name(r))
  <1>1. peers \in Table /\ (peers[n] # NoRow => peers[n] \in Row)
    BY DEF StoreInv, StoreTypes, Table
  <1>2. CASE SyncImport(r) \/ SyncPrune(r)
    <2>1. pc[r] # "create.upsert" /\ pc[r] # "switch.set"
      BY <1>2 DEF SyncImport, SyncPrune
    <2>2. Stopped(n)
      <3>1. CASE peers'[n] = peers[n] \/ peers'[n] = NoRow
        BY <3>1 DEF Stopped
      <3>2. ASSUME NEW k, NEW c, peers'[n] = ImportRow(peers[n], k, c) PROVE Stopped(n)
        BY <1>1, <3>2 DEF ImportRow, Stopped, Row
      <3> QED BY <1>2, <3>1, <3>2 DEF SyncImport, SyncPrune, ImportRows, PruneRows
    <2> QED BY <2>1, <2>2 DEF CreateUpsert, SwitchSet
  <1>3. CASE CreateUpsert(r)
    <2>1. ~KeyTaken(peers, Name(r), loc[r].key) /\ pc[r] = "create.upsert"
      BY <1>3, NewKeyIsFree DEF CreateUpsert
    <2> DEFINE new == [key |-> loc[r].key, enabled |-> TRUE, cfg |-> NewCfg(r), limit |-> 0]
    <2>2. peers' = UpsertRow(peers, Name(r), new)
      BY <1>3, <2>1 DEF CreateUpsert
    <2>3. CASE n = Name(r)
      <3>1. peers'[n].enabled
        BY <1>1, <2>2, <2>3 DEF UpsertRow, Table
      <3> QED BY <3>1 DEF Stopped
    <2>4. CASE n # Name(r)
      BY <1>1, <2>2, <2>4 DEF UpsertRow, Table, Stopped
    <2> QED BY <2>3, <2>4
  <1>4. CASE SwitchSet(r)
    <2>1. Op(r) = "start"
      BY <1>4
    <2>2. CASE peers[Name(r)] = NoRow
      <3>1. peers' = peers
        BY <1>4, <2>2 DEF SwitchSet
      <3> QED BY <2>2, <3>1 DEF Stopped
    <2>3. CASE peers[Name(r)] # NoRow
      <3>1. peers' = SetEnabled(peers, Name(r), TRUE)
        BY <1>4, <2>1, <2>3 DEF SwitchSet
      <3> QED BY <1>1, <3>1 DEF SetEnabled, Stopped, Table, Row
    <2> QED BY <2>2, <2>3
  <1>5. CASE ConfigUpsert(r)
    <2> DEFINE new == [key |-> NoKey, enabled |-> TRUE, cfg |-> loc[r].cfg, limit |-> 0]
    <2>1. loc[r].rec = NoRow /\ pc[r] = "config.upsert"
      BY <1>5 DEF ConfigUpsert, ConfigsComplete, HandComplete
    <2>2. peers' = peers \/ peers' = UpsertRow(peers, Name(r), new)
      BY <1>5, <2>1 DEF ConfigUpsert
    <2>3. Stopped(n)
      BY <1>1, <2>2 DEF UpsertRow, Table, Stopped
    <2> QED BY <2>1, <2>3 DEF CreateUpsert, SwitchSet
  <1>6. CASE LimitSet(r) \/ RevokeDelete(r)
    <2>1. Stopped(n)
      <3>1. CASE peers'[n] = peers[n] \/ peers'[n] = NoRow
        BY <3>1 DEF Stopped
      <3>2. CASE n = Name(r) /\ \E l : peers' = SetLimit(peers, n, l) /\ peers[n] # NoRow
        BY <1>1, <3>2 DEF SetLimit, Stopped, Table, Row
      <3>3. CASE n # Name(r)
        <4>1. peers'[n] = peers[n]
          BY <1>1, <1>6, <3>3 DEF LimitSet, RevokeDelete, SetLimit, DeleteRow, Table
        <4> QED BY <3>1, <4>1
      <3>4. CASE n = Name(r) /\ RevokeDelete(r)
        <4>1. peers'[n] = NoRow
          BY <1>1, <3>4 DEF RevokeDelete, DeleteRow, Table
        <4> QED BY <3>1, <4>1
      <3>5. CASE n = Name(r) /\ LimitSet(r)
        BY <3>1, <3>2, <3>5 DEF LimitSet
      <3> QED BY <1>6, <3>3, <3>4, <3>5
    <2> QED BY <1>6, <2>1 DEF LimitSet, RevokeDelete, CreateUpsert, SwitchSet
  <1>7. CASE peers' = peers /\ ~CreateUpsert(r) /\ ~SwitchSet(r)
    BY <1>7 DEF Stopped
  <1>8. \/ SyncImport(r) \/ SyncPrune(r) \/ CreateUpsert(r) \/ SwitchSet(r) \/ ConfigUpsert(r)
        \/ LimitSet(r) \/ RevokeDelete(r) \/ peers' = peers
    BY DEF Call, SyncCall, SyncParse, SyncLoad, MainCall, MainList, MainApply,
           CreateCall, CreateParse, CreateAppend, CreateDev, CreateAudit, CreateSave,
           RemoveCall, RemoveRead, RemoveTruncate, RemoveWrite,
           RevokeCall, RevokeParse, RevokeGet, RevokeDev, RevokeFile,
           SwitchCall, SwitchFind, SwitchGet, SwitchDev, LimitCall, LimitGet,
           ConfigCall, ConfigGet, ConfigLoad, ConfigSave, ConfigFind, LastAudit, world
  <1> QED BY <1>2, <1>3, <1>4, <1>5, <1>6, <1>7, <1>8

-----------------------------------------------------------------------------
(* Stopped clients stay off the interface.                                   *)

\* Where a change is that has let a client in or taken one off, or that has the
\* file in hand.
Doing == {"create.upsert", "switch.set", "remove.write"}

LEMMA DoingWrites ==
  ASSUME ProcInv, NEW r \in Reqs, pc[r] \in Doing
  PROVE  Writing(r)
  <1>1. Fits(Op(r), pc[r])
    BY DEF ProcInv, Control, Procs
  <1> QED BY <1>1 DEF Fits, Doing, CreateCalls, SwitchCalls, RemoveCalls, Writing, InFlight, Mutators

\* A call of a request that puts nothing on the interface and nothing into the file.
LEMMA CalmOff ==
  ASSUME ProcInv, StoreInv, StoppedOff, NEW r \in Reqs, Alone(r), conf' = conf,
         LiveKeys(dev') \subseteq LiveKeys(dev),
         \A n \in Names : Stopped(n)' => Stopped(n) /\ (Admitting(r) => n # Name(r)),
         pc'[r] # "remove.write", TakenOff(r)'
  PROVE  StoppedOff'
  <1>1. ASSUME NEW q \in Reqs, q # r
        PROVE  pc'[q] = pc[q] /\ loc'[q] = loc[q] /\ Op(q)' = Op(q) /\ Name(q)' = Name(q)
    BY <1>1 DEF Alone, Op, Name, Procs
  <1>2. ASSUME NEW n \in Names, Stopped(n)', ~Admitted(n)' PROVE Stopped(n) /\ ~Admitted(n)
    BY <1>1, <1>2 DEF Admitted, Admitting
  <1>3. ASSUME NEW blocks \in SUBSET Block, Off(blocks)
        PROVE  \A b \in blocks : Stopped(b.name)' /\ ~Admitted(b.name)' => b.key \notin LiveKeys(dev')
    BY <1>2, <1>3 DEF Off, Block
  <1>4. Off(conf.blocks)'
    BY <1>3 DEF Off, StoppedOff, StoreInv, StoreTypes, Config
  <1>5. ASSUME NEW q \in Reqs, q # r PROVE TakenOff(q)' /\ (pc'[q] = "remove.write" => Off(loc[q].view)')
    <2>1. loc[q].view \in SUBSET Block
      BY HasHeld DEF Locals, Procs
    <2>2. TakenOff(q) /\ (pc[q] = "remove.write" => Off(loc[q].view))
      BY DEF StoppedOff
    <2>3. TakenOff(q)'
      BY <1>1, <1>5, <2>2 DEF TakenOff
    <2>4. ASSUME pc'[q] = "remove.write" PROVE Off(loc[q].view)'
      BY <1>1, <1>3, <1>5, <2>1, <2>2, <2>4 DEF Off
    <2> QED BY <2>3, <2>4
  <1> QED BY <1>4, <1>5 DEF StoppedOff

\* A step of the change under way: the others are not at a call that matters.
LEMMA WriterOff ==
  ASSUME ProcInv, OneWriter, NEW r \in Reqs, Writing(r), Alone(r),
         Off(conf.blocks)', TakenOff(r)', pc'[r] = "remove.write" => Off(loc[r].view)'
  PROVE  StoppedOff'
  <1>1. ASSUME NEW q \in Reqs, q # r PROVE pc'[q] \notin Doing
    <2>1. pc[q] \notin Doing
      BY <1>1, DoingWrites DEF OneWriter
    <2> QED BY <1>1, <2>1 DEF Alone, Procs
  <1> QED BY <1>1 DEF StoppedOff, TakenOff, Doing

\* Nobody but the change under way is letting a client in.
LEMMA NobodyElse ==
  ASSUME ProcInv, OneWriter, NEW r \in Reqs, Writing(r), NEW n, Admitted(n)
  PROVE  Name(r) = n /\ Admitting(r)
  <1>1. PICK q \in Reqs : Name(q) = n /\ Admitting(q)
    BY DEF Admitted
  <1>2. pc[q] \in Doing
    BY <1>1 DEF Admitting, Doing
  <1> QED BY <1>1, <1>2, DoingWrites DEF OneWriter

LEMMA AppendOff ==
  ASSUME ProcInv, StoreInv, SerialInv, StoppedOff, NEW r \in Reqs, CreateAppend(r)
  PROVE  StoppedOff'
  <1> DEFINE new == [name |-> Name(r), key |-> nextKey, ip |-> loc[r].ip]
             lo  == [loc[r] EXCEPT !.key = nextKey]
  <1>1. /\ pc[r] = "create.append" /\ conf' = AppendPeer(conf, new)
        /\ UNCHANGED <<dev, peers>> /\ Step(r, "create.dev", lo)
    BY DEF CreateAppend
  <1>2. r \in Procs /\ Writing(r) /\ OneWriter
    BY <1>1, KnowingCalls DEF Knowing, SerialInv, Procs
  <1>3. conf'.blocks = conf.blocks \cup {new}
    BY <1>1 DEF AppendPeer, StoreInv, StoreTypes, Config
  <1>4. new.key \notin LiveKeys(dev)
    <2>1. nextKey \in Nat
      BY DEF StoreInv, StoreTypes
    <2> QED BY <2>1 DEF SerialInv, KeysPast, LiveKeys
  <1>5. Alone(r) /\ pc'[r] = "create.dev"
    BY <1>1, <1>2, StepAlone DEF ProcInv
  <1>6. \A n : ~Admitted(n)
    BY <1>1, <1>2, NobodyElse DEF Admitting
  <1> HIDE DEF new
  <1>7. Off(conf.blocks)'
    BY <1>1, <1>3, <1>4, <1>6 DEF Off, StoppedOff, Stopped
  <1> QED BY <1>2, <1>5, <1>7, WriterOff DEF TakenOff

\* A client that is let in is marked as admitted until its row says so.
LEMMA AddOff ==
  ASSUME ProcInv, StoreInv, SerialInv, StoppedOff, NEW r \in Reqs, Writing(r), ~Admitting(r),
         Alone(r), UNCHANGED <<conf, peers>>, Admitting(r)', pc'[r] # "remove.write",
         NEW c \in conf.blocks, c.name = Name(r), dev' = DevAdd(dev, c.key, c.ip)
  PROVE  StoppedOff'
  <1>1. \A n : ~Admitted(n)
    BY NobodyElse DEF SerialInv
  <1>2. Admitted(Name(r))' /\ TakenOff(r)'
    BY DEF Admitted, Admitting, TakenOff, Alone, Name
  <1>3. ASSUME NEW b \in conf.blocks, Stopped(b.name)', ~Admitted(b.name)'
        PROVE  b.key \notin LiveKeys(dev')
    <2>1. b.name # Name(r)
      BY <1>2, <1>3 DEF Alone, Name
    <2>2. b.key # c.key
      BY <2>1 DEF SerialInv, Sound, Distinct
    <2>3. b.key \notin LiveKeys(dev)
      BY <1>1, <1>3 DEF StoppedOff, Off, Stopped
    <2> QED BY <2>2, <2>3, AddedKey
  <1>4. Off(conf.blocks)'
    BY <1>3 DEF Off
  <1> QED BY <1>2, <1>4, WriterOff DEF SerialInv

LEMMA CreateDevOff ==
  ASSUME ProcInv, StoreInv, SerialInv, StoppedOff, NEW r \in Reqs, CreateDev(r)
  PROVE  StoppedOff'
  <1> DEFINE c == [name |-> Name(r), key |-> loc[r].key, ip |-> loc[r].ip]
  <1>1. /\ pc[r] = "create.dev" /\ dev' = DevAdd(dev, c.key, c.ip)
        /\ UNCHANGED <<conf, peers>> /\ Goto(r, "create.upsert")
    BY DEF CreateDev
  <1>2. r \in Procs /\ Writing(r) /\ WriterKnows(r)
    BY <1>1, KnowingCalls DEF Knowing, SerialInv, Procs
  <1>3. c \in conf.blocks /\ c.name = Name(r)
    BY <1>1, <1>2 DEF WriterKnows, Knows
  <1>4. Alone(r) /\ pc'[r] = "create.upsert"
    BY <1>1, <1>2, StepAlone DEF ProcInv, Goto
  <1> HIDE DEF c
  <1> QED BY <1>1, <1>2, <1>3, <1>4, AddOff DEF Admitting

\* The key that Stop or Start has in hand is the key of the client's block.
LEMMA OwnBlock ==
  ASSUME ProcInv, StoreInv, SerialInv, NEW r \in Reqs, pc[r] = "switch.dev"
  PROVE  \E c \in conf.blocks : c.name = Name(r) /\ c.key = loc[r].key /\ c.ip = loc[r].ip
  <1>1. PICK c \in conf.blocks : c.key = loc[r].key /\ c.ip = loc[r].ip
    BY DEF SerialInv, WriterKnows, Knows
  <1>2. Own(Name(r), c.key)
    BY <1>1, HasHeld DEF Held, Procs
  <1>3. c.key \notin KeysOf({b \in conf.blocks : b.name # Name(r)})
    BY <1>2, KeyOfName DEF StoreInv, KeysKeepTheirName, SerialInv, KeysPast
  <1> QED BY <1>1, <1>3 DEF KeysOf

LEMMA SwitchDevOff ==
  ASSUME ProcInv, StoreInv, SerialInv, StoppedOff, NEW r \in Reqs, SwitchDev(r)
  PROVE  StoppedOff'
  <1>1. /\ pc[r] = "switch.dev" /\ UNCHANGED <<conf, peers>> /\ Goto(r, "switch.set")
        /\ dev' = IF Op(r) = "stop" THEN DevRemove(dev, loc[r].key)
                                    ELSE DevAdd(dev, loc[r].key, loc[r].ip)
    BY DEF SwitchDev
  <1>2. r \in Procs /\ Writing(r) /\ Op(r) \in {"stop", "start"}
    <2>1. r \in Procs /\ Fits(Op(r), pc[r])
      BY DEF ProcInv, Control, Procs
    <2> QED BY <1>1, <2>1, KnowingCalls DEF Knowing, Fits, SwitchCalls
  <1>3. Alone(r) /\ pc'[r] = "switch.set" /\ Op(r)' = Op(r) /\ Name(r)' = Name(r)
    BY <1>1, <1>2, StepAlone DEF ProcInv, Goto, Alone, Op, Name
  <1>4. PICK c \in conf.blocks : c.name = Name(r) /\ c.key = loc[r].key /\ c.ip = loc[r].ip
    BY <1>1, OwnBlock
  <1>5. CASE Op(r) = "start"
    BY <1>1, <1>2, <1>3, <1>4, <1>5, AddOff DEF Admitting
  <1>6. CASE Op(r) = "stop"
    <2>1. dev' \subseteq dev /\ c.key \notin LiveKeys(dev')
      BY <1>1, <1>4, <1>6, RemovedIsLess
    <2>2. TakenOff(r)'
      BY <1>1, <1>3, <1>4, <2>1 DEF TakenOff, SerialInv, Sound, Distinct
    <2> QED BY <1>1, <1>2, <1>3, <2>1, <2>2, CalmOff DEF LiveKeys, Stopped, Admitting
  <1> QED BY <1>2, <1>5, <1>6

LEMMA SwitchSetOff ==
  ASSUME ProcInv, StoreInv, SerialInv, ConfigsComplete, StoppedOff, NEW r \in Reqs, SwitchSet(r)
  PROVE  StoppedOff'
  <1>1. /\ r \in Procs /\ pc[r] = "switch.set" /\ UNCHANGED <<conf, dev>>
        /\ (\E a : Answer(r, a)) \/ (\E lo : Step(r, "switch.audit", lo))
    BY DEF SwitchSet, Procs, Goto
  <1>2. Alone(r) /\ pc'[r] \in {"idle", "done", "switch.audit"}
    BY <1>1, StepAlone, AnswerAlone DEF ProcInv
  <1>3. Op(r) \in {"stop", "start"} /\ Writing(r)
    <2>1. Fits(Op(r), pc[r])
      BY <1>1 DEF ProcInv, Control
    <2> QED BY <1>1, <2>1, DoingWrites DEF Fits, SwitchCalls, Doing
  <1>4. CASE Op(r) = "start"
    <2>1. \A n \in Names : Stopped(n)' => Stopped(n) /\ (Admitting(r) => n # Name(r))
      BY <1>1, <1>4, NobodyStopped DEF Call, SwitchCall, SerialInv, KeysPast
    <2> QED BY <1>1, <1>2, <2>1, CalmOff DEF TakenOff
  <1>5. CASE Op(r) = "stop"
    <2>1. \A n : ~Admitted(n)
      BY <1>3, <1>1, <1>5, NobodyElse DEF SerialInv, Admitting
    <2>2. TakenOff(r)
      BY DEF StoppedOff
    <2>3. \A n \in Names : n # Name(r) /\ Stopped(n)' => Stopped(n)
      BY DEF SwitchSet, SetEnabled, Stopped, StoreInv, StoreTypes, Table
    <2>4. ASSUME NEW b \in conf.blocks, Stopped(b.name)' PROVE b.key \notin LiveKeys(dev)
      <3>1. CASE b.name = Name(r)
        BY <1>1, <1>5, <2>2, <3>1 DEF TakenOff
      <3>2. CASE b.name # Name(r)
        <4>1. b.name \in Names
          BY DEF StoreInv, StoreTypes, Config, Block
        <4> QED BY <2>1, <2>3, <2>4, <3>2, <4>1 DEF StoppedOff, Off
      <3> QED BY <3>1, <3>2
    <2>5. Off(conf.blocks)'
      BY <1>1, <2>4 DEF Off
    <2> QED BY <1>2, <1>3, <2>5, WriterOff DEF SerialInv, TakenOff
  <1> QED BY <1>3, <1>4, <1>5

LEMMA TruncateOff ==
  ASSUME ProcInv, StoreInv, SerialInv, StoppedOff, NEW r \in Reqs, RemoveTruncate(r)
  PROVE  StoppedOff'
  <1>1. /\ pc[r] = "remove.truncate" /\ conf' = Truncated /\ UNCHANGED <<dev, peers>>
        /\ Goto(r, "remove.write")
    BY DEF RemoveTruncate
  <1>2. r \in Procs /\ Writing(r) /\ WriterKnows(r)
    BY <1>1, KnowingCalls DEF Knowing, SerialInv, Procs
  <1>3. loc[r].view = conf.blocks
    BY <1>1, <1>2 DEF WriterKnows, Knows
  <1>4. Alone(r) /\ pc'[r] = "remove.write" /\ loc'[r] = loc[r]
    BY <1>1, <1>2, StepAlone DEF ProcInv, Goto
  <1>5. \A n : ~Admitted(n)
    BY <1>1, <1>2, NobodyElse DEF SerialInv, Admitting
  <1>6. Off(conf.blocks)'
    BY <1>1 DEF Off, Truncated
  <1>7. Off(loc[r].view)'
    BY <1>1, <1>3, <1>4, <1>5 DEF Off, StoppedOff, Stopped
  <1> QED BY <1>2, <1>4, <1>6, <1>7, WriterOff DEF SerialInv, TakenOff

LEMMA WriteOff ==
  ASSUME ProcInv, StoreInv, SerialInv, StoppedOff, NEW r \in Reqs, RemoveWrite(r)
  PROVE  StoppedOff'
  <1>0. conf' = Pending(r)
    BY WriteIsWhole DEF Procs
  <1>1. /\ pc[r] = "remove.write" /\ UNCHANGED <<dev, peers>> /\ AfterRemove(r)
        /\ conf'.blocks \subseteq loc[r].view
    BY <1>0 DEF RemoveWrite, Pending, WithoutPeer
  <1>2. r \in Procs /\ Writing(r)
    BY <1>1, KnowingCalls DEF Knowing, Procs
  <1>3. Alone(r) /\ pc'[r] \in {"idle", "done", "revoke.dev"}
    BY <1>1, <1>2, StepAlone, AnswerAlone DEF ProcInv, AfterRemove
  <1>4. \A n : ~Admitted(n)
    BY <1>1, <1>2, NobodyElse DEF SerialInv, Admitting
  <1>5. Off(conf.blocks)'
    BY <1>1, <1>4 DEF Off, StoppedOff, Stopped
  <1> QED BY <1>2, <1>3, <1>5, WriterOff DEF SerialInv, TakenOff

\* All other calls are calm.
LEMMA OtherCallsOff ==
  ASSUME ProcInv, StoreInv, ~spliced, ConfigsComplete, StoppedOff, NEW r \in Reqs, Call(r),
         ~CreateAppend(r), ~CreateDev(r), ~RemoveTruncate(r), ~RemoveWrite(r),
         ~SwitchDev(r), ~SwitchSet(r)
  PROVE  StoppedOff'
  <1> DEFINE Onward == {"sync.load", "sync.import", "sync.prune", "main.list", "switch.find",
                        "main.apply", "create.append", "create.audit", "create.save",
                        "remove.truncate", "revoke.get", "remove.read", "revoke.dev",
                        "revoke.delete", "revoke.file", "revoke.audit", "switch.get", "switch.dev",
                        "limit.set", "limit.audit", "config.load", "config.upsert", "config.save",
                        "config.find"}
  <1>1. r \in Procs /\ Main \notin Reqs
    BY ServiceAssumption DEF Procs
  <1>2. conf' = conf /\ dev' \subseteq dev
    BY RemovedIsLess DEF Call, SyncCall, SyncParse, SyncLoad, SyncImport, SyncPrune,
           MainCall, MainList, MainApply, CreateCall, CreateParse, CreateUpsert, CreateAudit,
           CreateSave, RemoveCall, RemoveRead, RevokeCall, RevokeParse, RevokeGet, RevokeDev,
           RevokeDelete, RevokeFile, SwitchCall, SwitchFind, SwitchGet, LimitCall, LimitGet,
           LimitSet, ConfigCall, ConfigGet, ConfigLoad, ConfigUpsert, ConfigSave, ConfigFind,
           LastAudit, world
  <1>3. (\E a : Answer(r, a)) \/ \E l \in Onward : \E lo : Step(r, l, lo)
    <2>1. CASE SyncCall(r) \/ MainCall(r)
      BY <2>1 DEF SyncCall, SyncParse, SyncLoad, SyncImport, SyncPrune, Abort,
                  MainCall, MainList, MainApply
    <2>2. CASE CreateCall(r) \/ RemoveCall(r)
      BY <2>2 DEF CreateCall, CreateParse, CreateUpsert, CreateAudit, CreateSave, Goto,
                  RemoveCall, RemoveRead
    <2>3. CASE RevokeCall(r) \/ SwitchCall(r) \/ LastAudit(r)
      BY <2>3 DEF RevokeCall, RevokeParse, RevokeGet, RevokeDev, RevokeDelete, RevokeFile,
                  SwitchCall, SwitchFind, SwitchGet, LastAudit, Goto
    <2>4. CASE LimitCall(r) \/ ConfigCall(r)
      BY <2>4 DEF LimitCall, LimitGet, LimitSet, Goto,
                  ConfigCall, ConfigGet, ConfigLoad, ConfigUpsert, ConfigSave, ConfigFind, Ensured
    <2> QED BY <2>1, <2>2, <2>3, <2>4 DEF Call
  <1>4. Alone(r) /\ pc'[r] \in Onward \cup {"idle", "done"}
    BY <1>1, <1>3, StepAlone, AnswerAlone DEF ProcInv
  <1>5. Admitting(r) => CreateUpsert(r)
    <2>1. pc[r] = "create.upsert" => CreateUpsert(r)
      BY <1>1 DEF Call, SyncCall, SyncParse, SyncLoad, SyncImport, SyncPrune,
           MainCall, MainList, MainApply, CreateCall, CreateParse, CreateUpsert, CreateAudit,
           CreateSave, RemoveCall, RemoveRead, RevokeCall, RevokeParse, RevokeGet, RevokeDev,
           RevokeDelete, RevokeFile, SwitchCall, SwitchFind, SwitchGet, LimitCall, LimitGet,
           LimitSet, ConfigCall, ConfigGet, ConfigLoad, ConfigUpsert, ConfigSave, ConfigFind,
           LastAudit
    <2>2. pc[r] # "switch.set"
      BY <1>1 DEF Call, SyncCall, SyncParse, SyncLoad, SyncImport, SyncPrune,
           MainCall, MainList, MainApply, CreateCall, CreateParse, CreateUpsert, CreateAudit,
           CreateSave, RemoveCall, RemoveRead, RevokeCall, RevokeParse, RevokeGet, RevokeDev,
           RevokeDelete, RevokeFile, SwitchCall, SwitchFind, SwitchGet, LimitCall, LimitGet,
           LimitSet, ConfigCall, ConfigGet, ConfigLoad, ConfigUpsert, ConfigSave, ConfigFind,
           LastAudit
    <2> QED BY <2>1, <2>2 DEF Admitting
  <1>6. \A n \in Names : Stopped(n)' => Stopped(n) /\ (Admitting(r) => n # Name(r))
    BY <1>1, <1>5, NobodyStopped
  <1>7. pc'[r] # "remove.write" /\ TakenOff(r)'
    BY <1>4 DEF TakenOff
  <1>8. LiveKeys(dev') \subseteq LiveKeys(dev)
    BY <1>2 DEF LiveKeys
  <1> QED BY <1>2, <1>4, <1>6, <1>7, <1>8, CalmOff

\* The startup has taken off whom the table calls stopped, by the keys of the file.
LEMMA StartedOff ==
  ASSUME IInv, StartInv, MainSees, Call(Main), ~up, up', quickUps = 0
  PROVE  StoppedOff'
  <1>1. ProcInv /\ StoreInv /\ Main \in Procs /\ Main \notin Reqs
    BY Parts, ServiceAssumption DEF Procs
  <1>2. MainApply(Main)
    <2>1. Op(Main) = "main" /\ Fits(Op(Main), pc[Main])
      BY <1>1 DEF ProcInv, Control
    <2>2. SyncCall(Main) \/ MainCall(Main)
      BY <2>1 DEF Call, Fits, CreateCalls, RemoveCalls, RevokeCalls, SwitchCalls, LimitCalls,
             ConfigCalls,
             CreateCall, CreateParse, CreateAppend, CreateDev, CreateUpsert, CreateAudit, CreateSave,
             RemoveCall, RemoveRead, RemoveTruncate, RemoveWrite,
             RevokeCall, RevokeParse, RevokeGet, RevokeDev, RevokeDelete, RevokeFile,
             SwitchCall, SwitchFind, SwitchGet, SwitchDev, SwitchSet,
             LimitCall, LimitGet, LimitSet,
             ConfigCall, ConfigGet, ConfigLoad, ConfigUpsert, ConfigSave, ConfigFind, LastAudit
    <2>3. ASSUME NEW l, NEW lo, Step(Main, l, lo) PROVE FALSE
      BY <2>3 DEF Step
    <2>4. ~SyncCall(Main) /\ ~MainList(Main)
      BY <2>1, <2>3 DEF SyncCall, SyncParse, SyncLoad, SyncImport, SyncPrune, MainList, Abort
    <2> QED BY <2>2, <2>4 DEF MainCall
  <1>3. loc[Main].todo = {} /\ dev' = dev /\ UNCHANGED <<conf, peers>> /\ pc[Main] = "main.apply"
    BY <1>2 DEF MainApply, Step
  <1>4. ASSUME NEW b \in conf.blocks, Stopped(b.name) PROVE b.key \notin LiveKeys(dev)
    <2>1. peers[b.name].key = b.key
      BY <1>3, <1>4 DEF MainSees, RowKeys
    <2>2. b.name \in Present(peers)
      BY <1>1, <1>4 DEF Stopped, Present, StoreInv, StoreTypes, Config, Block
    <2> QED BY <1>3, <1>4, <2>1, <2>2 DEF StartInv, StoppedListed, Stopped
  <1>5. Off(conf.blocks)'
    BY <1>3, <1>4 DEF Off, Stopped
  <1>6. ASSUME NEW q \in Reqs PROVE pc'[q] \in {"idle", "done"}
    <2>1. pc[q] \in {"idle", "done"}
      BY <1>1, <1>3, <1>6 DEF StartInv, MainAlone, InFlight
    <2>2. pc'[q] = pc[q]
      BY <1>1, MovesAlone DEF Procs
    <2> QED BY <2>1, <2>2
  <1> QED BY <1>5, <1>6 DEF StoppedOff, TakenOff

LEMMA OffNext ==
  ASSUME IInv, SerialInv, StartInv, ConfigsComplete, MainSees, up => StoppedOff, [Next]_vars,
         faults' = faults, quickUps' = quickUps, quickUps = 0, up'
  PROVE  StoppedOff'
  <1>1. ProcInv /\ StoreInv /\ EnvTypes /\ MainAlone /\ Main \notin Reqs /\ Main \in Procs
    BY Parts, ServiceAssumption DEF StartInv, Procs
  <1>2. ASSUME NEW r \in Procs, Call(r) PROVE StoppedOff'
    <2>1. InFlight(r) /\ \A q \in Procs : q # r => pc'[q] = pc[q]
      BY <1>1, <1>2, MovesAlone
    <2>2. CASE r \in Reqs
      <3>1. pc[Main] = "done"
        BY <2>1, <2>2 DEF StartInv, MainAlone
      <3>2. up
        <4>1. ASSUME NEW a, Answer(r, a) PROVE up
          BY <1>1, <2>2, <4>1 DEF Answer
        <4>2. ASSUME NEW l, NEW lo, Step(r, l, lo) PROVE up
          BY <4>2 DEF Step
        <4>3. (\E a : Answer(r, a)) \/ \E l, lo : Step(r, l, lo)
          BY <1>1, <1>2, CallMoves
        <4> QED BY <4>1, <4>2, <4>3
      <3>3. ~spliced
        BY DEF SerialInv, KeysPast, StartInv
      <3> QED BY <1>1, <1>2, <2>2, <3>2, <3>3, AppendOff, CreateDevOff, TruncateOff, WriteOff,
                 SwitchDevOff, SwitchSetOff, OtherCallsOff
    <2>3. CASE r = Main
      <3>1. ~up
        BY <2>1, <2>3 DEF StartInv, MainAlone, InFlight
      <3> QED BY <1>2, <2>3, <3>1, StartedOff
    <2> QED BY <2>2, <2>3 DEF Procs
  <1>3. ASSUME NEW r \in Procs, CallFails(r) PROVE StoppedOff'
    BY <1>1, <1>3 DEF CallFails, EnvTypes
  <1>4. ASSUME NEW r \in Procs, Arrive(r) PROVE StoppedOff'
    <2>1. /\ up /\ r \in Reqs /\ pc[r] = "idle" /\ UNCHANGED <<conf, dev, peers, loc>>
          /\ \A q \in Procs : q # r => pc'[q] = pc[q] /\ Name(q)' = Name(q) /\ Op(q)' = Op(q)
      BY <1>1, <1>4 DEF Arrive, ProcInv, ProcTypes, Name, Op, world
    <2>2. pc'[r] \notin Doing
      <3>1. PICK op \in AllOps : pc' = [pc EXCEPT ![r] = FirstCall[op]]
        BY <1>4, ServiceAssumption DEF Arrive, AllOps
      <3>2. FirstCall[op] \notin Doing
        BY <3>1 DEF FirstCall, AllOps, Doing
      <3> QED BY <1>1, <3>1, <3>2 DEF ProcInv, ProcTypes
    <2>3. \A n : Admitted(n) => Admitted(n)'
      BY <2>1 DEF Admitted, Admitting, Procs
    <2>4. Off(conf.blocks)'
      BY <2>1, <2>3 DEF Off, StoppedOff, Stopped
    <2>5. ASSUME NEW q \in Reqs PROVE TakenOff(q)' /\ (pc'[q] = "remove.write" => Off(loc[q].view)')
      <3>1. CASE q = r
        BY <2>2, <3>1 DEF TakenOff, Doing
      <3>2. CASE q # r
        BY <2>1, <2>3, <3>2 DEF StoppedOff, TakenOff, Off, Stopped, Procs
      <3> QED BY <3>1, <3>2
    <2> QED BY <2>4, <2>5 DEF StoppedOff
  <1>5. CASE Crash
    BY <1>5 DEF Crash
  <1>6. CASE QuickRestart
    BY <1>1, <1>6 DEF QuickRestart, EnvTypes
  <1>7. CASE Rest \/ UNCHANGED vars
    <2>1. UNCHANGED <<conf, dev, peers, pc, req, loc, up>>
      BY <1>7 DEF Rest, vars
    <2> QED BY <2>1 DEF StoppedOff, TakenOff, Off, Stopped, Admitted, Admitting, Name, Op
  <1> QED BY <1>2, <1>3, <1>4, <1>5, <1>6, <1>7 DEF Next

LEMMA StoppedNext ==
  ASSUME IInv, SerialInv, StartInv, StoppedInv, [Next]_vars
  PROVE  StoppedInv'
  <1> SUFFICES ASSUME faults' = 0
               PROVE  (ConfigsComplete /\ MainSees /\ (quickUps = 0 /\ up => StoppedOff))'
    BY DEF StoppedInv
  <1>1. EnvTypes
    BY Parts
  <1>2. faults' = faults
    <2>1. CASE \E r \in Procs : Call(r)
      BY <2>1, CallLeavesEnv DEF env
    <2>2. CASE \E r \in Procs : Arrive(r) \/ CallFails(r)
      BY <1>1, <2>2 DEF Arrive, CallFails, env, EnvTypes
    <2>3. CASE Crash \/ QuickRestart \/ Rest \/ UNCHANGED vars
      BY <2>3 DEF Crash, QuickRestart, Rest, vars
    <2> QED BY <2>1, <2>2, <2>3 DEF Next
  <1>3. quickUps' = 0 => quickUps = 0
    <2>1. CASE \E r \in Procs : Call(r)
      BY <2>1, CallLeavesEnv DEF env
    <2>2. CASE \E r \in Procs : Arrive(r) \/ CallFails(r)
      BY <2>2 DEF Arrive, CallFails, env
    <2>3. CASE Crash \/ QuickRestart \/ Rest \/ UNCHANGED vars
      BY <1>1, <2>3 DEF Crash, QuickRestart, Rest, vars, EnvTypes
    <2> QED BY <2>1, <2>2, <2>3 DEF Next
  <1>4. ConfigsComplete /\ MainSees /\ (quickUps = 0 /\ up => StoppedOff)
    BY <1>2 DEF StoppedInv
  <1>5. ConfigsComplete'
    BY <1>2, <1>4, CompleteNext DEF StartInv
  <1>6. MainSees'
    BY <1>2, <1>4, MainSeesNext DEF StartInv
  <1>7. ASSUME quickUps' = 0, up' PROVE StoppedOff'
    BY <1>2, <1>3, <1>4, <1>7, OffNext
  <1> QED BY <1>5, <1>6, <1>7

LEMMA StoppedInit == "legacy" \notin Standings /\ Init => StoppedInv
  <1> SUFFICES ASSUME "legacy" \notin Standings, Init PROVE ConfigsComplete /\ MainSees /\ ~up
    BY DEF StoppedInv
  <1>1. PICK st \in [Names -> Standings], k \in [Names -> 0 .. FirstKey - 1] :
          /\ files = [n \in Names |-> FileOf(st[n], k[n])]
          /\ peers = [n \in Names |-> RowOf(st[n], k[n])]
    BY DEF Init
  <1>2. ASSUME NEW n \in Names PROVE Complete(peers[n], files[n])
    <2>1. st[n] \in {"absent", "enabled", "stopped", "imported"}
      <3>1. st[n] \in Standings
        BY <1>1
      <3> QED BY <3>1, ServiceAssumption
    <2>2. peers[n] = RowOf(st[n], k[n]) /\ files[n] = FileOf(st[n], k[n])
      BY <1>1
    <2>3. CASE st[n] \in {"absent", "imported"}
      BY <2>2, <2>3 DEF RowOf, Complete
    <2>4. CASE st[n] \in {"enabled", "stopped"}
      BY <2>2, <2>4 DEF RowOf, FileOf, Complete, Raw
    <2> QED BY <2>1, <2>3, <2>4
  <1>3. ~up /\ \A r \in Procs : pc[r] \in {"idle", "sync.parse"}
    BY DEF Init
  <1>4. ConfigsComplete
    BY <1>2, <1>3 DEF ConfigsComplete, HandComplete
  <1>5. MainSees
    BY <1>3, ServiceAssumption DEF MainSees, Procs
  <1> QED BY <1>3, <1>4, <1>5

\* A client the table calls stopped cannot connect, while changes wait for one
\* another, no call fails, wg-quick does not restart the interface, and no client
\* has a config from before the Jc lines: whatever lists and downloads interleave
\* with the changes, and wherever the process dies.
THEOREM StoppedStayDead ==
  ASSUME SerialWrites, "legacy" \notin Standings
  PROVE  Spec => []StoppedIsDead
  <1>1. Init => IInv /\ SerialInv /\ StartInv /\ StoppedInv
    BY InitInv, SerialInit, StartInit, StoppedInit
  <1>2. IInv /\ SerialInv /\ StartInv /\ StoppedInv /\ [Next]_vars =>
          (IInv /\ SerialInv /\ StartInv /\ StoppedInv)'
    BY NextKeeps, SerialNext, StartNext, StoppedNext
  <1>3. IInv /\ StoppedInv => StoppedIsDead
    <2> SUFFICES ASSUME IInv, StoppedInv, Quiet, faults = 0, quickUps = 0,
                        NEW b \in conf.blocks, peers[b.name] # NoRow, ~peers[b.name].enabled
                 PROVE  b.key \notin LiveKeys(dev)
      BY DEF StoppedIsDead
    <2>1. StoppedOff /\ ProcInv
      BY Parts DEF StoppedInv, Quiet
    <2>2. ~Admitted(b.name)
      <3> SUFFICES ASSUME NEW r \in Reqs, Admitting(r) PROVE FALSE
        BY DEF Admitted
      <3> QED BY <2>1, DoingWrites DEF Admitting, Doing, Quiet
    <2> QED BY <2>1, <2>2 DEF StoppedOff, Off, Stopped
  <1> QED BY <1>1, <1>2, <1>3, PTL DEF Spec
=============================================================================
