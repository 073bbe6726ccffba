------------------------- MODULE PeerRegistryProofs --------------------------
(***************************************************************************)
(* The peer service serves the registry of PeerRegistry, for any clients,  *)
(* requests, dashboards, failures, crashes and restarts of the interface,  *)
(* when changes wait for one another.  Each call maps to a step of the     *)
(* registry or to none; only a rewrite of the file that is cut off does    *)
(* not, and loses the clients.  The invariant is that of PeerSerialProofs. *)
(***************************************************************************)
EXTENDS PeerSerialProofs, PeerRefinement

\* A step of the registry, no step of it, or the loss of the file.
Served == [Registry!Next \/ FileLost]_(Registry!vars)

\* The clients left of a copy of the file when those of name n go.
Left(view, n) == view \ Named(view, n)

\* What the registered clients are, while at most one rewrite is under way.
RegisteredAre ==
  /\ (\A r \in Procs : pc[r] # "remove.write") => Registered = conf.blocks
  /\ \A r \in Procs : pc[r] = "remove.write" => Registered = Left(loc[r].view, Name(r))

-----------------------------------------------------------------------------
(* The registered clients.                                                   *)

LEMMA PendingLeft ==
  ASSUME NEW r
  PROVE  Pending(r).blocks = Left(loc[r].view, Name(r))
  BY DEF Pending, WithoutPeer, Left

LEMMA RegisteredNow == ProcInv /\ OneWriter => RegisteredAre
  <1> SUFFICES ASSUME ProcInv, OneWriter PROVE RegisteredAre
    OBVIOUS
  <1> DEFINE rewriting == {r \in Procs : pc[r] = "remove.write"}
  <1>1. Registered = IF rewriting = {} THEN conf.blocks
                     ELSE Pending(CHOOSE r \in rewriting : TRUE).blocks
    BY DEF Registered
  <1>2. CASE rewriting = {}
    BY <1>1, <1>2 DEF RegisteredAre
  <1>3. ASSUME NEW r \in Procs, pc[r] = "remove.write"
        PROVE  Registered = Left(loc[r].view, Name(r))
    <2>1. rewriting # {} /\ \A q \in rewriting : q = r
      <3>1. \A q \in rewriting : q \in Reqs /\ Writing(q)
        BY KnowingCalls DEF Knowing
      <3> QED BY <1>3, <3>1 DEF OneWriter
    <2>2. (CHOOSE q \in rewriting : TRUE) \in rewriting
      BY <2>1
    <2>3. (CHOOSE q \in rewriting : TRUE) = r
      BY <2>1, <2>2
    <2> QED BY <1>1, <2>1, <2>3, PendingLeft
  <1> QED BY <1>2, <1>3 DEF RegisteredAre

\* Request r leaves the file alone and is not in the middle of a rewrite.
LEMMA RegisteredStay ==
  ASSUME ProcTypes, RegisteredAre, RegisteredAre', NEW r \in Procs, OthersStay(r),
         pc[r] # "remove.write", pc'[r] # "remove.write", conf' = conf
  PROVE  Registered' = Registered
  <1>1. CASE \A q \in Procs : pc[q] # "remove.write"
    <2>1. \A q \in Procs : pc'[q] # "remove.write"
      BY <1>1 DEF OthersStay
    <2> QED BY <1>1, <2>1 DEF RegisteredAre
  <1>2. ASSUME NEW q \in Procs, pc[q] = "remove.write" PROVE Registered' = Registered
    <2>1. pc'[q] = "remove.write" /\ loc'[q] = loc[q] /\ Name(q)' = Name(q)
      BY <1>2 DEF OthersStay, Name
    <2> QED BY <1>2, <2>1 DEF RegisteredAre, Left, Named
  <1> QED BY <1>1, <1>2

\* While a change is at one of these calls no rewrite is under way.
LEMMA NoRewrite ==
  ASSUME ProcInv, OneWriter, NEW r \in Procs, pc[r] \in Knowing, pc[r] # "remove.write"
  PROVE  \A q \in Procs : pc[q] # "remove.write"
  BY KnowingCalls DEF OneWriter, Knowing

-----------------------------------------------------------------------------
(* Steps of the registry.                                                    *)

LEMMA NoStep ==
  ASSUME Registered' = Registered, LiveKeys(dev') = LiveKeys(dev), issued' = issued
  PROVE  Served
  BY DEF Served, Registry!vars

LEMMA DeviceStep ==
  ASSUME Registered' = Registered, issued' = issued, NEW k,
         \/ LiveKeys(dev') = LiveKeys(dev) \cup {k} /\ k \in KeysOf(Registered)
         \/ LiveKeys(dev') = LiveKeys(dev) \ {k}
  PROVE  Served
  <1>1. KeysOf(issued') = KeysOf(issued)
    OBVIOUS
  <1>2. CASE LiveKeys(dev') = LiveKeys(dev) \cup {k} /\ k \in KeysOf(Registered)
    <2>1. Registry!Grant
      BY <1>1, <1>2 DEF Registry!Grant, Registry!ClientKeys, KeysOf
    <2> QED BY <2>1 DEF Served, Registry!Next
  <1>3. CASE LiveKeys(dev') = LiveKeys(dev) \ {k} /\ k \in LiveKeys(dev)
    <2>1. Registry!Withdraw
      BY <1>1, <1>3 DEF Registry!Withdraw
    <2> QED BY <2>1 DEF Served, Registry!Next
  <1>4. CASE LiveKeys(dev') = LiveKeys(dev) \ {k} /\ k \notin LiveKeys(dev)
    BY <1>4, NoStep
  <1> QED BY <1>2, <1>3, <1>4

LEMMA ReadsServe ==
  ASSUME ProcInv, RegisteredAre, RegisteredAre', NEW r \in Procs, Reads(r)
  PROVE  Served
  <1>1. Registered' = Registered
    BY ReadersAlone, AloneStays, RegisteredStay DEF ProcInv, NoNewRewrite
  <1> QED BY <1>1, ReadersAlone, NoStep

\* Create appends the block: a client with a name and an address nobody has and a
\* key nobody had.
LEMMA AppendServes ==
  ASSUME ProcInv, StoreInv, SerialInv, RegisteredAre, RegisteredAre',
         NEW r \in Procs, CreateAppend(r)
  PROVE  Served
  <1> DEFINE new == [name |-> Name(r), key |-> nextKey, ip |-> loc[r].ip]
             own == [name |-> Name(r), key |-> nextKey]
  <1>1. /\ pc[r] = "create.append" /\ conf' = AppendPeer(conf, new) /\ UNCHANGED dev
        /\ issued' = issued \cup {own} /\ pc'[r] = "create.dev" /\ OthersStay(r)
    BY StepAlone, AloneStays DEF CreateAppend, ProcInv
  <1>2. \A q \in Procs : pc[q] # "remove.write"
    BY <1>1, NoRewrite DEF SerialInv, Knowing
  <1>3. \A q \in Procs : pc'[q] # "remove.write"
    BY <1>1, <1>2 DEF OthersStay
  <1>4. Registered = conf.blocks /\ Registered' = conf'.blocks
    BY <1>2, <1>3 DEF RegisteredAre
  <1>5. Registered' = Registered \cup {new}
    BY <1>1, <1>4 DEF AppendPeer, StoreInv, StoreTypes, Config
  <1>6. \A b \in Registered : b.name # new.name /\ b.ip # new.ip
    BY <1>1, <1>4, KnowingCalls DEF SerialInv, WriterKnows, Knows, Knowing
  <1>7. nextKey \notin KeysOf(issued)
    BY DEF StoreInv, StoreTypes, IssuedOnce, KeysOf
  <1>8. KeysOf(issued') = KeysOf(issued) \cup {nextKey}
    <2>1. own.key = nextKey
      OBVIOUS
    <2> HIDE DEF own
    <2> QED BY <1>1, <2>1 DEF KeysOf
  <1>9. new \in Registered' \ Registered
    BY <1>5, <1>6
  <1>10. new.key = nextKey
    OBVIOUS
  <1> HIDE DEF new
  <1>11. Registry!Register
    BY <1>1, <1>5, <1>6, <1>7, <1>8, <1>9, <1>10 DEF Registry!Register
  <1> QED BY <1>11 DEF Served, Registry!Next

\* What AddPeer and RemovePeer do to the keys that connect.
LEMMA AddedLives ==
  ASSUME NEW d, NEW k, NEW i
  PROVE  LiveKeys(DevAdd(d, k, i)) = LiveKeys(d) \cup {k}
  <1> DEFINE U(p) == [p EXCEPT !.ip = IF @ = i THEN NoIP ELSE @]
             new == [key |-> k, ip |-> i]
  <1>1. DevAdd(d, k, i) = {p \in {U(q) : q \in d} : p.key # k} \cup {new}
    BY DEF DevAdd, Unroute
  <1>2. \A p \in d : U(p).key = p.key
    OBVIOUS
  <1>3. new.key = k
    OBVIOUS
  <1> HIDE DEF U, new
  <1>4. LiveKeys(d) \cup {k} \subseteq LiveKeys(DevAdd(d, k, i))
    <2>1. ASSUME NEW p \in d, p.key # k PROVE p.key \in LiveKeys(DevAdd(d, k, i))
      <3>1. U(p) \in DevAdd(d, k, i) /\ U(p).key = p.key
        BY <1>1, <1>2, <2>1
      <3> QED BY <3>1 DEF LiveKeys
    <2>2. k \in LiveKeys(DevAdd(d, k, i))
      BY <1>1, <1>3 DEF LiveKeys
    <2> QED BY <2>1, <2>2 DEF LiveKeys
  <1> QED BY <1>4, AddedKey

LEMMA RemovedLives ==
  ASSUME NEW d, NEW k
  PROVE  LiveKeys(DevRemove(d, k)) = LiveKeys(d) \ {k}
  BY DEF DevRemove, LiveKeys

\* Create, Start, Stop, Revoke and the startup at the interface: only the key of a
\* registered client is let in.
LEMMA DeviceServes ==
  ASSUME ProcInv, StoreInv, SerialInv, RegisteredAre, RegisteredAre', NEW r \in Procs,
         CreateDev(r) \/ SwitchDev(r) \/ RevokeDev(r) \/ MainApply(r)
  PROVE  Served
  <1>1. conf' = conf /\ issued' = issued
    BY DEF CreateDev, SwitchDev, RevokeDev, MainApply, fresh
  <1>2. pc[r] \in {"create.dev", "switch.dev", "revoke.dev", "main.apply"}
    BY DEF CreateDev, SwitchDev, RevokeDev, MainApply
  <1>3. (\E a : Answer(r, a))
        \/ \E l, lo : /\ Step(r, l, lo)
                      /\ l \in {"create.upsert", "switch.set", "revoke.delete", "main.apply"}
    BY DEF CreateDev, SwitchDev, RevokeDev, MainApply, Goto
  <1>4. Alone(r) /\ pc'[r] # "remove.write"
    BY <1>3, StepAlone, AnswerAlone DEF ProcInv
  <1>5. Registered' = Registered
    BY <1>1, <1>2, <1>4, AloneStays, RegisteredStay DEF ProcInv
  <1>6. CASE UNCHANGED dev
    BY <1>1, <1>5, <1>6, NoStep
  <1>7. CASE \E k : dev' = DevRemove(dev, k)
    BY <1>1, <1>5, <1>7, RemovedLives, DeviceStep
  <1>8. CASE /\ pc[r] \in {"create.dev", "switch.dev"}
             /\ dev' = DevAdd(dev, loc[r].key, loc[r].ip)
    <2>1. WriterKnows(r) /\ Registered = conf.blocks
      BY <1>8, KnowingCalls, NoRewrite DEF Knowing, SerialInv, RegisteredAre
    <2>2. loc[r].key \in KeysOf(conf.blocks)
      <3>1. CASE pc[r] = "create.dev"
        <4>1. [name |-> Name(r), key |-> loc[r].key, ip |-> loc[r].ip] \in conf.blocks
          BY <2>1, <3>1 DEF WriterKnows, Knows
        <4>2. [name |-> Name(r), key |-> loc[r].key, ip |-> loc[r].ip].key = loc[r].key
          OBVIOUS
        <4> QED BY <4>1, <4>2 DEF KeysOf
      <3>2. CASE pc[r] = "switch.dev"
        BY <2>1, <3>2 DEF WriterKnows, Knows, KeysOf
      <3> QED BY <1>8, <3>1, <3>2
    <2> QED BY <1>1, <1>5, <1>8, <2>1, <2>2, AddedLives, DeviceStep
  <1> QED BY <1>2, <1>6, <1>7, <1>8 DEF CreateDev, SwitchDev, RevokeDev, MainApply

\* RemovePeer unregisters with the truncation the one client of the name, if any;
\* what it writes afterwards is what is registered by then.
LEMMA TruncateServes ==
  ASSUME ProcInv, StoreInv, SerialInv, RegisteredAre, RegisteredAre', NEW r \in Procs,
         RemoveTruncate(r)
  PROVE  Served
  <1> DEFINE gone == Named(conf.blocks, Name(r))
  <1>1. /\ pc[r] = "remove.truncate" /\ UNCHANGED <<dev, issued>>
        /\ pc'[r] = "remove.write" /\ loc'[r] = loc[r] /\ Name(r)' = Name(r)
    BY StepAlone DEF RemoveTruncate, Goto, fresh, ProcInv, Alone, Name
  <1>2. WriterKnows(r) /\ Registered = conf.blocks
    BY <1>1, KnowingCalls, NoRewrite DEF Knowing, SerialInv, RegisteredAre
  <1>3. Registered' = Left(loc[r].view, Name(r))
    BY <1>1 DEF RegisteredAre, Left, Named
  <1>4. loc[r].view = conf.blocks
    BY <1>1, <1>2 DEF WriterKnows, Knows
  <1>5. Registered' = Registered \ gone
    BY <1>2, <1>3, <1>4 DEF Left
  <1>6. CASE gone = {}
    BY <1>1, <1>5, <1>6, NoStep
  <1>7. ASSUME NEW b \in gone PROVE Served
    <2>1. b \in Registered /\ \A c \in gone : c = b
      BY <1>2, <1>7 DEF SerialInv, Sound, Distinct, Named
    <2>2. Registered' = Registered \ {b}
      BY <1>5, <1>7, <2>1
    <2>3. LiveKeys(dev') = LiveKeys(dev) /\ KeysOf(issued') = KeysOf(issued)
      BY <1>1
    <2>4. Registry!Unregister
      BY <2>1, <2>2, <2>3 DEF Registry!Unregister
    <2> QED BY <2>4 DEF Served, Registry!Next
  <1> QED BY <1>6, <1>7

LEMMA WriteServes ==
  ASSUME ProcInv, SerialInv, RegisteredAre, RegisteredAre', NEW r \in Procs, RemoveWrite(r)
  PROVE  Served
  <1>1. pc[r] = "remove.write" /\ conf' = Pending(r) /\ AfterRemove(r) /\ UNCHANGED <<dev, issued>>
    BY WriteIsWhole DEF RemoveWrite
  <1>2. Alone(r) /\ pc'[r] # "remove.write"
    BY <1>1, StepAlone, AnswerAlone DEF AfterRemove, ProcInv
  <1>3. \A q \in Procs : q # r => pc[q] # "remove.write"
    BY <1>1, KnowingCalls DEF Knowing, SerialInv, OneWriter
  <1>4. \A q \in Procs : pc'[q] # "remove.write"
    BY <1>2, <1>3 DEF Alone
  <1>5. Registered = Pending(r).blocks /\ Registered' = conf'.blocks
    BY <1>1, <1>4, PendingLeft DEF RegisteredAre
  <1> QED BY <1>1, <1>5, NoStep

-----------------------------------------------------------------------------
(* The other steps.                                                          *)

LEMMA ArrivalServes ==
  ASSUME ProcInv, RegisteredAre, RegisteredAre', NEW r \in Procs, Arrive(r)
  PROVE  Served
  <1>1. PICK op \in AllOps : pc' = [pc EXCEPT ![r] = FirstCall[op]]
    BY ServiceAssumption DEF Arrive, AllOps
  <1>2. FirstCall[op] # "remove.write"
    BY <1>1 DEF FirstCall, AllOps
  <1>3. pc[r] = "idle" /\ UNCHANGED <<conf, dev, issued, loc>> /\ r \in Reqs
        /\ \E new : req' = [req EXCEPT ![r] = new]
    BY DEF Arrive, world
  <1>4. pc'[r] # "remove.write" /\ OthersStay(r)
    BY <1>1, <1>2, <1>3 DEF ProcInv, ProcTypes, OthersStay
  <1>5. Registered' = Registered
    BY <1>3, <1>4, RegisteredStay DEF ProcInv
  <1> QED BY <1>3, <1>5, NoStep

\* Whatever fails is no step, but for the write of RemovePeer, after which the
\* truncated file stays.
LEMMA FailureServes ==
  ASSUME ProcInv, StoreInv, SerialInv, EnvTypes, RegisteredAre, RegisteredAre',
         NEW r \in Procs, CallFails(r)
  PROVE  Served
  <1>1. UNCHANGED <<conf, dev, issued>> /\ faults' = faults + 1
    BY DEF CallFails, world
  <1>2. Alone(r) /\ pc'[r] # "remove.write"
    <2>1. CASE pc[r] = "create.dev" /\ Goto(r, "remove.read")
      BY <2>1, StepAlone DEF ProcInv, Goto
    <2>2. CASE ShrugOff(r)
      <3>1. (\E a : Answer(r, a))
            \/ \E l, lo : /\ Step(r, l, lo)
                          /\ l \in {"sync.import", "create.save", "revoke.audit",
                                    "config.find", "config.save"}
        BY <2>2 DEF ShrugOff, Goto
      <3> QED BY <3>1, StepAlone, AnswerAlone DEF ProcInv
    <2>3. CASE Abort(r)
      BY <2>3, AbortAlone DEF ProcInv
    <2> QED BY <2>1, <2>2, <2>3 DEF CallFails
  <1>3. CASE pc[r] # "remove.write"
    <2>1. Registered' = Registered
      BY <1>1, <1>2, <1>3, AloneStays, RegisteredStay DEF ProcInv
    <2> QED BY <1>1, <2>1, NoStep
  <1>4. CASE pc[r] = "remove.write"
    <2>1. conf = Truncated
      BY <1>4, KnowingCalls DEF Knowing, SerialInv, WriterKnows, Knows
    <2>2. \A q \in Procs : q # r => pc[q] # "remove.write"
      BY <1>4, KnowingCalls DEF Knowing, SerialInv, OneWriter
    <2>3. \A q \in Procs : pc'[q] # "remove.write"
      BY <1>2, <2>2 DEF Alone
    <2>4. Registered' = {}
      BY <1>1, <2>1, <2>3 DEF RegisteredAre, Truncated
    <2>5. faults' # faults
      BY <1>1 DEF EnvTypes
    <2> QED BY <1>1, <2>4, <2>5 DEF Served, FileLost
  <1> QED BY <1>3, <1>4

LEMMA DeathServes ==
  ASSUME ProcInv, StoreInv, SerialInv, EnvTypes, RegisteredAre, RegisteredAre', Crash
  PROVE  Served
  <1>1. UNCHANGED <<conf, dev, issued>> /\ crashes' = crashes + 1
    BY DEF Crash, world
  <1>2. \A q \in Procs : pc'[q] # "remove.write"
    BY DEF Crash, InFlight
  <1>3. Registered' = conf.blocks
    BY <1>1, <1>2 DEF RegisteredAre
  <1>4. CASE \A q \in Procs : pc[q] # "remove.write"
    BY <1>1, <1>3, <1>4, NoStep DEF RegisteredAre
  <1>5. ASSUME NEW q \in Procs, pc[q] = "remove.write" PROVE Served
    <2>1. conf = Truncated
      BY <1>5, KnowingCalls DEF Knowing, SerialInv, WriterKnows, Knows
    <2>2. Registered' = {} /\ crashes' # crashes
      BY <1>1, <1>3, <2>1 DEF Truncated, EnvTypes
    <2> QED BY <1>1, <2>2 DEF Served, FileLost
  <1> QED BY <1>4, <1>5

LEMMA BounceServes ==
  ASSUME ProcInv, StoreInv, SerialInv, RegisteredAre, RegisteredAre', QuickRestart
  PROVE  Served
  <1>1. conf.iface /\ dev' = QuickUp(conf.blocks) /\ UNCHANGED <<conf, issued, pc>>
    BY DEF QuickRestart, fresh, procs
  <1>2. \A q \in Procs : pc[q] # "remove.write"
    <2>1. conf # Truncated
      BY <1>1 DEF Truncated
    <2> QED BY <2>1, KnowingCalls DEF Knowing, SerialInv, WriterKnows, Knows
  <1>3. Registered = conf.blocks /\ Registered' = conf.blocks
    BY <1>1, <1>2 DEF RegisteredAre
  <1>4. LiveKeys(dev') = KeysOf(conf.blocks)
    BY <1>1, QuickUpSound DEF SerialInv, Sound, StoreInv, StoreTypes, Config
  <1>5. Registry!Reload
    BY <1>1, <1>3, <1>4 DEF Registry!Reload, Registry!ClientKeys, KeysOf
  <1> QED BY <1>5 DEF Served, Registry!Next

LEMMA RegisteredAlways == IInv /\ SerialInv => RegisteredAre
  BY Parts, RegisteredNow DEF SerialInv

LEMMA RegisteredNext == (IInv /\ SerialInv)' => RegisteredAre'
  BY RegisteredAlways, PTL

LEMMA ServedNext ==
  ASSUME SerialWrites, IInv, SerialInv, IInv', SerialInv', [Next]_vars
  PROVE  Served
  <1>1. ProcInv /\ StoreInv /\ EnvTypes /\ RegisteredAre
    BY Parts, RegisteredAlways
  <1>2. RegisteredAre'
    BY RegisteredNext
  <1>3. ASSUME NEW r \in Procs, Call(r) PROVE Served
    <2>1. \/ Reads(r) \/ CreateAppend(r) \/ RemoveTruncate(r) \/ RemoveWrite(r)
          \/ CreateDev(r) \/ SwitchDev(r) \/ RevokeDev(r) \/ MainApply(r)
      BY <1>3 DEF Call, Reads, MainCall, CreateCall, RemoveCall, RevokeCall, SwitchCall
    <2> QED BY <1>1, <1>2, <2>1, ReadsServe, AppendServes, TruncateServes, WriteServes,
               DeviceServes
  <1>4. ASSUME NEW r \in Procs, Arrive(r) \/ CallFails(r) PROVE Served
    BY <1>1, <1>2, <1>4, ArrivalServes, FailureServes
  <1>5. Crash \/ QuickRestart => Served
    BY <1>1, <1>2, DeathServes, BounceServes
  <1>6. Rest \/ UNCHANGED vars => Served
    <2> SUFFICES ASSUME UNCHANGED vars PROVE Served
      BY DEF Rest
    <2>1. UNCHANGED <<conf, dev, issued, pc, loc, req>>
      BY DEF vars
    <2>2. Registered' = Registered
      BY <1>1, <1>2, <2>1 DEF RegisteredAre, Left, Named, Name
    <2> QED BY <2>1, <2>2, NoStep
  <1> QED BY <1>3, <1>4, <1>5, <1>6 DEF Next

\* The program starts with the clients of the file; only those may be live.
LEMMA RegistryInit == Init => Registry!Init
  <1> SUFFICES ASSUME Init PROVE Registry!Init
    OBVIOUS
  <1>1. PICK st \in [Names -> Standings], k \in [Names -> 0 .. FirstKey - 1] :
          LET known == {n \in Names : st[n] # "absent"}
              blocks == {BlockOf(k, n) : n \in known}
              stopped == {BlockOf(k, n) : n \in {m \in known : st[m] = "stopped"}}
          IN /\ blocks \subseteq Block
             /\ conf = [iface |-> TRUE, blocks |-> blocks]
             /\ dev \in {QuickUp(blocks), QuickUp(blocks \ stopped)}
             /\ issued = {[name |-> n, key |-> k[n]] : n \in known}
    BY DEF Init
  <1> DEFINE known == {n \in Names : st[n] # "absent"}
             blocks == {BlockOf(k, n) : n \in known}
             stopped == {BlockOf(k, n) : n \in {m \in known : st[m] = "stopped"}}
             Given(n) == [name |-> n, key |-> k[n]]
  <1>2. /\ conf.blocks = blocks /\ blocks \in SUBSET Block /\ blocks \ stopped \in SUBSET blocks
        /\ dev \in {QuickUp(blocks), QuickUp(blocks \ stopped)}
        /\ issued = {Given(n) : n \in known}
    BY <1>1
  <1>3. SerialInv /\ ProcInv
    BY InitInv, SerialInit, Parts
  <1>4. Registered = blocks
    <2>1. \A r \in Procs : pc[r] # "remove.write"
      BY DEF Init
    <2> QED BY <1>2, <1>3, <2>1, RegisteredNow DEF RegisteredAre, SerialInv
  <1>5. Distinct(blocks)
    BY <1>2, <1>3 DEF SerialInv, Sound
  <1>6. LiveKeys(dev) \subseteq KeysOf(blocks)
    <2>1. /\ LiveKeys(QuickUp(blocks)) = KeysOf(blocks)
          /\ LiveKeys(QuickUp(blocks \ stopped)) = KeysOf(blocks \ stopped)
      BY <1>2, <1>5, QuickUpSound
    <2>2. KeysOf(blocks \ stopped) \subseteq KeysOf(blocks)
      BY <1>2 DEF KeysOf
    <2> QED BY <1>2, <2>1, <2>2
  <1>7. KeysOf(issued) = KeysOf(blocks)
    <2>1. \A n \in known : Given(n).key = k[n] /\ BlockOf(k, n).key = k[n]
      BY DEF BlockOf
    <2> HIDE DEF Given
    <2>2. KeysOf(issued) = {k[n] : n \in known}
      BY <1>2, <2>1 DEF KeysOf
    <2>3. KeysOf(blocks) = {k[n] : n \in known}
      BY <2>1 DEF KeysOf
    <2> QED BY <2>2, <2>3
  <1> HIDE DEF blocks
  <1> QED BY <1>4, <1>5, <1>6, <1>7 DEF Registry!Init, Registry!ClientKeys, KeysOf, Distinct

-----------------------------------------------------------------------------
(* The theorems.                                                             *)

\* The four places, and the handlers that work on copies of them, are a registry
\* to an administrator who waits for each answer: names, addresses and keys of a
\* new client are fresh, no key is let in but that of a registered client, and a
\* client goes only by its own revocation; whatever fails and dies, only the file
\* as a whole can be lost, and only in a rewrite.
THEOREM RegistryIsServed ==
  ASSUME SerialWrites
  PROVE  Spec => ServesRegistry
  <1>1. Spec => [](IInv /\ SerialInv)
    BY SerialInductive
  <1>2. IInv /\ SerialInv /\ (IInv /\ SerialInv)' /\ [Next]_vars => Served
    BY ServedNext
  <1>3. Init => Registry!Init
    BY RegistryInit
  <1> QED BY <1>1, <1>2, <1>3, PTL DEF Spec, ServesRegistry, Served

\* Where nothing fails or dies this is the registry itself, the safety part of
\* ImplementsRegistry.
THEOREM RegistryIsSafe ==
  ASSUME SerialWrites, MaxFaults = 0, MaxCrashes = 0
  PROVE  Spec => Registry!Safety
  <1>1. Spec => ServesRegistry
    BY RegistryIsServed
  <1>2. Spec => [](IInv /\ InBounds)
    <2>1. Init => InBounds
      BY ServiceAssumption DEF Init, InBounds
    <2>2. IInv /\ InBounds /\ [Next]_vars => InBounds'
      BY BoundsKept
    <2> QED BY <2>1, <2>2, Inductive, PTL DEF Spec
  <1>3. (IInv /\ InBounds) /\ (IInv /\ InBounds)' /\ Served => [Registry!Next]_(Registry!vars)
    <2>1. IInv /\ InBounds => faults = 0 /\ crashes = 0
      BY Parts DEF EnvTypes, InBounds
    <2>2. (IInv /\ InBounds)' => (faults = 0 /\ crashes = 0)'
      BY <2>1, PTL
    <2> QED BY <2>1, <2>2 DEF Served, FileLost
  <1> QED BY <1>1, <1>2, <1>3, PTL DEF ServesRegistry, Served, Registry!Safety
=============================================================================
