--------------------------- MODULE CollectorProofs ---------------------------
(***************************************************************************)
(* Proofs about the traffic collector, for any clients, months, traffic,   *)
(* resets, clearings, failures and crashes.  First, every counter, offset  *)
(* and total stays a natural number, and so does what an observer of the   *)
(* same samples adds up, because samples of one life of a counter only     *)
(* grow.  Then, the three tables: until the totals are cleared the latest  *)
(* snapshot, the baseline and the total of the month agree between two     *)
(* collections, and a total never goes down.                               *)
(***************************************************************************)
EXTENDS Collector, TLAPS

\* A client in hand was sampled, for a month, and so are those still to come; a
\* baseline has been read or made before it is used.
ControlOf(c) ==
  /\ c.pc \notin {"idle", "parse"} =>
       /\ c.p \in Names /\ c.m \in Months
       /\ c.sample[c.p] # None
       /\ \A q \in c.todo : c.sample[q] # None
  /\ c.pc \in {"base.set", "snap.get", "total.get", "reanchor", "total.set", "snap.save"} =>
       c.b \in Baseline

\* What was sampled in epoch e is not ahead of the counters.
Behind(at, e, n) ==
  /\ e <= epoch[n]
  /\ count[n] # None /\ e = epoch[n] => \A d \in Dirs : at[d] <= count[n][d]

SamplesGrow ==
  /\ \A n \in Names : col.sample[n] # None => Behind(col.sample[n].at, col.sample[n].epoch, n)
  /\ \A n \in Names : last[n] # None => Behind(last[n].at, last[n].epoch, n)
  /\ col.pc = "parse" => \A n \in Names : col.sample[n] # None /\ last[n] # None =>
       /\ last[n].epoch <= col.sample[n].epoch
       /\ last[n].epoch = col.sample[n].epoch =>
            \A d \in Dirs : last[n].at[d] <= col.sample[n].at[d]

CInv == TypeOK /\ ControlOf(col) /\ SamplesGrow

Seen == [month : Months, at : Bytes, epoch : Nat, hidden : BOOLEAN]

-----------------------------------------------------------------------------
(* The arithmetic.                                                           *)

LEMMA ZeroTyped == Zero \in Bytes /\ \A d \in Dirs : Zero[d] = 0
  BY DEF Zero, Bytes

\* computeMonthTraffic returns natural numbers for natural numbers.
LEMMA MonthTrafficTyped ==
  ASSUME NEW b \in Baseline, NEW prev \in Bytes \cup {None}, NEW stored \in Bytes \cup {None},
         NEW now \in Bytes
  PROVE  /\ MonthTraffic(b, prev, stored, now).at \in Bytes
         /\ MonthTraffic(b, prev, stored, now).off \in Bytes
         /\ MonthTraffic(b, prev, stored, now).total \in Bytes
         /\ MonthTraffic(b, prev, stored, now).reanchor \in BOOLEAN
  <1>1. b.at \in Bytes /\ b.off \in Bytes
    BY DEF Baseline
  <1>2. \A j, k \in Nat : Delta(j, k) \in Nat
    BY DEF Delta
  <1>3. \A d \in Dirs : SegmentBeforeReset(b.at, prev, d) \in Nat
    BY <1>1, <1>2 DEF SegmentBeforeReset, Bytes
  <1>4. \A d \in Dirs : OffsetAfterReset(b, prev, stored, d) \in Nat
    BY <1>1, <1>3 DEF OffsetAfterReset, Bytes
  <1>5. CASE ~CountersDropped(b, prev, now)
    <2>1. \A d \in Dirs : b.off[d] + Delta(b.at[d], now[d]) \in Nat
      <3> TAKE d \in Dirs
      <3>1. b.off[d] \in Nat /\ b.at[d] \in Nat /\ now[d] \in Nat
        BY <1>1 DEF Bytes
      <3> QED BY <3>1 DEF Delta
    <2>2. [d \in Dirs |-> b.off[d] + Delta(b.at[d], now[d])] \in Bytes
      BY <2>1 DEF Bytes
    <2> QED BY <1>1, <1>5, <2>2 DEF MonthTraffic
  <1>6. CASE CountersDropped(b, prev, now)
    <2> DEFINE off == [d \in Dirs |-> OffsetAfterReset(b, prev, stored, d)]
    <2>1. off \in Bytes
      BY <1>4 DEF Bytes
    <2> HIDE DEF off
    <2>2. \A d \in Dirs : off[d] + Delta(0, now[d]) \in Nat
      <3> TAKE d \in Dirs
      <3>1. off[d] \in Nat /\ now[d] \in Nat
        BY <2>1 DEF Bytes
      <3> QED BY <3>1 DEF Delta
    <2>3. [d \in Dirs |-> off[d] + Delta(0, now[d])] \in Bytes
      BY <2>2 DEF Bytes
    <2>4. MonthTraffic(b, prev, stored, now) =
            [reanchor |-> TRUE, at |-> Zero, off |-> off,
             total |-> [d \in Dirs |-> off[d] + Delta(0, now[d])]]
      BY <1>6 DEF MonthTraffic, off
    <2> QED BY ZeroTyped, <2>1, <2>3, <2>4
  <1> QED BY <1>5, <1>6

LEMMA ResultTyped ==
  ASSUME TypeOK, ControlOf(col), col.pc \in {"reanchor", "total.set", "snap.save", "total.get"}
  PROVE  /\ Now \in Bytes
         /\ Result.at \in Bytes /\ Result.off \in Bytes /\ Result.total \in Bytes
         /\ Result.reanchor \in BOOLEAN
  <1>1. Now \in Bytes
    BY DEF Now, TypeOK, Locals, ControlOf, Sample
  <1>2. col.b \in Baseline /\ col.prev \in Bytes \cup {None} /\ col.stored \in Bytes \cup {None}
    BY DEF TypeOK, Locals, ControlOf
  <1> QED BY <1>1, <1>2, MonthTrafficTyped DEF Result

-----------------------------------------------------------------------------
(* The collector's locals.                                                   *)

LEMMA WaitingFits == Waiting \in Locals /\ ControlOf(Waiting) /\ Waiting.pc = "idle"
                     /\ \A n \in Names : Waiting.sample[n] = None
  <1>1. [n \in Names |-> None] \in [Names -> Sample \cup {None}]
    OBVIOUS
  <1>2. Waiting \in Locals
    BY <1>1 DEF Waiting, Locals
  <1> QED BY <1>2 DEF Waiting, ControlOf

LEMMA ContinueFits ==
  ASSUME TypeOK, ControlOf(col), col.pc \notin {"idle", "parse"}, Continue(col.todo)
  PROVE  /\ col' \in Locals /\ ControlOf(col')
         /\ col'.pc # "parse"
         /\ \A n \in Names : col'.sample[n] \in {col.sample[n], None}
  <1>1. CASE col' = Waiting
    BY <1>1, WaitingFits
  <1>2. CASE col' # Waiting
    <2>1. PICK q \in col.todo :
            col' = [col EXCEPT !.pc = "base.get", !.p = q, !.todo = col.todo \ {q},
                               !.b = None, !.prev = None, !.stored = None]
      BY <1>2 DEF Continue
    <2>2. q \in Names /\ col \in Locals
      BY DEF TypeOK, Locals
    <2>3. col' \in Locals
      BY <2>1, <2>2 DEF Locals, Calls
    <2>4. ControlOf(col')
      BY <2>1, <2>2 DEF Locals, ControlOf
    <2> QED BY <2>1, <2>2, <2>3, <2>4 DEF Locals
  <1> QED BY <1>1, <1>2

-----------------------------------------------------------------------------
(* The steps.                                                                *)

LEMMA InitFits == Init => CInv
  <1> SUFFICES ASSUME Init PROVE CInv
    OBVIOUS
  <1>1. count \in [Names -> Bytes \cup {None}]
    <2>1. PICK k \in 0 .. MaxBytes : count \in [Names -> {None, [Zero EXCEPT !["rx"] = k]}]
      BY DEF Init
    <2>2. k \in Nat
      BY CollectorAssumption
    <2>3. [Zero EXCEPT !["rx"] = k] \in Bytes
      BY ZeroTyped, <2>2 DEF Bytes
    <2> QED BY <2>1, <2>3
  <1>2. 1 \in Months
    BY CollectorAssumption DEF Months
  <1>3. [m \in Months |-> Zero] \in [Months -> Bytes]
    BY ZeroTyped
  <1>4. TypeOK
    BY <1>1, <1>2, <1>3, WaitingFits DEF Init, TypeOK
  <1>5. ControlOf(col) /\ SamplesGrow
    BY WaitingFits DEF Init, SamplesGrow
  <1> QED BY <1>4, <1>5 DEF CInv

\* A step that leaves the samples, the counters and the observer alone.
LEMMA GrowStays ==
  ASSUME SamplesGrow, UNCHANGED <<count, epoch, last>>, col'.pc # "parse",
         \A n \in Names : col'.sample[n] \in {col.sample[n], None}
  PROVE  SamplesGrow'
  BY DEF SamplesGrow, Behind

\* The calls that only read.
LEMMA ReadFits ==
  ASSUME CInv, Read, col' \in Locals, ControlOf(col'), col'.pc # "parse",
         \A n \in Names : col'.sample[n] \in {col.sample[n], None}
  PROVE  CInv'
  <1>1. TypeOK'
    BY DEF CInv, Read, TypeOK, world, ledger, ghosts, env
  <1>2. SamplesGrow'
    BY GrowStays DEF CInv, Read, world, ghosts
  <1> QED BY <1>1, <1>2 DEF CInv

LEMMA StatsFits == CInv /\ Stats => CInv'
  <1> SUFFICES ASSUME CInv, Stats PROVE CInv'
    OBVIOUS
  <1> DEFINE sample == [n \in Names |-> IF count[n] = None THEN None
                                        ELSE [at |-> count[n], epoch |-> epoch[n]]]
  <1>1. col' = [col EXCEPT !.pc = "parse", !.sample = sample]
    BY DEF Stats
  <1>2. sample \in [Names -> Sample \cup {None}]
    BY DEF CInv, TypeOK, Sample
  <1>3. col' \in Locals /\ col'.pc = "parse" /\ col'.sample = sample
    BY <1>1, <1>2 DEF CInv, TypeOK, Locals, Calls
  <1>4. ControlOf(col')
    BY <1>3 DEF ControlOf
  <1>5. TypeOK'
    BY <1>3 DEF CInv, Stats, TypeOK, world, ledger, ghosts, env
  <1>6. SamplesGrow'
    <2>1. UNCHANGED <<count, epoch, last>>
      BY DEF Stats, world, ghosts
    <2>2. ASSUME NEW n \in Names, col'.sample[n] # None
          PROVE  count[n] # None /\ col'.sample[n].at = count[n] /\ col'.sample[n].epoch = epoch[n]
      BY <1>3, <2>2
    <2>3. \A n \in Names : count[n] # None => \A d \in Dirs : count[n][d] \in Nat
      BY DEF CInv, TypeOK, Bytes
    <2>4. \A n \in Names : epoch[n] \in Nat
      BY DEF CInv, TypeOK
    <2> QED BY <2>1, <2>2, <2>3, <2>4 DEF CInv, SamplesGrow, Behind
  <1> QED BY <1>3, <1>4, <1>5, <1>6 DEF CInv

LEMMA GainTyped ==
  ASSUME CInv, col.pc = "parse", NEW n \in Names, col.sample[n] # None, NEW d \in Dirs
  PROVE  Gain(n, d) \in Nat
  <1>1. col.sample[n].at[d] \in Nat
    BY DEF CInv, TypeOK, Locals, Sample, Bytes
  <1>2. last[n] # None => last[n].at[d] \in Nat
    BY DEF CInv, TypeOK, Bytes
  <1>3. last[n] # None /\ last[n].epoch = col.sample[n].epoch =>
          last[n].at[d] <= col.sample[n].at[d]
    BY DEF CInv, SamplesGrow
  <1> QED BY <1>1, <1>2, <1>3 DEF Gain

LEMMA ParseFits == CInv /\ Parse => CInv'
  <1> SUFFICES ASSUME CInv, Parse PROVE CInv'
    OBVIOUS
  <1> DEFINE sampled == {n \in Names : col.sample[n] # None}
  <1>1. /\ \/ sampled = {} /\ col' = Waiting
           \/ \E q \in sampled : col' = [col EXCEPT !.pc = "base.get", !.m = month,
                                                    !.p = q, !.todo = sampled \ {q}]
        /\ last' = [n \in Names |-> IF n \notin sampled THEN last[n] ELSE
             [month |-> month, at |-> col.sample[n].at,
              epoch |-> col.sample[n].epoch, hidden |-> Hidden(n)]]
        /\ ideal' = [n \in Names |-> IF n \notin sampled THEN ideal[n] ELSE
             [ideal[n] EXCEPT ![month] = [d \in Dirs |-> @[d] + Gain(n, d)]]]
    BY DEF Parse
  <1>2. /\ col' \in Locals /\ ControlOf(col') /\ col'.pc # "parse"
        /\ \A n \in Names : col'.sample[n] \in {col.sample[n], None}
    <2>1. CASE col' = Waiting
      BY <2>1, WaitingFits
    <2>2. CASE col' # Waiting
      <3>1. PICK q \in sampled : col' = [col EXCEPT !.pc = "base.get", !.m = month,
                                                    !.p = q, !.todo = sampled \ {q}]
        BY <1>1, <2>2
      <3>2. col \in Locals /\ month \in Months
        BY DEF CInv, TypeOK
      <3> QED BY <3>1, <3>2 DEF Locals, Calls, ControlOf
    <2> QED BY <2>1, <2>2
  <1>3. last' \in [Names -> Seen \cup {None}]
    <2> SUFFICES ASSUME NEW n \in Names PROVE
          (IF n \notin sampled THEN last[n] ELSE
             [month |-> month, at |-> col.sample[n].at,
              epoch |-> col.sample[n].epoch, hidden |-> Hidden(n)]) \in Seen \cup {None}
      BY <1>1
    <2>1. Hidden(n) \in BOOLEAN
      BY DEF Hidden
    <2>2. n \in sampled => col.sample[n] \in Sample
      BY DEF CInv, TypeOK, Locals
    <2> QED BY <2>1, <2>2 DEF CInv, TypeOK, Sample, Seen
  <1>4. ideal' \in [Names -> [Months -> Bytes]]
    <2> SUFFICES ASSUME NEW n \in Names, n \in sampled PROVE
          [ideal[n] EXCEPT ![month] = [d \in Dirs |-> @[d] + Gain(n, d)]] \in [Months -> Bytes]
      BY <1>1 DEF CInv, TypeOK
    <2>1. ideal[n] \in [Months -> Bytes] /\ month \in Months
      BY DEF CInv, TypeOK
    <2>2. \A d \in Dirs : Gain(n, d) \in Nat
      BY GainTyped DEF Parse
    <2>3. \A d \in Dirs : ideal[n][month][d] + Gain(n, d) \in Nat
      <3> TAKE d \in Dirs
      <3>1. ideal[n][month][d] \in Nat
        BY <2>1 DEF Bytes
      <3>2. Gain(n, d) \in Nat
        BY <2>2
      <3> HIDE DEF CInv
      <3> QED BY <3>1, <3>2
    <2>4. [d \in Dirs |-> ideal[n][month][d] + Gain(n, d)] \in Bytes
      BY <2>3 DEF Bytes
    <2> QED BY <2>1, <2>4
  <1>5. UNCHANGED <<count, epoch, month, base, total, snap, clear, torn, slack,
                    clears, faults, crashes>>
    BY DEF Parse, world, ledger, env
  <1>6. TypeOK'
    BY <1>2, <1>3, <1>4, <1>5 DEF CInv, TypeOK, Seen
  <1>7. SamplesGrow'
    <2>1. \A n \in Names : last'[n] # None => Behind(last'[n].at, last'[n].epoch, n)
      <3> TAKE n \in Names
      <3>1. CASE n \in sampled
        BY <1>1, <3>1 DEF CInv, SamplesGrow
      <3>2. CASE n \notin sampled
        BY <1>1, <3>2 DEF CInv, SamplesGrow
      <3> QED BY <3>1, <3>2
    <2> QED BY <1>2, <1>5, <2>1 DEF CInv, SamplesGrow, Behind
  <1> QED BY <1>2, <1>6, <1>7 DEF CInv

\* The client in hand and what is known of it.
LEMMA InHand ==
  ASSUME CInv, col.pc \notin {"idle", "parse"}
  PROVE  /\ col \in Locals /\ col.p \in Names /\ col.m \in Months
         /\ col.sample[col.p] \in Sample /\ Now \in Bytes
         /\ \A d \in Dirs : Now[d] \in Nat
  BY DEF CInv, TypeOK, ControlOf, Locals, Sample, Now, Bytes

LEMMA BaseGetFits == CInv /\ BaseGet => CInv'
  <1> SUFFICES ASSUME CInv, BaseGet PROVE CInv'
    OBVIOUS
  <1>1. col.pc = "base.get" /\ Read
    BY DEF BaseGet
  <1>2. base[col.p][col.m] \in Baseline \cup {None}
    BY <1>1, InHand DEF CInv, TypeOK
  <1>3. /\ col' \in Locals /\ ControlOf(col') /\ col'.pc # "parse" /\ col'.sample = col.sample
    BY <1>1, <1>2, InHand DEF BaseGet, Locals, Calls, ControlOf, CInv
  <1> QED BY <1>1, <1>3, ReadFits

LEMMA BaselineFromTyped ==
  ASSUME CInv, col.pc \notin {"idle", "parse"}, NEW at \in Bytes
  PROVE  BaselineFrom(at) \in Baseline
  BY InHand, ZeroTyped DEF BaselineFrom, Baseline, Sample

LEMMA HasGetFits == CInv /\ HasGet => CInv'
  <1> SUFFICES ASSUME CInv, HasGet PROVE CInv'
    OBVIOUS
  <1>1. col.pc = "has.get" /\ Read
    BY DEF HasGet
  <1>2. PICK b \in Baseline : col' = [col EXCEPT !.pc = "base.set", !.b = b]
    BY <1>1, InHand, ZeroTyped, BaselineFromTyped DEF HasGet
  <1>3. /\ col' \in Locals /\ ControlOf(col') /\ col'.pc # "parse" /\ col'.sample = col.sample
    BY <1>1, <1>2, InHand DEF Locals, Calls, ControlOf, CInv
  <1> QED BY <1>1, <1>3, ReadFits

LEMMA OweTyped ==
  ASSUME CInv, col.pc \notin {"idle", "parse"}, Owe \/ UNCHANGED slack
  PROVE  slack' \in [Names -> [Months -> Bytes]]
  <1>1. CASE UNCHANGED slack
    BY <1>1 DEF CInv, TypeOK
  <1>2. CASE Owe
    <2> DEFINE prev == IF snap[col.p] = None THEN Zero ELSE snap[col.p].at
    <2>1. prev \in Bytes
      BY InHand, ZeroTyped DEF CInv, TypeOK, Sample
    <2> HIDE DEF prev
    <2>2. slack[col.p][col.m] \in Bytes /\ slack \in [Names -> [Months -> Bytes]]
      BY InHand DEF CInv, TypeOK
    <2> DEFINE more == [d \in Dirs |-> slack[col.p][col.m][d] + prev[d] + Now[d]]
    <2>3. more \in Bytes
      <3>1. \A d \in Dirs : slack[col.p][col.m][d] \in Nat /\ prev[d] \in Nat /\ Now[d] \in Nat
        BY <2>1, <2>2, InHand DEF Bytes
      <3>2. \A d \in Dirs : slack[col.p][col.m][d] + prev[d] + Now[d] \in Nat
        BY <3>1
      <3> QED BY <3>2 DEF Bytes
    <2>4. slack' = [slack EXCEPT ![col.p][col.m] = more]
      BY <1>2 DEF Owe, prev
    <2> HIDE DEF more
    <2> QED BY <2>2, <2>3, <2>4, InHand
  <1> QED BY <1>1, <1>2

LEMMA BaseSetFits == CInv /\ BaseSet => CInv'
  <1> SUFFICES ASSUME CInv, BaseSet PROVE CInv'
    OBVIOUS
  <1>1. /\ col.pc = "base.set" /\ col' = [col EXCEPT !.pc = "snap.get"]
        /\ base' = [base EXCEPT ![col.p][col.m] = col.b]
        /\ Owe \/ UNCHANGED slack
        /\ UNCHANGED <<count, epoch, month, total, snap, clear, last, ideal, torn,
                       clears, faults, crashes>>
    BY DEF BaseSet, world, env
  <1>2. col.b \in Baseline
    BY <1>1 DEF CInv, ControlOf
  <1>3. /\ col' \in Locals /\ ControlOf(col') /\ col'.pc # "parse" /\ col'.sample = col.sample
    BY <1>1, <1>2, InHand DEF Locals, Calls, ControlOf, CInv
  <1>4. slack' \in [Names -> [Months -> Bytes]]
    BY <1>1, OweTyped
  <1>5. base' \in [Names -> [Months -> Baseline \cup {None}]]
    BY <1>1, <1>2, InHand DEF CInv, TypeOK
  <1>6. TypeOK'
    BY <1>1, <1>3, <1>4, <1>5 DEF CInv, TypeOK
  <1> QED BY <1>1, <1>3, <1>6, GrowStays DEF CInv

LEMMA SnapGetFits == CInv /\ SnapGet => CInv'
  <1> SUFFICES ASSUME CInv, SnapGet PROVE CInv'
    OBVIOUS
  <1>1. col.pc = "snap.get" /\ Read
    BY DEF SnapGet
  <1>2. PICK v \in Bytes \cup {None} : col' = [col EXCEPT !.pc = "total.get", !.prev = v]
    BY <1>1, InHand DEF SnapGet, CInv, TypeOK, Sample
  <1>3. /\ col' \in Locals /\ ControlOf(col') /\ col'.pc # "parse" /\ col'.sample = col.sample
    BY <1>1, <1>2, InHand DEF Locals, Calls, ControlOf, CInv
  <1> QED BY <1>1, <1>3, ReadFits

LEMMA TotalGetFits == CInv /\ TotalGet => CInv'
  <1> SUFFICES ASSUME CInv, TotalGet PROVE CInv'
    OBVIOUS
  <1>1. col.pc = "total.get" /\ Read
    BY DEF TotalGet
  <1> DEFINE v == total[col.p][col.m]
             pc == IF MonthTraffic(col.b, col.prev, v, Now).reanchor THEN "reanchor" ELSE "total.set"
  <1>2. v \in Bytes \cup {None}
    BY <1>1, InHand DEF CInv, TypeOK
  <1>3. col' = [col EXCEPT !.pc = pc, !.stored = v] /\ pc \in {"reanchor", "total.set"}
    BY DEF TotalGet
  <1> HIDE DEF v, pc
  <1>4. /\ col' \in Locals /\ ControlOf(col') /\ col'.pc # "parse" /\ col'.sample = col.sample
    BY <1>1, <1>2, <1>3, InHand DEF Locals, Calls, ControlOf, CInv
  <1> QED BY <1>1, <1>4, ReadFits

LEMMA ReanchorFits == CInv /\ Reanchor => CInv'
  <1> SUFFICES ASSUME CInv, Reanchor PROVE CInv'
    OBVIOUS
  <1> DEFINE b == [at |-> Result.at, off |-> Result.off, epoch |-> col.sample[col.p].epoch]
  <1>1. /\ col.pc = "reanchor" /\ col' = [col EXCEPT !.pc = "total.set"]
        /\ base' = [base EXCEPT ![col.p][col.m] = b]
        /\ UNCHANGED <<count, epoch, month, total, snap, clear, last, ideal, torn, slack,
                       clears, faults, crashes>>
    BY DEF Reanchor, world, env, ghosts
  <1>2. b \in Baseline
    BY <1>1, ResultTyped, InHand DEF CInv, Baseline, Sample
  <1> HIDE DEF b
  <1>3. /\ col' \in Locals /\ ControlOf(col') /\ col'.pc # "parse" /\ col'.sample = col.sample
    BY <1>1, InHand DEF Locals, Calls, ControlOf, CInv
  <1>4. base' \in [Names -> [Months -> Baseline \cup {None}]]
    BY <1>1, <1>2, InHand DEF CInv, TypeOK
  <1>5. TypeOK'
    BY <1>1, <1>3, <1>4 DEF CInv, TypeOK
  <1> QED BY <1>1, <1>3, <1>5, GrowStays DEF CInv

LEMMA TotalSetFits == CInv /\ TotalSet => CInv'
  <1> SUFFICES ASSUME CInv, TotalSet PROVE CInv'
    OBVIOUS
  <1>1. /\ col.pc = "total.set" /\ col' = [col EXCEPT !.pc = "snap.save"]
        /\ total' = [total EXCEPT ![col.p][col.m] = Result.total]
        /\ UNCHANGED <<count, epoch, month, base, snap, clear, last, ideal, torn, slack,
                       clears, faults, crashes>>
    BY DEF TotalSet, world, env, ghosts
  <1>2. Result.total \in Bytes
    BY <1>1, ResultTyped DEF CInv
  <1>3. /\ col' \in Locals /\ ControlOf(col') /\ col'.pc # "parse" /\ col'.sample = col.sample
    BY <1>1, InHand DEF Locals, Calls, ControlOf, CInv
  <1>4. total' \in [Names -> [Months -> Bytes \cup {None}]]
    BY <1>1, <1>2, InHand DEF CInv, TypeOK
  <1>5. TypeOK'
    BY <1>1, <1>3, <1>4 DEF CInv, TypeOK
  <1> QED BY <1>1, <1>3, <1>5, GrowStays DEF CInv

LEMMA SnapSaveFits == CInv /\ SnapSave => CInv'
  <1> SUFFICES ASSUME CInv, SnapSave PROVE CInv'
    OBVIOUS
  <1>1. /\ col.pc = "snap.save" /\ Continue(col.todo)
        /\ snap' = [snap EXCEPT ![col.p] = col.sample[col.p]]
        /\ torn' = torn \ {col.p}
        /\ UNCHANGED <<count, epoch, month, base, total, clear, last, ideal, slack,
                       clears, faults, crashes>>
    BY DEF SnapSave, world, env
  <1>2. /\ col' \in Locals /\ ControlOf(col') /\ col'.pc # "parse"
        /\ \A n \in Names : col'.sample[n] \in {col.sample[n], None}
    BY <1>1, ContinueFits DEF CInv
  <1>3. snap' \in [Names -> Sample \cup {None}] /\ torn' \subseteq Names
    BY <1>1, InHand DEF CInv, TypeOK
  <1>4. TypeOK'
    BY <1>1, <1>2, <1>3 DEF CInv, TypeOK
  <1> QED BY <1>1, <1>2, <1>4, GrowStays DEF CInv

\* A failed call and a crash: only the locals, torn and slack change.
LEMMA CutFits ==
  ASSUME CInv, UNCHANGED <<world, ledger, clear, last, ideal, clears>>,
         torn' \subseteq Names, slack' \in [Names -> [Months -> Bytes]],
         faults' \in Nat, crashes' \in Nat,
         col' \in Locals, ControlOf(col'), col'.pc # "parse",
         \A n \in Names : col'.sample[n] \in {col.sample[n], None}
  PROVE  CInv'
  <1>1. TypeOK'
    BY DEF CInv, TypeOK, world, ledger
  <1>2. SamplesGrow'
    BY GrowStays DEF CInv, world
  <1> QED BY <1>1, <1>2 DEF CInv

LEMMA CutOffTyped ==
  ASSUME CInv, CutOff
  PROVE  torn' \subseteq Names /\ slack' \in [Names -> [Months -> Bytes]]
  <1>1. torn' \subseteq Names
    BY InHand DEF CutOff, CInv, TypeOK
  <1>2. CASE col.pc \in {"total.set", "snap.save"}
    BY <1>1, <1>2, OweTyped DEF CutOff
  <1>3. CASE col.pc \notin {"total.set", "snap.save"}
    BY <1>1, <1>3 DEF CutOff, CInv, TypeOK
  <1> QED BY <1>2, <1>3

LEMMA CallFailsFits == CInv /\ CallFails => CInv'
  <1> SUFFICES ASSUME CInv, CallFails PROVE CInv'
    OBVIOUS
  <1>1. /\ UNCHANGED <<world, ledger, clear, last, ideal, clears>>
        /\ faults' \in Nat /\ crashes' \in Nat
    BY DEF CallFails, CInv, TypeOK
  <1>2. torn' \subseteq Names /\ slack' \in [Names -> [Months -> Bytes]]
    <2>1. CASE col.pc = "has.get"
      BY <2>1, OweTyped DEF CallFails, CInv, TypeOK
    <2>2. CASE col.pc # "has.get"
      BY <2>2, CutOffTyped DEF CallFails
    <2> QED BY <2>1, <2>2
  <1>3. /\ col' \in Locals /\ ControlOf(col') /\ col'.pc # "parse"
        /\ \A n \in Names : col'.sample[n] \in {col.sample[n], None}
    <2>1. CASE col.pc = "parse"
      BY <2>1, WaitingFits DEF CallFails
    <2>2. CASE col.pc = "has.get"
      <3>1. PICK b \in Baseline : col' = [col EXCEPT !.pc = "base.set", !.b = b]
        BY <2>2, ZeroTyped, BaselineFromTyped DEF CallFails
      <3> QED BY <2>2, <3>1, InHand DEF Locals, Calls, ControlOf, CInv
    <2>3. CASE col.pc \notin {"parse", "has.get"}
      BY <2>3, ContinueFits DEF CallFails, Calls, CInv
    <2> QED BY <2>1, <2>2, <2>3
  <1> QED BY <1>1, <1>2, <1>3, CutFits

LEMMA CrashFits == CInv /\ Crash => CInv'
  <1> SUFFICES ASSUME CInv, Crash PROVE CInv'
    OBVIOUS
  <1>1. /\ UNCHANGED <<world, ledger, clear, last, ideal, clears>>
        /\ faults' \in Nat /\ crashes' \in Nat /\ col' = Waiting
    BY DEF Crash, CInv, TypeOK
  <1> QED BY <1>1, CutOffTyped, WaitingFits, CutFits DEF Crash

\* The clearing: the locals and the world stay.
LEMMA ClearFits ==
  ASSUME CInv, UNCHANGED <<world, snap, col, ghosts, faults, crashes>>,
         base' \in [Names -> [Months -> Baseline \cup {None}]],
         total' \in [Names -> [Months -> Bytes \cup {None}]],
         clear' \in Months \cup {0}, clears' \in Nat
  PROVE  CInv'
  BY DEF CInv, TypeOK, SamplesGrow, Behind, world, ghosts

LEMMA ClearingFits == CInv /\ (ClearTotals \/ ClearBaselines \/ ClearCutOff) => CInv'
  <1>1. ASSUME CInv, ClearTotals PROVE CInv'
    <2>1. /\ UNCHANGED <<world, snap, col, ghosts, faults, crashes, base, clears>>
          /\ clear' = month
          /\ total' = [n \in Names |-> [total[n] EXCEPT ![month] = None]]
      BY <1>1 DEF ClearTotals, env
    <2>2. total' \in [Names -> [Months -> Bytes \cup {None}]]
      BY <1>1, <2>1 DEF CInv, TypeOK
    <2>3. clear' \in Months /\ clears' \in Nat
          /\ base' \in [Names -> [Months -> Baseline \cup {None}]]
      BY <1>1, <2>1 DEF CInv, TypeOK
    <2> QED BY <1>1, <2>1, <2>2, <2>3, ClearFits
  <1>2. ASSUME CInv, ClearBaselines PROVE CInv'
    <2>1. /\ UNCHANGED <<world, snap, col, ghosts, faults, crashes, total>>
          /\ clear' = 0 /\ clears' = clears + 1
          /\ base' = [n \in Names |-> [base[n] EXCEPT ![clear] = None]]
      BY <1>2 DEF ClearBaselines
    <2>2. base' \in [Names -> [Months -> Baseline \cup {None}]]
      BY <1>2, <2>1 DEF CInv, TypeOK
    <2>3. clear' = 0 /\ clears' \in Nat
          /\ total' \in [Names -> [Months -> Bytes \cup {None}]]
      BY <1>2, <2>1 DEF CInv, TypeOK
    <2> QED BY <1>2, <2>1, <2>2, <2>3, ClearFits
  <1>3. ASSUME CInv, ClearCutOff PROVE CInv'
    <2>1. /\ UNCHANGED <<world, snap, col, ghosts, faults, crashes, total, base>>
          /\ clear' = 0 /\ clears' = clears + 1
      BY <1>3 DEF ClearCutOff, ledger
    <2>2. clears' \in Nat /\ clear' \in Months \cup {0}
          /\ total' \in [Names -> [Months -> Bytes \cup {None}]]
          /\ base' \in [Names -> [Months -> Baseline \cup {None}]]
      BY <1>3, <2>1 DEF CInv, TypeOK
    <2> QED BY <1>3, <2>1, <2>2, ClearFits
  <1> QED BY <1>1, <1>2, <1>3

\* The world: a counter grows within its epoch, goes away, or starts a new one.
LEMMA WorldFits ==
  ASSUME CInv, UNCHANGED <<ledger, col, clear, ghosts, env>>,
         count' \in [Names -> Bytes \cup {None}], epoch' \in [Names -> Nat],
         month' \in Months,
         \A n \in Names :
           /\ epoch[n] <= epoch'[n]
           /\ epoch'[n] = epoch[n] /\ count'[n] # None =>
                /\ count[n] # None
                /\ \A d \in Dirs : count[n][d] <= count'[n][d]
  PROVE  CInv'
  <1>1. TypeOK'
    BY DEF CInv, TypeOK, ledger, ghosts, env
  <1>2. ASSUME NEW n \in Names, NEW at \in Bytes, NEW e \in Nat, Behind(at, e, n)
        PROVE  Behind(at, e, n)'
    <2>1. epoch[n] \in Nat /\ epoch'[n] \in Nat
      BY DEF CInv, TypeOK
    <2>2. \A d \in Dirs : /\ at[d] \in Nat
                          /\ count[n] # None => count[n][d] \in Nat
                          /\ count'[n] # None => count'[n][d] \in Nat
      BY DEF CInv, TypeOK, Bytes
    <2>3. e <= epoch'[n]
      BY <1>2, <2>1 DEF Behind
    <2>4. ASSUME count'[n] # None, e = epoch'[n], NEW d \in Dirs PROVE at[d] <= count'[n][d]
      <3>1. epoch'[n] = epoch[n]
        BY <1>2, <2>1, <2>4 DEF Behind
      <3>2. at[d] <= count[n][d] /\ count[n][d] <= count'[n][d] /\ count[n] # None
        BY <1>2, <2>4, <3>1 DEF Behind
      <3> QED BY <2>2, <2>4, <3>2
    <2> QED BY <2>3, <2>4 DEF Behind
  <1>3. \A n \in Names : col.sample[n] # None =>
          col.sample[n].at \in Bytes /\ col.sample[n].epoch \in Nat
    BY DEF CInv, TypeOK, Locals, Sample
  <1>4. \A n \in Names : last[n] # None => last[n].at \in Bytes /\ last[n].epoch \in Nat
    BY DEF CInv, TypeOK
  <1>5. col' = col /\ last' = last
    BY DEF ghosts
  <1>6. SamplesGrow'
    BY <1>2, <1>3, <1>4, <1>5 DEF CInv, SamplesGrow, Behind
  <1> QED BY <1>1, <1>5, <1>6 DEF CInv

LEMMA TransferFits ==
  ASSUME CInv, NEW n \in Names, Transfer(n) PROVE CInv'
  <1>1. PICK d \in Dirs : count' = [count EXCEPT ![n][d] = @ + 1]
    BY DEF Transfer
  <1>2. count \in [Names -> Bytes \cup {None}] /\ count[n] \in Bytes
    BY DEF Transfer, CInv, TypeOK
  <1>3. \A c \in Dirs : count[n][c] \in Nat
    BY <1>2 DEF Bytes
  <1> DEFINE more == [count[n] EXCEPT ![d] = @ + 1]
  <1>4. more \in Bytes /\ \A c \in Dirs : count[n][c] <= more[c]
    BY <1>2, <1>3 DEF Bytes
  <1>5. count' = [count EXCEPT ![n] = more]
    BY <1>1
  <1> HIDE DEF more
  <1>6. count' \in [Names -> Bytes \cup {None}]
    BY <1>2, <1>4, <1>5
  <1>7. epoch' = epoch /\ month' = month /\ UNCHANGED <<ledger, col, clear, ghosts, env>>
    BY DEF Transfer
  <1>8. \A q \in Names : epoch[q] \in Nat
    BY DEF CInv, TypeOK
  <1>9. \A q \in Names : count'[q] # None =>
          count[q] # None /\ \A c \in Dirs : count[q][c] <= count'[q][c]
    <2> TAKE q \in Names
    <2>1. CASE q = n
      BY <2>1, <1>2, <1>4, <1>5, NoneAssumption DEF Transfer
    <2>2. CASE q # n
      <3>1. count'[q] = count[q]
        BY <2>2, <1>2, <1>5
      <3>2. count[q] # None => \A c \in Dirs : count[q][c] \in Nat
        BY <1>2 DEF Bytes
      <3> QED BY <3>1, <3>2
    <2> QED BY <2>1, <2>2
  <1> QED BY <1>6, <1>7, <1>8, <1>9, WorldFits DEF CInv, TypeOK

LEMMA LeaveJoinFits ==
  ASSUME CInv, NEW n \in Names, Leave(n) \/ Join(n) PROVE CInv'
  <1>1. /\ UNCHANGED <<ledger, col, clear, ghosts, env>> /\ month' \in Months
        /\ count \in [Names -> Bytes \cup {None}] /\ epoch \in [Names -> Nat]
    BY DEF Leave, Join, CInv, TypeOK
  <1>2. \A q \in Names : count[q] # None => \A d \in Dirs : count[q][d] <= count[q][d]
    BY <1>1 DEF Bytes
  <1>3. CASE Leave(n)
    <2>1. count' = [count EXCEPT ![n] = None] /\ epoch' = epoch
      BY <1>3 DEF Leave
    <2>2. count' \in [Names -> Bytes \cup {None}]
      BY <1>1, <2>1
    <2>3. \A q \in Names : epoch[q] <= epoch'[q]
      BY <1>1, <2>1
    <2> QED BY <1>1, <1>2, <2>1, <2>2, <2>3, WorldFits
  <1>4. CASE Join(n)
    <2>1. count' = [count EXCEPT ![n] = Zero] /\ epoch' = [epoch EXCEPT ![n] = @ + 1]
      BY <1>4 DEF Join
    <2>2. count' \in [Names -> Bytes \cup {None}] /\ epoch' \in [Names -> Nat]
      BY <1>1, <2>1, ZeroTyped
    <2>3. \A q \in Names : epoch[q] <= epoch'[q]
      BY <1>1, <2>1
    <2>4. \A q \in Names : epoch'[q] = epoch[q] => q # n /\ count'[q] = count[q]
      BY <1>1, <2>1
    <2> QED BY <1>1, <1>2, <2>2, <2>3, <2>4, WorldFits
  <1> QED BY <1>3, <1>4

LEMMA BounceFits == CInv /\ Bounce => CInv'
  <1> SUFFICES ASSUME CInv, Bounce PROVE CInv'
    OBVIOUS
  <1>1. /\ UNCHANGED <<ledger, col, clear, ghosts, env>> /\ month' \in Months
        /\ count \in [Names -> Bytes \cup {None}] /\ epoch \in [Names -> Nat]
        /\ count' = [n \in Names |-> IF count[n] = None THEN None ELSE Zero]
        /\ epoch' = [n \in Names |-> epoch[n] + 1]
    BY DEF Bounce, CInv, TypeOK
  <1>2. count' \in [Names -> Bytes \cup {None}] /\ epoch' \in [Names -> Nat]
    BY <1>1, ZeroTyped
  <1>3. \A n \in Names : epoch[n] <= epoch'[n] /\ epoch'[n] # epoch[n]
    BY <1>1
  <1> QED BY <1>1, <1>2, <1>3, WorldFits

LEMMA MidnightFits == CInv /\ Midnight => CInv'
  <1> SUFFICES ASSUME CInv, Midnight PROVE CInv'
    OBVIOUS
  <1>1. /\ UNCHANGED <<count, epoch, ledger, col, clear, ghosts, env>>
        /\ month < MaxMonth /\ month' = month + 1
        /\ count \in [Names -> Bytes \cup {None}] /\ epoch \in [Names -> Nat]
    BY DEF Midnight, CInv, TypeOK
  <1>2. month' \in Months
    BY <1>1, CollectorAssumption DEF Months, CInv, TypeOK
  <1>3. \A n \in Names : /\ epoch[n] <= epoch'[n]
                         /\ count[n] # None => \A d \in Dirs : count[n][d] <= count'[n][d]
    BY <1>1 DEF Bytes
  <1> QED BY <1>1, <1>2, <1>3, WorldFits

LEMMA StepFits == CInv /\ [Next]_vars => CInv'
  <1> SUFFICES ASSUME CInv, [Next]_vars PROVE CInv'
    OBVIOUS
  <1>1. CASE Collect
    BY <1>1, StatsFits, ParseFits, BaseGetFits, HasGetFits, BaseSetFits, SnapGetFits,
       TotalGetFits, ReanchorFits, TotalSetFits, SnapSaveFits, CallFailsFits DEF Collect
  <1>2. CASE ClearTotals \/ ClearBaselines \/ ClearCutOff
    BY <1>2, ClearingFits
  <1>3. ASSUME NEW n \in Names, Transfer(n) \/ Leave(n) \/ Join(n) PROVE CInv'
    BY <1>3, TransferFits, LeaveJoinFits
  <1>4. CASE Bounce \/ Midnight \/ Crash
    BY <1>4, BounceFits, MidnightFits, CrashFits
  <1>5. CASE UNCHANGED vars
    BY <1>5 DEF vars, CInv, TypeOK, SamplesGrow, Behind
  <1> QED BY <1>1, <1>2, <1>3, <1>4, <1>5 DEF Next

-----------------------------------------------------------------------------

\* No total, offset or counter is ever negative, in the tables, in the locals of
\* collect, and in what the observer adds up: computeMonthTraffic never subtracts
\* more than it has, whatever was reset, cleared, lost or cut off before it.
THEOREM CollectorTypeCorrect == Spec => []TypeOK
  <1>1. Init => CInv
    BY InitFits
  <1>2. CInv /\ [Next]_vars => CInv'
    BY StepFits
  <1>3. CInv => TypeOK
    BY DEF CInv
  <1> QED BY <1>1, <1>2, <1>3, PTL DEF Spec

-----------------------------------------------------------------------------
(* The three tables.                                                         *)

NoClearing == clear = 0 /\ clears = 0

\* The total of a month is its offset and what the snapshot counts from the
\* baseline.
Agree(n, m) ==
  total[n][m] # None =>
    /\ base[n][m] # None /\ snap[n] # None
    /\ \A d \in Dirs : /\ base[n][m].at[d] <= snap[n].at[d]
                       /\ total[n][m][d] =
                            base[n][m].off[d] + (snap[n].at[d] - base[n][m].at[d])

\* Between the new baseline and the snapshot the tables do not agree.
Between(n) ==
  n = col.p /\ (col.pc = "snap.save" \/ (col.pc = "total.set" /\ Result.reanchor))

\* A month later than the last sample of a client has no total of it.
Ahead ==
  \A n \in Names, m \in Months : total[n][m] # None =>
    base[n][m] # None /\ last[n] # None /\ m <= last[n].month

Dated == \A n \in Names : last[n] # None => last[n].month <= month

Sampled ==
  col.pc \notin {"idle", "parse"} =>
    \A q \in col.todo \cup {col.p} : last[q] # None /\ last[q].month = col.m

Settled ==
  \A n \in Names \ torn : last[n] # None /\ ~Between(n) => Agree(n, last[n].month)

\* What was read of the client in hand is still what the tables hold.
ReadBase == col.pc \in {"snap.get", "total.get", "reanchor"} => base[col.p][col.m] = col.b

NewRow == col.pc \in {"has.get", "base.set"} => base[col.p][col.m] = None

ReadSnap ==
  col.pc \in {"total.get", "reanchor", "total.set", "snap.save"} =>
    col.prev = IF snap[col.p] = None THEN None ELSE snap[col.p].at

ReadTotal == col.pc \in {"reanchor", "total.set"} => col.stored = total[col.p][col.m]

Written ==
  /\ col.pc = "reanchor" => Result.reanchor
  /\ col.pc \in {"total.set", "snap.save"} =>
       /\ base[col.p][col.m] # None
       /\ base[col.p][col.m].at = Result.at /\ base[col.p][col.m].off = Result.off
  /\ col.pc = "snap.save" => total[col.p][col.m] = Result.total

\* What was read agreed, unless the last collection was cut off.
ReadAgreed ==
  col.pc \in {"reanchor", "total.set"} /\ col.p \notin torn /\ col.stored # None =>
    /\ col.prev # None
    /\ \A d \in Dirs : /\ col.b.at[d] <= col.prev[d]
                       /\ col.stored[d] = col.b.off[d] + (col.prev[d] - col.b.at[d])

Hand == ReadBase /\ NewRow /\ ReadSnap /\ ReadTotal /\ Written /\ ReadAgreed

LInv == Ahead /\ Dated /\ Sampled /\ Settled /\ Hand

LedgerInv == NoClearing => LInv
-----------------------------------------------------------------------------
(* computeMonthTraffic.                                                      *)

\* The new total is the new offset and what the sample counts from the new
\* baseline.
LEMMA TotalFromBaseline ==
  ASSUME NEW b \in Baseline, NEW prev \in Bytes \cup {None}, NEW stored \in Bytes \cup {None},
         NEW now \in Bytes, NEW d \in Dirs
  PROVE  LET r == MonthTraffic(b, prev, stored, now)
         IN r.at[d] <= now[d] /\ r.total[d] = r.off[d] + (now[d] - r.at[d])
  <1>1. b.at[d] \in Nat /\ b.off[d] \in Nat /\ now[d] \in Nat
    BY DEF Baseline, Bytes
  <1>2. CASE ~CountersDropped(b, prev, now)
    <2>1. now[d] >= b.at[d]
      BY <1>1, <1>2 DEF CountersDropped
    <2> QED BY <1>1, <1>2, <2>1 DEF MonthTraffic, Delta
  <1>3. CASE CountersDropped(b, prev, now)
    <2> DEFINE r == MonthTraffic(b, prev, stored, now)
    <2>1. r.at = Zero /\ r.total[d] = r.off[d] + Delta(0, now[d])
      BY <1>3 DEF MonthTraffic
    <2>2. r.off \in Bytes
      BY MonthTrafficTyped
    <2> HIDE DEF r
    <2>3. r.at[d] = 0 /\ r.off[d] \in Nat
      BY <2>1, <2>2, ZeroTyped DEF Bytes
    <2>4. Delta(0, now[d]) = now[d] - 0
      BY <1>1 DEF Delta
    <2>5. r.at[d] <= now[d] /\ r.total[d] = r.off[d] + (now[d] - r.at[d])
      BY <1>1, <2>1, <2>3, <2>4
    <2> QED BY <2>5 DEF r
  <1> QED BY <1>2, <1>3

\* It is not below a stored total that agrees with the snapshot.
LEMMA TotalNotBelow ==
  ASSUME NEW b \in Baseline, NEW prev \in Bytes, NEW stored \in Bytes, NEW now \in Bytes,
         prev # None, stored # None,
         \A d \in Dirs : b.at[d] <= prev[d] /\ stored[d] = b.off[d] + (prev[d] - b.at[d]),
         NEW d \in Dirs
  PROVE  stored[d] <= MonthTraffic(b, prev, stored, now).total[d]
  <1>1. b.at[d] \in Nat /\ b.off[d] \in Nat /\ now[d] \in Nat /\ prev[d] \in Nat /\ stored[d] \in Nat
    BY DEF Baseline, Bytes
  <1>2. CASE ~CountersDropped(b, prev, now)
    <2>1. now[d] >= b.at[d] /\ now[d] >= prev[d]
      BY <1>1, <1>2 DEF CountersDropped
    <2> QED BY <1>1, <1>2, <2>1 DEF MonthTraffic, Delta
  <1>3. CASE CountersDropped(b, prev, now)
    <2>1. OffsetAfterReset(b, prev, stored, d) = stored[d]
      BY <1>1 DEF OffsetAfterReset, SegmentBeforeReset, Delta
    <2>2. MonthTraffic(b, prev, stored, now).total[d] = stored[d] + now[d]
      BY <1>1, <1>3, <2>1 DEF MonthTraffic, Delta
    <2> QED BY <1>1, <2>2
  <1> QED BY <1>2, <1>3

LEMMA NotReanchored ==
  ASSUME NEW b, NEW prev, NEW stored, NEW now, ~MonthTraffic(b, prev, stored, now).reanchor
  PROVE  /\ MonthTraffic(b, prev, stored, now).at = b.at
         /\ MonthTraffic(b, prev, stored, now).off = b.off
  BY DEF MonthTraffic

-----------------------------------------------------------------------------
(* The steps.                                                                *)

LEMMA DatesKeep ==
  ASSUME CInv, LInv, UNCHANGED <<base, total, last>>, month' \in Months, month <= month'
  PROVE  Ahead' /\ Dated'
  <1>1. Ahead'
    BY DEF LInv, Ahead
  <1>2. ASSUME NEW n \in Names, last'[n] # None PROVE last'[n].month <= month'
    <2>1. /\ last'[n] = last[n] /\ last[n].month <= month
          /\ last[n].month \in Months /\ month \in Months
      BY <1>2 DEF LInv, Dated, CInv, TypeOK
    <2>2. last[n].month \in Nat /\ month \in Nat /\ month' \in Nat
      BY <2>1 DEF Months
    <2>3. \A i, j, k \in Nat : i <= j /\ j <= k => i <= k
      OBVIOUS
    <2>4. last[n].month <= month'
      BY <2>1, <2>2, <2>3
    <2> QED BY <2>1, <2>4
  <1> QED BY <1>1, <1>2 DEF Dated

\* What is around the collector does not touch the tables.
LEMMA WorldLedger ==
  ASSUME CInv, LInv, UNCHANGED <<ledger, col, last, torn>>, month' \in Months, month <= month'
  PROVE  LInv'
  <1>1. UNCHANGED <<base, total, snap>>
    BY DEF ledger
  <1>2. Ahead' /\ Dated'
    BY <1>1, DatesKeep
  <1>3. Sampled' /\ Settled' /\ Hand'
    BY <1>1 DEF LInv, Sampled, Settled, Between, Agree, Result, Now, Hand, ReadBase, NewRow,
                ReadSnap, ReadTotal, Written, ReadAgreed
  <1> QED BY <1>2, <1>3 DEF LInv

\* A read: the client in hand stays, and so do the tables.
LEMMA ReadLedger ==
  ASSUME CInv, LInv, Read, col.pc \notin {"idle", "parse", "total.set", "snap.save"},
         col'.p = col.p, col'.m = col.m, col'.todo = col.todo, Hand'
  PROVE  LInv'
  <1>1. UNCHANGED <<base, total, snap, last, torn, month>>
    BY DEF Read, ledger, ghosts, world
  <1>2. month' \in Months /\ month <= month'
    BY <1>1 DEF CInv, TypeOK, Months
  <1>3. Ahead' /\ Dated'
    BY <1>1, <1>2, DatesKeep
  <1>4. Sampled'
    BY <1>1 DEF LInv, Sampled
  <1>5. Settled'
    BY <1>1 DEF LInv, Settled, Between, Agree
  <1> QED BY <1>3, <1>4, <1>5 DEF LInv

LEMMA BaseGetLedger ==
  ASSUME CInv, LInv, BaseGet
  PROVE  LInv'
  <1>1. col.pc = "base.get" /\ Read /\ UNCHANGED <<base, total, snap>>
    BY DEF BaseGet, Read, ledger
  <1> DEFINE b == base[col.p][col.m]
             pc == IF b = None THEN "has.get" ELSE "snap.get"
  <1>2. col' = [col EXCEPT !.pc = pc, !.b = b]
    BY DEF BaseGet
  <1>3. b = None => pc = "has.get"
    OBVIOUS
  <1>4. b # None => pc = "snap.get"
    OBVIOUS
  <1>5. pc \in {"has.get", "snap.get"}
    OBVIOUS
  <1> HIDE DEF pc
  <1>6. /\ col'.p = col.p /\ col'.m = col.m /\ col'.todo = col.todo
        /\ col'.pc = pc /\ col'.b = b
    BY <1>1, <1>2, InHand DEF Locals
  <1>7. Hand'
    BY <1>1, <1>3, <1>4, <1>5, <1>6 DEF Hand, ReadBase, NewRow, ReadSnap, ReadTotal, Written,
                                        ReadAgreed
  <1> QED BY <1>1, <1>6, <1>7, ReadLedger

\* The new baseline, whether HasTrafficInMonth answers or fails.
LEMMA NewBaseline ==
  ASSUME CInv, LInv, col.pc = "has.get", UNCHANGED <<base, total, snap>>,
         NEW b, col' = [col EXCEPT !.pc = "base.set", !.b = b]
  PROVE  /\ col'.p = col.p /\ col'.m = col.m /\ col'.todo = col.todo /\ col'.pc = "base.set"
         /\ Hand'
  <1>1. /\ col'.p = col.p /\ col'.m = col.m /\ col'.todo = col.todo /\ col'.pc = "base.set"
    BY InHand DEF Locals
  <1>2. Hand'
    BY <1>1 DEF LInv, Hand, ReadBase, NewRow, ReadSnap, ReadTotal, Written, ReadAgreed
  <1> QED BY <1>1, <1>2

LEMMA HasGetLedger ==
  ASSUME CInv, LInv, HasGet
  PROVE  LInv'
  <1>1. col.pc = "has.get" /\ Read /\ UNCHANGED <<base, total, snap>>
    BY DEF HasGet, Read, ledger
  <1>2. PICK b : col' = [col EXCEPT !.pc = "base.set", !.b = b]
    BY DEF HasGet
  <1> QED BY <1>1, <1>2, NewBaseline, ReadLedger

LEMMA SnapGetLedger ==
  ASSUME CInv, LInv, SnapGet
  PROVE  LInv'
  <1>1. col.pc = "snap.get" /\ Read /\ UNCHANGED <<base, total, snap>>
    BY DEF SnapGet, Read, ledger
  <1> DEFINE v == IF snap[col.p] = None THEN None ELSE snap[col.p].at
  <1>2. col' = [col EXCEPT !.pc = "total.get", !.prev = v]
    BY DEF SnapGet
  <1> HIDE DEF v
  <1>3. /\ col'.p = col.p /\ col'.m = col.m /\ col'.todo = col.todo
        /\ col'.pc = "total.get" /\ col'.b = col.b /\ col'.prev = v
    BY <1>1, <1>2, InHand DEF Locals
  <1>4. Hand'
    BY <1>1, <1>3 DEF LInv, Hand, ReadBase, NewRow, ReadSnap, ReadTotal, Written, ReadAgreed, v
  <1> QED BY <1>1, <1>3, <1>4, ReadLedger

\* What was read of the client in hand agrees.
LEMMA HandAgrees ==
  ASSUME CInv, LInv, col.pc = "total.get", col.p \notin torn, total[col.p][col.m] # None
  PROVE  /\ col.prev # None
         /\ \A d \in Dirs : /\ col.b.at[d] <= col.prev[d]
                            /\ total[col.p][col.m][d] =
                                 col.b.off[d] + (col.prev[d] - col.b.at[d])
  <1>1. col.p \in Names /\ last[col.p] # None /\ last[col.p].month = col.m
    BY InHand DEF LInv, Sampled
  <1>2. Agree(col.p, col.m)
    BY <1>1 DEF LInv, Settled, Between
  <1>3. base[col.p][col.m] = col.b /\ snap[col.p] # None
    BY <1>2 DEF LInv, Hand, ReadBase, Agree
  <1>4. col.prev = snap[col.p].at
    BY <1>3 DEF LInv, Hand, ReadSnap
  <1>5. snap[col.p] \in Sample
    BY <1>1, <1>3 DEF CInv, TypeOK
  <1>6. col.prev # None
    BY <1>4, <1>5, NoneAssumption DEF Sample
  <1> QED BY <1>2, <1>3, <1>4, <1>6 DEF Agree

LEMMA TotalGetLedger ==
  ASSUME CInv, LInv, TotalGet
  PROVE  LInv'
  <1>1. col.pc = "total.get" /\ Read /\ UNCHANGED <<base, total, snap, torn>>
    BY DEF TotalGet, Read, ledger, ghosts
  <1> DEFINE v == total[col.p][col.m]
             res == MonthTraffic(col.b, col.prev, v, Now)
             pc == IF res.reanchor THEN "reanchor" ELSE "total.set"
  <1>2. col' = [col EXCEPT !.pc = pc, !.stored = v]
    BY DEF TotalGet
  <1>3. /\ pc \in {"reanchor", "total.set"}
        /\ pc = "reanchor" => res.reanchor
        /\ pc = "total.set" => res.at = col.b.at /\ res.off = col.b.off
    BY NotReanchored
  <1> HIDE DEF pc
  <1>4. /\ col'.p = col.p /\ col'.m = col.m /\ col'.todo = col.todo /\ col'.sample = col.sample
        /\ col'.pc = pc /\ col'.b = col.b /\ col'.prev = col.prev /\ col'.stored = v
    BY <1>1, <1>2, InHand DEF Locals
  <1>5. Result' = res
    BY <1>4 DEF Result, Now
  <1>6. base[col.p][col.m] = col.b /\ col.b \in Baseline
    BY <1>1 DEF LInv, Hand, ReadBase, CInv, ControlOf
  <1>7. Written'
    BY <1>1, <1>3, <1>4, <1>5, <1>6, NoneAssumption DEF Written
  <1>8. ReadBase' /\ NewRow' /\ ReadSnap' /\ ReadTotal'
    BY <1>1, <1>3, <1>4, <1>6 DEF LInv, Hand, ReadBase, NewRow, ReadSnap, ReadTotal
  <1>9. ReadAgreed'
    BY <1>1, <1>4, HandAgrees DEF ReadAgreed
  <1> QED BY <1>1, <1>4, <1>7, <1>8, <1>9, ReadLedger DEF Hand

\* A row of the month in hand changes: the other clients are not concerned.
LEMMA BaseSetLedger ==
  ASSUME CInv, LInv, BaseSet
  PROVE  LInv'
  <1>1. /\ col.pc = "base.set" /\ col' = [col EXCEPT !.pc = "snap.get"]
        /\ base' = [base EXCEPT ![col.p][col.m] = col.b]
        /\ UNCHANGED <<total, snap, last, torn, month>>
    BY DEF BaseSet, world
  <1>2. col.p \in Names /\ col.m \in Months /\ col.b \in Baseline /\ col.b # None
    BY <1>1, InHand, NoneAssumption DEF CInv, ControlOf
  <1>3. /\ base'[col.p][col.m] = col.b
        /\ \A n \in Names, m \in Months : n # col.p \/ m # col.m => base'[n][m] = base[n][m]
    BY <1>1, <1>2 DEF CInv, TypeOK
  <1>4. /\ col'.p = col.p /\ col'.m = col.m /\ col'.todo = col.todo
        /\ col'.pc = "snap.get" /\ col'.b = col.b
    BY <1>1, InHand DEF Locals
  <1>5. last[col.p] # None /\ last[col.p].month = col.m
    BY <1>1 DEF LInv, Sampled
  <1>6. total[col.p][col.m] = None
    BY <1>1, <1>2 DEF LInv, Hand, NewRow, Ahead
  <1>7. Ahead'
    BY <1>1, <1>2, <1>3 DEF LInv, Ahead
  <1>8. Dated' /\ Sampled'
    BY <1>1, <1>4 DEF LInv, Dated, Sampled
  <1>9. ASSUME NEW n \in Names \ torn', last'[n] # None PROVE Agree(n, last[n].month)'
    <2>1. CASE n = col.p
      BY <1>1, <1>5, <1>6, <2>1 DEF Agree
    <2>2. CASE n # col.p
      <3>1. Agree(n, last[n].month) /\ last[n].month \in Months
        BY <1>1, <1>9, <2>2 DEF LInv, Settled, Between, CInv, TypeOK
      <3> QED BY <1>1, <1>3, <2>2, <3>1 DEF Agree
    <2> QED BY <2>1, <2>2
  <1>10. Settled'
    BY <1>1, <1>9 DEF Settled, Agree
  <1>11. Hand'
    BY <1>3, <1>4 DEF Hand, ReadBase, NewRow, ReadSnap, ReadTotal, Written, ReadAgreed
  <1> QED BY <1>7, <1>8, <1>10, <1>11 DEF LInv

LEMMA ReanchorLedger ==
  ASSUME CInv, LInv, Reanchor
  PROVE  LInv'
  <1> DEFINE b == [at |-> Result.at, off |-> Result.off, epoch |-> col.sample[col.p].epoch]
  <1>1. /\ col.pc = "reanchor" /\ col' = [col EXCEPT !.pc = "total.set"]
        /\ base' = [base EXCEPT ![col.p][col.m] = b]
        /\ UNCHANGED <<total, snap, last, torn, month>>
    BY DEF Reanchor, world, ghosts
  <1>2. col.p \in Names /\ col.m \in Months
    BY <1>1, InHand
  <1>3. b \in Baseline /\ b # None /\ b.at = Result.at /\ b.off = Result.off
    <2>1. b \in Baseline
      BY <1>1, ResultTyped, InHand DEF CInv, Baseline, Sample
    <2> QED BY <2>1, NoneAssumption
  <1> HIDE DEF b
  <1>4. /\ base'[col.p][col.m] = b
        /\ \A n \in Names, m \in Months : n # col.p \/ m # col.m => base'[n][m] = base[n][m]
    BY <1>1, <1>2 DEF CInv, TypeOK
  <1>5. /\ col'.p = col.p /\ col'.m = col.m /\ col'.todo = col.todo /\ col'.sample = col.sample
        /\ col'.pc = "total.set" /\ col'.b = col.b /\ col'.prev = col.prev
        /\ col'.stored = col.stored
    BY <1>1, InHand DEF Locals
  <1>6. Result' = Result /\ Result.reanchor
    BY <1>1, <1>5 DEF Result, Now, LInv, Hand, Written
  <1>7. Ahead'
    BY <1>1, <1>2, <1>3, <1>4 DEF LInv, Ahead
  <1>8. Dated' /\ Sampled'
    BY <1>1, <1>5 DEF LInv, Dated, Sampled
  <1>9. Settled'
    <2> SUFFICES ASSUME NEW n \in Names \ torn', last'[n] # None, ~Between(n)'
                 PROVE  Agree(n, last[n].month)'
      BY <1>1 DEF Settled, Agree
    <2>1. n # col.p
      BY <1>5, <1>6 DEF Between
    <2>2. Agree(n, last[n].month) /\ last[n].month \in Months
      BY <1>1, <2>1 DEF LInv, Settled, Between, CInv, TypeOK
    <2> QED BY <1>1, <1>4, <2>1, <2>2 DEF Agree
  <1>10. Hand'
    <2>1. ReadBase' /\ NewRow' /\ ReadSnap' /\ ReadTotal'
      BY <1>1, <1>5 DEF LInv, Hand, ReadBase, NewRow, ReadSnap, ReadTotal
    <2>2. Written'
      BY <1>3, <1>4, <1>5, <1>6 DEF Written
    <2>3. ReadAgreed'
      BY <1>1, <1>5 DEF LInv, Hand, ReadAgreed
    <2> QED BY <2>1, <2>2, <2>3 DEF Hand
  <1> QED BY <1>7, <1>8, <1>9, <1>10 DEF LInv

LEMMA TotalSetLedger ==
  ASSUME CInv, LInv, TotalSet
  PROVE  LInv'
  <1>1. /\ col.pc = "total.set" /\ col' = [col EXCEPT !.pc = "snap.save"]
        /\ total' = [total EXCEPT ![col.p][col.m] = Result.total]
        /\ UNCHANGED <<base, snap, last, torn, month>>
    BY DEF TotalSet, world, ghosts
  <1>2. col.p \in Names /\ col.m \in Months
    BY <1>1, InHand
  <1>3. last[col.p] # None /\ last[col.p].month = col.m
    BY <1>1 DEF LInv, Sampled
  <1>4. /\ total'[col.p][col.m] = Result.total
        /\ \A n \in Names, m \in Months : n # col.p \/ m # col.m => total'[n][m] = total[n][m]
    BY <1>1, <1>2 DEF CInv, TypeOK
  <1>5. /\ col'.p = col.p /\ col'.m = col.m /\ col'.todo = col.todo /\ col'.sample = col.sample
        /\ col'.pc = "snap.save" /\ col'.b = col.b /\ col'.prev = col.prev
        /\ col'.stored = col.stored
    BY <1>1, InHand DEF Locals
  <1>6. Result' = Result
    BY <1>5 DEF Result, Now
  <1>7. Ahead'
    <2> SUFFICES ASSUME NEW n \in Names, NEW m \in Months, total'[n][m] # None
                 PROVE  base[n][m] # None /\ last[n] # None /\ m <= last[n].month
      BY <1>1 DEF Ahead
    <2>1. CASE n = col.p /\ m = col.m
      <3>1. base[n][m] # None
        BY <1>1, <2>1 DEF LInv, Hand, Written
      <3>2. m <= last[n].month
        BY <1>3, <2>1 DEF Months
      <3> QED BY <1>3, <2>1, <3>1, <3>2
    <2>2. CASE n # col.p \/ m # col.m
      BY <1>4, <2>2 DEF LInv, Ahead
    <2> QED BY <2>1, <2>2
  <1>8. Dated' /\ Sampled'
    BY <1>1, <1>5 DEF LInv, Dated, Sampled
  <1>9. Settled'
    <2> SUFFICES ASSUME NEW n \in Names \ torn', last'[n] # None, ~Between(n)'
                 PROVE  Agree(n, last[n].month)'
      BY <1>1 DEF Settled, Agree
    <2>1. n # col.p
      BY <1>5 DEF Between
    <2>2. Agree(n, last[n].month) /\ last[n].month \in Months
      BY <1>1, <2>1 DEF LInv, Settled, Between, CInv, TypeOK
    <2> QED BY <1>1, <1>4, <2>1, <2>2 DEF Agree
  <1>10. Hand'
    <2>1. ReadBase' /\ NewRow' /\ ReadSnap' /\ ReadTotal' /\ ReadAgreed'
      BY <1>1, <1>5 DEF LInv, Hand, ReadBase, NewRow, ReadSnap, ReadTotal, ReadAgreed
    <2>2. Written'
      BY <1>1, <1>4, <1>5, <1>6 DEF LInv, Hand, Written
    <2> QED BY <2>1, <2>2 DEF Hand
  <1> QED BY <1>7, <1>8, <1>9, <1>10 DEF LInv

\* The loop goes on: nothing is in hand.
LEMMA LoopGoesOn ==
  ASSUME CInv, LInv, col.pc \notin {"idle", "parse"}, Continue(col.todo), last' = last
  PROVE  Sampled' /\ Hand' /\ \A n \in Names : ~Between(n)'
  <1>1. CASE col' = Waiting
    <2>1. col'.pc = "idle"
      BY <1>1, WaitingFits
    <2> QED BY <2>1 DEF Sampled, Hand, ReadBase, NewRow, ReadSnap, ReadTotal, Written, ReadAgreed,
                        Between
  <1>2. CASE col' # Waiting
    <2>1. PICK q \in col.todo :
            col' = [col EXCEPT !.pc = "base.get", !.p = q, !.todo = col.todo \ {q},
                               !.b = None, !.prev = None, !.stored = None]
      BY <1>2 DEF Continue
    <2>2. /\ col'.pc = "base.get" /\ col'.m = col.m
          /\ col'.todo \cup {col'.p} \subseteq col.todo
      BY <2>1, InHand DEF Locals
    <2>3. Sampled'
      BY <2>2 DEF LInv, Sampled
    <2> QED BY <2>2, <2>3 DEF Hand, ReadBase, NewRow, ReadSnap, ReadTotal, Written, ReadAgreed,
                              Between
  <1> QED BY <1>1, <1>2

LEMMA SnapSaveLedger ==
  ASSUME CInv, LInv, SnapSave
  PROVE  LInv'
  <1>1. /\ col.pc = "snap.save" /\ Continue(col.todo)
        /\ snap' = [snap EXCEPT ![col.p] = col.sample[col.p]]
        /\ torn' = torn \ {col.p}
        /\ UNCHANGED <<base, total, last, month>>
    BY DEF SnapSave, world
  <1>2. /\ col.p \in Names /\ col.m \in Months /\ col.sample[col.p] \in Sample
        /\ col.sample[col.p] # None /\ Now \in Bytes
    BY <1>1, InHand DEF CInv, ControlOf
  <1>3. month' \in Months /\ month <= month'
    BY <1>1 DEF CInv, TypeOK, Months
  <1>4. Ahead' /\ Dated'
    BY <1>1, <1>3, DatesKeep
  <1>5. Sampled' /\ Hand'
    BY <1>1, LoopGoesOn
  <1>6. /\ snap'[col.p] = col.sample[col.p]
        /\ \A n \in Names : n # col.p => snap'[n] = snap[n]
    BY <1>1, <1>2 DEF CInv, TypeOK
  <1>7. /\ base[col.p][col.m] # None /\ snap'[col.p] # None
        /\ \A d \in Dirs :
             /\ base[col.p][col.m].at[d] <= snap'[col.p].at[d]
             /\ total[col.p][col.m][d] =
                  base[col.p][col.m].off[d] + (snap'[col.p].at[d] - base[col.p][col.m].at[d])
    <2>1. /\ col.b \in Baseline /\ col.prev \in Bytes \cup {None}
          /\ col.stored \in Bytes \cup {None}
      BY <1>1 DEF CInv, ControlOf, TypeOK, Locals
    <2>2. \A d \in Dirs : Result.at[d] <= Now[d]
                          /\ Result.total[d] = Result.off[d] + (Now[d] - Result.at[d])
      BY <1>2, <2>1, TotalFromBaseline DEF Result
    <2>3. /\ total[col.p][col.m] = Result.total /\ base[col.p][col.m] # None
          /\ base[col.p][col.m].at = Result.at /\ base[col.p][col.m].off = Result.off
      BY <1>1 DEF LInv, Hand, Written
    <2>4. snap'[col.p] # None /\ snap'[col.p].at = Now
      BY <1>2, <1>6 DEF Now
    <2> QED BY <2>2, <2>3, <2>4
  <1>8. Settled'
    <2> SUFFICES ASSUME NEW n \in Names \ torn', last[n] # None
                 PROVE  Agree(n, last[n].month)'
      BY <1>1 DEF Settled, Agree
    <2>1. CASE n = col.p
      <3>1. last[n].month = col.m
        BY <1>1, <2>1 DEF LInv, Sampled
      <3> QED BY <1>1, <1>7, <2>1, <3>1 DEF Agree
    <2>2. CASE n # col.p
      <3>1. Agree(n, last[n].month)
        BY <1>1, <2>2 DEF LInv, Settled, Between
      <3> QED BY <1>1, <1>6, <2>2, <3>1 DEF Agree
    <2> QED BY <2>1, <2>2
  <1> QED BY <1>4, <1>5, <1>8 DEF LInv

LEMMA StatsLedger ==
  ASSUME CInv, LInv, Stats
  PROVE  LInv'
  <1>1. col.pc = "idle" /\ UNCHANGED <<base, total, snap, last, torn, month>>
    BY DEF Stats, world, ledger, ghosts
  <1>2. col'.pc = "parse"
    BY DEF Stats, CInv, TypeOK, Locals
  <1>3. month' \in Months /\ month <= month'
    BY <1>1 DEF CInv, TypeOK, Months
  <1>4. Ahead' /\ Dated'
    BY <1>1, <1>3, DatesKeep
  <1>5. Settled'
    BY <1>1, <1>2 DEF LInv, Settled, Between, Agree
  <1>6. Sampled' /\ Hand'
    BY <1>2 DEF Sampled, Hand, ReadBase, NewRow, ReadSnap, ReadTotal, Written, ReadAgreed
  <1> QED BY <1>4, <1>5, <1>6 DEF LInv

\* The month of a sampled client is this month: if it is a new one, no total of
\* it is there yet.
LEMMA ParseLedger ==
  ASSUME CInv, LInv, Parse
  PROVE  LInv'
  <1> DEFINE sampled == {n \in Names : col.sample[n] # None}
  <1>1. /\ col.pc = "parse"
        /\ \/ sampled = {} /\ col' = Waiting
           \/ \E q \in sampled : col' = [col EXCEPT !.pc = "base.get", !.m = month,
                                                    !.p = q, !.todo = sampled \ {q}]
        /\ UNCHANGED <<base, total, snap, torn, month>>
    BY DEF Parse, world, ledger
  <1>2. ASSUME NEW n \in Names
        PROVE  /\ n \notin sampled => last'[n] = last[n]
               /\ n \in sampled => last'[n] # None /\ last'[n].month = month
    <2>1. last'[n] = IF n \notin sampled THEN last[n] ELSE
             [month |-> month, at |-> col.sample[n].at,
              epoch |-> col.sample[n].epoch, hidden |-> Hidden(n)]
      BY DEF Parse
    <2>2. last' \in [Names -> Seen \cup {None}] /\ month \in Months
      BY ParseFits DEF CInv, TypeOK, Seen
    <2>3. n \in sampled => col.sample[n] \in Sample /\ Hidden(n) \in BOOLEAN
      BY DEF CInv, TypeOK, Locals, Hidden
    <2>4. n \in sampled => last'[n] \in Seen
      BY <2>1, <2>2, <2>3 DEF Seen, Sample
    <2>5. n \in sampled => last'[n] # None
      BY <2>4, NoneAssumption DEF Seen
    <2> QED BY <2>1, <2>5
  <1>3. month \in Nat /\ \A n \in Names : last[n] # None => last[n].month \in Nat
    BY DEF CInv, TypeOK, Months
  <1>4. Months \subseteq Nat
    BY DEF Months
  <1>5. Ahead'
    <2> SUFFICES ASSUME NEW n \in Names, NEW m \in Months, total[n][m] # None
                 PROVE  base[n][m] # None /\ last'[n] # None /\ m <= last'[n].month
      BY <1>1 DEF Ahead
    <2>1. base[n][m] # None /\ last[n] # None /\ m <= last[n].month
      BY DEF LInv, Ahead
    <2>2. last[n].month <= month
      BY <2>1 DEF LInv, Dated
    <2> QED BY <1>2, <1>3, <1>4, <2>1, <2>2
  <1>6. Dated'
    <2> SUFFICES ASSUME NEW n \in Names, last'[n] # None PROVE last'[n].month <= month
      BY <1>1 DEF Dated
    <2>1. CASE n \in sampled
      BY <1>2, <1>3, <2>1
    <2>2. CASE n \notin sampled
      BY <1>2, <2>2 DEF LInv, Dated
    <2> QED BY <2>1, <2>2
  <1>7. Sampled' /\ Hand' /\ \A n \in Names : ~Between(n)'
    <2>1. CASE col' = Waiting
      <3>1. col'.pc = "idle"
        BY <2>1, WaitingFits
      <3> QED BY <3>1 DEF Sampled, Hand, ReadBase, NewRow, ReadSnap, ReadTotal, Written,
                          ReadAgreed, Between
    <2>2. CASE col' # Waiting
      <3>1. PICK q \in sampled : col' = [col EXCEPT !.pc = "base.get", !.m = month,
                                                    !.p = q, !.todo = sampled \ {q}]
        BY <1>1, <2>2
      <3>2. /\ col'.pc = "base.get" /\ col'.m = month
            /\ col'.todo \cup {col'.p} \subseteq sampled
        BY <3>1 DEF CInv, TypeOK, Locals
      <3>3. Sampled'
        BY <1>2, <3>2 DEF Sampled
      <3> QED BY <3>2, <3>3 DEF Hand, ReadBase, NewRow, ReadSnap, ReadTotal, Written,
                                ReadAgreed, Between
    <2> QED BY <2>1, <2>2
  <1>8. Settled'
    <2> SUFFICES ASSUME NEW n \in Names \ torn, last'[n] # None
                 PROVE  Agree(n, last'[n].month)
      BY <1>1 DEF Settled, Agree
    <2>1. ~Between(n)
      BY <1>1 DEF Between
    <2>2. CASE last[n] # None /\ last[n].month = last'[n].month
      BY <2>1, <2>2 DEF LInv, Settled
    <2>3. CASE ~(last[n] # None /\ last[n].month = last'[n].month)
      <3>1. last'[n].month = month
        BY <1>2, <2>3
      <3>2. total[n][month] = None
        <4> SUFFICES ASSUME total[n][month] # None PROVE FALSE
          OBVIOUS
        <4>1. last[n] # None /\ month <= last[n].month /\ last[n].month <= month
          BY DEF LInv, Ahead, Dated, CInv, TypeOK
        <4> QED BY <1>3, <2>3, <3>1, <4>1
      <3> QED BY <3>1, <3>2 DEF Agree
    <2> QED BY <2>2, <2>3
  <1> QED BY <1>5, <1>6, <1>7, <1>8 DEF LInv

\* A call that fails, or a crash, between the new baseline and the snapshot marks
\* the client in hand as torn.
LEMMA CutOffLedger ==
  ASSUME CInv, LInv, CutOff, UNCHANGED <<base, total, snap, last, month>>,
         Sampled', Hand', \A n \in Names : ~Between(n)'
  PROVE  LInv'
  <1>1. month' \in Months /\ month <= month'
    BY DEF CInv, TypeOK, Months
  <1>2. Ahead' /\ Dated'
    BY <1>1, DatesKeep
  <1>3. ASSUME NEW n \in Names \ torn' PROVE n \notin torn /\ ~Between(n)
    BY <1>3 DEF CutOff, Between
  <1>4. Settled'
    BY <1>3 DEF LInv, Settled, Agree
  <1> QED BY <1>2, <1>4 DEF LInv

LEMMA IdleHand == col'.pc = "idle" => Sampled' /\ Hand' /\ \A n \in Names : ~Between(n)'
  BY DEF Sampled, Hand, ReadBase, NewRow, ReadSnap, ReadTotal, Written, ReadAgreed, Between

LEMMA CallFailsLedger ==
  ASSUME CInv, LInv, CallFails
  PROVE  LInv'
  <1>1. col.pc \in Calls /\ UNCHANGED <<base, total, snap, last, month>>
    BY DEF CallFails, world, ledger
  <1>2. CASE col.pc = "parse"
    <2>1. col' = Waiting /\ CutOff
      BY <1>2 DEF CallFails
    <2> QED BY <1>1, <2>1, WaitingFits, IdleHand, CutOffLedger
  <1>3. CASE col.pc = "has.get"
    <2>1. /\ col' = [col EXCEPT !.pc = "base.set", !.b = BaselineFrom(Zero)]
          /\ UNCHANGED torn
      BY <1>3 DEF CallFails
    <2>2. /\ col'.p = col.p /\ col'.m = col.m /\ col'.todo = col.todo /\ col'.pc = "base.set"
          /\ Hand'
      BY <1>1, <1>3, <2>1, NewBaseline
    <2>3. month' \in Months /\ month <= month'
      BY <1>1 DEF CInv, TypeOK, Months
    <2>4. Ahead' /\ Dated'
      BY <1>1, <2>3, DatesKeep
    <2>5. Sampled'
      BY <1>1, <1>3, <2>2 DEF LInv, Sampled
    <2>6. Settled'
      BY <1>1, <1>3, <2>1 DEF LInv, Settled, Between, Agree
    <2> QED BY <2>2, <2>4, <2>5, <2>6 DEF LInv
  <1>4. CASE col.pc \notin {"parse", "has.get"}
    <2>1. Continue(col.todo) /\ CutOff
      BY <1>4 DEF CallFails
    <2>2. col.pc \notin {"idle", "parse"}
      BY <1>1, <1>4 DEF Calls
    <2> QED BY <1>1, <2>1, <2>2, LoopGoesOn, CutOffLedger
  <1> QED BY <1>2, <1>3, <1>4

LEMMA CrashLedger ==
  ASSUME CInv, LInv, Crash
  PROVE  LInv'
  <1>1. col' = Waiting /\ CutOff /\ UNCHANGED <<base, total, snap, last, month>>
    BY DEF Crash, world, ledger
  <1> QED BY <1>1, WaitingFits, IdleHand, CutOffLedger

LEMMA OnlyClearingClears ==
  ASSUME [Next]_vars, ~(ClearTotals \/ ClearBaselines \/ ClearCutOff)
  PROVE  clear' = clear /\ clears' = clears
  BY DEF Next, Collect, Stats, Parse, BaseGet, HasGet, BaseSet, SnapGet, TotalGet, Reanchor,
         TotalSet, SnapSave, CallFails, Transfer, Leave, Join, Bounce, Midnight, Crash, Read,
         env, vars

\* One step per action.
LEMMA LedgerNext == CInv /\ LedgerInv /\ [Next]_vars => LedgerInv'
  <1> SUFFICES ASSUME CInv, LedgerInv, [Next]_vars, NoClearing' PROVE LInv'
    BY DEF LedgerInv
  <1>1. CASE ClearTotals
    <2>1. clear' \in Months
      BY <1>1 DEF ClearTotals, CInv, TypeOK
    <2> QED BY <2>1 DEF NoClearing, Months
  <1>2. CASE ClearBaselines \/ ClearCutOff
    <2>1. clears' = clears + 1 /\ clears \in Nat
      BY <1>2 DEF ClearBaselines, ClearCutOff, CInv, TypeOK
    <2> QED BY <2>1 DEF NoClearing
  <1>3. ASSUME ~(ClearTotals \/ ClearBaselines \/ ClearCutOff) PROVE LInv'
    <2>1. clear' = clear /\ clears' = clears
      BY <1>3, OnlyClearingClears
    <2>2. LInv
      BY <2>1 DEF LedgerInv, NoClearing
    <2>3. CASE Collect
      BY <2>2, <2>3, StatsLedger, ParseLedger, BaseGetLedger, HasGetLedger, BaseSetLedger,
         SnapGetLedger, TotalGetLedger, ReanchorLedger, TotalSetLedger, SnapSaveLedger,
         CallFailsLedger DEF Collect
    <2>4. CASE \/ \E n \in Names : Transfer(n) \/ Leave(n) \/ Join(n)
               \/ Bounce \/ Midnight \/ UNCHANGED vars
      <3>1. UNCHANGED <<ledger, col, last, torn>>
        BY <2>4 DEF Transfer, Leave, Join, Bounce, Midnight, ledger, ghosts, vars
      <3>2. month' \in Months /\ month <= month'
        <4>1. month' = month \/ (month < MaxMonth /\ month' = month + 1)
          BY <2>4 DEF Transfer, Leave, Join, Bounce, Midnight, vars
        <4>2. month \in Months /\ MaxMonth \in Nat
          BY CollectorAssumption DEF CInv, TypeOK
        <4> QED BY <4>1, <4>2 DEF Months
      <3> QED BY <2>2, <3>1, <3>2, WorldLedger
    <2>5. CASE Crash
      BY <2>2, <2>5, CrashLedger
    <2> QED BY <1>3, <2>3, <2>4, <2>5 DEF Next
  <1> QED BY <1>1, <1>2, <1>3

LEMMA LedgerInit == Init => LedgerInv
  <1> SUFFICES ASSUME Init PROVE LInv
    BY DEF LedgerInv
  <1>1. col.pc = "idle"
    BY WaitingFits DEF Init
  <1>2. Ahead /\ Dated /\ Settled
    BY DEF Init, Ahead, Dated, Settled
  <1> QED BY <1>1, <1>2 DEF LInv, Sampled, Hand, ReadBase, NewRow, ReadSnap, ReadTotal, Written,
                            ReadAgreed
-----------------------------------------------------------------------------
(* The properties.                                                           *)

LEMMA TotalsGrowStep ==
  ASSUME CInv, LedgerInv, [Next]_vars, NoClearing, total' # total,
         NEW n \in Names \ torn, NEW m \in Months, total[n][m] # None, total'[n][m] # None,
         NEW d \in Dirs
  PROVE  total[n][m][d] <= total'[n][m][d]
  <1>1. LInv
    BY DEF LedgerInv
  <1>2. TypeOK
    BY DEF CInv
  <1>3. TotalSet \/ ClearTotals
    BY DEF Next, Collect, Stats, Parse, BaseGet, HasGet, BaseSet, SnapGet, TotalGet,
           Reanchor, SnapSave, CallFails, Transfer, Leave, Join, Bounce, Midnight, Crash,
           ClearBaselines, ClearCutOff, Read, ledger, vars
  <1>4. total[n][m] \in Bytes /\ total[n][m][d] \in Nat
    BY <1>2 DEF TypeOK, Bytes
  <1>5. CASE ClearTotals
    <2>1. total'[n][m] = total[n][m]
      BY <1>2, <1>5 DEF ClearTotals, TypeOK
    <2> QED BY <1>4, <2>1
  <1>6. CASE TotalSet
    <2>1. col.pc = "total.set" /\ total' = [total EXCEPT ![col.p][col.m] = Result.total]
      BY <1>6 DEF TotalSet
    <2>2. CASE n = col.p /\ m = col.m
      <3>1. total'[n][m] = Result.total
        BY <1>2, <2>1, <2>2 DEF TypeOK
      <3>2. col.stored = total[n][m]
        BY <1>1, <2>1, <2>2 DEF LInv, Hand, ReadTotal
      <3>3. /\ col.prev # None
            /\ \A e \in Dirs : /\ col.b.at[e] <= col.prev[e]
                               /\ col.stored[e] = col.b.off[e] + (col.prev[e] - col.b.at[e])
        BY <1>1, <2>1, <2>2, <3>2 DEF LInv, Hand, ReadAgreed
      <3>4. col.b \in Baseline /\ col.prev \in Bytes /\ Now \in Bytes
        BY <2>1, <3>3, InHand DEF CInv, TypeOK, ControlOf, Locals
      <3>5. col.stored[d] <= Result.total[d]
        BY <1>4, <3>2, <3>3, <3>4, TotalNotBelow DEF Result
      <3> QED BY <3>1, <3>2, <3>5
    <2>3. CASE n # col.p \/ m # col.m
      <3>1. total'[n][m] = total[n][m]
        BY <1>2, <2>1, <2>3 DEF TypeOK
      <3> QED BY <1>4, <3>1
    <2> QED BY <2>2, <2>3
  <1> QED BY <1>3, <1>5, <1>6

\* For any clients, months, traffic, resets, failures and crashes, the invariant
\* of the three tables holds until somebody runs -reset-month-traffic.
THEOREM LedgerInductive == Spec => []LedgerInv
  <1>1. Init => CInv /\ LedgerInv
    BY InitFits, LedgerInit
  <1>2. CInv /\ LedgerInv /\ [Next]_vars => (CInv /\ LedgerInv)'
    BY StepFits, LedgerNext
  <1> QED BY <1>1, <1>2, PTL DEF Spec

\* A total that the limit is compared with (collect, SetMonthlyTraffic) never goes
\* down within its month, whatever resets, failures and crashes come between,
\* unless the snapshot that goes with it was lost or the totals were cleared.
THEOREM TotalsNeverShrink == Spec => TotalsGrow
  <1>1. Init => CInv /\ LedgerInv
    BY InitFits, LedgerInit
  <1>2. CInv /\ LedgerInv /\ [Next]_vars => (CInv /\ LedgerInv)'
    BY StepFits, LedgerNext
  <1>3. CInv /\ LedgerInv /\ [Next]_vars =>
          [\A n \in Names \ torn, m \in Months :
             /\ clear = 0 /\ clears = 0
             /\ total[n][m] # None /\ total'[n][m] # None
             => \A d \in Dirs : total[n][m][d] <= total'[n][m][d]]_total
    BY TotalsGrowStep DEF NoClearing
  <1> QED BY <1>1, <1>2, <1>3, PTL DEF Spec, TotalsGrow

LEMMA NotClearedNext ==
  ASSUME MaxClears = 0, NoClearing, [Next]_vars
  PROVE  NoClearing'
  <1>1. ~ClearTotals
    BY DEF ClearTotals, NoClearing
  <1>2. ~ClearBaselines /\ ~ClearCutOff
    BY DEF ClearBaselines, ClearCutOff, NoClearing
  <1>3. clear' = clear /\ clears' = clears
    BY <1>1, <1>2, OnlyClearingClears
  <1> QED BY <1>3 DEF NoClearing

\* Where nobody runs -reset-month-traffic, baseline, total and latest snapshot of
\* a client agree between two collections, for every client whose last collection
\* was not cut off after a write.
THEOREM LedgerStaysTrue ==
  ASSUME MaxClears = 0
  PROVE  Spec => []LedgerAgrees
  <1>1. Init => CInv /\ LedgerInv /\ NoClearing
    BY InitFits, LedgerInit DEF Init, NoClearing
  <1>2. CInv /\ LedgerInv /\ NoClearing /\ [Next]_vars => (CInv /\ LedgerInv /\ NoClearing)'
    BY StepFits, LedgerNext, NotClearedNext
  <1>3. CInv /\ LedgerInv /\ NoClearing => LedgerAgrees
    <2> SUFFICES ASSUME CInv, LInv, NEW n \in Names \ torn, col.pc = "idle", last[n] # None,
                        base[n][last[n].month] # None, total[n][last[n].month] # None,
                        NEW d \in Dirs
                 PROVE  /\ base[n][last[n].month].at[d] <= snap[n].at[d]
                        /\ total[n][last[n].month][d] = base[n][last[n].month].off[d]
                             + (snap[n].at[d] - base[n][last[n].month].at[d])
      BY DEF LedgerInv, LedgerAgrees
    <2> QED BY DEF LInv, Settled, Between, Agree
  <1> QED BY <1>1, <1>2, <1>3, PTL DEF Spec
=============================================================================
