---------------------------- MODULE ObserverProofs ----------------------------
(***************************************************************************)
(* What the collector stores against what an observer of the same samples  *)
(* has added up, for any clients, months, traffic, resets, failures and    *)
(* crashes.  While the totals are not cleared, nobody is charged for what  *)
(* the samples of a month do not show, except once more for what each slip *)
(* leaves behind; and between two collections what is stored is exactly    *)
(* what the samples show: OInv bounds it from above, EInv from below.  No  *)
(* reset is counted twice, but after a slip.  The tables themselves are    *)
(* the subject of CollectorProofs.                                         *)
(***************************************************************************)
EXTENDS CollectorProofs

Prev(n) == IF snap[n] = None THEN None ELSE snap[n].at

\* What the tables would charge client n for its last sample, again or at last.
Due(n) == LET m == last[n].month
          IN MonthTraffic(base[n][m], Prev(n), total[n][m], last[n].at).total

\* The baseline of client n is new and the snapshot is not: what is due counts the
\* reset twice, which a collection that is cut off here owes.
Slipping(n) == n = col.p /\ col.pc \in {"total.set", "snap.save"} /\ Result.reanchor

\* x bytes are covered by what the samples of the month show and the slips left.
Covered(x, n, m) == \A d \in Dirs : x[d] <= ideal[n][m][d] + slack[n][m][d]

\* The samples in hand are the last ones.
Faithful ==
  col.pc \notin {"idle", "parse"} =>
    \A q \in col.todo \cup {col.p} : last[q].at = col.sample[q].at

BaseAhead ==
  \A n \in Names, m \in Months : base[n][m] # None => last[n] # None /\ m <= last[n].month

\* Of a client the tables know nothing of, all there is has been added.
Newcomers ==
  \A n \in Names : last[n] # None /\ ~Known(n) =>
    \A d \in Dirs : last[n].at[d] <= ideal[n][last[n].month][d]

DueCovered ==
  \A n \in Names : last[n] # None /\ base[n][last[n].month] # None /\ ~Slipping(n) =>
    Covered(Due(n), n, last[n].month)

\* The month's first baseline is the counters, or zero for a client the month
\* before knows nothing of, or for one whose bytes a failed query already owes.
FirstBaseline ==
  col.pc = "base.set" =>
    /\ col.b.off = Zero
    /\ \/ col.b.at = Now
       \/ /\ col.b.at = Zero
          /\ \/ \A d \in Dirs : Now[d] <= slack[col.p][col.m][d]
             \/ col.m - 1 \in Months => total[col.p][col.m - 1] = None

ResultCovered ==
  col.pc \in {"reanchor", "total.set", "snap.save"} => Covered(Result.total, col.p, col.m)

OInv ==
  /\ Faithful /\ BaseAhead /\ Newcomers /\ NeverOvercharged
  /\ DueCovered /\ FirstBaseline /\ ResultCovered
-----------------------------------------------------------------------------
(* computeMonthTraffic.                                                      *)

\* Both of its ways, for one direction.
LEMMA TotalCases ==
  ASSUME NEW b \in Baseline, NEW prev \in Bytes \cup {None}, NEW stored \in Bytes \cup {None},
         NEW now \in Bytes, NEW d \in Dirs
  PROVE  LET r == MonthTraffic(b, prev, stored, now)
         IN /\ ~CountersDropped(b, prev, now) =>
                 /\ r.total[d] = b.off[d] + (now[d] - b.at[d]) /\ b.at[d] <= now[d]
                 /\ prev # None => prev[d] <= now[d]
            /\ CountersDropped(b, prev, now) =>
                 /\ r.total[d] = OffsetAfterReset(b, prev, stored, d) + now[d]
                 /\ r.off[d] = OffsetAfterReset(b, prev, stored, d)
                 /\ r.at = Zero
  <1>1. b.at[d] \in Nat /\ b.off[d] \in Nat /\ now[d] \in Nat /\ (prev # None => prev[d] \in Nat)
    BY DEF Baseline, Bytes
  <1>2. CASE ~CountersDropped(b, prev, now)
    <2>1. b.at[d] <= now[d] /\ (prev # None => prev[d] <= now[d])
      BY <1>1, <1>2 DEF CountersDropped
    <2>2. Delta(b.at[d], now[d]) = now[d] - b.at[d]
      BY <1>1, <2>1 DEF Delta
    <2>3. MonthTraffic(b, prev, stored, now).total[d] = b.off[d] + Delta(b.at[d], now[d])
      BY <1>2 DEF MonthTraffic
    <2> QED BY <1>2, <2>1, <2>2, <2>3
  <1>3. CASE CountersDropped(b, prev, now)
    <2>1. Delta(0, now[d]) = now[d]
      BY <1>1 DEF Delta
    <2>2. /\ MonthTraffic(b, prev, stored, now).total[d] =
               OffsetAfterReset(b, prev, stored, d) + Delta(0, now[d])
          /\ MonthTraffic(b, prev, stored, now).off[d] = OffsetAfterReset(b, prev, stored, d)
          /\ MonthTraffic(b, prev, stored, now).at = Zero
      BY <1>3 DEF MonthTraffic
    <2> QED BY <1>3, <2>1, <2>2
  <1> QED BY <1>2, <1>3

\* The offset after a reset is the old one, with what the snapshot had counted, or
\* the stored total.
LEMMA OffsetCases ==
  ASSUME NEW b \in Baseline, NEW prev \in Bytes \cup {None}, NEW stored \in Bytes \cup {None},
         NEW d \in Dirs
  PROVE  LET off == OffsetAfterReset(b, prev, stored, d)
         IN /\ off \in Nat /\ b.off[d] <= off
            /\ \/ off = b.off[d]
               \/ prev # None /\ b.at[d] <= prev[d] /\ off = b.off[d] + (prev[d] - b.at[d])
               \/ stored # None /\ off = stored[d]
  <1>1. /\ b.at[d] \in Nat /\ b.off[d] \in Nat /\ (prev # None => prev[d] \in Nat)
        /\ (stored # None => stored[d] \in Nat)
    BY DEF Baseline, Bytes
  <1>2. CASE prev # None /\ b.at[d] <= prev[d]
    <2>1. SegmentBeforeReset(b.at, prev, d) = prev[d] - b.at[d]
      BY <1>1, <1>2 DEF SegmentBeforeReset, Delta
    <2> QED BY <1>1, <1>2, <2>1 DEF OffsetAfterReset
  <1>3. CASE ~(prev # None /\ b.at[d] <= prev[d])
    <2>1. SegmentBeforeReset(b.at, prev, d) = 0
      BY <1>1, <1>3 DEF SegmentBeforeReset
    <2> QED BY <1>1, <2>1 DEF OffsetAfterReset
  <1> QED BY <1>2, <1>3

\* A later sample of the same life of the counters adds no more than the difference.
LEMMA LaterSample ==
  ASSUME NEW b \in Baseline, NEW prev \in Bytes \cup {None}, NEW stored \in Bytes \cup {None},
         NEW x \in Bytes, NEW y \in Bytes, \A e \in Dirs : x[e] <= y[e], NEW d \in Dirs
  PROVE  MonthTraffic(b, prev, stored, y).total[d] <=
           MonthTraffic(b, prev, stored, x).total[d] + (y[d] - x[d])
  <1> DEFINE off == OffsetAfterReset(b, prev, stored, d)
             tx == MonthTraffic(b, prev, stored, x).total[d]
             ty == MonthTraffic(b, prev, stored, y).total[d]
  <1>1. /\ b.at[d] \in Nat /\ b.off[d] \in Nat /\ x[d] \in Nat /\ y[d] \in Nat /\ x[d] <= y[d]
        /\ off \in Nat /\ b.off[d] <= off
    BY OffsetCases DEF Baseline, Bytes
  <1>2. CASE ~CountersDropped(b, prev, x)
    <2>1. ~CountersDropped(b, prev, y)
      <3>1. \A e \in Dirs : /\ b.at[e] \in Nat /\ x[e] \in Nat /\ y[e] \in Nat /\ x[e] <= y[e]
                            /\ prev # None => prev[e] \in Nat
        BY DEF Baseline, Bytes
      <3> QED BY <1>2, <3>1 DEF CountersDropped
    <2>2. tx = b.off[d] + (x[d] - b.at[d]) /\ ty = b.off[d] + (y[d] - b.at[d])
      BY <1>2, <2>1, TotalCases
    <2> QED BY <1>1, <2>2
  <1>3. CASE CountersDropped(b, prev, x)
    <2>1. tx = off + x[d]
      BY <1>3, TotalCases
    <2>2. ty = off + y[d] \/ ty = b.off[d] + (y[d] - b.at[d])
      BY TotalCases
    <2> HIDE DEF off, tx, ty
    <2>3. ty <= tx + (y[d] - x[d])
      BY <1>1, <2>1, <2>2
    <2> QED BY <2>3 DEF tx, ty
  <1> QED BY <1>2, <1>3

\* After a reset the whole sample is new, and nothing else.
LEMMA SampleAfterReset ==
  ASSUME NEW b \in Baseline, NEW prev \in Bytes \cup {None}, NEW stored \in Bytes \cup {None},
         NEW x \in Bytes, NEW y \in Bytes, NEW d \in Dirs, NEW c \in Nat,
         MonthTraffic(b, prev, stored, x).total[d] <= c, stored # None => stored[d] <= c
  PROVE  MonthTraffic(b, prev, stored, y).total[d] <= c + y[d]
  <1> DEFINE off == OffsetAfterReset(b, prev, stored, d)
             tx == MonthTraffic(b, prev, stored, x).total[d]
             ty == MonthTraffic(b, prev, stored, y).total[d]
  <1>1. /\ b.at[d] \in Nat /\ b.off[d] \in Nat /\ x[d] \in Nat /\ y[d] \in Nat
        /\ (prev # None => prev[d] \in Nat)
    BY DEF Baseline, Bytes
  <1>2. /\ off \in Nat /\ b.off[d] <= off
        /\ \/ off = b.off[d]
           \/ prev # None /\ b.at[d] <= prev[d] /\ off = b.off[d] + (prev[d] - b.at[d])
           \/ stored # None /\ off = stored[d]
    BY OffsetCases
  <1>3. /\ ty = b.off[d] + (y[d] - b.at[d]) \/ ty = off + y[d]
        /\ \/ tx = off + x[d]
           \/ /\ tx = b.off[d] + (x[d] - b.at[d]) /\ b.at[d] <= x[d]
              /\ prev # None => prev[d] <= x[d]
    <2>1. ty = b.off[d] + (y[d] - b.at[d]) \/ ty = off + y[d]
      BY TotalCases
    <2>2. CASE CountersDropped(b, prev, x)
      <3>1. tx = off + x[d]
        BY <2>2, TotalCases
      <3> QED BY <2>1, <3>1
    <2>3. CASE ~CountersDropped(b, prev, x)
      <3>1. tx = b.off[d] + (x[d] - b.at[d]) /\ b.at[d] <= x[d] /\ (prev # None => prev[d] <= x[d])
        BY <2>3, TotalCases
      <3> QED BY <2>1, <3>1
    <2> QED BY <2>2, <2>3
  <1>4. tx <= c
    OBVIOUS
  <1> HIDE DEF off, tx, ty
  <1>5. off <= c
    BY <1>1, <1>2, <1>3, <1>4
  <1>6. ty <= c + y[d]
    BY <1>1, <1>2, <1>3, <1>5
  <1> QED BY <1>6 DEF ty

Shown(prev) == IF prev = None THEN Zero ELSE prev

\* A month's first total, without a reset and with one.
LEMMA FirstTotal ==
  ASSUME NEW b \in Baseline, NEW prev \in Bytes \cup {None}, NEW now \in Bytes, NEW d \in Dirs,
         b.off = Zero
  PROVE  LET t == MonthTraffic(b, prev, None, now).total[d]
         IN /\ t <= Shown(prev)[d] + now[d]
            /\ ~CountersDropped(b, prev, now) /\ b.at = Zero => t = now[d]
            /\ ~CountersDropped(b, prev, now) /\ b.at = now => t = 0
  <1> DEFINE off == OffsetAfterReset(b, prev, None, d)
             t == MonthTraffic(b, prev, None, now).total[d]
             z == Shown(prev)[d]
  <1>1. /\ b.at[d] \in Nat /\ b.off[d] = 0 /\ now[d] \in Nat /\ z \in Nat
        /\ (prev # None => z = prev[d])
    BY ZeroTyped DEF Baseline, Bytes, Shown
  <1>2. /\ off \in Nat
        /\ \/ off = b.off[d]
           \/ prev # None /\ b.at[d] <= prev[d] /\ off = b.off[d] + (prev[d] - b.at[d])
    BY OffsetCases
  <1> DEFINE stored == None
  <1>3. /\ ~CountersDropped(b, prev, now) => t = b.off[d] + (now[d] - b.at[d])
        /\ CountersDropped(b, prev, now) => t = off + now[d]
    <2>1. stored \in Bytes \cup {None}
      OBVIOUS
    <2> QED BY <2>1, TotalCases
  <1>4. b.at = Zero => b.at[d] = 0
    BY ZeroTyped
  <1> HIDE DEF off, t, z
  <1>5. off <= z
    BY <1>1, <1>2
  <1>6. t <= z + now[d]
    BY <1>1, <1>2, <1>3, <1>5
  <1>7. ~CountersDropped(b, prev, now) /\ b.at = Zero => t = now[d]
    BY <1>1, <1>3, <1>4
  <1>8. ~CountersDropped(b, prev, now) /\ b.at = now => t = 0
    BY <1>1, <1>3
  <1> QED BY <1>6, <1>7, <1>8 DEF t, z

\* Once the baseline is re-anchored, counting the reset again adds no more than the
\* snapshot and the sample.
LEMMA ResetTwice ==
  ASSUME NEW b \in Baseline, NEW prev \in Bytes \cup {None}, NEW stored \in Bytes \cup {None},
         NEW now \in Bytes, NEW d \in Dirs, NEW c \in Nat,
         b.at = Zero, b.off[d] + now[d] <= c, stored # None => stored[d] <= c
  PROVE  MonthTraffic(b, prev, stored, now).total[d] <= c + Shown(prev)[d] + now[d]
  <1> DEFINE off == OffsetAfterReset(b, prev, stored, d)
             t == MonthTraffic(b, prev, stored, now).total[d]
             z == Shown(prev)[d]
  <1>1. /\ b.at[d] = 0 /\ b.off[d] \in Nat /\ now[d] \in Nat /\ z \in Nat
        /\ (prev # None => z = prev[d])
    BY ZeroTyped DEF Baseline, Bytes, Shown
  <1>2. /\ off \in Nat
        /\ \/ off = b.off[d]
           \/ prev # None /\ b.at[d] <= prev[d] /\ off = b.off[d] + (prev[d] - b.at[d])
           \/ stored # None /\ off = stored[d]
    BY OffsetCases
  <1>3. t = b.off[d] + (now[d] - b.at[d]) \/ t = off + now[d]
    BY TotalCases
  <1> HIDE DEF off, t, z
  <1>4. off + now[d] <= c + z + now[d]
    BY <1>1, <1>2
  <1>5. t <= c + z + now[d]
    BY <1>1, <1>2, <1>3, <1>4
  <1> QED BY <1>5 DEF t, z

\* Without a reset the stored total does not matter, and the baseline only by its
\* counters.
LEMMA NoReset ==
  ASSUME NEW b, NEW c, NEW prev, NEW s, NEW t, NEW now,
         b.at = c.at, b.off = c.off, ~MonthTraffic(b, prev, s, now).reanchor
  PROVE  MonthTraffic(c, prev, t, now).total = MonthTraffic(b, prev, s, now).total
  BY DEF MonthTraffic, CountersDropped

\* With the sample as the snapshot there is nothing to detect.
LEMMA SampleStored ==
  ASSUME NEW b \in Baseline, NEW stored \in Bytes \cup {None}, NEW now \in Bytes,
         \A e \in Dirs : b.at[e] <= now[e], NEW d \in Dirs
  PROVE  MonthTraffic(b, now, stored, now).total[d] = b.off[d] + (now[d] - b.at[d])
  <1>1. \A e \in Dirs : b.at[e] \in Nat /\ now[e] \in Nat
    BY DEF Baseline, Bytes
  <1>2. ~CountersDropped(b, now, now)
    BY <1>1 DEF CountersDropped
  <1> QED BY <1>2, TotalCases

-----------------------------------------------------------------------------
(* The steps.                                                                *)

\* The tables of client n, as computeMonthTraffic takes them.
LEMMA TablesTyped ==
  ASSUME CInv, NEW n \in Names, NEW m \in Months
  PROVE  /\ Prev(n) \in Bytes \cup {None} /\ total[n][m] \in Bytes \cup {None}
         /\ base[n][m] # None => base[n][m] \in Baseline
         /\ ideal[n][m] \in Bytes /\ slack[n][m] \in Bytes
         /\ \A d \in Dirs : ideal[n][m][d] \in Nat /\ slack[n][m][d] \in Nat
         /\ last[n] # None => last[n].at \in Bytes /\ last[n].month \in Months
  <1>1. ideal[n][m] \in Bytes /\ slack[n][m] \in Bytes
    BY DEF CInv, TypeOK
  <1>2. \A d \in Dirs : ideal[n][m][d] \in Nat /\ slack[n][m][d] \in Nat
    BY <1>1 DEF Bytes
  <1>3. Prev(n) \in Bytes \cup {None}
    BY DEF CInv, TypeOK, Prev, Sample
  <1>4. total[n][m] \in Bytes \cup {None} /\ (base[n][m] # None => base[n][m] \in Baseline)
    BY DEF CInv, TypeOK
  <1>5. last[n] # None => last[n].at \in Bytes /\ last[n].month \in Months
    BY DEF CInv, TypeOK
  <1> QED BY <1>1, <1>2, <1>3, <1>4, <1>5

LEMMA CoveredMore ==
  ASSUME CInv, CInv', NEW n \in Names, NEW m \in Months, NEW x \in Bytes, Covered(x, n, m),
         \A d \in Dirs : ideal[n][m][d] <= ideal'[n][m][d] /\ slack[n][m][d] <= slack'[n][m][d]
  PROVE  \A d \in Dirs : x[d] <= ideal'[n][m][d] + slack'[n][m][d]
  <1> SUFFICES ASSUME NEW d \in Dirs PROVE x[d] <= ideal'[n][m][d] + slack'[n][m][d]
    OBVIOUS
  <1>1. x[d] \in Nat /\ ideal[n][m][d] \in Nat /\ slack[n][m][d] \in Nat
    BY TablesTyped DEF Bytes
  <1>2. ideal'[n][m] \in Bytes /\ slack'[n][m] \in Bytes
    BY DEF CInv, TypeOK
  <1>3. ideal'[n][m][d] \in Nat /\ slack'[n][m][d] \in Nat
    BY <1>2 DEF Bytes
  <1>4. /\ x[d] <= ideal[n][m][d] + slack[n][m][d]
        /\ ideal[n][m][d] <= ideal'[n][m][d] /\ slack[n][m][d] <= slack'[n][m][d]
    BY DEF Covered
  <1> HIDE DEF CInv, Covered
  <1> QED BY <1>1, <1>3, <1>4

LEMMA ShownTyped ==
  ASSUME NEW prev \in Bytes \cup {None}
  PROVE  \A d \in Dirs : Shown(prev)[d] \in Nat
  <1>1. Shown(prev) \in Bytes
    BY ZeroTyped DEF Shown
  <1> QED BY <1>1 DEF Bytes

\* What a slip owes: the snapshot and the sample.
LEMMA OweAdds ==
  ASSUME CInv, Owe, col.pc \notin {"idle", "parse"}, NEW d \in Dirs
  PROVE  slack'[col.p][col.m][d] =
           slack[col.p][col.m][d] + Shown(Prev(col.p))[d] + Now[d]
  <1> DEFINE prev == IF snap[col.p] = None THEN Zero ELSE snap[col.p].at
  <1>1. snap[col.p] # None => snap[col.p].at # None
    BY InHand, NoneAssumption DEF CInv, TypeOK, Sample
  <1>2. prev = Shown(Prev(col.p))
    BY <1>1 DEF Shown, Prev
  <1>3. slack' = [slack EXCEPT ![col.p][col.m] = [e \in Dirs |-> @[e] + prev[e] + Now[e]]]
    BY DEF Owe
  <1> HIDE DEF prev
  <1>4. slack'[col.p][col.m] = [e \in Dirs |-> slack[col.p][col.m][e] + prev[e] + Now[e]]
    BY <1>3, InHand DEF CInv, TypeOK
  <1> QED BY <1>2, <1>4

\* Slack only grows.
LEMMA OweGrows ==
  ASSUME CInv, Owe \/ UNCHANGED slack, col.pc \notin {"idle", "parse"}
  PROVE  \A n \in Names, m \in Months, d \in Dirs : slack[n][m][d] <= slack'[n][m][d]
  <1> SUFFICES ASSUME NEW n \in Names, NEW m \in Months, NEW d \in Dirs
               PROVE  slack[n][m][d] <= slack'[n][m][d]
    OBVIOUS
  <1>1. slack[n][m][d] \in Nat
    BY TablesTyped
  <1>2. CASE UNCHANGED slack
    BY <1>1, <1>2
  <1>3. CASE Owe
    <2>1. CASE n = col.p /\ m = col.m
      <3>1. slack'[n][m][d] = slack[n][m][d] + Shown(Prev(n))[d] + Now[d]
        BY <1>3, <2>1, OweAdds
      <3>2. Shown(Prev(n))[d] \in Nat /\ Now[d] \in Nat
        BY InHand, ShownTyped, TablesTyped
      <3> QED BY <1>1, <3>1, <3>2
    <2>2. CASE n # col.p \/ m # col.m
      <3>1. slack'[n][m] = slack[n][m]
        BY <1>3, <2>2, InHand DEF Owe, CInv, TypeOK
      <3> QED BY <1>1, <3>1
    <2> QED BY <2>1, <2>2
  <1> QED BY <1>2, <1>3

\* Tables and samples stay, slack may grow: what was covered is.
LEMMA TablesStay ==
  ASSUME CInv, CInv', OInv, UNCHANGED <<base, total, snap, last, ideal>>,
         \A n \in Names, m \in Months, d \in Dirs : slack[n][m][d] <= slack'[n][m][d]
  PROVE  /\ BaseAhead' /\ Newcomers' /\ NeverOvercharged'
         /\ \A n \in Names : last[n] # None /\ base[n][last[n].month] # None /\ ~Slipping(n) =>
              Covered(Due(n), n, last[n].month)'
  <1>1. BaseAhead' /\ Newcomers'
    BY DEF OInv, BaseAhead, Newcomers, Known
  <1>2. \A n \in Names, m \in Months, d \in Dirs : ideal[n][m][d] <= ideal'[n][m][d]
    BY TablesTyped
  <1>3. NeverOvercharged'
    <2> SUFFICES ASSUME NEW n \in Names, NEW m \in Months, total[n][m] # None
                 PROVE  \A d \in Dirs : total[n][m][d] <= ideal'[n][m][d] + slack'[n][m][d]
      BY DEF NeverOvercharged
    <2>1. total[n][m] \in Bytes /\ Covered(total[n][m], n, m)
      BY TablesTyped DEF OInv, NeverOvercharged, Covered
    <2> QED BY <1>2, <2>1, CoveredMore
  <1>4. ASSUME NEW n \in Names, last[n] # None, base[n][last[n].month] # None, ~Slipping(n)
        PROVE  Covered(Due(n), n, last[n].month)'
    <2>1. last[n].month \in Months
      BY <1>4 DEF CInv, TypeOK
    <2>2. Due(n) \in Bytes
      BY <1>4, <2>1, TablesTyped, MonthTrafficTyped DEF Due
    <2>3. Covered(Due(n), n, last[n].month)
      BY <1>4 DEF OInv, DueCovered
    <2>4. \A d \in Dirs : Due(n)[d] <=
            ideal'[n][last[n].month][d] + slack'[n][last[n].month][d]
      BY <1>2, <2>1, <2>2, <2>3, CoveredMore
    <2>5. Due(n)' = Due(n)
      BY DEF Due, Prev
    <2> QED BY <2>4, <2>5 DEF Covered
  <1> QED BY <1>1, <1>3, <1>4

\* What is around the collector.
LEMMA WorldOver ==
  ASSUME CInv, CInv', OInv, UNCHANGED <<ledger, col, last, ideal, slack>>
  PROVE  OInv'
  <1>1. UNCHANGED <<base, total, snap>>
    BY DEF ledger
  <1>2. \A n \in Names, m \in Months, d \in Dirs : slack[n][m][d] <= slack'[n][m][d]
    BY TablesTyped
  <1>3. \A n \in Names : Slipping(n)' <=> Slipping(n)
    BY DEF Slipping, Result, Now
  <1>4. BaseAhead' /\ Newcomers' /\ NeverOvercharged' /\ DueCovered'
    BY <1>1, <1>2, <1>3, TablesStay DEF DueCovered
  <1>5. Faithful' /\ FirstBaseline' /\ ResultCovered'
    BY <1>1 DEF OInv, Faithful, FirstBaseline, ResultCovered, Covered, Result, Now
  <1> QED BY <1>4, <1>5 DEF OInv

\* The calls that read.
LEMMA ReadOver ==
  ASSUME CInv, CInv', OInv, Read, col.pc \notin {"total.set", "snap.save"},
         \A n \in Names : ~Slipping(n)', Faithful', FirstBaseline', ResultCovered'
  PROVE  OInv'
  <1>1. UNCHANGED <<base, total, snap, last, ideal, slack>>
    BY DEF Read, ledger, ghosts
  <1>2. \A n \in Names, m \in Months, d \in Dirs : slack[n][m][d] <= slack'[n][m][d]
    BY <1>1, TablesTyped
  <1>3. \A n \in Names : ~Slipping(n)
    BY DEF Slipping
  <1>4. BaseAhead' /\ Newcomers' /\ NeverOvercharged' /\ DueCovered'
    BY <1>1, <1>2, <1>3, TablesStay DEF DueCovered
  <1> QED BY <1>4 DEF OInv

LEMMA StatsOver ==
  ASSUME CInv, CInv', OInv, Stats
  PROVE  OInv'
  <1>1. col'.pc = "parse"
    BY DEF Stats, CInv, TypeOK, Locals
  <1>2. Read /\ col.pc = "idle"
    BY DEF Stats, Read
  <1>3. Faithful' /\ FirstBaseline' /\ ResultCovered' /\ \A n \in Names : ~Slipping(n)'
    BY <1>1 DEF Faithful, FirstBaseline, ResultCovered, Slipping
  <1> QED BY <1>2, <1>3, ReadOver

LEMMA BaseGetOver ==
  ASSUME CInv, CInv', OInv, BaseGet
  PROVE  OInv'
  <1>1. col.pc = "base.get" /\ Read /\ UNCHANGED last
    BY DEF BaseGet, Read, ghosts
  <1> DEFINE b == base[col.p][col.m]
             pc == IF b = None THEN "has.get" ELSE "snap.get"
  <1>2. col' = [col EXCEPT !.pc = pc, !.b = b]
    BY DEF BaseGet
  <1>3. pc \in {"has.get", "snap.get"}
    OBVIOUS
  <1> HIDE DEF pc, b
  <1>4. /\ col'.pc = pc /\ col'.p = col.p /\ col'.todo = col.todo /\ col'.sample = col.sample
    BY <1>1, <1>2, InHand DEF Locals
  <1>5. Faithful' /\ FirstBaseline' /\ ResultCovered' /\ \A n \in Names : ~Slipping(n)'
    BY <1>1, <1>3, <1>4 DEF OInv, Faithful, FirstBaseline, ResultCovered, Slipping
  <1> QED BY <1>1, <1>5, ReadOver

LEMMA HasGetOver ==
  ASSUME CInv, CInv', OInv, HasGet
  PROVE  OInv'
  <1>1. col.pc = "has.get" /\ Read /\ UNCHANGED <<last, total, slack>>
    BY DEF HasGet, Read, ghosts, ledger
  <1> DEFINE hadPrev == col.m - 1 \in Months /\ total[col.p][col.m - 1] # None
             at == IF hadPrev THEN Now ELSE Zero
             b == BaselineFrom(at)
  <1>2. col' = [col EXCEPT !.pc = "base.set", !.b = b]
    BY DEF HasGet
  <1>3. b.off = Zero /\ b.at = at
    BY DEF BaselineFrom
  <1>4. at = Now \/ (at = Zero /\ (col.m - 1 \in Months => total[col.p][col.m - 1] = None))
    OBVIOUS
  <1> HIDE DEF at, b
  <1>5. /\ col'.pc = "base.set" /\ col'.p = col.p /\ col'.m = col.m /\ col'.todo = col.todo
        /\ col'.sample = col.sample /\ col'.b = b
    BY <1>1, <1>2, InHand DEF Locals
  <1>6. FirstBaseline'
    BY <1>1, <1>3, <1>4, <1>5 DEF FirstBaseline, Now
  <1>7. Faithful' /\ ResultCovered' /\ \A n \in Names : ~Slipping(n)'
    BY <1>1, <1>5 DEF OInv, Faithful, ResultCovered, Slipping
  <1> QED BY <1>1, <1>6, <1>7, ReadOver

LEMMA SnapGetOver ==
  ASSUME CInv, CInv', OInv, SnapGet
  PROVE  OInv'
  <1>1. col.pc = "snap.get" /\ Read /\ UNCHANGED last
    BY DEF SnapGet, Read, ghosts
  <1>2. PICK v : col' = [col EXCEPT !.pc = "total.get", !.prev = v]
    BY DEF SnapGet
  <1>3. /\ col'.pc = "total.get" /\ col'.p = col.p /\ col'.todo = col.todo
        /\ col'.sample = col.sample
    BY <1>1, <1>2, InHand DEF Locals
  <1>4. Faithful' /\ FirstBaseline' /\ ResultCovered' /\ \A n \in Names : ~Slipping(n)'
    BY <1>1, <1>3 DEF OInv, Faithful, FirstBaseline, ResultCovered, Slipping
  <1> QED BY <1>1, <1>4, ReadOver

\* What was read is what the tables hold, so the result is what is due.
LEMMA TotalGetOver ==
  ASSUME CInv, CInv', LInv, OInv, TotalGet
  PROVE  OInv'
  <1>1. col.pc = "total.get" /\ Read /\ UNCHANGED <<last, ideal, slack>>
    BY DEF TotalGet, Read, ghosts
  <1> DEFINE v == total[col.p][col.m]
             res == MonthTraffic(col.b, col.prev, v, Now)
             pc == IF res.reanchor THEN "reanchor" ELSE "total.set"
  <1>2. col' = [col EXCEPT !.pc = pc, !.stored = v]
    BY DEF TotalGet
  <1>3. pc \in {"reanchor", "total.set"} /\ (pc = "total.set" => ~res.reanchor)
    OBVIOUS
  <1> HIDE DEF pc
  <1>4. /\ col'.p = col.p /\ col'.m = col.m /\ col'.todo = col.todo /\ col'.sample = col.sample
        /\ col'.pc = pc /\ col'.b = col.b /\ col'.prev = col.prev /\ col'.stored = v
    BY <1>1, <1>2, InHand DEF Locals
  <1>5. Result' = res
    BY <1>4 DEF Result, Now
  <1>6. /\ col.p \in Names /\ last[col.p] # None /\ last[col.p].month = col.m
        /\ last[col.p].at = Now
    BY <1>1, InHand DEF LInv, Sampled, OInv, Faithful, Now
  <1>7. /\ base[col.p][col.m] = col.b /\ col.b # None /\ col.prev = Prev(col.p)
    BY <1>1, NoneAssumption DEF LInv, Hand, ReadBase, ReadSnap, Prev, CInv, ControlOf
  <1>8. Due(col.p) = res.total
    BY <1>6, <1>7 DEF Due
  <1>9. ~Slipping(col.p)
    BY <1>1 DEF Slipping
  <1>10. Covered(res.total, col.p, col.m)
    BY <1>6, <1>7, <1>8, <1>9 DEF OInv, DueCovered
  <1>11. ResultCovered'
    BY <1>1, <1>4, <1>5, <1>10 DEF ResultCovered, Covered
  <1>12. Faithful' /\ FirstBaseline' /\ \A n \in Names : ~Slipping(n)'
    BY <1>1, <1>3, <1>4, <1>5 DEF OInv, Faithful, FirstBaseline, Slipping
  <1> QED BY <1>1, <1>11, <1>12, ReadOver

\* The first baseline of a month: what it charges the samples show, or it slips.
LEMMA BaseSetOver ==
  ASSUME CInv, CInv', LInv, OInv, BaseSet
  PROVE  OInv'
  <1>1. /\ col.pc = "base.set" /\ col' = [col EXCEPT !.pc = "snap.get"]
        /\ base' = [base EXCEPT ![col.p][col.m] = col.b]
        /\ IF BaselineSlips THEN Owe ELSE UNCHANGED slack
        /\ UNCHANGED <<total, snap, last, ideal>>
    BY DEF BaseSet, world
  <1>2. col.p \in Names /\ col.m \in Months /\ col.b \in Baseline /\ Now \in Bytes
    BY <1>1, InHand DEF CInv, ControlOf
  <1>3. /\ base'[col.p][col.m] = col.b
        /\ \A n \in Names, m \in Months : n # col.p \/ m # col.m => base'[n][m] = base[n][m]
    BY <1>1, <1>2 DEF CInv, TypeOK
  <1>4. /\ col'.p = col.p /\ col'.todo = col.todo /\ col'.pc = "snap.get"
        /\ col'.sample = col.sample
    BY <1>1, InHand DEF Locals
  <1>5. last[col.p] # None /\ last[col.p].month = col.m /\ last[col.p].at = Now
    BY <1>1 DEF LInv, Sampled, OInv, Faithful, Now
  <1>6. total[col.p][col.m] = None
    BY <1>1, <1>2 DEF LInv, Hand, NewRow, Ahead
  <1>7. \A n \in Names, m \in Months, d \in Dirs : slack[n][m][d] <= slack'[n][m][d]
    BY <1>1, OweGrows
  <1>8. /\ Faithful' /\ FirstBaseline' /\ ResultCovered'
        /\ \A n \in Names : ~Slipping(n) /\ ~Slipping(n)'
    BY <1>1, <1>4 DEF OInv, Faithful, FirstBaseline, ResultCovered, Slipping
  <1>9. BaseAhead'
    <2> SUFFICES ASSUME NEW n \in Names, NEW m \in Months, base'[n][m] # None
                 PROVE  last[n] # None /\ m <= last[n].month
      BY <1>1 DEF BaseAhead
    <2>1. CASE n = col.p /\ m = col.m
      BY <1>2, <1>5, <2>1 DEF Months
    <2>2. CASE n # col.p \/ m # col.m
      BY <1>3, <2>2 DEF OInv, BaseAhead
    <2> QED BY <2>1, <2>2
  <1>10. Newcomers' /\ NeverOvercharged'
    <2>1. Newcomers'
      BY <1>1 DEF OInv, Newcomers, Known
    <2>2. ASSUME NEW n \in Names, NEW m \in Months, total[n][m] # None
          PROVE  \A d \in Dirs : total[n][m][d] <= ideal'[n][m][d] + slack'[n][m][d]
      <3>1. total[n][m] \in Bytes /\ Covered(total[n][m], n, m)
        BY <2>2, TablesTyped DEF OInv, NeverOvercharged, Covered
      <3>2. \A d \in Dirs : ideal[n][m][d] <= ideal'[n][m][d]
        BY <1>1, TablesTyped
      <3> QED BY <1>7, <3>1, <3>2, CoveredMore
    <2> QED BY <1>1, <2>1, <2>2 DEF NeverOvercharged
  <1>11. ASSUME NEW d \in Dirs
         PROVE  MonthTraffic(col.b, Prev(col.p), None, Now).total[d] <=
                  ideal[col.p][col.m][d] + slack'[col.p][col.m][d]
    <2> DEFINE t == MonthTraffic(col.b, Prev(col.p), None, Now).total[d]
               i == ideal[col.p][col.m][d]
               s == slack[col.p][col.m][d]
               z == Shown(Prev(col.p))[d]
    <2>1. i \in Nat /\ s \in Nat /\ slack'[col.p][col.m][d] \in Nat /\ z \in Nat /\ Now[d] \in Nat
      <3>1. slack'[col.p][col.m] \in Bytes
        BY <1>2 DEF CInv, TypeOK
      <3> QED BY <1>1, <1>2, <3>1, InHand, TablesTyped, ShownTyped DEF Bytes
    <2>2. col.b.off = Zero
      BY <1>1 DEF OInv, FirstBaseline
    <2>3. Prev(col.p) \in Bytes \cup {None}
      BY <1>2, TablesTyped
    <2>4. /\ t <= z + Now[d]
          /\ ~CountersDropped(col.b, Prev(col.p), Now) /\ col.b.at = Zero => t = Now[d]
          /\ ~CountersDropped(col.b, Prev(col.p), Now) /\ col.b.at = Now => t = 0
      BY <1>2, <2>2, <2>3, FirstTotal
    <2>5. t \in Nat
      <3>1. MonthTraffic(col.b, Prev(col.p), None, Now).total \in Bytes
        <4>1. \A x \in {None} : x \in Bytes \cup {None}
          OBVIOUS
        <4> QED BY <1>2, <2>3, <4>1, MonthTrafficTyped
      <3> QED BY <3>1 DEF Bytes
    <2>6. s <= slack'[col.p][col.m][d]
      BY <1>2, <1>7
    <2>7. CASE BaselineSlips
      <3>1. slack'[col.p][col.m][d] = s + z + Now[d]
        BY <1>1, <2>7, OweAdds
      <3> HIDE DEF t, i, s, z
      <3>2. t <= i + slack'[col.p][col.m][d]
        BY <2>1, <2>4, <2>5, <3>1
      <3> QED BY <3>2 DEF t, i
    <2>8. CASE ~BaselineSlips
      <3>1. ~CountersDropped(col.b, Prev(col.p), Now)
        <4>1. CASE snap[col.p] # None
          BY <2>8, <4>1 DEF BaselineSlips, Prev
        <4>2. CASE snap[col.p] = None
          <5>1. Prev(col.p) = None
            BY <4>2 DEF Prev
          <5>2. \A e \in Dirs : col.b.at[e] <= Now[e]
            <6>1. \A e \in Dirs : Now[e] \in Nat /\ Zero[e] = 0
              BY <1>1, InHand, ZeroTyped
            <6>2. col.b.at = Now \/ col.b.at = Zero
              BY <1>1 DEF OInv, FirstBaseline
            <6> QED BY <6>1, <6>2
          <5>3. \A e \in Dirs : col.b.at[e] \in Nat /\ Now[e] \in Nat
            BY <1>2 DEF Baseline, Bytes
          <5> QED BY <5>1, <5>2, <5>3 DEF CountersDropped
        <4> QED BY <4>1, <4>2
      <3>2. CASE col.b.at = Now
        <4>1. t = 0
          BY <2>4, <3>1, <3>2
        <4> HIDE DEF t, i, s, z
        <4>2. t <= i + slack'[col.p][col.m][d]
          BY <2>1, <4>1
        <4> QED BY <4>2 DEF t, i
      <3>3. CASE col.b.at # Now
        <4>1. /\ col.b.at = Zero /\ t = Now[d]
              /\ \/ Now[d] <= s
                 \/ col.m - 1 \in Months => total[col.p][col.m - 1] = None
          BY <1>1, <2>4, <3>1, <3>3 DEF OInv, FirstBaseline
        <4>2. Now[d] <= s \/ Now[d] <= i
          <5>1. Known(col.p) => Now[d] <= s
            BY <2>8, <4>1 DEF BaselineSlips
          <5>2. ~Known(col.p) => Now[d] <= i
            BY <1>2, <1>5 DEF OInv, Newcomers
          <5> QED BY <5>1, <5>2
        <4> HIDE DEF t, i, s, z
        <4>3. t <= i + slack'[col.p][col.m][d]
          BY <2>1, <2>6, <4>1, <4>2
        <4> QED BY <4>3 DEF t, i
      <3> QED BY <3>2, <3>3
    <2> QED BY <2>7, <2>8
  <1>12. DueCovered'
    <2> SUFFICES ASSUME NEW n \in Names, last[n] # None, base'[n][last[n].month] # None
                 PROVE  Covered(Due(n), n, last[n].month)'
      BY <1>1 DEF DueCovered, Covered, Due
    <2>1. CASE n = col.p
      <3>1. Due(n)' = MonthTraffic(col.b, Prev(col.p), None, Now).total
        BY <1>1, <1>3, <1>5, <1>6, <2>1 DEF Due, Prev
      <3> QED BY <1>1, <1>5, <1>11, <2>1, <3>1 DEF Covered
    <2>2. CASE n # col.p
      <3>1. last[n].month \in Months
        BY DEF CInv, TypeOK
      <3>2. base'[n][last[n].month] = base[n][last[n].month]
        BY <1>3, <2>2, <3>1
      <3>3. Due(n) \in Bytes
        BY <3>1, <3>2, TablesTyped, MonthTrafficTyped DEF Due
      <3>4. Covered(Due(n), n, last[n].month)
        BY <1>8, <3>2 DEF OInv, DueCovered
      <3>5. \A d \in Dirs : ideal[n][last[n].month][d] <= ideal'[n][last[n].month][d]
        BY <1>1, <3>1, TablesTyped
      <3>6. \A d \in Dirs : Due(n)[d] <=
              ideal'[n][last[n].month][d] + slack'[n][last[n].month][d]
        BY <1>7, <3>1, <3>3, <3>4, <3>5, CoveredMore
      <3>7. Due(n)' = Due(n)
        BY <1>1, <3>2 DEF Due, Prev
      <3> QED BY <1>1, <3>6, <3>7 DEF Covered
    <2> QED BY <2>1, <2>2
  <1> QED BY <1>8, <1>9, <1>10, <1>12 DEF OInv

\* The other clients are not concerned by what is written for the one in hand.
LEMMA OthersDue ==
  ASSUME CInv, OInv, NEW n \in Names, n # col.p, last[n] # None, base'[n] = base[n],
         base[n][last[n].month] # None,
         total'[n] = total[n], snap'[n] = snap[n], UNCHANGED <<last, ideal, slack>>
  PROVE  Covered(Due(n), n, last[n].month)'
  <1>1. Covered(Due(n), n, last[n].month)
    BY DEF OInv, DueCovered, Slipping
  <1>2. Due(n)' = Due(n)
    BY DEF Due, Prev
  <1> QED BY <1>1, <1>2 DEF Covered

LEMMA ReanchorOver ==
  ASSUME CInv, CInv', LInv, OInv, Reanchor
  PROVE  OInv'
  <1> DEFINE b == [at |-> Result.at, off |-> Result.off, epoch |-> col.sample[col.p].epoch]
  <1>1. /\ col.pc = "reanchor" /\ col' = [col EXCEPT !.pc = "total.set"]
        /\ base' = [base EXCEPT ![col.p][col.m] = b]
        /\ UNCHANGED <<total, snap, last, ideal, slack>>
    BY DEF Reanchor, ghosts
  <1> HIDE DEF b
  <1>2. col.p \in Names /\ col.m \in Months
    BY <1>1, InHand
  <1>3. /\ \A n \in Names, m \in Months : n # col.p \/ m # col.m => base'[n][m] = base[n][m]
        /\ \A n \in Names : n # col.p => base'[n] = base[n]
    BY <1>1, <1>2 DEF CInv, TypeOK
  <1>4. /\ col'.p = col.p /\ col'.m = col.m /\ col'.todo = col.todo /\ col'.sample = col.sample
        /\ col'.pc = "total.set" /\ col'.b = col.b /\ col'.prev = col.prev
        /\ col'.stored = col.stored
    BY <1>1, InHand DEF Locals
  <1>5. Result' = Result /\ Result.reanchor
    BY <1>1, <1>4 DEF Result, Now, LInv, Hand, Written
  <1>6. last[col.p] # None /\ last[col.p].month = col.m
    BY <1>1 DEF LInv, Sampled
  <1>7. Slipping(col.p)'
    BY <1>4, <1>5 DEF Slipping
  <1>8. Faithful' /\ FirstBaseline' /\ ResultCovered'
    BY <1>1, <1>4, <1>5 DEF OInv, Faithful, FirstBaseline, ResultCovered, Covered
  <1>9. Newcomers' /\ NeverOvercharged'
    BY <1>1 DEF OInv, Newcomers, Known, NeverOvercharged
  <1>10. BaseAhead'
    <2> SUFFICES ASSUME NEW n \in Names, NEW m \in Months, base'[n][m] # None
                 PROVE  last[n] # None /\ m <= last[n].month
      BY <1>1 DEF BaseAhead
    <2>1. CASE n = col.p /\ m = col.m
      BY <1>2, <1>6, <2>1 DEF Months
    <2>2. CASE n # col.p \/ m # col.m
      BY <1>3, <2>2 DEF OInv, BaseAhead
    <2> QED BY <2>1, <2>2
  <1>11. DueCovered'
    <2> SUFFICES ASSUME NEW n \in Names, last[n] # None, base'[n][last[n].month] # None,
                        n # col.p
                 PROVE  Covered(Due(n), n, last[n].month)'
      BY <1>1, <1>4, <1>7 DEF DueCovered, Covered, Due
    <2> QED BY <1>1, <1>3, OthersDue
  <1> QED BY <1>8, <1>9, <1>10, <1>11 DEF OInv

\* The total is set to what is due; without a reset, the same is due again.
LEMMA TotalSetOver ==
  ASSUME CInv, CInv', LInv, OInv, TotalSet
  PROVE  OInv'
  <1>1. /\ col.pc = "total.set" /\ col' = [col EXCEPT !.pc = "snap.save"]
        /\ total' = [total EXCEPT ![col.p][col.m] = Result.total]
        /\ UNCHANGED <<base, snap, last, ideal, slack>>
    BY DEF TotalSet, ghosts
  <1>2. col.p \in Names /\ col.m \in Months
    BY <1>1, InHand
  <1>3. /\ total'[col.p][col.m] = Result.total
        /\ \A n \in Names, m \in Months : n # col.p \/ m # col.m => total'[n][m] = total[n][m]
        /\ \A n \in Names : n # col.p => total'[n] = total[n]
    BY <1>1, <1>2 DEF CInv, TypeOK
  <1>4. /\ col'.p = col.p /\ col'.m = col.m /\ col'.todo = col.todo /\ col'.sample = col.sample
        /\ col'.pc = "snap.save" /\ col'.b = col.b /\ col'.prev = col.prev
        /\ col'.stored = col.stored
    BY <1>1, InHand DEF Locals
  <1>5. Result' = Result
    BY <1>4 DEF Result, Now
  <1>6. last[col.p] # None /\ last[col.p].month = col.m /\ last[col.p].at = Now
    BY <1>1 DEF LInv, Sampled, OInv, Faithful, Now
  <1>7. Covered(Result.total, col.p, col.m)
    BY <1>1 DEF OInv, ResultCovered
  <1>8. Faithful' /\ FirstBaseline' /\ ResultCovered' /\ BaseAhead'
    BY <1>1, <1>4, <1>5 DEF OInv, Faithful, FirstBaseline, ResultCovered, Covered, BaseAhead
  <1>9. Newcomers'
    <2> SUFFICES ASSUME NEW n \in Names, last[n] # None, ~Known(n)'
                 PROVE  \A d \in Dirs : last[n].at[d] <= ideal[n][last[n].month][d]
      BY <1>1 DEF Newcomers
    <2>1. Result.total # None
      BY <1>1, ResultTyped, NoneAssumption DEF CInv
    <2>2. ~Known(n)
      BY <1>1, <1>2, <1>3, <2>1 DEF Known
    <2> QED BY <2>2 DEF OInv, Newcomers
  <1>10. NeverOvercharged'
    <2> SUFFICES ASSUME NEW n \in Names, NEW m \in Months, total'[n][m] # None
                 PROVE  Covered(total'[n][m], n, m)
      BY <1>1 DEF NeverOvercharged, Covered
    <2>1. CASE n = col.p /\ m = col.m
      BY <1>3, <1>7, <2>1
    <2>2. CASE n # col.p \/ m # col.m
      BY <1>3, <2>2 DEF OInv, NeverOvercharged, Covered
    <2> QED BY <2>1, <2>2
  <1>11. DueCovered'
    <2> SUFFICES ASSUME NEW n \in Names, last[n] # None, base[n][last[n].month] # None,
                        ~Slipping(n)'
                 PROVE  Covered(Due(n), n, last[n].month)'
      BY <1>1 DEF DueCovered, Covered, Due
    <2>1. CASE n = col.p
      <3>1. ~Result.reanchor
        BY <1>4, <1>5, <2>1 DEF Slipping
      <3>2. base[col.p][col.m].at = col.b.at /\ base[col.p][col.m].off = col.b.off
        BY <1>1, <3>1, NotReanchored DEF LInv, Hand, Written, Result
      <3>3. col.prev = Prev(col.p)
        BY <1>1 DEF LInv, Hand, ReadSnap, Prev
      <3>4. MonthTraffic(base[col.p][col.m], col.prev, Result.total, Now).total = Result.total
        BY <3>1, <3>2, NoReset DEF Result
      <3>5. Due(n)' = Result.total
        BY <1>1, <1>3, <1>6, <2>1, <3>3, <3>4 DEF Due, Prev
      <3> QED BY <1>1, <1>6, <1>7, <2>1, <3>5 DEF Covered
    <2>2. CASE n # col.p
      BY <1>1, <1>3, <2>2, OthersDue
    <2> QED BY <2>1, <2>2
  <1> QED BY <1>8, <1>9, <1>10, <1>11 DEF OInv

\* The loop goes on: nothing is in hand.
LEMMA ContinueOver ==
  ASSUME CInv, OInv, col.pc \notin {"idle", "parse"}, Continue(col.todo), last' = last
  PROVE  Faithful' /\ FirstBaseline' /\ ResultCovered' /\ \A n \in Names : ~Slipping(n)'
  <1>1. CASE col' = Waiting
    <2>1. col'.pc = "idle"
      BY <1>1, WaitingFits
    <2> QED BY <2>1 DEF Faithful, FirstBaseline, ResultCovered, Slipping
  <1>2. CASE col' # Waiting
    <2>1. PICK q \in col.todo :
            col' = [col EXCEPT !.pc = "base.get", !.p = q, !.todo = col.todo \ {q},
                               !.b = None, !.prev = None, !.stored = None]
      BY <1>2 DEF Continue
    <2>2. /\ col'.pc = "base.get" /\ col'.sample = col.sample
          /\ col'.todo \cup {col'.p} \subseteq col.todo
      BY <2>1, InHand DEF Locals
    <2> QED BY <2>2 DEF OInv, Faithful, FirstBaseline, ResultCovered, Slipping
  <1> QED BY <1>1, <1>2

\* The snapshot is there: what is due for it is the total.
LEMMA SnapSaveOver ==
  ASSUME CInv, CInv', LInv, OInv, SnapSave
  PROVE  OInv'
  <1>1. /\ col.pc = "snap.save" /\ Continue(col.todo)
        /\ snap' = [snap EXCEPT ![col.p] = col.sample[col.p]]
        /\ UNCHANGED <<base, total, last, ideal, slack>>
    BY DEF SnapSave
  <1>2. /\ col.p \in Names /\ col.m \in Months /\ col.sample[col.p] \in Sample
        /\ col.sample[col.p] # None /\ Now \in Bytes
    BY <1>1, InHand DEF CInv, ControlOf
  <1>3. /\ snap'[col.p] = col.sample[col.p]
        /\ \A n \in Names : n # col.p => snap'[n] = snap[n]
    BY <1>1, <1>2 DEF CInv, TypeOK
  <1>4. last[col.p] # None /\ last[col.p].month = col.m /\ last[col.p].at = Now
    BY <1>1 DEF LInv, Sampled, OInv, Faithful, Now
  <1>5. Faithful' /\ FirstBaseline' /\ ResultCovered' /\ \A n \in Names : ~Slipping(n)'
    BY <1>1, ContinueOver
  <1>6. BaseAhead' /\ NeverOvercharged'
    BY <1>1 DEF OInv, BaseAhead, NeverOvercharged
  <1>7. Newcomers'
    BY <1>1, <1>2, <1>3 DEF OInv, Newcomers, Known
  <1>8. DueCovered'
    <2> SUFFICES ASSUME NEW n \in Names, last[n] # None, base[n][last[n].month] # None
                 PROVE  Covered(Due(n), n, last[n].month)'
      BY <1>1 DEF DueCovered, Covered, Due
    <2>1. CASE n = col.p
      <3> DEFINE b == base[col.p][col.m]
                 t == total[col.p][col.m]
      <3>1. /\ t = Result.total /\ b.at = Result.at /\ b.off = Result.off
            /\ b \in Baseline /\ t \in Bytes \cup {None}
        BY <1>1, <1>2, TablesTyped DEF LInv, Hand, Written
      <3>2. /\ col.b \in Baseline /\ col.prev \in Bytes \cup {None}
            /\ col.stored \in Bytes \cup {None}
        BY <1>1 DEF CInv, ControlOf, TypeOK, Locals
      <3>3. \A d \in Dirs : Result.at[d] <= Now[d]
                            /\ Result.total[d] = Result.off[d] + (Now[d] - Result.at[d])
        BY <1>2, <3>2, TotalFromBaseline DEF Result
      <3> HIDE DEF b, t
      <3>4. \A d \in Dirs : MonthTraffic(b, Now, t, Now).total[d] = Result.total[d]
        BY <1>2, <3>1, <3>3, SampleStored
      <3>5. Prev(n)' = Now
        BY <1>2, <1>3, <2>1 DEF Prev, Now
      <3>6. Due(n)' = MonthTraffic(b, Now, t, Now).total
        BY <1>1, <1>4, <2>1, <3>5 DEF Due, b, t
      <3>7. Covered(Result.total, col.p, col.m)
        BY <1>1 DEF OInv, ResultCovered
      <3> QED BY <1>1, <1>4, <2>1, <3>4, <3>6, <3>7 DEF Covered
    <2>2. CASE n # col.p
      BY <1>1, <1>3, <2>2, OthersDue
    <2> QED BY <2>1, <2>2
  <1> QED BY <1>5, <1>6, <1>7, <1>8 DEF OInv

\* What a sample adds for the observer.
LEMMA ParseAdds ==
  ASSUME CInv, Parse, NEW n \in Names
  PROVE  /\ col.sample[n] = None => last'[n] = last[n] /\ ideal'[n] = ideal[n]
         /\ col.sample[n] # None =>
              /\ last'[n] # None /\ last'[n].month = month /\ last'[n].at = col.sample[n].at
              /\ \A d \in Dirs : ideal'[n][month][d] = ideal[n][month][d] + Gain(n, d)
         /\ \A m \in Months, d \in Dirs : ideal[n][m][d] <= ideal'[n][m][d]
  <1> DEFINE sampled == {q \in Names : col.sample[q] # None}
  <1>1. /\ last'[n] = (IF n \notin sampled THEN last[n] ELSE
             [month |-> month, at |-> col.sample[n].at,
              epoch |-> col.sample[n].epoch, hidden |-> Hidden(n)])
        /\ ideal'[n] = (IF n \notin sampled THEN ideal[n] ELSE
             [ideal[n] EXCEPT ![month] = [d \in Dirs |-> @[d] + Gain(n, d)]])
        /\ col.pc = "parse"
    BY DEF Parse
  <1>2. ideal[n] \in [Months -> Bytes] /\ month \in Months
    BY DEF CInv, TypeOK
  <1>3. \A m \in Months, d \in Dirs : ideal[n][m][d] \in Nat
    BY TablesTyped
  <1>4. CASE col.sample[n] = None
    BY <1>1, <1>3, <1>4
  <1>5. CASE col.sample[n] # None
    <2>1. last'[n] = [month |-> month, at |-> col.sample[n].at,
                      epoch |-> col.sample[n].epoch, hidden |-> Hidden(n)]
      BY <1>1, <1>5
    <2>2. last'[n] # None
      <3>1. col.sample[n] \in Sample /\ Hidden(n) \in BOOLEAN
        BY <1>5 DEF CInv, TypeOK, Locals, Hidden
      <3>2. last'[n] \in Seen
        BY <1>2, <2>1, <3>1 DEF Seen, Sample
      <3> QED BY <3>2, NoneAssumption DEF Seen
    <2>3. ideal'[n] = [ideal[n] EXCEPT ![month] = [d \in Dirs |-> @[d] + Gain(n, d)]]
      BY <1>1, <1>5
    <2>4. \A d \in Dirs : ideal'[n][month][d] = ideal[n][month][d] + Gain(n, d)
      BY <1>2, <2>3
    <2>5. \A m \in Months : m # month => ideal'[n][m] = ideal[n][m]
      BY <1>2, <2>3
    <2>6. ASSUME NEW m \in Months, NEW d \in Dirs PROVE ideal[n][m][d] <= ideal'[n][m][d]
      <3>1. ideal[n][m][d] \in Nat
        BY <1>3
      <3>2. CASE m = month
        <4>1. Gain(n, d) \in Nat
          BY <1>1, <1>5, GainTyped
        <4>2. ideal'[n][m][d] = ideal[n][m][d] + Gain(n, d)
          BY <2>4, <3>2
        <4> QED BY <3>1, <4>1, <4>2
      <3>3. CASE m # month
        BY <2>5, <3>1, <3>3
      <3> QED BY <3>2, <3>3
    <2> QED BY <1>5, <2>1, <2>2, <2>4, <2>6
  <1> QED BY <1>4, <1>5

\* A sample of a month that has a baseline adds at least what it makes due.
LEMMA ParseDue ==
  ASSUME CInv, LInv, OInv, Parse, NEW n \in Names, col.sample[n] # None,
         base[n][month] # None, NEW d \in Dirs
  PROVE  MonthTraffic(base[n][month], Prev(n), total[n][month], col.sample[n].at).total[d] <=
           ideal[n][month][d] + Gain(n, d) + slack[n][month][d]
  <1> DEFINE b == base[n][month]
             prev == Prev(n)
             t == total[n][month]
             x == last[n].at
             y == col.sample[n].at
             i == ideal[n][month][d]
             s == slack[n][month][d]
             due == MonthTraffic(b, prev, t, x).total[d]
             new == MonthTraffic(b, prev, t, y).total[d]
  <1>1. col.pc = "parse" /\ month \in Months
    BY DEF Parse, CInv, TypeOK
  <1>2. last[n] # None /\ last[n].month = month
    <2>1. last[n] # None /\ month <= last[n].month
      BY <1>1 DEF OInv, BaseAhead
    <2>2. last[n].month <= month /\ last[n].month \in Months
      BY <2>1 DEF LInv, Dated, CInv, TypeOK
    <2> QED BY <1>1, <2>1, <2>2 DEF Months
  <1>3. /\ b \in Baseline /\ prev \in Bytes \cup {None} /\ t \in Bytes \cup {None}
        /\ x \in Bytes /\ y \in Bytes /\ i \in Nat /\ s \in Nat
    BY <1>1, <1>2, TablesTyped DEF CInv, TypeOK, Locals, Sample
  <1>4. due <= i + s
    BY <1>1, <1>2 DEF OInv, DueCovered, Covered, Due, Slipping
  <1>5. due \in Nat /\ new \in Nat /\ x[d] \in Nat /\ y[d] \in Nat
    <2>1. MonthTraffic(b, prev, t, x).total \in Bytes /\ MonthTraffic(b, prev, t, y).total \in Bytes
      BY <1>3, MonthTrafficTyped
    <2> QED BY <1>3, <2>1 DEF Bytes
  <1>6. CASE last[n].epoch = col.sample[n].epoch
    <2>1. \A e \in Dirs : x[e] <= y[e]
      BY <1>1, <1>2, <1>6 DEF CInv, SamplesGrow
    <2>2. new <= due + (y[d] - x[d])
      BY <1>3, <2>1, LaterSample
    <2>3. Gain(n, d) = y[d] - x[d] /\ x[d] <= y[d]
      BY <1>2, <1>6, <2>1 DEF Gain
    <2> HIDE DEF i, s, due, new, x, y
    <2>4. new <= i + Gain(n, d) + s
      BY <1>3, <1>4, <1>5, <2>2, <2>3
    <2> QED BY <2>4 DEF new, i, s, y
  <1>7. CASE last[n].epoch # col.sample[n].epoch
    <2>1. t # None => t[d] <= i + s
      BY <1>1 DEF OInv, NeverOvercharged
    <2>2. i + s \in Nat
      BY <1>3
    <2>3. new <= (i + s) + y[d]
      BY <1>3, <1>4, <2>1, <2>2, SampleAfterReset
    <2>4. Gain(n, d) = y[d]
      BY <1>2, <1>7 DEF Gain
    <2> HIDE DEF i, s, due, new, y
    <2>5. new <= i + Gain(n, d) + s
      BY <1>3, <1>5, <2>3, <2>4
    <2> QED BY <2>5 DEF new, i, s, y
  <1> QED BY <1>6, <1>7

\* A sample of a client the tables know nothing of has been added as a whole.
LEMMA ParseNewcomer ==
  ASSUME CInv, OInv, Parse, NEW n \in Names, col.sample[n] # None, ~Known(n), NEW d \in Dirs
  PROVE  col.sample[n].at[d] <= ideal[n][month][d] + Gain(n, d)
  <1>1. col.pc = "parse" /\ month \in Months
    BY DEF Parse, CInv, TypeOK
  <1>2. ideal[n][month][d] \in Nat /\ col.sample[n].at[d] \in Nat
    BY <1>1, TablesTyped DEF CInv, TypeOK, Locals, Sample, Bytes
  <1>3. CASE Gain(n, d) = col.sample[n].at[d]
    BY <1>2, <1>3
  <1>4. CASE Gain(n, d) # col.sample[n].at[d]
    <2>1. last[n] # None /\ last[n].month = month
          /\ Gain(n, d) = col.sample[n].at[d] - last[n].at[d]
      BY <1>4 DEF Gain
    <2>2. last[n].at[d] <= ideal[n][month][d]
      BY <2>1 DEF OInv, Newcomers
    <2>3. last[n].at[d] \in Nat
      BY <2>1 DEF CInv, TypeOK, Bytes
    <2> QED BY <1>2, <2>1, <2>2, <2>3
  <1> QED BY <1>3, <1>4

LEMMA ParseOver ==
  ASSUME CInv, CInv', LInv, OInv, Parse
  PROVE  OInv'
  <1> DEFINE sampled == {n \in Names : col.sample[n] # None}
  <1>1. /\ col.pc = "parse" /\ month \in Months
        /\ \/ sampled = {} /\ col' = Waiting
           \/ \E q \in sampled : col' = [col EXCEPT !.pc = "base.get", !.m = month,
                                                    !.p = q, !.todo = sampled \ {q}]
        /\ UNCHANGED <<base, total, snap, slack, month>>
    BY DEF Parse, world, ledger, CInv, TypeOK
  <1>2. Faithful' /\ FirstBaseline' /\ ResultCovered' /\ \A n \in Names : ~Slipping(n)'
    <2>1. CASE col' = Waiting
      <3>1. col'.pc = "idle"
        BY <2>1, WaitingFits
      <3> QED BY <3>1 DEF Faithful, FirstBaseline, ResultCovered, Slipping
    <2>2. CASE col' # Waiting
      <3>1. PICK q \in sampled : col' = [col EXCEPT !.pc = "base.get", !.m = month,
                                                    !.p = q, !.todo = sampled \ {q}]
        BY <1>1, <2>2
      <3>2. /\ col'.pc = "base.get" /\ col'.sample = col.sample
            /\ col'.todo \cup {col'.p} \subseteq sampled
        BY <3>1 DEF CInv, TypeOK, Locals
      <3>3. Faithful'
        BY <3>2, ParseAdds DEF Faithful
      <3> QED BY <3>2, <3>3 DEF FirstBaseline, ResultCovered, Slipping
    <2> QED BY <2>1, <2>2
  <1>3. \A n \in Names, m \in Months, d \in Dirs :
          ideal[n][m][d] <= ideal'[n][m][d] /\ slack[n][m][d] <= slack'[n][m][d]
    <2> TAKE n \in Names, m \in Months, d \in Dirs
    <2>1. ideal[n][m][d] <= ideal'[n][m][d]
      BY ParseAdds
    <2>2. slack[n][m][d] \in Nat
      BY TablesTyped
    <2>3. slack'[n][m][d] = slack[n][m][d]
      BY DEF Parse
    <2> QED BY <2>1, <2>2, <2>3
  <1>4. BaseAhead'
    <2> SUFFICES ASSUME NEW n \in Names, NEW m \in Months, base[n][m] # None
                 PROVE  last'[n] # None /\ m <= last'[n].month
      BY <1>1 DEF BaseAhead
    <2>1. last[n] # None /\ m <= last[n].month
      BY DEF OInv, BaseAhead
    <2>2. last[n].month <= month /\ last[n].month \in Months
      BY <2>1 DEF LInv, Dated, CInv, TypeOK
    <2>3. m \in Nat /\ last[n].month \in Nat /\ month \in Nat
      <3>1. month \in Months
        BY DEF CInv, TypeOK
      <3> HIDE DEF CInv, LInv, OInv
      <3> QED BY <2>2, <3>1 DEF Months
    <2>4. m <= month
      <3>1. \A i, j, k \in Nat : i <= j /\ j <= k => i <= k
        OBVIOUS
      <3> QED BY <2>1, <2>2, <2>3, <3>1
    <2> QED BY <2>1, <2>4, ParseAdds
  <1>5. Newcomers'
    <2> SUFFICES ASSUME NEW n \in Names, last'[n] # None, ~Known(n), NEW d \in Dirs
                 PROVE  last'[n].at[d] <= ideal'[n][last'[n].month][d]
      BY <1>1 DEF Newcomers, Known
    <2>1. CASE col.sample[n] = None
      BY <2>1, ParseAdds DEF OInv, Newcomers
    <2>2. CASE col.sample[n] # None
      BY <2>2, ParseAdds, ParseNewcomer
    <2> QED BY <2>1, <2>2
  <1>6. NeverOvercharged'
    <2> SUFFICES ASSUME NEW n \in Names, NEW m \in Months, total[n][m] # None
                 PROVE  \A d \in Dirs : total[n][m][d] <= ideal'[n][m][d] + slack'[n][m][d]
      BY <1>1 DEF NeverOvercharged
    <2>1. total[n][m] \in Bytes /\ Covered(total[n][m], n, m)
      BY TablesTyped DEF OInv, NeverOvercharged, Covered
    <2> QED BY <1>3, <2>1, CoveredMore
  <1>7. DueCovered'
    <2> SUFFICES ASSUME NEW n \in Names, last'[n] # None, base[n][last'[n].month] # None
                 PROVE  Covered(Due(n), n, last[n].month)'
      BY <1>1 DEF DueCovered, Covered, Due
    <2>1. CASE col.sample[n] = None
      <3>1. last'[n] = last[n] /\ ideal'[n] = ideal[n] /\ ~Slipping(n)
        BY <1>1, <2>1, ParseAdds DEF Slipping
      <3>2. Covered(Due(n), n, last[n].month) /\ Due(n)' = Due(n)
        BY <1>1, <3>1 DEF OInv, DueCovered, Due, Prev
      <3> QED BY <1>1, <3>1, <3>2 DEF Covered
    <2>2. CASE col.sample[n] # None
      <3>1. /\ last'[n].month = month /\ last'[n].at = col.sample[n].at
            /\ \A d \in Dirs : ideal'[n][month][d] = ideal[n][month][d] + Gain(n, d)
        BY <2>2, ParseAdds
      <3>2. Due(n)' =
              MonthTraffic(base[n][month], Prev(n), total[n][month], col.sample[n].at).total
        BY <1>1, <3>1 DEF Due, Prev
      <3>3. \A d \in Dirs : Due(n)'[d] <=
              ideal[n][month][d] + Gain(n, d) + slack[n][month][d]
        BY <2>2, <3>1, <3>2, ParseDue
      <3> QED BY <1>1, <3>1, <3>3 DEF Covered
    <2> QED BY <2>1, <2>2
  <1> QED BY <1>2, <1>4, <1>5, <1>6, <1>7 DEF OInv

-----------------------------------------------------------------------------
(* Failures and crashes.                                                     *)

\* A collection that is cut off while it slips owes what counting the reset again
\* will charge.
LEMMA SlipOwed ==
  ASSUME CInv, CInv', LInv, OInv, NEW n \in Names, Slipping(n), Owe,
         UNCHANGED <<base, total, snap, last, ideal>>
  PROVE  Covered(Due(n), n, last[n].month)'
  <1> DEFINE b == base[col.p][col.m]
             t == total[col.p][col.m]
             prev == Prev(col.p)
  <1>1. n = col.p /\ col.pc \in {"total.set", "snap.save"} /\ Result.reanchor
    BY DEF Slipping
  <1>2. /\ col.p \in Names /\ col.m \in Months /\ Now \in Bytes
        /\ last[col.p] # None /\ last[col.p].month = col.m /\ last[col.p].at = Now
    BY <1>1, InHand DEF LInv, Sampled, OInv, Faithful, Now
  <1>3. /\ b # None /\ b.at = Result.at /\ b.off = Result.off
    BY <1>1 DEF LInv, Hand, Written
  <1>4. b \in Baseline /\ prev \in Bytes \cup {None} /\ t \in Bytes \cup {None}
    BY <1>2, <1>3, TablesTyped
  <1>5. /\ col.b \in Baseline /\ col.prev \in Bytes \cup {None}
        /\ col.stored \in Bytes \cup {None}
    BY <1>1 DEF CInv, ControlOf, TypeOK, Locals
  <1>6. Result.at = Zero
    BY <1>1 DEF Result, MonthTraffic
  <1>7. ASSUME NEW d \in Dirs
        PROVE  MonthTraffic(b, prev, t, Now).total[d] <=
                 ideal[col.p][col.m][d] + slack'[col.p][col.m][d]
    <2> DEFINE i == ideal[col.p][col.m][d]
               s == slack[col.p][col.m][d]
               z == Shown(prev)[d]
               due == MonthTraffic(b, prev, t, Now).total[d]
    <2>1. i \in Nat /\ s \in Nat /\ z \in Nat /\ Now[d] \in Nat
      BY <1>1, <1>2, <1>4, InHand, TablesTyped, ShownTyped
    <2>2. slack'[col.p][col.m][d] = s + z + Now[d]
      BY <1>1, OweAdds
    <2>3. Result.total[d] <= i + s
      BY <1>1 DEF OInv, ResultCovered, Covered
    <2>4. b.off[d] + Now[d] <= i + s
      <3>1. Result.total[d] = Result.off[d] + (Now[d] - Result.at[d])
        BY <1>2, <1>5, TotalFromBaseline DEF Result
      <3>2. Result.at[d] = 0 /\ b.off[d] = Result.off[d] /\ b.off[d] \in Nat
        BY <1>3, <1>4, <1>6, ZeroTyped DEF Baseline, Bytes
      <3>3. Result.off[d] + (Now[d] - 0) <= i + s
        BY <2>3, <3>1, <3>2
      <3> HIDE DEF i, s, b
      <3> QED BY <2>1, <3>2, <3>3
    <2>5. t # None => t[d] <= i + s
      BY <1>2 DEF OInv, NeverOvercharged
    <2>6. i + s \in Nat
      BY <2>1
    <2>7. due <= (i + s) + z + Now[d]
      <3>1. b.at = Zero
        BY <1>3, <1>6
      <3> QED BY <1>2, <1>4, <2>4, <2>5, <2>6, <3>1, ResetTwice
    <2>8. due \in Nat
      <3>1. MonthTraffic(b, prev, t, Now).total \in Bytes
        BY <1>2, <1>4, MonthTrafficTyped
      <3> QED BY <3>1 DEF Bytes
    <2> HIDE DEF i, s, z, due
    <2>9. due <= i + slack'[col.p][col.m][d]
      BY <2>1, <2>2, <2>7, <2>8
    <2> QED BY <2>9 DEF due, i
  <1>8. Due(n) = MonthTraffic(b, prev, t, Now).total
    BY <1>1, <1>2 DEF Due
  <1>9. Due(n)' = Due(n)
    BY DEF Due, Prev
  <1> QED BY <1>1, <1>2, <1>7, <1>8, <1>9 DEF Covered

LEMMA CutOffOver ==
  ASSUME CInv, CInv', LInv, OInv, CutOff, UNCHANGED <<base, total, snap, last, ideal>>,
         \A n \in Names : ~Slipping(n)', Faithful', FirstBaseline', ResultCovered'
  PROVE  OInv'
  <1>1. \A n \in Names, m \in Months, d \in Dirs : slack[n][m][d] <= slack'[n][m][d]
    <2>1. CASE col.pc \in {"idle", "parse"}
      <3>1. UNCHANGED slack
        BY <2>1 DEF CutOff
      <3> QED BY <3>1, TablesTyped
    <2>2. CASE col.pc \notin {"idle", "parse"}
      BY <2>2, OweGrows DEF CutOff
    <2> QED BY <2>1, <2>2
  <1>2. BaseAhead' /\ Newcomers' /\ NeverOvercharged'
    BY <1>1, TablesStay
  <1>3. DueCovered'
    <2> SUFFICES ASSUME NEW n \in Names, last[n] # None, base[n][last[n].month] # None
                 PROVE  Covered(Due(n), n, last[n].month)'
      BY DEF DueCovered, Covered, Due
    <2>1. CASE ~Slipping(n)
      BY <1>1, <2>1, TablesStay
    <2>2. CASE Slipping(n)
      <3>1. Owe
        BY <2>2 DEF Slipping, CutOff
      <3> QED BY <2>2, <3>1, SlipOwed
    <2> QED BY <2>1, <2>2
  <1> QED BY <1>2, <1>3 DEF OInv

LEMMA CallFailsOver ==
  ASSUME CInv, CInv', LInv, OInv, CallFails
  PROVE  OInv'
  <1>1. col.pc \in Calls /\ UNCHANGED <<base, total, snap, last, ideal>>
    BY DEF CallFails, ledger
  <1>2. CASE col.pc = "parse"
    <2>1. col' = Waiting /\ CutOff
      BY <1>2 DEF CallFails
    <2>2. col'.pc = "idle"
      BY <2>1, WaitingFits
    <2>3. Faithful' /\ FirstBaseline' /\ ResultCovered' /\ \A n \in Names : ~Slipping(n)'
      BY <2>2 DEF Faithful, FirstBaseline, ResultCovered, Slipping
    <2> QED BY <1>1, <2>1, <2>3, CutOffOver
  <1>3. CASE col.pc = "has.get"
    <2> DEFINE b == BaselineFrom(Zero)
    <2>1. col' = [col EXCEPT !.pc = "base.set", !.b = b] /\ Owe
      BY <1>3 DEF CallFails
    <2>2. b.off = Zero /\ b.at = Zero
      BY DEF BaselineFrom
    <2> HIDE DEF b
    <2>3. /\ col'.pc = "base.set" /\ col'.p = col.p /\ col'.m = col.m /\ col'.todo = col.todo
          /\ col'.sample = col.sample /\ col'.b = b
      BY <1>3, <2>1, InHand DEF Locals
    <2>4. \A d \in Dirs : Now[d] <= slack'[col.p][col.m][d]
      <3> TAKE d \in Dirs
      <3>1. slack'[col.p][col.m][d] =
              slack[col.p][col.m][d] + Shown(Prev(col.p))[d] + Now[d]
        BY <1>3, <2>1, OweAdds
      <3>2. slack[col.p][col.m][d] \in Nat /\ Shown(Prev(col.p))[d] \in Nat /\ Now[d] \in Nat
        BY <1>3, InHand, TablesTyped, ShownTyped
      <3> QED BY <3>1, <3>2
    <2>5. FirstBaseline'
      BY <2>2, <2>3, <2>4 DEF FirstBaseline, Now
    <2>6. Faithful' /\ ResultCovered' /\ \A n \in Names : ~Slipping(n) /\ ~Slipping(n)'
      BY <1>1, <1>3, <2>3 DEF OInv, Faithful, ResultCovered, Slipping
    <2>7. \A n \in Names, m \in Months, d \in Dirs : slack[n][m][d] <= slack'[n][m][d]
      BY <1>3, <2>1, OweGrows
    <2>8. BaseAhead' /\ Newcomers' /\ NeverOvercharged' /\ DueCovered'
      BY <1>1, <2>6, <2>7, TablesStay DEF DueCovered
    <2> QED BY <2>5, <2>6, <2>8 DEF OInv
  <1>4. CASE col.pc \notin {"parse", "has.get"}
    <2>1. Continue(col.todo) /\ CutOff
      BY <1>4 DEF CallFails
    <2>2. col.pc \notin {"idle", "parse"}
      BY <1>1, <1>4 DEF Calls
    <2> QED BY <1>1, <2>1, <2>2, ContinueOver, CutOffOver
  <1> QED BY <1>2, <1>3, <1>4

LEMMA CrashOver ==
  ASSUME CInv, CInv', LInv, OInv, Crash
  PROVE  OInv'
  <1>1. col' = Waiting /\ CutOff /\ UNCHANGED <<base, total, snap, last, ideal>>
    BY DEF Crash, ledger
  <1>2. col'.pc = "idle"
    BY <1>1, WaitingFits
  <1>3. Faithful' /\ FirstBaseline' /\ ResultCovered' /\ \A n \in Names : ~Slipping(n)'
    BY <1>2 DEF Faithful, FirstBaseline, ResultCovered, Slipping
  <1> QED BY <1>1, <1>3, CutOffOver

-----------------------------------------------------------------------------
(* The property.                                                             *)

\* One step per action.
LEMMA OverNext ==
  ASSUME CInv, LedgerInv, NoClearing, NoClearing', OInv, [Next]_vars
  PROVE  OInv'
  <1>1. LInv /\ CInv'
    BY StepFits DEF LedgerInv
  <1>2. ~ClearTotals
    <2> SUFFICES ASSUME ClearTotals PROVE FALSE
      OBVIOUS
    <2>1. clear' \in Months
      BY DEF ClearTotals, CInv, TypeOK
    <2> QED BY <2>1 DEF NoClearing, Months
  <1>3. ~ClearBaselines /\ ~ClearCutOff
    BY DEF ClearBaselines, ClearCutOff, NoClearing
  <1>4. CASE Collect
    BY <1>1, <1>4, StatsOver, ParseOver, BaseGetOver, HasGetOver, BaseSetOver, SnapGetOver,
       TotalGetOver, ReanchorOver, TotalSetOver, SnapSaveOver, CallFailsOver DEF Collect
  <1>5. CASE \/ \E n \in Names : Transfer(n) \/ Leave(n) \/ Join(n)
             \/ Bounce \/ Midnight \/ UNCHANGED vars
    <2>1. UNCHANGED <<ledger, col, last, ideal, slack>>
      BY <1>5 DEF Transfer, Leave, Join, Bounce, Midnight, ledger, ghosts, vars
    <2> QED BY <1>1, <2>1, WorldOver
  <1>6. CASE Crash
    BY <1>1, <1>6, CrashOver
  <1> QED BY <1>2, <1>3, <1>4, <1>5, <1>6 DEF Next

LEMMA OverInit == Init => OInv
  <1> SUFFICES ASSUME Init PROVE OInv
    OBVIOUS
  <1>1. col.pc = "idle"
    BY WaitingFits DEF Init
  <1>2. BaseAhead /\ Newcomers /\ NeverOvercharged /\ DueCovered
    BY DEF Init, BaseAhead, Newcomers, NeverOvercharged, DueCovered
  <1> QED BY <1>1, <1>2 DEF OInv, Faithful, FirstBaseline, ResultCovered

\* Where nobody runs -reset-month-traffic, a client is never charged, in a month,
\* for bytes that collect did not see in the samples of that month, except once
\* more for each slip: for any number of resets, failed calls and crashes.
THEOREM NobodyOvercharged ==
  ASSUME MaxClears = 0
  PROVE  Spec => []NeverOvercharged
  <1>1. Init => CInv /\ LedgerInv /\ NoClearing /\ OInv
    BY InitFits, LedgerInit, OverInit DEF Init, NoClearing
  <1>2. CInv /\ LedgerInv /\ NoClearing /\ OInv /\ [Next]_vars =>
          (CInv /\ LedgerInv /\ NoClearing /\ OInv)'
    BY StepFits, LedgerNext, NotClearedNext, OverNext
  <1>3. OInv => NeverOvercharged
    BY DEF OInv
  <1> QED BY <1>1, <1>2, <1>3, PTL DEF Spec

-----------------------------------------------------------------------------
(* Resets, and the bound from below.                                         *)

\* The samples in hand are the last ones, with their month and epoch.
Handed ==
  col.pc \notin {"idle", "parse"} =>
    \A q \in col.todo \cup {col.p} :
      /\ last[q] # None /\ last[q].month = col.m
      /\ last[q].at = col.sample[q].at /\ last[q].epoch = col.sample[q].epoch

\* What was read is still what the tables hold, a baseline that was cleared since
\* excepted.
Reading ==
  /\ col.pc \in {"has.get", "base.set"} => base[col.p][col.m] = None
  /\ col.pc = "base.set" =>
       col.b.epoch = col.sample[col.p].epoch /\ col.b.at \in {Zero, Now}
  /\ col.pc \in {"snap.get", "total.get", "reanchor"} => base[col.p][col.m] \in {None, col.b}
  /\ col.pc \in {"total.get", "reanchor", "total.set", "snap.save"} => col.prev = Prev(col.p)
  /\ col.pc = "reanchor" => Result.reanchor

\* What was stored in epoch e is not ahead of the last sample.
NotLater(at, e, n) ==
  /\ last[n] # None /\ e <= last[n].epoch
  /\ e = last[n].epoch => \A d \in Dirs : at[d] <= last[n].at[d]

RowsBehind ==
  /\ \A n \in Names : snap[n] # None => NotLater(snap[n].at, snap[n].epoch, n)
  /\ \A n \in Names, m \in Months :
       base[n][m] # None => NotLater(base[n][m].at, base[n][m].epoch, n)

\* A baseline that was written since the last reset shows no reset again, because
\* the snapshot is not above the counters, unless it slipped or was cut off.
Once ==
  \A n \in Names \ torn, m \in Months :
    /\ base[n][m] # None /\ base[n][m].epoch = last[n].epoch
    /\ slack[n][m] = Zero /\ snap[n] # None /\ ~Between(n)
    => \A d \in Dirs : snap[n].at[d] <= last[n].at[d]

RInv == Handed /\ Reading /\ RowsBehind /\ Once

-----------------------------------------------------------------------------
(* No reset is counted twice.                                                *)

LEMMA NotLaterStays ==
  ASSUME last' = last, NEW at, NEW e, NEW n, NotLater(at, e, n)
  PROVE  NotLater(at, e, n)'
  BY DEF NotLater

\* Slack that is zero was zero before.
LEMMA ZeroBefore ==
  ASSUME CInv, CInv', NEW n \in Names, NEW m \in Months,
         \A d \in Dirs : slack[n][m][d] <= slack'[n][m][d], slack'[n][m] = Zero
  PROVE  slack[n][m] = Zero
  <1>1. slack[n][m] \in Bytes
    BY DEF CInv, TypeOK
  <1>2. \A d \in Dirs : slack[n][m][d] \in Nat /\ slack[n][m][d] <= 0
    BY <1>1, ZeroTyped DEF Bytes
  <1>3. \A d \in Dirs : slack[n][m][d] = 0
    BY <1>2
  <1> QED BY <1>1, <1>3 DEF Bytes, Zero

\* The tables and the samples stay.
LEMMA RowsStay ==
  ASSUME CInv, CInv', RInv, UNCHANGED <<base, snap, last>>, torn \subseteq torn',
         \A n \in Names, m \in Months, d \in Dirs : slack[n][m][d] <= slack'[n][m][d],
         \A n \in Names : Between(n) => Between(n)' \/ n \in torn'
  PROVE  RowsBehind' /\ Once'
  <1>1. RowsBehind'
    BY DEF RInv, RowsBehind, NotLater
  <1>2. \A n \in Names, m \in Months : slack'[n][m] = Zero => slack[n][m] = Zero
    BY ZeroBefore
  <1>3. Once'
    BY <1>2 DEF RInv, Once
  <1> QED BY <1>1, <1>3

LEMMA SlackSame ==
  ASSUME CInv, UNCHANGED slack
  PROVE  \A n \in Names, m \in Months, d \in Dirs : slack[n][m][d] <= slack'[n][m][d]
  BY TablesTyped

LEMMA WorldResets ==
  ASSUME CInv, CInv', RInv, UNCHANGED <<base, snap, col, last, torn, slack>>
  PROVE  RInv'
  <1>1. \A n \in Names : Between(n)' <=> Between(n)
    BY DEF Between, Result, Now
  <1>2. RowsBehind' /\ Once'
    BY <1>1, SlackSame, RowsStay
  <1>3. Handed' /\ Reading'
    BY DEF RInv, Handed, Reading, Prev, Result, Now
  <1> QED BY <1>2, <1>3 DEF RInv

\* -reset-month-traffic only takes rows away.
LEMMA ClearResets ==
  ASSUME CInv, CInv', RInv, UNCHANGED <<snap, col, last, torn, slack>>,
         \A n \in Names, m \in Months : base'[n][m] \in {None, base[n][m]}
  PROVE  RInv'
  <1>1. \A n \in Names : Between(n)' <=> Between(n)
    BY DEF Between, Result, Now
  <1>2. RowsBehind'
    BY DEF RInv, RowsBehind, NotLater
  <1>3. Once'
    BY <1>1 DEF RInv, Once
  <1>4. col.pc \notin {"idle", "parse"} => base'[col.p][col.m] \in {None, base[col.p][col.m]}
    BY InHand
  <1>5. Handed' /\ Reading'
    BY <1>4 DEF RInv, Handed, Reading, Prev, Result, Now
  <1> QED BY <1>2, <1>3, <1>5 DEF RInv

\* The calls that read.
LEMMA ReadResets ==
  ASSUME CInv, CInv', RInv, Read, col.pc \notin {"total.set", "snap.save"}, Handed', Reading'
  PROVE  RInv'
  <1>1. UNCHANGED <<base, snap, last, torn, slack>>
    BY DEF Read, ledger, ghosts
  <1>2. RowsBehind' /\ Once'
    BY <1>1, SlackSame, RowsStay DEF Between
  <1> QED BY <1>2 DEF RInv

LEMMA NothingInHand == col'.pc \in {"idle", "parse"} => Handed' /\ Reading'
  BY DEF Handed, Reading

LEMMA StatsResets ==
  ASSUME CInv, CInv', RInv, Stats
  PROVE  RInv'
  <1>1. col'.pc = "parse" /\ col.pc = "idle" /\ Read
    BY DEF Stats, Read, CInv, TypeOK, Locals
  <1> QED BY <1>1, NothingInHand, ReadResets

LEMMA BaseGetResets ==
  ASSUME CInv, CInv', RInv, BaseGet
  PROVE  RInv'
  <1>1. col.pc = "base.get" /\ Read /\ UNCHANGED <<last, base, snap>>
    BY DEF BaseGet, Read, ghosts, ledger
  <1> DEFINE b == base[col.p][col.m]
             pc == IF b = None THEN "has.get" ELSE "snap.get"
  <1>2. col' = [col EXCEPT !.pc = pc, !.b = b]
    BY DEF BaseGet
  <1>3. (pc = "has.get" /\ b = None) \/ pc = "snap.get"
    OBVIOUS
  <1> HIDE DEF pc
  <1>4. /\ col'.pc = pc /\ col'.p = col.p /\ col'.todo = col.todo /\ col'.sample = col.sample
        /\ col'.m = col.m /\ col'.b = b
    BY <1>1, <1>2, InHand DEF Locals
  <1>5. Handed' /\ Reading'
    BY <1>1, <1>3, <1>4 DEF RInv, Handed, Reading
  <1> QED BY <1>1, <1>5, ReadResets

\* A new baseline is the counters or zero, of the epoch of the sample.
LEMMA NewRowResets ==
  ASSUME CInv, RInv, col.pc = "has.get", UNCHANGED <<base, snap, last>>, NEW at \in {Zero, Now},
         col' = [col EXCEPT !.pc = "base.set", !.b = BaselineFrom(at)]
  PROVE  Handed' /\ Reading' /\ \A n \in Names : ~Between(n)'
  <1> DEFINE b == BaselineFrom(at)
  <1>1. b.at = at /\ b.epoch = col.sample[col.p].epoch
    BY DEF BaselineFrom
  <1> HIDE DEF b
  <1>2. /\ col'.pc = "base.set" /\ col'.p = col.p /\ col'.todo = col.todo /\ col'.b = b
        /\ col'.sample = col.sample /\ col'.m = col.m
    BY InHand DEF Locals, b
  <1> QED BY <1>1, <1>2 DEF RInv, Handed, Reading, Between, Now

LEMMA HasGetResets ==
  ASSUME CInv, CInv', RInv, HasGet
  PROVE  RInv'
  <1>1. col.pc = "has.get" /\ Read /\ UNCHANGED <<last, base, snap>>
    BY DEF HasGet, Read, ghosts, ledger
  <1>2. PICK at \in {Zero, Now} :
          col' = [col EXCEPT !.pc = "base.set", !.b = BaselineFrom(at)]
    BY DEF HasGet
  <1> QED BY <1>1, <1>2, NewRowResets, ReadResets

LEMMA SnapGetResets ==
  ASSUME CInv, CInv', RInv, SnapGet
  PROVE  RInv'
  <1>1. col.pc = "snap.get" /\ Read /\ UNCHANGED <<last, base, snap>>
    BY DEF SnapGet, Read, ghosts, ledger
  <1>2. col' = [col EXCEPT !.pc = "total.get", !.prev = Prev(col.p)]
    BY DEF SnapGet, Prev
  <1>3. /\ col'.pc = "total.get" /\ col'.p = col.p /\ col'.todo = col.todo
        /\ col'.sample = col.sample /\ col'.m = col.m /\ col'.b = col.b
        /\ col'.prev = Prev(col.p)
    BY <1>1, <1>2, InHand DEF Locals
  <1>4. Handed' /\ Reading'
    BY <1>1, <1>3 DEF RInv, Handed, Reading, Prev
  <1> QED BY <1>1, <1>4, ReadResets

LEMMA TotalGetResets ==
  ASSUME CInv, CInv', RInv, TotalGet
  PROVE  RInv'
  <1>1. col.pc = "total.get" /\ Read /\ UNCHANGED <<last, base, snap>>
    BY DEF TotalGet, Read, ghosts, ledger
  <1> DEFINE v == total[col.p][col.m]
             res == MonthTraffic(col.b, col.prev, v, Now)
             pc == IF res.reanchor THEN "reanchor" ELSE "total.set"
  <1>2. col' = [col EXCEPT !.pc = pc, !.stored = v]
    BY DEF TotalGet
  <1>3. pc \in {"reanchor", "total.set"} /\ (pc = "reanchor" => res.reanchor)
    OBVIOUS
  <1> HIDE DEF pc
  <1>4. /\ col'.p = col.p /\ col'.m = col.m /\ col'.todo = col.todo /\ col'.sample = col.sample
        /\ col'.pc = pc /\ col'.b = col.b /\ col'.prev = col.prev /\ col'.stored = v
    BY <1>1, <1>2, InHand DEF Locals
  <1>5. Result' = res
    BY <1>4 DEF Result, Now
  <1>6. Handed' /\ Reading'
    BY <1>1, <1>3, <1>4, <1>5 DEF RInv, Handed, Reading, Prev
  <1> QED BY <1>1, <1>6, ReadResets

\* What is written of the client in hand is of its last sample.
LEMMA HandNotLater ==
  ASSUME CInv, RInv, col.pc \notin {"idle", "parse"}, NEW at \in {Zero, Now}
  PROVE  NotLater(at, col.sample[col.p].epoch, col.p)
  <1>1. /\ last[col.p] # None /\ last[col.p].at = Now
        /\ last[col.p].epoch = col.sample[col.p].epoch
    BY DEF RInv, Handed, Now
  <1>2. col.sample[col.p].epoch \in Nat /\ \A d \in Dirs : Now[d] \in Nat /\ Zero[d] = 0
    BY InHand, ZeroTyped DEF Sample
  <1> QED BY <1>1, <1>2 DEF NotLater

LEMMA BaseSetResets ==
  ASSUME CInv, CInv', RInv, BaseSet
  PROVE  RInv'
  <1>1. /\ col.pc = "base.set" /\ col' = [col EXCEPT !.pc = "snap.get"]
        /\ base' = [base EXCEPT ![col.p][col.m] = col.b]
        /\ IF BaselineSlips THEN Owe ELSE UNCHANGED slack
        /\ UNCHANGED <<snap, last, torn>>
    BY DEF BaseSet
  <1>2. col.p \in Names /\ col.m \in Months /\ col.b \in Baseline /\ Now \in Bytes
    BY <1>1, InHand DEF CInv, ControlOf
  <1>3. /\ base'[col.p][col.m] = col.b
        /\ \A n \in Names, m \in Months : n # col.p \/ m # col.m => base'[n][m] = base[n][m]
    BY <1>1, <1>2 DEF CInv, TypeOK
  <1>4. /\ col'.p = col.p /\ col'.todo = col.todo /\ col'.pc = "snap.get" /\ col'.b = col.b
        /\ col'.sample = col.sample /\ col'.m = col.m
    BY <1>1, InHand DEF Locals
  <1>5. last[col.p] # None /\ last[col.p].at = Now
    BY <1>1 DEF RInv, Handed, Now
  <1>6. Handed' /\ Reading'
    BY <1>1, <1>3, <1>4 DEF RInv, Handed, Reading
  <1>7. RowsBehind'
    <2>1. NotLater(col.b.at, col.b.epoch, col.p)
      BY <1>1, HandNotLater DEF RInv, Reading
    <2> SUFFICES ASSUME NEW n \in Names, NEW m \in Months, base'[n][m] # None
                 PROVE  NotLater(base'[n][m].at, base'[n][m].epoch, n)
      BY <1>1 DEF RInv, RowsBehind, NotLater
    <2>2. CASE n = col.p /\ m = col.m
      BY <1>3, <2>1, <2>2
    <2>3. CASE n # col.p \/ m # col.m
      BY <1>3, <2>3 DEF RInv, RowsBehind
    <2> QED BY <2>2, <2>3
  <1>8. ASSUME snap[col.p] # None, slack'[col.p][col.m] = Zero, NEW d \in Dirs
        PROVE  snap[col.p].at[d] <= Now[d]
    <2>1. Prev(col.p) = snap[col.p].at /\ snap[col.p].at \in Bytes /\ snap[col.p].at # None
      BY <1>2, <1>8, NoneAssumption DEF Prev, CInv, TypeOK, Sample
    <2>2. snap[col.p].at[d] \in Nat /\ Now[d] \in Nat
      BY <1>2, <2>1 DEF Bytes
    <2>3. CASE BaselineSlips
      <3>1. slack'[col.p][col.m][d] =
              slack[col.p][col.m][d] + Shown(Prev(col.p))[d] + Now[d]
        BY <1>1, <2>3, OweAdds
      <3>2. slack[col.p][col.m][d] \in Nat
        BY <1>2, TablesTyped
      <3>3. Shown(Prev(col.p))[d] = snap[col.p].at[d]
        BY <2>1 DEF Shown
      <3>4. slack'[col.p][col.m][d] = 0
        BY <1>8, ZeroTyped
      <3> QED BY <2>2, <3>1, <3>2, <3>3, <3>4
    <2>4. CASE ~BaselineSlips
      <3>1. ~CountersDropped(col.b, snap[col.p].at, Now)
        BY <1>8, <2>4 DEF BaselineSlips
      <3> QED BY <2>1, <2>2, <3>1 DEF CountersDropped
    <2> QED BY <2>3, <2>4
  <1>9. \A n \in Names, m \in Months, d \in Dirs : slack[n][m][d] <= slack'[n][m][d]
    BY <1>1, OweGrows
  <1>10. Once'
    <2> SUFFICES ASSUME NEW n \in Names \ torn, NEW m \in Months, base'[n][m] # None,
                        base'[n][m].epoch = last[n].epoch, slack'[n][m] = Zero,
                        snap[n] # None, NEW d \in Dirs
                 PROVE  snap[n].at[d] <= last[n].at[d]
      BY <1>1 DEF Once
    <2>1. CASE n = col.p /\ m = col.m
      BY <1>5, <1>8, <2>1
    <2>2. CASE n # col.p \/ m # col.m
      <3>1. base'[n][m] = base[n][m] /\ slack[n][m] = Zero /\ ~Between(n)
        BY <1>1, <1>3, <1>9, <2>2, ZeroBefore DEF Between
      <3> QED BY <3>1 DEF RInv, Once
    <2> QED BY <2>1, <2>2
  <1> QED BY <1>6, <1>7, <1>10 DEF RInv

LEMMA ReanchorResets ==
  ASSUME CInv, CInv', RInv, Reanchor
  PROVE  RInv'
  <1> DEFINE b == [at |-> Result.at, off |-> Result.off, epoch |-> col.sample[col.p].epoch]
  <1>1. /\ col.pc = "reanchor" /\ col' = [col EXCEPT !.pc = "total.set"]
        /\ base' = [base EXCEPT ![col.p][col.m] = b]
        /\ UNCHANGED <<snap, last, torn, slack>>
    BY DEF Reanchor, ghosts
  <1>2. col.p \in Names /\ col.m \in Months
    BY <1>1, InHand
  <1>3. Result.reanchor /\ Result.at = Zero
    BY <1>1 DEF RInv, Reading, Result, MonthTraffic
  <1>4. b.at = Zero /\ b.epoch = col.sample[col.p].epoch
    BY <1>3
  <1> HIDE DEF b
  <1>5. /\ base'[col.p][col.m] = b
        /\ \A n \in Names, m \in Months : n # col.p \/ m # col.m => base'[n][m] = base[n][m]
    BY <1>1, <1>2 DEF CInv, TypeOK
  <1>6. /\ col'.p = col.p /\ col'.m = col.m /\ col'.todo = col.todo /\ col'.sample = col.sample
        /\ col'.pc = "total.set" /\ col'.b = col.b /\ col'.prev = col.prev
        /\ col'.stored = col.stored
    BY <1>1, InHand DEF Locals
  <1>7. Result' = Result
    BY <1>6 DEF Result, Now
  <1>8. Handed' /\ Reading'
    BY <1>1, <1>6, <1>7 DEF RInv, Handed, Reading, Prev
  <1>9. RowsBehind'
    <2>1. NotLater(b.at, b.epoch, col.p)
      BY <1>1, <1>4, HandNotLater
    <2> SUFFICES ASSUME NEW n \in Names, NEW m \in Months, base'[n][m] # None
                 PROVE  NotLater(base'[n][m].at, base'[n][m].epoch, n)
      BY <1>1 DEF RInv, RowsBehind, NotLater
    <2>2. CASE n = col.p /\ m = col.m
      BY <1>5, <2>1, <2>2
    <2>3. CASE n # col.p \/ m # col.m
      BY <1>5, <2>3 DEF RInv, RowsBehind
    <2> QED BY <2>2, <2>3
  <1>10. Between(col.p)' /\ \A n \in Names : ~Between(n)
    BY <1>1, <1>3, <1>6, <1>7 DEF Between
  <1>11. Once'
    <2> SUFFICES ASSUME NEW n \in Names \ torn, NEW m \in Months, base'[n][m] # None,
                        base'[n][m].epoch = last[n].epoch, slack[n][m] = Zero,
                        snap[n] # None, n # col.p, NEW d \in Dirs
                 PROVE  snap[n].at[d] <= last[n].at[d]
      BY <1>1, <1>10 DEF Once
    <2> QED BY <1>5, <1>10 DEF RInv, Once
  <1> QED BY <1>8, <1>9, <1>11 DEF RInv

LEMMA TotalSetResets ==
  ASSUME CInv, CInv', RInv, TotalSet
  PROVE  RInv'
  <1>1. /\ col.pc = "total.set" /\ col' = [col EXCEPT !.pc = "snap.save"]
        /\ UNCHANGED <<base, snap, last, torn, slack>>
    BY DEF TotalSet, ghosts
  <1>2. /\ col'.p = col.p /\ col'.m = col.m /\ col'.todo = col.todo /\ col'.sample = col.sample
        /\ col'.pc = "snap.save" /\ col'.prev = col.prev
    BY <1>1, InHand DEF Locals
  <1>3. Handed' /\ Reading'
    BY <1>1, <1>2 DEF RInv, Handed, Reading, Prev
  <1>4. \A n \in Names : Between(n) => Between(n)'
    BY <1>1, <1>2 DEF Between
  <1>5. RowsBehind' /\ Once'
    BY <1>1, <1>4, SlackSame, RowsStay
  <1> QED BY <1>3, <1>5 DEF RInv

\* The loop goes on: nothing has been read yet.
LEMMA ContinueResets ==
  ASSUME CInv, RInv, col.pc \notin {"idle", "parse"}, Continue(col.todo), last' = last
  PROVE  Handed' /\ Reading' /\ \A n \in Names : ~Between(n)'
  <1>1. CASE col' = Waiting
    <2>1. col'.pc = "idle"
      BY <1>1, WaitingFits
    <2> QED BY <2>1, NothingInHand DEF Between
  <1>2. CASE col' # Waiting
    <2>1. PICK q \in col.todo :
            col' = [col EXCEPT !.pc = "base.get", !.p = q, !.todo = col.todo \ {q},
                               !.b = None, !.prev = None, !.stored = None]
      BY <1>2 DEF Continue
    <2>2. /\ col'.pc = "base.get" /\ col'.sample = col.sample /\ col'.m = col.m
          /\ col'.todo \cup {col'.p} \subseteq col.todo
      BY <2>1, InHand DEF Locals
    <2> QED BY <2>2 DEF RInv, Handed, Reading, Between
  <1> QED BY <1>1, <1>2

LEMMA SnapSaveResets ==
  ASSUME CInv, CInv', RInv, SnapSave
  PROVE  RInv'
  <1>1. /\ col.pc = "snap.save" /\ Continue(col.todo)
        /\ snap' = [snap EXCEPT ![col.p] = col.sample[col.p]]
        /\ torn' = torn \ {col.p}
        /\ UNCHANGED <<base, last, slack>>
    BY DEF SnapSave
  <1>2. col.p \in Names /\ col.sample[col.p] \in Sample /\ \A d \in Dirs : Now[d] \in Nat
    BY <1>1, InHand
  <1>3. /\ snap'[col.p] = col.sample[col.p]
        /\ \A n \in Names : n # col.p => snap'[n] = snap[n]
    BY <1>1, <1>2 DEF CInv, TypeOK
  <1>4. Handed' /\ Reading'
    BY <1>1, ContinueResets
  <1>5. last[col.p].at = Now /\ snap'[col.p].at = Now
    BY <1>1, <1>3 DEF RInv, Handed, Now
  <1>6. RowsBehind'
    <2>1. NotLater(Now, col.sample[col.p].epoch, col.p)
      BY <1>1, HandNotLater
    <2>2. \A n \in Names : snap'[n] # None => NotLater(snap'[n].at, snap'[n].epoch, n)
      <3> TAKE n \in Names
      <3>1. CASE n = col.p
        BY <1>3, <2>1, <3>1 DEF Now
      <3>2. CASE n # col.p
        BY <1>3, <3>2 DEF RInv, RowsBehind
      <3> QED BY <3>1, <3>2
    <2> QED BY <1>1, <2>2 DEF RInv, RowsBehind, NotLater
  <1>7. Once'
    <2> SUFFICES ASSUME NEW n \in Names \ torn', NEW m \in Months, base[n][m] # None,
                        base[n][m].epoch = last[n].epoch, slack[n][m] = Zero,
                        snap'[n] # None, NEW d \in Dirs
                 PROVE  snap'[n].at[d] <= last[n].at[d]
      BY <1>1 DEF Once
    <2>1. CASE n = col.p
      BY <1>2, <1>5, <2>1
    <2>2. CASE n # col.p
      BY <1>1, <1>3, <2>2 DEF RInv, Once, Between
    <2> QED BY <2>1, <2>2
  <1> QED BY <1>4, <1>6, <1>7 DEF RInv

\* What a sample is to the last one.
LEMMA ParseTakes ==
  ASSUME CInv, Parse, NEW n \in Names
  PROVE  /\ col.sample[n] = None => last'[n] = last[n]
         /\ col.sample[n] # None =>
              /\ last'[n] # None /\ last'[n].month = month /\ last'[n].at = col.sample[n].at
              /\ last'[n].epoch = col.sample[n].epoch /\ last'[n].hidden = Hidden(n)
              /\ last[n] # None =>
                   /\ last[n].epoch <= last'[n].epoch
                   /\ last[n].epoch = last'[n].epoch =>
                        \A d \in Dirs : last[n].at[d] <= last'[n].at[d]
  <1>1. col.pc = "parse" /\ n \in Names
    BY DEF Parse
  <1>2. CASE col.sample[n] = None
    BY <1>2 DEF Parse
  <1>3. CASE col.sample[n] # None
    <2>1. last'[n] = [month |-> month, at |-> col.sample[n].at,
                      epoch |-> col.sample[n].epoch, hidden |-> Hidden(n)]
      BY <1>3 DEF Parse
    <2>2. last[n] # None => /\ last[n].epoch <= col.sample[n].epoch
                            /\ last[n].epoch = col.sample[n].epoch =>
                                 \A d \in Dirs : last[n].at[d] <= col.sample[n].at[d]
      BY <1>1, <1>3 DEF CInv, SamplesGrow
    <2> QED BY <1>3, <2>1, <2>2, ParseAdds
  <1> QED BY <1>2, <1>3

\* What was stored is not ahead of a newer sample either.
LEMMA ParseNotLater ==
  ASSUME CInv, CInv', Parse, NEW n \in Names, NEW at \in Bytes, NEW e \in Nat, NotLater(at, e, n)
  PROVE  /\ last'[n] # None /\ e <= last'[n].epoch
         /\ e = last'[n].epoch =>
              e = last[n].epoch /\ \A d \in Dirs : at[d] <= last'[n].at[d]
  <1>1. CASE col.sample[n] = None
    BY <1>1, ParseTakes DEF NotLater
  <1>2. CASE col.sample[n] # None
    <2>1. last[n] # None /\ e <= last[n].epoch
      BY DEF NotLater
    <2>2. /\ last'[n] # None
          /\ last[n].epoch <= last'[n].epoch
          /\ last[n].epoch = last'[n].epoch => \A d \in Dirs : last[n].at[d] <= last'[n].at[d]
      BY <1>2, <2>1, ParseTakes
    <2>3. /\ last[n].epoch \in Nat /\ last'[n].epoch \in Nat
          /\ \A d \in Dirs : at[d] \in Nat /\ last[n].at[d] \in Nat /\ last'[n].at[d] \in Nat
      BY <2>1, <2>2 DEF CInv, TypeOK, Bytes
    <2>4. e <= last'[n].epoch /\ (e = last'[n].epoch => e = last[n].epoch)
      BY <2>1, <2>2, <2>3
    <2>5. ASSUME e = last'[n].epoch, NEW d \in Dirs PROVE at[d] <= last'[n].at[d]
      <3>1. at[d] <= last[n].at[d] /\ last[n].at[d] <= last'[n].at[d]
        BY <2>2, <2>4, <2>5 DEF NotLater
      <3> QED BY <2>3, <3>1
    <2> QED BY <2>2, <2>4, <2>5 DEF NotLater
  <1> QED BY <1>1, <1>2

LEMMA ParseResets ==
  ASSUME CInv, CInv', RInv, Parse
  PROVE  RInv'
  <1> DEFINE sampled == {n \in Names : col.sample[n] # None}
  <1>1. /\ col.pc = "parse"
        /\ \/ sampled = {} /\ col' = Waiting
           \/ \E q \in sampled : col' = [col EXCEPT !.pc = "base.get", !.m = month,
                                                    !.p = q, !.todo = sampled \ {q}]
        /\ UNCHANGED <<base, snap, torn, slack>>
    BY DEF Parse, ledger
  <1>2. Handed' /\ Reading'
    <2>1. CASE col' = Waiting
      BY <2>1, WaitingFits, NothingInHand
    <2>2. CASE col' # Waiting
      <3>1. PICK q \in sampled : col' = [col EXCEPT !.pc = "base.get", !.m = month,
                                                    !.p = q, !.todo = sampled \ {q}]
        BY <1>1, <2>2
      <3>2. /\ col'.pc = "base.get" /\ col'.sample = col.sample /\ col'.m = month
            /\ col'.todo \cup {col'.p} \subseteq sampled
        BY <3>1 DEF CInv, TypeOK, Locals
      <3> QED BY <3>2, ParseTakes DEF Handed, Reading
    <2> QED BY <2>1, <2>2
  <1>3. \A n \in Names : snap[n] # None => snap[n].at \in Bytes /\ snap[n].epoch \in Nat
    BY DEF CInv, TypeOK, Sample
  <1>4. \A n \in Names, m \in Months :
          base[n][m] # None => base[n][m].at \in Bytes /\ base[n][m].epoch \in Nat
    BY DEF CInv, TypeOK, Baseline
  <1>5. RowsBehind'
    <2>1. \A n \in Names : snap[n] # None =>
            /\ last'[n] # None /\ snap[n].epoch <= last'[n].epoch
            /\ snap[n].epoch = last'[n].epoch => \A d \in Dirs : snap[n].at[d] <= last'[n].at[d]
      BY <1>3, ParseNotLater DEF RInv, RowsBehind
    <2>2. \A n \in Names, m \in Months : base[n][m] # None =>
            /\ last'[n] # None /\ base[n][m].epoch <= last'[n].epoch
            /\ base[n][m].epoch = last'[n].epoch =>
                 \A d \in Dirs : base[n][m].at[d] <= last'[n].at[d]
      BY <1>4, ParseNotLater DEF RInv, RowsBehind
    <2> QED BY <1>1, <2>1, <2>2 DEF RowsBehind, NotLater
  <1>6. Once'
    <2> SUFFICES ASSUME NEW n \in Names \ torn, NEW m \in Months, base[n][m] # None,
                        base[n][m].epoch = last'[n].epoch, slack[n][m] = Zero,
                        snap[n] # None, NEW d \in Dirs
                 PROVE  snap[n].at[d] <= last'[n].at[d]
      BY <1>1 DEF Once
    <2>1. NotLater(base[n][m].at, base[n][m].epoch, n)
      BY DEF RInv, RowsBehind
    <2>2. base[n][m].epoch = last[n].epoch
      BY <1>4, <2>1, ParseNotLater
    <2>3. snap[n].at[d] <= last[n].at[d]
      BY <1>1, <2>2 DEF RInv, Once, Between
    <2>4. last[n] # None /\ last[n].epoch = last'[n].epoch
      BY <2>1, <2>2 DEF NotLater
    <2>5. last[n].at[d] <= last'[n].at[d] /\ last'[n] # None
      <3>1. CASE col.sample[n] = None
        <4>1. last[n].at[d] \in Nat
          BY <2>4 DEF CInv, TypeOK, Bytes
        <4> QED BY <2>4, <3>1, <4>1, ParseTakes
      <3>2. CASE col.sample[n] # None
        BY <2>4, <3>2, ParseTakes
      <3> QED BY <3>1, <3>2
    <2>6. snap[n].at[d] \in Nat /\ last[n].at[d] \in Nat /\ last'[n].at[d] \in Nat
      BY <1>3, <2>4, <2>5 DEF CInv, TypeOK, Bytes
    <2> QED BY <2>3, <2>5, <2>6
  <1> QED BY <1>2, <1>5, <1>6 DEF RInv

LEMMA CutOffGrows ==
  ASSUME CInv, CutOff
  PROVE  /\ \A n \in Names, m \in Months, d \in Dirs : slack[n][m][d] <= slack'[n][m][d]
         /\ torn \subseteq torn' /\ \A n \in Names : Between(n) => n \in torn'
  <1>1. \A n \in Names, m \in Months, d \in Dirs : slack[n][m][d] <= slack'[n][m][d]
    <2>1. CASE col.pc \in {"idle", "parse"}
      BY <2>1, SlackSame DEF CutOff
    <2>2. CASE col.pc \notin {"idle", "parse"}
      BY <2>2, OweGrows DEF CutOff
    <2> QED BY <2>1, <2>2
  <1>2. torn \subseteq torn' /\ \A n \in Names : Between(n) => n \in torn'
    BY DEF CutOff, Between
  <1> QED BY <1>1, <1>2

LEMMA CallFailsResets ==
  ASSUME CInv, CInv', RInv, CallFails
  PROVE  RInv'
  <1>1. col.pc \in Calls /\ UNCHANGED <<base, snap, last>>
    BY DEF CallFails, ledger
  <1>2. CASE col.pc = "parse"
    <2>1. col' = Waiting /\ CutOff
      BY <1>2 DEF CallFails
    <2> QED BY <1>1, <2>1, CutOffGrows, RowsStay, WaitingFits, NothingInHand DEF RInv
  <1>3. CASE col.pc = "has.get"
    <2>1. /\ col' = [col EXCEPT !.pc = "base.set", !.b = BaselineFrom(Zero)]
          /\ Owe /\ UNCHANGED torn
      BY <1>3 DEF CallFails
    <2>2. Handed' /\ Reading' /\ \A n \in Names : ~Between(n)
      BY <1>1, <1>3, <2>1, NewRowResets DEF Between
    <2>3. \A n \in Names, m \in Months, d \in Dirs : slack[n][m][d] <= slack'[n][m][d]
      BY <1>3, <2>1, OweGrows
    <2> QED BY <1>1, <2>1, <2>2, <2>3, RowsStay DEF RInv
  <1>4. CASE col.pc \notin {"parse", "has.get"}
    <2>1. Continue(col.todo) /\ CutOff
      BY <1>4 DEF CallFails
    <2>2. col.pc \notin {"idle", "parse"}
      BY <1>1, <1>4 DEF Calls
    <2>3. Handed' /\ Reading'
      BY <1>1, <2>1, <2>2, ContinueResets
    <2> QED BY <1>1, <2>1, <2>3, CutOffGrows, RowsStay DEF RInv
  <1> QED BY <1>2, <1>3, <1>4

LEMMA CrashResets ==
  ASSUME CInv, CInv', RInv, Crash
  PROVE  RInv'
  <1>1. col' = Waiting /\ CutOff /\ UNCHANGED <<base, snap, last>>
    BY DEF Crash, ledger
  <1> QED BY <1>1, CutOffGrows, RowsStay, WaitingFits, NothingInHand DEF RInv

\* One step per action.
LEMMA ResetsNext ==
  ASSUME CInv, RInv, [Next]_vars
  PROVE  RInv'
  <1>1. CInv'
    BY StepFits
  <1>2. CASE Collect
    BY <1>1, <1>2, StatsResets, ParseResets, BaseGetResets, HasGetResets, BaseSetResets,
       SnapGetResets, TotalGetResets, ReanchorResets, TotalSetResets, SnapSaveResets,
       CallFailsResets DEF Collect
  <1>3. CASE ClearBaselines
    <2>1. UNCHANGED <<snap, col, last, torn, slack>>
          /\ base' = [n \in Names |-> [base[n] EXCEPT ![clear] = None]]
      BY <1>3 DEF ClearBaselines, ghosts
    <2>2. \A n \in Names, m \in Months : base'[n][m] \in {None, base[n][m]}
      BY <2>1 DEF CInv, TypeOK
    <2> QED BY <1>1, <2>1, <2>2, ClearResets
  <1>4. CASE \/ ClearTotals \/ ClearCutOff
             \/ \E n \in Names : Transfer(n) \/ Leave(n) \/ Join(n)
             \/ Bounce \/ Midnight \/ UNCHANGED vars
    <2>1. UNCHANGED <<base, snap, col, last, torn, slack>>
      BY <1>4 DEF ClearTotals, ClearCutOff, Transfer, Leave, Join, Bounce, Midnight, ledger,
                  ghosts, vars
    <2> QED BY <1>1, <2>1, WorldResets
  <1>5. CASE Crash
    BY <1>1, <1>5, CrashResets
  <1> QED BY <1>2, <1>3, <1>4, <1>5 DEF Next

LEMMA ResetsInit == Init => RInv
  <1> SUFFICES ASSUME Init PROVE RInv
    OBVIOUS
  <1>1. col.pc = "idle"
    BY WaitingFits DEF Init
  <1>2. RowsBehind /\ Once
    BY DEF Init, RowsBehind, Once
  <1> QED BY <1>1, <1>2 DEF RInv, Handed, Reading

\* Where the baseline is of the same life of the counters as the sample, nothing
\* shows a reset.
LEMMA ResetIsNew ==
  ASSUME CInv, RInv, Reanchor, col.p \notin torn, slack[col.p][col.m] = Zero,
         base[col.p][col.m] # None
  PROVE  base[col.p][col.m].epoch # col.sample[col.p].epoch
  <1> DEFINE b == base[col.p][col.m]
  <1> SUFFICES ASSUME b.epoch = col.sample[col.p].epoch PROVE FALSE
    OBVIOUS
  <1>1. col.pc = "reanchor" /\ col.p \in Names /\ col.m \in Months
    BY InHand DEF Reanchor
  <1>2. /\ last[col.p].at = Now /\ last[col.p].epoch = b.epoch
        /\ b = col.b /\ col.prev = Prev(col.p) /\ Result.reanchor
    BY <1>1 DEF RInv, Handed, Reading, Now
  <1>3. CountersDropped(b, col.prev, Now)
    BY <1>2 DEF Result, MonthTraffic
  <1>4. \A d \in Dirs : b.at[d] <= Now[d]
    BY <1>1, <1>2 DEF RInv, RowsBehind, NotLater
  <1>5. snap[col.p] # None => \A d \in Dirs : snap[col.p].at[d] <= Now[d]
    BY <1>1, <1>2 DEF RInv, Once, Between
  <1>6. \A d \in Dirs : /\ b.at[d] \in Nat /\ Now[d] \in Nat
                        /\ snap[col.p] # None => snap[col.p].at[d] \in Nat
    BY <1>1, InHand DEF CInv, TypeOK, Baseline, Sample, Bytes
  <1> QED BY <1>2, <1>3, <1>4, <1>5, <1>6 DEF CountersDropped, Prev

\* collect re-anchors a baseline, and so adds what the last snapshot showed, only
\* when the counters have started again since the baseline was written: for any
\* traffic, failures, crashes and clearings a reset is counted once, unless the
\* collection of the client was cut off or its month slipped.
THEOREM ResetsAreCountedOnce == Spec => ResetsCountedOnce
  <1>1. Init => CInv /\ RInv
    BY InitFits, ResetsInit
  <1>2. CInv /\ RInv /\ [Next]_vars => (CInv /\ RInv)'
    BY StepFits, ResetsNext
  <1>3. CInv /\ RInv =>
          [Reanchor /\ col.p \notin torn /\ slack[col.p][col.m] = Zero =>
             base[col.p][col.m] = None
             \/ base[col.p][col.m].epoch # col.sample[col.p].epoch]_vars
    BY ResetIsNew
  <1> QED BY <1>1, <1>2, <1>3, PTL DEF Spec, ResetsCountedOnce

-----------------------------------------------------------------------------
(* The total is exact.                                                       *)

\* Nothing is behind that would let the total differ from what the samples show.
Clean(n) == last[n] # None /\ ~last[n].hidden /\ \A m \in Months : slack[n][m] = Zero

\* The snapshot is of the same life of the counters as the last sample.
Caught(n) == snap[n] = None \/ snap[n].epoch = last[n].epoch

\* x bytes are no less than what the samples of the month show.
Shows(x, n, m) == \A d \in Dirs : ideal[n][m][d] <= x[d]

\* A reset that the snapshot does not know of yet can be seen from it.
Detected ==
  \A n \in Names : Clean(n) /\ ~Caught(n) => \E d \in Dirs : last[n].at[d] < snap[n].at[d]

\* One that it knows of the baseline knows of too.
Anchored ==
  \A n \in Names : Clean(n) /\ Caught(n) /\ base[n][last[n].month] # None =>
    base[n][last[n].month].epoch = last[n].epoch

DueEnough ==
  \A n \in Names : Clean(n) /\ base[n][last[n].month] # None /\ ~Slipping(n) =>
    Shows(Due(n), n, last[n].month)

\* The result in hand is enough; it re-anchors only for a reset the snapshot does
\* not know of, and then the baseline is of the sample's life.
ResultEnough ==
  col.pc \in {"reanchor", "total.set", "snap.save"} /\ Clean(col.p) =>
    Shows(Result.total, col.p, col.m) /\ (Caught(col.p) => ~Result.reanchor)

Reanchored ==
  col.pc \in {"total.set", "snap.save"} /\ Result.reanchor =>
    base[col.p][col.m].epoch = col.sample[col.p].epoch

\* The first sample of a month shows nothing, or all there is for a newcomer.
FirstEnough ==
  col.pc \notin {"idle", "parse"} =>
    \A n \in col.todo \cup {col.p} : Clean(n) /\ base[n][col.m] = None =>
      Shows(IF Known(n) THEN Zero ELSE last[n].at, n, col.m)

FromZero == col.pc = "base.set" /\ ~Known(col.p) => col.b.at = Zero

\* Nothing was seen before the first sample, of a month and of a client.
Unseen ==
  \A n \in Names : /\ last[n] = None => ~Known(n)
                   /\ \A m \in Months : last[n] = None \/ m > last[n].month => ideal[n][m] = Zero

InHandEnough == ResultEnough /\ Reanchored /\ FirstEnough /\ FromZero

EInv == Detected /\ Anchored /\ DueEnough /\ Unseen /\ InHandEnough

\* After a reset the offset has at least what the snapshot had counted.
LEMMA OffsetLow ==
  ASSUME NEW b \in Baseline, NEW prev \in Bytes, prev # None, NEW stored \in Bytes \cup {None},
         NEW d \in Dirs, b.at[d] <= prev[d]
  PROVE  b.off[d] + (prev[d] - b.at[d]) <= OffsetAfterReset(b, prev, stored, d)
  <1>1. /\ b.at[d] \in Nat /\ b.off[d] \in Nat /\ prev[d] \in Nat
        /\ (stored # None => stored[d] \in Nat)
    BY DEF Baseline, Bytes
  <1>2. SegmentBeforeReset(b.at, prev, d) = prev[d] - b.at[d]
    BY <1>1 DEF SegmentBeforeReset, Delta
  <1> QED BY <1>1, <1>2 DEF OffsetAfterReset

LEMMA CleanBefore ==
  ASSUME CInv, CInv', last' = last, NEW n \in Names, Clean(n)',
         \A m \in Months, d \in Dirs : slack[n][m][d] <= slack'[n][m][d]
  PROVE  Clean(n)
  BY ZeroBefore DEF Clean

\* Tables and samples stay, slack may grow.
LEMMA TablesStayExact ==
  ASSUME CInv, CInv', EInv, UNCHANGED <<base, total, snap, last, ideal>>,
         \A n \in Names, m \in Months, d \in Dirs : slack[n][m][d] <= slack'[n][m][d],
         \A n \in Names : Slipping(n) /\ Clean(n)' => Slipping(n)'
  PROVE  Detected' /\ Anchored' /\ DueEnough' /\ Unseen'
  <1>1. \A n \in Names : Clean(n)' => Clean(n)
    BY CleanBefore
  <1>2. \A n \in Names : (Known(n)' <=> Known(n)) /\ (Caught(n)' <=> Caught(n))
    BY DEF Known, Caught
  <1>3. Detected' /\ Anchored'
    BY <1>1, <1>2 DEF EInv, Detected, Anchored
  <1>4. Unseen'
    BY <1>2 DEF EInv, Unseen
  <1>5. ASSUME NEW n \in Names, Clean(n)', base[n][last[n].month] # None, ~Slipping(n)'
        PROVE  Shows(Due(n), n, last[n].month)'
    <2>1. Shows(Due(n), n, last[n].month)
      BY <1>1, <1>5 DEF EInv, DueEnough
    <2>2. Due(n)' = Due(n)
      BY DEF Due, Prev
    <2> QED BY <2>1, <2>2 DEF Shows
  <1>6. DueEnough'
    BY <1>5 DEF DueEnough
  <1> QED BY <1>3, <1>4, <1>6

LEMMA WorldExact ==
  ASSUME CInv, CInv', EInv, UNCHANGED <<ledger, col, last, ideal, slack>>
  PROVE  EInv'
  <1>1. UNCHANGED <<base, total, snap>>
    BY DEF ledger
  <1>2. \A n \in Names : Slipping(n) => Slipping(n)'
    BY DEF Slipping, Result, Now
  <1>3. Detected' /\ Anchored' /\ DueEnough' /\ Unseen'
    BY <1>1, <1>2, SlackSame, TablesStayExact
  <1>4. \A n \in Names : /\ Clean(n)' <=> Clean(n)
                         /\ Known(n)' <=> Known(n)
                         /\ Caught(n)' <=> Caught(n)
    BY <1>1 DEF Clean, Known, Caught
  <1>5. col.pc \notin {"idle", "parse"} => col.p \in Names /\ col.todo \subseteq Names
    BY InHand DEF Locals
  <1>6. InHandEnough'
    BY <1>1, <1>4, <1>5 DEF EInv, InHandEnough, ResultEnough, Reanchored, FirstEnough, FromZero,
                       Shows, Result, Now
  <1> QED BY <1>3, <1>6 DEF EInv

\* The calls that read.
LEMMA ReadExact ==
  ASSUME CInv, CInv', EInv, Read, col.pc \notin {"total.set", "snap.save"}, InHandEnough'
  PROVE  EInv'
  <1>1. UNCHANGED <<base, total, snap, last, ideal, slack>>
    BY DEF Read, ledger, ghosts
  <1>2. Detected' /\ Anchored' /\ DueEnough' /\ Unseen'
    BY <1>1, SlackSame, TablesStayExact DEF Slipping
  <1> QED BY <1>2 DEF EInv

LEMMA NoneInHand == col'.pc \in {"idle", "parse"} => InHandEnough'
  BY DEF InHandEnough, ResultEnough, Reanchored, FirstEnough, FromZero

\* The same clients are in hand, before the first write for them.
LEMMA SameInHand ==
  ASSUME CInv, EInv, col.pc \notin {"idle", "parse"},
         UNCHANGED <<base, total, snap, last, ideal, slack>>,
         col'.pc \in {"base.get", "has.get", "snap.get", "total.get"},
         col'.m = col.m, col'.sample = col.sample,
         col'.todo \cup {col'.p} \subseteq col.todo \cup {col.p}
  PROVE  InHandEnough'
  <1>1. \A n \in Names : (Clean(n)' <=> Clean(n)) /\ (Known(n)' <=> Known(n))
    BY DEF Clean, Known
  <1>2. col.todo \cup {col.p} \subseteq Names
    BY InHand DEF Locals
  <1>3. FirstEnough'
    BY <1>1, <1>2 DEF EInv, InHandEnough, FirstEnough, Shows
  <1> QED BY <1>3 DEF InHandEnough, ResultEnough, Reanchored, FromZero

LEMMA StatsExact ==
  ASSUME CInv, CInv', EInv, Stats
  PROVE  EInv'
  <1>1. col'.pc = "parse" /\ col.pc = "idle" /\ Read
    BY DEF Stats, Read, CInv, TypeOK, Locals
  <1> QED BY <1>1, NoneInHand, ReadExact

LEMMA BaseGetExact ==
  ASSUME CInv, CInv', EInv, BaseGet
  PROVE  EInv'
  <1>1. col.pc = "base.get" /\ Read /\ UNCHANGED <<base, total, snap, last, ideal, slack>>
    BY DEF BaseGet, Read, ghosts, ledger
  <1> DEFINE b == base[col.p][col.m]
             pc == IF b = None THEN "has.get" ELSE "snap.get"
  <1>2. col' = [col EXCEPT !.pc = pc, !.b = b] /\ pc \in {"has.get", "snap.get"}
    BY DEF BaseGet
  <1> HIDE DEF pc, b
  <1>3. /\ col'.pc = pc /\ col'.p = col.p /\ col'.todo = col.todo /\ col'.sample = col.sample
        /\ col'.m = col.m
    BY <1>1, <1>2, InHand DEF Locals
  <1> QED BY <1>1, <1>2, <1>3, SameInHand, ReadExact

LEMMA SnapGetExact ==
  ASSUME CInv, CInv', EInv, SnapGet
  PROVE  EInv'
  <1>1. col.pc = "snap.get" /\ Read /\ UNCHANGED <<base, total, snap, last, ideal, slack>>
    BY DEF SnapGet, Read, ghosts, ledger
  <1>2. col' = [col EXCEPT !.pc = "total.get", !.prev = Prev(col.p)]
    BY DEF SnapGet, Prev
  <1>3. /\ col'.pc = "total.get" /\ col'.p = col.p /\ col'.todo = col.todo
        /\ col'.sample = col.sample /\ col'.m = col.m
    BY <1>1, <1>2, InHand DEF Locals
  <1> QED BY <1>1, <1>3, SameInHand, ReadExact

\* A client the tables know nothing of starts the month from zero.
LEMMA NewRowExact ==
  ASSUME CInv, CInv', EInv, col.pc = "has.get", UNCHANGED <<base, total, snap, last, ideal>>,
         \A n \in Names, m \in Months, d \in Dirs : slack[n][m][d] <= slack'[n][m][d],
         NEW at, ~Known(col.p) => at = Zero,
         col' = [col EXCEPT !.pc = "base.set", !.b = BaselineFrom(at)]
  PROVE  InHandEnough'
  <1> DEFINE b == BaselineFrom(at)
  <1>1. b.at = at
    BY DEF BaselineFrom
  <1> HIDE DEF b
  <1>2. /\ col'.pc = "base.set" /\ col'.p = col.p /\ col'.todo = col.todo /\ col'.b = b
        /\ col'.sample = col.sample /\ col'.m = col.m
    BY InHand DEF Locals, b
  <1>3. \A n \in Names : (Clean(n)' => Clean(n)) /\ (Known(n)' <=> Known(n))
    BY CleanBefore DEF Known
  <1>4. col.todo \cup {col.p} \subseteq Names
    BY InHand DEF Locals
  <1>5. FirstEnough'
    BY <1>2, <1>3, <1>4 DEF EInv, InHandEnough, FirstEnough, Shows
  <1>6. FromZero'
    BY <1>1, <1>2, <1>3, <1>4 DEF FromZero
  <1> QED BY <1>2, <1>5, <1>6 DEF InHandEnough, ResultEnough, Reanchored

LEMMA HasGetExact ==
  ASSUME CInv, CInv', EInv, HasGet
  PROVE  EInv'
  <1>1. col.pc = "has.get" /\ Read /\ UNCHANGED <<base, total, snap, last, ideal, slack>>
    BY DEF HasGet, Read, ghosts, ledger
  <1> DEFINE hadPrev == col.m - 1 \in Months /\ total[col.p][col.m - 1] # None
             at == IF hadPrev THEN Now ELSE Zero
  <1>2. col' = [col EXCEPT !.pc = "base.set", !.b = BaselineFrom(at)]
    BY DEF HasGet
  <1>3. ~Known(col.p) => at = Zero
    BY DEF Known
  <1> HIDE DEF at
  <1>4. \A n \in Names, m \in Months, d \in Dirs : slack[n][m][d] <= slack'[n][m][d]
    BY <1>1, SlackSame
  <1> QED BY <1>1, <1>2, <1>3, <1>4, NewRowExact, ReadExact

\* Where snapshot and baseline are of the life of the last sample, it shows no reset.
LEMMA NoDrop ==
  ASSUME CInv, RInv, EInv, NEW n \in Names, Clean(n), Caught(n),
         base[n][last[n].month] # None
  PROVE  /\ \A d \in Dirs : base[n][last[n].month].at[d] <= last[n].at[d]
         /\ snap[n] # None => \A d \in Dirs : snap[n].at[d] <= last[n].at[d]
         /\ ~CountersDropped(base[n][last[n].month], Prev(n), last[n].at)
  <1> DEFINE b == base[n][last[n].month]
  <1>1. last[n].month \in Months /\ last[n].at \in Bytes
    BY DEF Clean, CInv, TypeOK
  <1>2. b.epoch = last[n].epoch
    BY DEF EInv, Anchored
  <1>3. \A d \in Dirs : b.at[d] <= last[n].at[d]
    BY <1>1, <1>2 DEF RInv, RowsBehind, NotLater
  <1>4. snap[n] # None => \A d \in Dirs : snap[n].at[d] <= last[n].at[d]
    BY DEF RInv, RowsBehind, NotLater, Caught
  <1>5. \A d \in Dirs : /\ b.at[d] \in Nat /\ last[n].at[d] \in Nat
                        /\ snap[n] # None => snap[n].at[d] \in Nat
    BY <1>1 DEF CInv, TypeOK, Baseline, Sample, Bytes
  <1>6. ~CountersDropped(b, Prev(n), last[n].at)
    BY <1>3, <1>4, <1>5 DEF CountersDropped, Prev
  <1> QED BY <1>3, <1>4, <1>6

\* What was read is what the tables hold, so the result is what is due.
LEMMA TotalGetExact ==
  ASSUME CInv, CInv', LInv, OInv, RInv, EInv, TotalGet
  PROVE  EInv'
  <1>1. col.pc = "total.get" /\ Read /\ UNCHANGED <<base, total, snap, last, ideal, slack>>
    BY DEF TotalGet, Read, ghosts, ledger
  <1> DEFINE v == total[col.p][col.m]
             res == MonthTraffic(col.b, col.prev, v, Now)
             pc == IF res.reanchor THEN "reanchor" ELSE "total.set"
  <1>2. col' = [col EXCEPT !.pc = pc, !.stored = v]
    BY DEF TotalGet
  <1>3. pc \in {"reanchor", "total.set"} /\ (pc = "total.set" => ~res.reanchor)
    OBVIOUS
  <1> HIDE DEF pc
  <1>4. /\ col'.p = col.p /\ col'.m = col.m /\ col'.todo = col.todo /\ col'.sample = col.sample
        /\ col'.pc = pc /\ col'.b = col.b /\ col'.prev = col.prev /\ col'.stored = v
    BY <1>1, <1>2, InHand DEF Locals
  <1>5. Result' = res
    BY <1>4 DEF Result, Now
  <1>6. /\ col.p \in Names /\ last[col.p] # None /\ last[col.p].month = col.m
        /\ last[col.p].at = Now
    BY <1>1, InHand DEF LInv, Sampled, OInv, Faithful, Now
  <1>7. /\ base[col.p][col.m] = col.b /\ col.b # None /\ col.prev = Prev(col.p)
    BY <1>1, NoneAssumption DEF LInv, Hand, ReadBase, ReadSnap, Prev, CInv, ControlOf
  <1>8. Due(col.p) = res.total /\ ~Slipping(col.p)
    BY <1>1, <1>6, <1>7 DEF Due, Slipping
  <1>9. \A n \in Names : /\ (Clean(n)' <=> Clean(n)) /\ (Known(n)' <=> Known(n))
                         /\ (Caught(n)' <=> Caught(n))
    BY <1>1 DEF Clean, Known, Caught
  <1>10. Clean(col.p) => Shows(res.total, col.p, col.m)
    BY <1>6, <1>7, <1>8 DEF EInv, DueEnough
  <1>11. Clean(col.p) /\ Caught(col.p) => ~res.reanchor
    <2>1. Clean(col.p) /\ Caught(col.p) => ~CountersDropped(col.b, col.prev, Now)
      BY <1>6, <1>7, NoDrop
    <2> QED BY <2>1 DEF MonthTraffic
  <1>12. ResultEnough'
    BY <1>1, <1>4, <1>5, <1>6, <1>9, <1>10, <1>11 DEF ResultEnough, Shows
  <1>13. FirstEnough'
    <2>1. col.todo \cup {col.p} \subseteq Names
      BY <1>1, InHand DEF Locals
    <2> QED BY <1>1, <1>4, <1>9, <2>1 DEF EInv, InHandEnough, FirstEnough, Shows
  <1>14. Reanchored' /\ FromZero'
    BY <1>3, <1>4, <1>5 DEF Reanchored, FromZero
  <1> QED BY <1>1, <1>12, <1>13, <1>14, ReadExact DEF InHandEnough

\* The other clients are not concerned by what is written for the one in hand.
LEMMA OthersEnough ==
  ASSUME CInv, EInv, NEW n \in Names, n # col.p, Clean(n), base[n][last[n].month] # None,
         base'[n] = base[n], total'[n] = total[n], snap'[n] = snap[n], UNCHANGED <<last, ideal>>
  PROVE  Shows(Due(n), n, last[n].month)'
  <1>1. Shows(Due(n), n, last[n].month)
    BY DEF EInv, DueEnough, Slipping
  <1>2. Due(n)' = Due(n)
    BY DEF Due, Prev
  <1> QED BY <1>1, <1>2 DEF Shows

LEMMA BaseSetExact ==
  ASSUME CInv, CInv', LInv, OInv, RInv, EInv, BaseSet
  PROVE  EInv'
  <1>1. /\ col.pc = "base.set" /\ col' = [col EXCEPT !.pc = "snap.get"]
        /\ base' = [base EXCEPT ![col.p][col.m] = col.b]
        /\ IF BaselineSlips THEN Owe ELSE UNCHANGED slack
        /\ UNCHANGED <<total, snap, last, ideal>>
    BY DEF BaseSet, world
  <1>2. /\ col.p \in Names /\ col.m \in Months /\ col.b \in Baseline /\ Now \in Bytes
        /\ col.todo \subseteq Names
    BY <1>1, InHand DEF CInv, ControlOf, Locals
  <1>3. /\ base'[col.p][col.m] = col.b
        /\ \A n \in Names, m \in Months : n # col.p \/ m # col.m => base'[n][m] = base[n][m]
        /\ \A n \in Names : n # col.p => base'[n] = base[n]
    BY <1>1, <1>2 DEF CInv, TypeOK
  <1>4. /\ col'.p = col.p /\ col'.todo = col.todo /\ col'.pc = "snap.get"
        /\ col'.sample = col.sample /\ col'.m = col.m
    BY <1>1, InHand DEF Locals
  <1>5. last[col.p] # None /\ last[col.p].month = col.m /\ last[col.p].at = Now
    BY <1>1 DEF LInv, Sampled, OInv, Faithful, Now
  <1>6. total[col.p][col.m] = None /\ base[col.p][col.m] = None
    BY <1>1, <1>2 DEF LInv, Hand, NewRow, Ahead
  <1>7. \A n \in Names, m \in Months, d \in Dirs : slack[n][m][d] <= slack'[n][m][d]
    BY <1>1, OweGrows
  <1>8. \A n \in Names : /\ Clean(n)' => Clean(n)
                         /\ Known(n)' <=> Known(n)
                         /\ Caught(n)' <=> Caught(n)
    BY <1>1, <1>7, CleanBefore DEF Known, Caught
  <1>9. Detected' /\ Unseen'
    BY <1>1, <1>8 DEF EInv, Detected, Unseen
  <1>10. Anchored'
    <2> SUFFICES ASSUME NEW n \in Names, Clean(n), Caught(n), base'[n][last[n].month] # None
                 PROVE  base'[n][last[n].month].epoch = last[n].epoch
      BY <1>1, <1>8 DEF Anchored
    <2>1. CASE n = col.p
      BY <1>1, <1>3, <1>5, <2>1 DEF RInv, Reading, Handed
    <2>2. CASE n # col.p
      BY <1>3, <2>2 DEF EInv, Anchored
    <2> QED BY <2>1, <2>2
  <1>11. ASSUME Clean(col.p), NEW d \in Dirs
         PROVE  ideal[col.p][col.m][d] <= MonthTraffic(col.b, Prev(col.p), None, Now).total[d]
    <2> DEFINE t == MonthTraffic(col.b, Prev(col.p), None, Now).total
    <2>1. Shows(IF Known(col.p) THEN Zero ELSE Now, col.p, col.m)
      BY <1>1, <1>5, <1>6, <1>11 DEF EInv, InHandEnough, FirstEnough
    <2>2. Prev(col.p) \in Bytes \cup {None} /\ ideal[col.p][col.m][d] \in Nat
      BY <1>2, TablesTyped
    <2>3. t \in Bytes
      <3>1. \A x \in {None} : x \in Bytes \cup {None}
        OBVIOUS
      <3> QED BY <1>2, <2>2, <3>1, MonthTrafficTyped
    <2>4. CASE Known(col.p)
      <3>1. ideal[col.p][col.m][d] <= 0
        BY <2>1, <2>4, ZeroTyped DEF Shows
      <3> HIDE DEF t
      <3>2. ideal[col.p][col.m][d] <= t[d]
        BY <2>2, <2>3, <3>1 DEF Bytes
      <3> QED BY <3>2 DEF t
    <2>5. CASE ~Known(col.p)
      <3>1. ideal[col.p][col.m][d] <= Now[d]
        BY <2>1, <2>5 DEF Shows
      <3>2. col.b.at = Zero /\ col.b.off = Zero /\ Prev(col.p) = None
        BY <1>1, <2>5 DEF EInv, InHandEnough, FromZero, OInv, FirstBaseline, Known, Prev
      <3>3. ~CountersDropped(col.b, Prev(col.p), Now)
        BY <1>1, <3>2, InHand, ZeroTyped DEF CountersDropped
      <3>4. t[d] = Now[d]
        BY <1>2, <2>2, <3>2, <3>3, FirstTotal
      <3> QED BY <3>1, <3>4
    <2> QED BY <2>4, <2>5
  <1>12. DueEnough'
    <2> SUFFICES ASSUME NEW n \in Names, Clean(n), base'[n][last[n].month] # None
                 PROVE  Shows(Due(n), n, last[n].month)'
      BY <1>1, <1>8 DEF DueEnough, Shows, Due
    <2>1. CASE n = col.p
      <3>1. Due(n)' = MonthTraffic(col.b, Prev(col.p), None, Now).total
        BY <1>1, <1>3, <1>5, <1>6, <2>1 DEF Due, Prev
      <3> QED BY <1>1, <1>5, <1>11, <2>1, <3>1 DEF Shows
    <2>2. CASE n # col.p
      BY <1>1, <1>3, <2>2, OthersEnough
    <2> QED BY <2>1, <2>2
  <1>13. FirstEnough'
    <2>1. col.b # None
      BY <1>2, NoneAssumption
    <2> SUFFICES ASSUME NEW n \in col.todo \cup {col.p}, Clean(n), base'[n][col.m] = None
                 PROVE  Shows(IF Known(n) THEN Zero ELSE last[n].at, n, col.m)
      BY <1>1, <1>2, <1>4, <1>8 DEF FirstEnough, Shows
    <2>2. base[n][col.m] = None
      BY <1>2, <1>3, <2>1
    <2> QED BY <1>1, <2>2 DEF EInv, InHandEnough, FirstEnough
  <1> QED BY <1>4, <1>9, <1>10, <1>12, <1>13
      DEF EInv, InHandEnough, ResultEnough, Reanchored, FromZero

LEMMA ReanchorExact ==
  ASSUME CInv, CInv', LInv, OInv, RInv, EInv, Reanchor
  PROVE  EInv'
  <1> DEFINE b == [at |-> Result.at, off |-> Result.off, epoch |-> col.sample[col.p].epoch]
  <1>1. /\ col.pc = "reanchor" /\ col' = [col EXCEPT !.pc = "total.set"]
        /\ base' = [base EXCEPT ![col.p][col.m] = b]
        /\ UNCHANGED <<total, snap, last, ideal, slack>>
    BY DEF Reanchor, ghosts
  <1>0. b.epoch = col.sample[col.p].epoch
    OBVIOUS
  <1> HIDE DEF b
  <1>2. col.p \in Names /\ col.m \in Months /\ col.todo \subseteq Names
    BY <1>1, InHand DEF Locals
  <1>3. /\ base'[col.p][col.m] = b
        /\ \A n \in Names, m \in Months : n # col.p \/ m # col.m => base'[n][m] = base[n][m]
        /\ \A n \in Names : n # col.p => base'[n] = base[n]
    BY <1>1, <1>2 DEF CInv, TypeOK
  <1>4. /\ col'.p = col.p /\ col'.m = col.m /\ col'.todo = col.todo /\ col'.sample = col.sample
        /\ col'.pc = "total.set" /\ col'.b = col.b /\ col'.prev = col.prev
        /\ col'.stored = col.stored
    BY <1>1, InHand DEF Locals
  <1>5. Result' = Result /\ Result.reanchor
    BY <1>1, <1>4 DEF Result, Now, LInv, Hand, Written
  <1>6. /\ last[col.p] # None /\ last[col.p].month = col.m
        /\ last[col.p].epoch = col.sample[col.p].epoch
        /\ base[col.p][col.m] # None
    <2>1. base[col.p][col.m] = col.b /\ col.b \in Baseline
      BY <1>1 DEF LInv, Hand, ReadBase, CInv, ControlOf
    <2> QED BY <1>1, <2>1, NoneAssumption DEF RInv, Handed
  <1>7. Slipping(col.p)'
    BY <1>4, <1>5 DEF Slipping
  <1>8. \A n \in Names : /\ Clean(n)' <=> Clean(n)
                         /\ Known(n)' <=> Known(n)
                         /\ Caught(n)' <=> Caught(n)
    BY <1>1 DEF Clean, Known, Caught
  <1>9. Detected' /\ Unseen'
    BY <1>1, <1>8 DEF EInv, Detected, Unseen
  <1>10. Anchored'
    <2> SUFFICES ASSUME NEW n \in Names, Clean(n), Caught(n), base'[n][last[n].month] # None
                 PROVE  base'[n][last[n].month].epoch = last[n].epoch
      BY <1>1, <1>8 DEF Anchored
    <2>1. CASE n = col.p
      BY <1>0, <1>3, <1>6, <2>1
    <2>2. CASE n # col.p
      BY <1>3, <2>2 DEF EInv, Anchored
    <2> QED BY <2>1, <2>2
  <1>11. DueEnough'
    <2> SUFFICES ASSUME NEW n \in Names, Clean(n), base'[n][last[n].month] # None, n # col.p
                 PROVE  Shows(Due(n), n, last[n].month)'
      BY <1>1, <1>4, <1>7, <1>8 DEF DueEnough, Shows, Due
    <2> QED BY <1>1, <1>3, OthersEnough
  <1>12. ResultEnough' /\ Reanchored'
    BY <1>0, <1>1, <1>2, <1>3, <1>4, <1>5, <1>8
    DEF EInv, InHandEnough, ResultEnough, Reanchored, Shows
  <1>13. FirstEnough'
    <2> SUFFICES ASSUME NEW n \in col.todo, n # col.p, Clean(n), base'[n][col.m] = None
                 PROVE  Shows(IF Known(n) THEN Zero ELSE last[n].at, n, col.m)
      <3>1. b # None
        <4>1. base'[col.p][col.m] \in Baseline \cup {None} /\ b.epoch \in Nat
          BY <1>0, <1>1, <1>2, InHand DEF CInv, TypeOK, Sample
        <4>2. Result.at \in Bytes /\ Result.off \in Bytes
          BY <1>1, ResultTyped DEF CInv
        <4>3. b \in Baseline
          BY <4>1, <4>2, <1>0 DEF b, Baseline
        <4> QED BY <4>3, NoneAssumption
      <3> QED BY <1>1, <1>2, <1>3, <1>4, <1>8, <3>1 DEF FirstEnough, Shows
    <2> QED BY <1>1, <1>2, <1>3 DEF EInv, InHandEnough, FirstEnough
  <1> QED BY <1>4, <1>9, <1>10, <1>11, <1>12, <1>13 DEF EInv, InHandEnough, FromZero

\* The total is set to what is due; without a reset, the same is due again.
LEMMA TotalSetExact ==
  ASSUME CInv, CInv', LInv, OInv, EInv, TotalSet
  PROVE  EInv'
  <1>1. /\ col.pc = "total.set" /\ col' = [col EXCEPT !.pc = "snap.save"]
        /\ total' = [total EXCEPT ![col.p][col.m] = Result.total]
        /\ UNCHANGED <<base, snap, last, ideal, slack>>
    BY DEF TotalSet, ghosts
  <1>2. col.p \in Names /\ col.m \in Months /\ col.todo \subseteq Names
    BY <1>1, InHand DEF Locals
  <1>3. /\ total'[col.p][col.m] = Result.total
        /\ \A n \in Names : n # col.p => total'[n] = total[n]
    BY <1>1, <1>2 DEF CInv, TypeOK
  <1>4. /\ col'.p = col.p /\ col'.m = col.m /\ col'.todo = col.todo /\ col'.sample = col.sample
        /\ col'.pc = "snap.save" /\ col'.b = col.b /\ col'.prev = col.prev
        /\ col'.stored = col.stored
    BY <1>1, InHand DEF Locals
  <1>5. Result' = Result
    BY <1>4 DEF Result, Now
  <1>6. /\ last[col.p] # None /\ last[col.p].month = col.m /\ last[col.p].at = Now
        /\ base[col.p][col.m] # None
    BY <1>1 DEF LInv, Sampled, OInv, Faithful, Now, Hand, Written
  <1>7. \A n \in Names : /\ Clean(n)' <=> Clean(n)
                         /\ n # col.p => (Known(n)' <=> Known(n))
                         /\ Caught(n)' <=> Caught(n)
    BY <1>1, <1>3 DEF Clean, Known, Caught
  <1>8. Detected' /\ Anchored' /\ Unseen'
    BY <1>1, <1>6, <1>7 DEF EInv, Detected, Anchored, Unseen
  <1>9. ResultEnough' /\ Reanchored'
    BY <1>1, <1>2, <1>4, <1>5, <1>7 DEF EInv, InHandEnough, ResultEnough, Reanchored, Shows
  <1>10. FirstEnough'
    BY <1>1, <1>2, <1>4, <1>6, <1>7 DEF EInv, InHandEnough, FirstEnough, Shows
  <1>11. DueEnough'
    <2> SUFFICES ASSUME NEW n \in Names, Clean(n), base[n][last[n].month] # None, ~Slipping(n)'
                 PROVE  Shows(Due(n), n, last[n].month)'
      BY <1>1, <1>7 DEF DueEnough, Shows, Due
    <2>1. CASE n = col.p
      <3>1. ~Result.reanchor
        BY <1>4, <1>5, <2>1 DEF Slipping
      <3>2. base[col.p][col.m].at = col.b.at /\ base[col.p][col.m].off = col.b.off
        BY <1>1, <3>1, NotReanchored DEF LInv, Hand, Written, Result
      <3>3. col.prev = Prev(col.p)
        BY <1>1 DEF LInv, Hand, ReadSnap, Prev
      <3>4. MonthTraffic(base[col.p][col.m], col.prev, Result.total, Now).total = Result.total
        BY <3>1, <3>2, NoReset DEF Result
      <3>5. Due(n)' = Result.total
        BY <1>1, <1>3, <1>6, <2>1, <3>3, <3>4 DEF Due, Prev
      <3>6. Shows(Result.total, col.p, col.m)
        BY <1>1, <2>1 DEF EInv, InHandEnough, ResultEnough
      <3> QED BY <1>1, <1>6, <2>1, <3>5, <3>6 DEF Shows
    <2>2. CASE n # col.p
      BY <1>1, <1>3, <2>2, OthersEnough
    <2> QED BY <2>1, <2>2
  <1> QED BY <1>4, <1>8, <1>9, <1>10, <1>11 DEF EInv, InHandEnough, FromZero

\* The loop goes on: nothing is in hand, and what is still to come has not changed.
LEMMA ContinueExact ==
  ASSUME CInv, CInv', EInv, col.pc \notin {"idle", "parse"}, Continue(col.todo),
         UNCHANGED <<base, total, last, ideal>>,
         \A n \in Names : base[n][col.m] = None => snap'[n] = snap[n],
         \A n \in Names, m \in Months, d \in Dirs : slack[n][m][d] <= slack'[n][m][d]
  PROVE  InHandEnough'
  <1>1. CASE col' = Waiting
    BY <1>1, WaitingFits, NoneInHand
  <1>2. CASE col' # Waiting
    <2>1. PICK q \in col.todo :
            col' = [col EXCEPT !.pc = "base.get", !.p = q, !.todo = col.todo \ {q},
                               !.b = None, !.prev = None, !.stored = None]
      BY <1>2 DEF Continue
    <2>2. /\ col'.pc = "base.get" /\ col'.m = col.m
          /\ col'.todo \cup {col'.p} \subseteq col.todo
          /\ col.todo \subseteq Names
      BY <2>1, InHand DEF Locals
    <2>3. \A n \in Names : /\ Clean(n)' => Clean(n)
                           /\ base[n][col.m] = None => (Known(n)' <=> Known(n))
      BY CleanBefore DEF Known
    <2>4. FirstEnough'
      <3> SUFFICES ASSUME NEW n \in col.todo, Clean(n), base[n][col.m] = None
                   PROVE  Shows(IF Known(n) THEN Zero ELSE last[n].at, n, col.m)
        BY <2>2, <2>3 DEF FirstEnough, Shows
      <3> QED BY DEF EInv, InHandEnough, FirstEnough
    <2> QED BY <2>2, <2>4 DEF InHandEnough, ResultEnough, Reanchored, FromZero
  <1> QED BY <1>1, <1>2

\* The snapshot is there: it knows of the reset, and so does the baseline.
LEMMA SnapSaveExact ==
  ASSUME CInv, CInv', LInv, OInv, RInv, EInv, SnapSave
  PROVE  EInv'
  <1>1. /\ col.pc = "snap.save" /\ Continue(col.todo)
        /\ snap' = [snap EXCEPT ![col.p] = col.sample[col.p]]
        /\ UNCHANGED <<base, total, last, ideal, slack>>
    BY DEF SnapSave
  <1>2. /\ col.p \in Names /\ col.m \in Months /\ col.sample[col.p] \in Sample
        /\ col.sample[col.p] # None /\ Now \in Bytes
    BY <1>1, InHand DEF CInv, ControlOf
  <1>3. /\ snap'[col.p] = col.sample[col.p]
        /\ \A n \in Names : n # col.p => snap'[n] = snap[n]
    BY <1>1, <1>2 DEF CInv, TypeOK
  <1>4. /\ last[col.p] # None /\ last[col.p].month = col.m /\ last[col.p].at = Now
        /\ last[col.p].epoch = col.sample[col.p].epoch
        /\ base[col.p][col.m] # None
    BY <1>1 DEF RInv, Handed, Now, LInv, Hand, Written
  <1>5. \A n \in Names : /\ Clean(n)' <=> Clean(n)
                         /\ n # col.p => (Known(n)' <=> Known(n)) /\ (Caught(n)' <=> Caught(n))
    BY <1>1, <1>3 DEF Clean, Known, Caught
  <1>6. \A n \in Names : n = col.p => Caught(n)'
    BY <1>1, <1>3, <1>4 DEF Caught
  <1>7. Detected'
    <2> SUFFICES ASSUME NEW n \in Names, Clean(n), ~Caught(n)'
                 PROVE  \E d \in Dirs : last[n].at[d] < snap'[n].at[d]
      BY <1>1, <1>5 DEF Detected
    <2>1. n # col.p
      BY <1>6
    <2>2. ~Caught(n) /\ snap'[n] = snap[n]
      BY <1>3, <1>5, <2>1
    <2> QED BY <2>2 DEF EInv, Detected
  <1>8. Anchored'
    <2> SUFFICES ASSUME NEW n \in Names, Clean(n), Caught(n)', base[n][last[n].month] # None
                 PROVE  base[n][last[n].month].epoch = last[n].epoch
      BY <1>1, <1>5 DEF Anchored
    <2>1. CASE n # col.p \/ Caught(n)
      BY <1>5, <2>1 DEF EInv, Anchored
    <2>2. CASE n = col.p /\ ~Caught(n)
      <3>1. PICK d \in Dirs : Now[d] < snap[n].at[d]
        BY <1>4, <2>2 DEF EInv, Detected
      <3>2. col.prev = snap[n].at /\ snap[n].at # None
        BY <1>1, <2>2, NoneAssumption DEF RInv, Reading, Prev, Caught, CInv, TypeOK, Sample
      <3>3. CountersDropped(col.b, col.prev, Now)
        BY <3>1, <3>2 DEF CountersDropped
      <3>4. Result.reanchor
        BY <3>3 DEF Result, MonthTraffic
      <3> QED BY <1>1, <1>4, <2>2, <3>4 DEF EInv, InHandEnough, Reanchored
    <2> QED BY <2>1, <2>2
  <1>9. Unseen'
    <2>1. \A n \in Names : last[n] = None => ~Known(n)'
      BY <1>4, <1>5 DEF EInv, Unseen
    <2> QED BY <1>1, <2>1 DEF EInv, Unseen
  <1>10. \A n \in Names : ~Slipping(n)'
    BY <1>1, ContinueOver
  <1>11. DueEnough'
    <2> SUFFICES ASSUME NEW n \in Names, Clean(n), base[n][last[n].month] # None
                 PROVE  Shows(Due(n), n, last[n].month)'
      BY <1>1, <1>5 DEF DueEnough, Shows, Due
    <2>1. CASE n = col.p
      <3> DEFINE b == base[col.p][col.m]
                 t == total[col.p][col.m]
      <3>1. /\ t = Result.total /\ b.at = Result.at /\ b.off = Result.off
            /\ b \in Baseline /\ t \in Bytes \cup {None}
        BY <1>1, <1>2, TablesTyped DEF LInv, Hand, Written
      <3>2. /\ col.b \in Baseline /\ col.prev \in Bytes \cup {None}
            /\ col.stored \in Bytes \cup {None}
        BY <1>1 DEF CInv, ControlOf, TypeOK, Locals
      <3>3. \A d \in Dirs : Result.at[d] <= Now[d]
                            /\ Result.total[d] = Result.off[d] + (Now[d] - Result.at[d])
        BY <1>2, <3>2, TotalFromBaseline DEF Result
      <3> HIDE DEF b, t
      <3>4. \A d \in Dirs : MonthTraffic(b, Now, t, Now).total[d] = Result.total[d]
        BY <1>2, <3>1, <3>3, SampleStored
      <3>5. Prev(n)' = Now
        BY <1>2, <1>3, <2>1 DEF Prev, Now
      <3>6. Due(n)' = MonthTraffic(b, Now, t, Now).total
        BY <1>1, <1>4, <2>1, <3>5 DEF Due, b, t
      <3>7. Shows(Result.total, col.p, col.m)
        BY <1>1, <2>1 DEF EInv, InHandEnough, ResultEnough
      <3> QED BY <1>1, <1>4, <2>1, <3>4, <3>6, <3>7 DEF Shows
    <2>2. CASE n # col.p
      BY <1>1, <1>3, <2>2, OthersEnough
    <2> QED BY <2>1, <2>2
  <1>12. InHandEnough'
    <2>1. \A n \in Names : base[n][col.m] = None => snap'[n] = snap[n]
      BY <1>3, <1>4
    <2> QED BY <1>1, <2>1, SlackSame, ContinueExact
  <1> QED BY <1>7, <1>8, <1>9, <1>11, <1>12 DEF EInv

\* A sample that hides nothing is of the life of the last one, or the first after
\* it, and the snapshot shows the reset.
LEMMA Unhidden ==
  ASSUME CInv, RInv, Parse, NEW n \in Names, col.sample[n] # None, last[n] # None, Clean(n)'
  PROVE  /\ Clean(n) /\ (last[n].month = month => base[n][month] # None)
         /\ \/ /\ Caught(n) /\ Caught(n)' /\ last'[n].epoch = last[n].epoch
            \/ /\ snap[n] # None /\ ~Caught(n)'
               /\ snap[n].at = last[n].at /\ snap[n].epoch = last[n].epoch
               /\ last'[n].epoch # last[n].epoch
               /\ \E d \in Dirs : last'[n].at[d] < snap[n].at[d]
  <1> DEFINE e == col.sample[n].epoch
  <1>1. /\ last'[n] # None /\ last'[n].at = col.sample[n].at /\ last'[n].epoch = e
        /\ last'[n].hidden = Hidden(n) /\ last[n].epoch <= e
    BY ParseTakes
  <1>2. snap' = snap /\ slack' = slack
    BY DEF Parse, ledger
  <1>3. ~Hidden(n)
    BY <1>1 DEF Clean
  <1>4. Clean(n) /\ (last[n].month = month => base[n][month] # None)
    BY <1>2, <1>3 DEF Clean, Hidden
  <1>5. e \in Nat /\ last[n].epoch \in Nat
    BY DEF CInv, TypeOK, Locals, Sample
  <1>6. CASE snap[n] = None
    BY <1>1, <1>2, <1>3, <1>4, <1>6 DEF Hidden, Caught
  <1>7. CASE snap[n] # None /\ snap[n].epoch = e
    <2>1. snap[n].epoch <= last[n].epoch
      BY <1>7 DEF RInv, RowsBehind, NotLater
    <2>2. last[n].epoch = e
      BY <1>1, <1>5, <1>7, <2>1
    <2> QED BY <1>1, <1>2, <1>4, <1>7, <2>2 DEF Caught
  <1>8. CASE snap[n] # None /\ snap[n].epoch # e
    <2>1. /\ snap[n] = [at |-> last[n].at, epoch |-> last[n].epoch]
          /\ \E d \in Dirs : ~(snap[n].at[d] <= col.sample[n].at[d])
      BY <1>3, <1>8 DEF Hidden
    <2>2. \A d \in Dirs : snap[n].at[d] \in Nat /\ col.sample[n].at[d] \in Nat
      BY <1>8 DEF CInv, TypeOK, Locals, Sample, Bytes
    <2>3. \E d \in Dirs : col.sample[n].at[d] < snap[n].at[d]
      BY <2>1, <2>2
    <2> QED BY <1>1, <1>2, <1>4, <1>8, <2>1, <2>3 DEF Caught
  <1> QED BY <1>6, <1>7, <1>8

\* A later sample of the same life makes the difference due.
LEMMA DueLater ==
  ASSUME NEW b \in Baseline, NEW prev \in Bytes \cup {None}, NEW stored \in Bytes \cup {None},
         NEW x \in Bytes, NEW y \in Bytes, \A e \in Dirs : x[e] <= y[e],
         ~CountersDropped(b, prev, x), NEW d \in Dirs
  PROVE  MonthTraffic(b, prev, stored, y).total[d] =
           MonthTraffic(b, prev, stored, x).total[d] + (y[d] - x[d])
  <1>1. \A e \in Dirs : /\ b.at[e] \in Nat /\ x[e] \in Nat /\ y[e] \in Nat /\ b.off[e] \in Nat
                        /\ prev # None => prev[e] \in Nat
    BY DEF Baseline, Bytes
  <1>2. ~CountersDropped(b, prev, y)
    BY <1>1 DEF CountersDropped
  <1>3. /\ MonthTraffic(b, prev, stored, x).total[d] = b.off[d] + (x[d] - b.at[d])
        /\ MonthTraffic(b, prev, stored, y).total[d] = b.off[d] + (y[d] - b.at[d])
    BY <1>2, TotalCases
  <1> QED BY <1>1, <1>3

\* The first sample of the next life makes all of it due, and what the snapshot,
\* which is of the last sample, had counted.
LEMMA DueAfterReset ==
  ASSUME NEW b \in Baseline, NEW stored \in Bytes \cup {None},
         NEW x \in Bytes, NEW y \in Bytes, \A e \in Dirs : b.at[e] <= x[e],
         \E e \in Dirs : y[e] < x[e], NEW d \in Dirs
  PROVE  MonthTraffic(b, x, stored, x).total[d] + y[d] <= MonthTraffic(b, x, stored, y).total[d]
  <1>1. /\ b.at[d] \in Nat /\ b.off[d] \in Nat /\ x[d] \in Nat /\ y[d] \in Nat
        /\ x # None
    BY NoneAssumption DEF Baseline, Bytes
  <1>2. CountersDropped(b, x, y)
    BY <1>1 DEF CountersDropped
  <1>3. MonthTraffic(b, x, stored, x).total[d] = b.off[d] + (x[d] - b.at[d])
    BY SampleStored
  <1>4. MonthTraffic(b, x, stored, y).total[d] = OffsetAfterReset(b, x, stored, d) + y[d]
    <2>1. \A z \in Bytes : z \in Bytes \cup {None}
      OBVIOUS
    <2> QED BY <1>2, <2>1, TotalCases
  <1>5. OffsetAfterReset(b, x, stored, d) \in Nat
    BY OffsetCases
  <1>6. b.off[d] + (x[d] - b.at[d]) <= OffsetAfterReset(b, x, stored, d)
    BY <1>1, OffsetLow
  <1> DEFINE off == OffsetAfterReset(b, x, stored, d)
             old == MonthTraffic(b, x, stored, x).total[d]
             new == MonthTraffic(b, x, stored, y).total[d]
  <1>7. old <= off /\ new = off + y[d] /\ off \in Nat /\ old \in Nat
    BY <1>1, <1>3, <1>4, <1>5, <1>6
  <1> HIDE DEF off, old, new
  <1>8. old + y[d] <= new
    BY <1>1, <1>7
  <1> QED BY <1>8 DEF old, new

LEMMA MonthsOrdered ==
  \A j, k, l \in Months :
    /\ j < k => j # k
    /\ j <= k /\ k < l => j < l
    /\ j <= k /\ j # k => j < k
    /\ j <= k /\ k <= j => j = k
  BY DEF Months

\* The observer adds to the month of the sample only.
LEMMA OtherMonths ==
  ASSUME CInv, Parse, NEW n \in Names, NEW m \in Months, m # month
  PROVE  ideal'[n][m] = ideal[n][m]
  <1>1. ideal[n] \in [Months -> Bytes]
    BY DEF CInv, TypeOK
  <1>2. ideal'[n] = ideal[n] \/
        ideal'[n] = [ideal[n] EXCEPT ![month] = [d \in Dirs |-> @[d] + Gain(n, d)]]
    BY DEF Parse
  <1> QED BY <1>1, <1>2

\* What the observer adds for a sample that hides nothing is due, where the month
\* has a baseline.
LEMMA ParseDueEnough ==
  ASSUME CInv, LInv, OInv, RInv, EInv, Parse, NEW n \in Names, col.sample[n] # None, Clean(n)',
         base[n][month] # None, NEW d \in Dirs
  PROVE  ideal[n][month][d] + Gain(n, d) <=
           MonthTraffic(base[n][month], Prev(n), total[n][month], col.sample[n].at).total[d]
  <1> DEFINE b == base[n][month]
             t == total[n][month]
             x == last[n].at
             y == col.sample[n].at
             i == ideal[n][month][d]
             due == MonthTraffic(b, Prev(n), t, x).total[d]
             new == MonthTraffic(b, Prev(n), t, y).total[d]
  <1>1. col.pc = "parse" /\ month \in Months
    BY DEF Parse, CInv, TypeOK
  <1>2. last[n] # None /\ last[n].month = month
    <2>1. last[n] # None /\ month <= last[n].month
      BY <1>1 DEF OInv, BaseAhead
    <2>2. last[n].month <= month /\ last[n].month \in Months
      BY <2>1 DEF LInv, Dated, CInv, TypeOK
    <2> QED BY <1>1, <2>1, <2>2 DEF Months
  <1>3. /\ b \in Baseline /\ Prev(n) \in Bytes \cup {None} /\ t \in Bytes \cup {None}
        /\ x \in Bytes /\ y \in Bytes /\ i \in Nat
    BY <1>1, <1>2, TablesTyped DEF CInv, TypeOK, Locals, Sample
  <1>4. due \in Nat /\ new \in Nat /\ x[d] \in Nat /\ y[d] \in Nat
    <2>1. /\ MonthTraffic(b, Prev(n), t, x).total \in Bytes
          /\ MonthTraffic(b, Prev(n), t, y).total \in Bytes
      BY <1>3, MonthTrafficTyped
    <2> QED BY <1>3, <2>1 DEF Bytes
  <1>5. /\ Clean(n)
        /\ \/ /\ Caught(n) /\ last'[n].epoch = last[n].epoch
           \/ /\ snap[n] # None /\ snap[n].at = x /\ snap[n].epoch = last[n].epoch
              /\ last'[n].epoch # last[n].epoch
              /\ \E e \in Dirs : last'[n].at[e] < snap[n].at[e]
    BY <1>2, Unhidden
  <1>6. i <= due
    BY <1>1, <1>2, <1>5 DEF EInv, DueEnough, Shows, Due, Slipping
  <1>7. last'[n].at = y /\ last'[n].epoch = col.sample[n].epoch
    BY ParseTakes
  <1>8. \A e \in Dirs : b.at[e] <= x[e]
    BY <1>2, <1>5, NoDrop DEF Caught
  <1>9. CASE Caught(n) /\ last'[n].epoch = last[n].epoch
    <2>1. \A e \in Dirs : x[e] <= y[e]
      BY <1>2, <1>7, <1>9, ParseTakes
    <2>2. ~CountersDropped(b, Prev(n), x)
      BY <1>2, <1>5, <1>9, NoDrop
    <2>3. new = due + (y[d] - x[d])
      BY <1>3, <2>1, <2>2, DueLater
    <2>4. Gain(n, d) = y[d] - x[d] /\ x[d] <= y[d]
      BY <1>2, <1>7, <1>9, <2>1 DEF Gain
    <2> HIDE DEF i, due, new, x, y
    <2>5. i + Gain(n, d) <= new
      BY <1>3, <1>4, <1>6, <2>3, <2>4
    <2> QED BY <2>5 DEF new, i, y
  <1>10. CASE /\ snap[n] # None /\ snap[n].at = x
              /\ last'[n].epoch # last[n].epoch
              /\ \E e \in Dirs : last'[n].at[e] < snap[n].at[e]
    <2>1. Prev(n) = x /\ \E e \in Dirs : y[e] < x[e]
      BY <1>7, <1>10 DEF Prev
    <2>2. due + y[d] <= new
      BY <1>3, <1>8, <2>1, DueAfterReset
    <2>3. Gain(n, d) = y[d]
      BY <1>2, <1>7, <1>10 DEF Gain
    <2> HIDE DEF i, due, new, x, y
    <2>4. i + Gain(n, d) <= new
      BY <1>3, <1>4, <1>6, <2>2, <2>3
    <2> QED BY <2>4 DEF new, i, y
  <1> QED BY <1>5, <1>9, <1>10

\* The first sample of a month.
LEMMA ParseFirst ==
  ASSUME CInv, LInv, RInv, EInv, Parse, NEW n \in Names, col.sample[n] # None, Clean(n)',
         base[n][month] = None, NEW d \in Dirs
  PROVE  ideal'[n][month][d] <= (IF Known(n) THEN Zero ELSE col.sample[n].at)[d]
  <1>1. month \in Months /\ \A z \in Bytes : z[d] \in Nat
    BY DEF CInv, TypeOK, Bytes
  <1>2. last[n] = None \/ last[n].month < month
    <2> SUFFICES ASSUME last[n] # None PROVE last[n].month < month
      OBVIOUS
    <2>1. last[n].month # month
      BY Unhidden
    <2>2. last[n].month <= month /\ last[n].month \in Months
      BY DEF LInv, Dated, CInv, TypeOK
    <2> QED BY <1>1, <2>1, <2>2 DEF Months
  <1>3. ideal[n][month] = Zero
    BY <1>1, <1>2 DEF EInv, Unseen
  <1>4. last[n] # None => last[n].month # month
    BY <1>1, <1>2, MonthsOrdered DEF CInv, TypeOK
  <1>5. Gain(n, d) = (IF Known(n) THEN Zero ELSE col.sample[n].at)[d]
    <2>1. last[n] = None => ~Known(n)
      BY DEF EInv, Unseen
    <2> QED BY <1>4, <2>1, ZeroTyped DEF Gain
  <1>6. ideal'[n][month][d] = Gain(n, d)
    <2>1. ideal'[n][month][d] = 0 + Gain(n, d)
      BY <1>3, ParseAdds, ZeroTyped
    <2>2. Gain(n, d) \in Nat
      BY GainTyped DEF Parse
    <2> QED BY <2>1, <2>2
  <1>7. Gain(n, d) \in Nat
    BY GainTyped DEF Parse
  <1> QED BY <1>5, <1>6, <1>7

LEMMA ParseExact ==
  ASSUME CInv, CInv', LInv, OInv, RInv, EInv, Parse
  PROVE  EInv'
  <1> DEFINE sampled == {n \in Names : col.sample[n] # None}
  <1>1. /\ col.pc = "parse" /\ month \in Months
        /\ \/ sampled = {} /\ col' = Waiting
           \/ \E q \in sampled : col' = [col EXCEPT !.pc = "base.get", !.m = month,
                                                    !.p = q, !.todo = sampled \ {q}]
        /\ UNCHANGED <<base, total, snap, slack, month>>
    BY DEF Parse, world, ledger, CInv, TypeOK
  <1>2. ASSUME NEW n \in Names, col.sample[n] = None
        PROVE  /\ last'[n] = last[n] /\ ideal'[n] = ideal[n]
               /\ (Clean(n)' <=> Clean(n)) /\ (Caught(n)' <=> Caught(n))
    <2>1. last'[n] = last[n] /\ ideal'[n] = ideal[n]
      BY <1>2, ParseAdds
    <2> QED BY <1>1, <2>1 DEF Clean, Caught
  <1>3. \A n \in Names : Known(n)' <=> Known(n)
    BY <1>1 DEF Known
  <1>4. Detected'
    <2> SUFFICES ASSUME NEW n \in Names, Clean(n)', ~Caught(n)'
                 PROVE  \E d \in Dirs : last'[n].at[d] < snap[n].at[d]
      BY <1>1 DEF Detected
    <2>1. CASE col.sample[n] = None
      BY <1>2, <2>1 DEF EInv, Detected
    <2>2. CASE col.sample[n] # None
      <3>1. last[n] # None
        BY <1>1 DEF Caught, RInv, RowsBehind, NotLater
      <3> QED BY <2>2, <3>1, Unhidden
    <2> QED BY <2>1, <2>2
  <1>5. \A n \in Names : base[n][month] # None => last[n] # None /\ last[n].month = month
    <2> SUFFICES ASSUME NEW n \in Names, base[n][month] # None
                 PROVE  last[n] # None /\ last[n].month = month
      OBVIOUS
    <2>1. last[n] # None /\ month <= last[n].month
      BY <1>1 DEF OInv, BaseAhead
    <2>2. last[n].month <= month /\ last[n].month \in Months
      BY <2>1 DEF LInv, Dated, CInv, TypeOK
    <2> QED BY <1>1, <2>1, <2>2, MonthsOrdered
  <1>6. Anchored'
    <2> SUFFICES ASSUME NEW n \in Names, Clean(n)', Caught(n)', base[n][last'[n].month] # None
                 PROVE  base[n][last'[n].month].epoch = last'[n].epoch
      BY <1>1 DEF Anchored
    <2>1. CASE col.sample[n] = None
      BY <1>2, <2>1 DEF EInv, Anchored
    <2>2. CASE col.sample[n] # None
      <3>1. last'[n].month = month
        BY <2>2, ParseTakes
      <3>2. last[n] # None /\ last[n].month = month
        BY <1>5, <3>1
      <3>3. Clean(n) /\ Caught(n) /\ last'[n].epoch = last[n].epoch
        BY <2>2, <3>2, Unhidden
      <3> QED BY <3>1, <3>2, <3>3 DEF EInv, Anchored
    <2> QED BY <2>1, <2>2
  <1>7. Unseen'
    <2> SUFFICES ASSUME NEW n \in Names
                 PROVE  /\ last'[n] = None => ~Known(n)
                        /\ \A m \in Months :
                             last'[n] = None \/ m > last'[n].month => ideal'[n][m] = Zero
      BY <1>3 DEF Unseen
    <2>1. CASE col.sample[n] = None
      BY <1>2, <2>1 DEF EInv, Unseen
    <2>2. CASE col.sample[n] # None
      <3> SUFFICES ASSUME NEW m \in Months, m > month PROVE ideal'[n][m] = Zero
        BY <2>2, ParseTakes
      <3>1. m # month /\ ideal'[n][m] = ideal[n][m]
        <4>1. m # month
          BY <1>1, MonthsOrdered
        <4> QED BY <4>1, OtherMonths
      <3>2. last[n] # None => m > last[n].month
        <4>1. last[n] # None => last[n].month <= month /\ last[n].month \in Months
          BY DEF LInv, Dated, CInv, TypeOK
        <4> QED BY <1>1, <4>1, MonthsOrdered
      <3> QED BY <3>1, <3>2 DEF EInv, Unseen
    <2> QED BY <2>1, <2>2
  <1>8. DueEnough'
    <2> SUFFICES ASSUME NEW n \in Names, Clean(n)', base[n][last'[n].month] # None
                 PROVE  Shows(Due(n), n, last[n].month)'
      BY <1>1 DEF DueEnough, Shows, Due
    <2>1. CASE col.sample[n] = None
      <3>1. last'[n] = last[n] /\ ideal'[n] = ideal[n] /\ Clean(n) /\ ~Slipping(n)
        BY <1>1, <1>2, <2>1 DEF Slipping
      <3>2. Shows(Due(n), n, last[n].month) /\ Due(n)' = Due(n)
        BY <1>1, <3>1 DEF EInv, DueEnough, Due, Prev
      <3> QED BY <1>1, <3>1, <3>2 DEF Shows
    <2>2. CASE col.sample[n] # None
      <3>1. /\ last'[n].month = month /\ last'[n].at = col.sample[n].at
            /\ \A d \in Dirs : ideal'[n][month][d] = ideal[n][month][d] + Gain(n, d)
        BY <2>2, ParseAdds
      <3>2. Due(n)' =
              MonthTraffic(base[n][month], Prev(n), total[n][month], col.sample[n].at).total
        BY <1>1, <3>1 DEF Due, Prev
      <3>3. \A d \in Dirs : ideal[n][month][d] + Gain(n, d) <= Due(n)'[d]
        BY <2>2, <3>1, <3>2, ParseDueEnough
      <3> QED BY <1>1, <3>1, <3>3 DEF Shows
    <2> QED BY <2>1, <2>2
  <1>9. InHandEnough'
    <2>1. CASE col' = Waiting
      BY <2>1, WaitingFits, NoneInHand
    <2>2. CASE col' # Waiting
      <3>1. PICK q \in sampled : col' = [col EXCEPT !.pc = "base.get", !.m = month,
                                                    !.p = q, !.todo = sampled \ {q}]
        BY <1>1, <2>2
      <3>2. /\ col'.pc = "base.get" /\ col'.m = month
            /\ col'.todo \cup {col'.p} \subseteq sampled
        BY <3>1 DEF CInv, TypeOK, Locals
      <3>3. FirstEnough'
        <4> SUFFICES ASSUME NEW n \in sampled, Clean(n)', base[n][month] = None, NEW d \in Dirs
                     PROVE  ideal'[n][month][d] <= (IF Known(n) THEN Zero ELSE last'[n].at)[d]
          BY <1>1, <1>3, <3>2 DEF FirstEnough, Shows
        <4>1. last'[n].at = col.sample[n].at
          BY ParseTakes
        <4> QED BY <4>1, ParseFirst
      <3> QED BY <3>2, <3>3 DEF InHandEnough, ResultEnough, Reanchored, FromZero
    <2> QED BY <2>1, <2>2
  <1> QED BY <1>4, <1>6, <1>7, <1>8, <1>9 DEF EInv

-----------------------------------------------------------------------------
(* Failures and crashes.                                                     *)

\* A collection cut off while it slips is not clean: the snapshot that showed the
\* reset was not empty.
LEMMA SlipLeavesSlack ==
  ASSUME CInv, CInv', RInv, EInv, NEW n \in Names, Slipping(n), Owe, last' = last, Clean(n)'
  PROVE  FALSE
  <1>1. n = col.p /\ col.pc \in {"total.set", "snap.save"} /\ Result.reanchor
    BY DEF Slipping
  <1>2. col.m \in Months
    BY <1>1, InHand
  <1>3. \A q \in Names, m \in Months, d \in Dirs : slack[q][m][d] <= slack'[q][m][d]
    BY <1>1, OweGrows
  <1>4. Clean(n) /\ ~Caught(n)
    BY <1>1, <1>3, CleanBefore DEF EInv, InHandEnough, ResultEnough
  <1>5. PICK d \in Dirs : last[n].at[d] < snap[n].at[d]
    BY <1>4 DEF EInv, Detected
  <1>6. Shown(Prev(n))[d] = snap[n].at[d] /\ snap[n].at[d] \in Nat /\ last[n].at[d] \in Nat
    <2>1. snap[n] # None /\ snap[n].at \in Bytes /\ last[n].at \in Bytes
      BY <1>4 DEF Caught, Clean, CInv, TypeOK, Sample
    <2> QED BY <2>1, NoneAssumption DEF Prev, Shown, Bytes
  <1>7. slack'[n][col.m][d] = slack[n][col.m][d] + Shown(Prev(n))[d] + Now[d]
    BY <1>1, OweAdds
  <1>8. slack[n][col.m][d] \in Nat /\ Now[d] \in Nat
    BY <1>1, <1>2, InHand, TablesTyped
  <1>9. slack'[n][col.m][d] = 0
    BY <1>2, ZeroTyped DEF Clean
  <1> QED BY <1>5, <1>6, <1>7, <1>8, <1>9

LEMMA CutOffExact ==
  ASSUME CInv, CInv', RInv, EInv, CutOff, UNCHANGED <<base, total, snap, last, ideal>>,
         InHandEnough'
  PROVE  EInv'
  <1>1. \A n \in Names, m \in Months, d \in Dirs : slack[n][m][d] <= slack'[n][m][d]
    BY CutOffGrows
  <1>2. \A n \in Names : Slipping(n) => Owe
    BY DEF Slipping, CutOff
  <1>3. \A n \in Names : ~(Slipping(n) /\ Clean(n)')
    BY <1>2, SlipLeavesSlack
  <1> QED BY <1>1, <1>3, TablesStayExact DEF EInv

LEMMA CallFailsExact ==
  ASSUME CInv, CInv', RInv, EInv, CallFails
  PROVE  EInv'
  <1>1. col.pc \in Calls /\ UNCHANGED <<base, total, snap, last, ideal>>
    BY DEF CallFails, ledger
  <1>2. CASE col.pc = "parse"
    BY <1>1, <1>2, WaitingFits, NoneInHand, CutOffExact DEF CallFails
  <1>3. CASE col.pc = "has.get"
    <2>1. col' = [col EXCEPT !.pc = "base.set", !.b = BaselineFrom(Zero)] /\ Owe
      BY <1>3 DEF CallFails
    <2>2. \A n \in Names, m \in Months, d \in Dirs : slack[n][m][d] <= slack'[n][m][d]
      BY <1>3, <2>1, OweGrows
    <2>3. InHandEnough'
      BY <1>1, <1>3, <2>1, <2>2, NewRowExact
    <2> QED BY <1>1, <1>3, <2>2, <2>3, TablesStayExact DEF Slipping, EInv
  <1>4. CASE col.pc \notin {"parse", "has.get"}
    <2>1. Continue(col.todo) /\ CutOff
      BY <1>4 DEF CallFails
    <2>2. col.pc \notin {"idle", "parse"}
      BY <1>1, <1>4 DEF Calls
    <2> QED BY <1>1, <2>1, <2>2, CutOffGrows, ContinueExact, CutOffExact
  <1> QED BY <1>2, <1>3, <1>4

LEMMA CrashExact ==
  ASSUME CInv, CInv', RInv, EInv, Crash
  PROVE  EInv'
  BY WaitingFits, NoneInHand, CutOffExact DEF Crash, ledger

-----------------------------------------------------------------------------
(* The property.                                                             *)

\* A clearing is not undone.
LEMMA NotClearedBefore ==
  ASSUME CInv, [Next]_vars, NoClearing'
  PROVE  NoClearing /\ ~ClearTotals /\ ~ClearBaselines /\ ~ClearCutOff
  <1>1. clear \in Months \cup {0} /\ month \in Months /\ clears \in Nat
    BY DEF CInv, TypeOK
  <1>2. ~ClearTotals
    BY <1>1 DEF ClearTotals, NoClearing, Months
  <1>3. ~ClearBaselines /\ ~ClearCutOff
    BY <1>1 DEF ClearBaselines, ClearCutOff, NoClearing
  <1> QED BY <1>2, <1>3, OnlyClearingClears DEF NoClearing

EveryInv == CInv /\ LedgerInv /\ RInv /\ (NoClearing => OInv /\ EInv)

\* One step per action.
LEMMA ExactNext == EveryInv /\ [Next]_vars => EveryInv'
  <1> SUFFICES ASSUME EveryInv, [Next]_vars PROVE EveryInv'
    OBVIOUS
  <1>1. CInv /\ CInv' /\ LedgerInv' /\ RInv /\ RInv'
    BY StepFits, LedgerNext, ResetsNext DEF EveryInv
  <1> SUFFICES ASSUME NoClearing' PROVE OInv' /\ EInv'
    BY <1>1 DEF EveryInv
  <1>2. NoClearing /\ ~ClearTotals /\ ~ClearBaselines /\ ~ClearCutOff
    BY <1>1, NotClearedBefore
  <1>3. LInv /\ OInv /\ EInv
    BY <1>2 DEF EveryInv, LedgerInv
  <1>4. OInv'
    BY <1>2, <1>3, OverNext DEF EveryInv
  <1>5. CASE Collect
    BY <1>1, <1>3, <1>4, <1>5, StatsExact, ParseExact, BaseGetExact, HasGetExact, BaseSetExact,
       SnapGetExact, TotalGetExact, ReanchorExact, TotalSetExact, SnapSaveExact,
       CallFailsExact DEF Collect
  <1>6. CASE \/ \E n \in Names : Transfer(n) \/ Leave(n) \/ Join(n)
             \/ Bounce \/ Midnight \/ UNCHANGED vars
    <2>1. UNCHANGED <<ledger, col, last, ideal, slack>>
      BY <1>6 DEF Transfer, Leave, Join, Bounce, Midnight, ledger, ghosts, vars
    <2> QED BY <1>1, <1>3, <1>4, <2>1, WorldExact
  <1>7. CASE Crash
    BY <1>1, <1>3, <1>4, <1>7, CrashExact
  <1> QED BY <1>2, <1>5, <1>6, <1>7 DEF Next

LEMMA ExactInit == Init => EveryInv
  <1> SUFFICES ASSUME Init PROVE EveryInv
    OBVIOUS
  <1>1. col.pc = "idle"
    BY WaitingFits DEF Init
  <1>2. Detected /\ Anchored /\ DueEnough /\ Unseen
    BY DEF Init, Detected, Anchored, DueEnough, Unseen, Clean, Known
  <1>3. EInv
    BY <1>1, <1>2 DEF EInv, InHandEnough, ResultEnough, Reanchored, FirstEnough, FromZero
  <1> QED BY <1>3, InitFits, LedgerInit, OverInit, ResetsInit DEF EveryInv

LEMMA BytesEqual ==
  ASSUME NEW x \in Bytes, NEW y \in Bytes, \A d \in Dirs : x[d] <= y[d] /\ y[d] <= x[d]
  PROVE  x = y
  <1>1. \A d \in Dirs : x[d] = y[d]
    BY DEF Bytes
  <1> QED BY <1>1 DEF Bytes

\* What is stored of a clean client is what is due for its last sample, once that
\* is the snapshot, and that is bounded from both sides.
LEMMA StoredIsExact ==
  ASSUME CInv, LInv, OInv, RInv, EInv, col.pc = "idle", NEW n \in Names \ torn, Clean(n),
         total[n][last[n].month] # None,
         snap[n] = [at |-> last[n].at, epoch |-> last[n].epoch]
  PROVE  total[n][last[n].month] = ideal[n][last[n].month]
  <1> DEFINE m == last[n].month
             b == base[n][m]
             t == total[n][m]
             x == last[n].at
  <1>1. last[n] # None /\ m \in Months /\ x \in Bytes /\ b # None
    BY TablesTyped DEF Clean, LInv, Ahead, CInv, TypeOK
  <1>2. b \in Baseline /\ t \in Bytes /\ ideal[n][m] \in Bytes
    BY <1>1, TablesTyped
  <1>3. snap[n] # None /\ snap[n].at = x /\ Caught(n) /\ ~Slipping(n) /\ ~Between(n)
    <2>1. snap[n].at = x /\ snap[n].epoch = last[n].epoch
      OBVIOUS
    <2>2. snap[n] # None
      BY <1>1 DEF LInv, Settled, Between, Agree
    <2> QED BY <2>1, <2>2 DEF Caught, Slipping, Between
  <1>4. \A d \in Dirs : b.at[d] <= x[d] /\ t[d] = b.off[d] + (x[d] - b.at[d])
    BY <1>1, <1>3 DEF LInv, Settled, Agree
  <1>5. Due(n) = MonthTraffic(b, x, t, x).total
    BY <1>3 DEF Due, Prev
  <1>6. Shows(Due(n), n, m)
    BY <1>1, <1>3 DEF EInv, DueEnough
  <1> HIDE DEF m, b, t, x
  <1>7. \A d \in Dirs : Due(n)[d] = t[d]
    BY <1>1, <1>2, <1>4, <1>5, SampleStored
  <1>8. \A d \in Dirs : ideal[n][m][d] <= t[d]
    BY <1>6, <1>7 DEF Shows
  <1>9. \A d \in Dirs : t[d] <= ideal[n][m][d]
    <2> TAKE d \in Dirs
    <2>1. t[d] <= ideal[n][m][d] + slack[n][m][d]
      BY <1>1 DEF OInv, NeverOvercharged, m, t
    <2>2. slack[n][m][d] = 0 /\ ideal[n][m][d] \in Nat /\ t[d] \in Nat
      BY <1>1, <1>2, ZeroTyped DEF Clean, Bytes
    <2> QED BY <2>1, <2>2
  <1>10. t = ideal[n][m]
    BY <1>2, <1>8, <1>9, BytesEqual
  <1> QED BY <1>10 DEF t, m

\* Between two collections the total of the month, the one the limit is compared
\* with, is exactly what the samples of the month show: for any resets, failed
\* calls and crashes, as long as nothing has been cleared, no slip is behind, and
\* the samples have hidden nothing from the tables.
THEOREM ExactStays == Spec => []ExactBetweenSamples
  <1>1. EveryInv => ExactBetweenSamples
    BY StoredIsExact DEF EveryInv, LedgerInv, NoClearing, ExactBetweenSamples, Clean
  <1> QED BY <1>1, ExactInit, ExactNext, PTL DEF Spec
=============================================================================
