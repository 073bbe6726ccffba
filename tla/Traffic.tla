------------------------------- MODULE Traffic -------------------------------
(***************************************************************************)
(* internal/traffic and internal/monitor/traffic_calc.go: how many bytes a *)
(* client has moved this month, computed from the counters of the kernel,  *)
(* which start again from zero whenever the peer or the interface does.    *)
(* The two directions, rx (upload) and tx (download), go through the same  *)
(* arithmetic but share the decision that the counters were reset.         *)
(***************************************************************************)
EXTENDS Naturals

CONSTANT None      \* no row, no previous snapshot, no peer on the interface

Dirs  == {"rx", "tx"}
Bytes == [Dirs -> Nat]
Zero  == [d \in Dirs |-> 0]

\* A row of traffic_baselines: the counters the month is counted from and what
\* it had gathered before the last reset.  `epoch` is history: how often the
\* counters had been reset when the row was written.
Baseline == [at : Bytes, off : Bytes, epoch : Nat]

\* delta: counters that went back are taken as counted from zero.
Delta(prev, current) == IF current >= prev THEN current - prev ELSE current

\* countersDropped
CountersDropped(b, prev, now) ==
  \/ prev # None /\ \E d \in Dirs : now[d] < prev[d]
  \/ \E d \in Dirs : now[d] < b.at[d]

\* Mutants: the baseline is not subtracted; the two are swapped.
SegmentFromZero(at, prev, d) == IF prev # None THEN prev[d] ELSE 0
SegmentSwapped(at, prev, d)  == IF prev # None THEN at[d] - prev[d] ELSE 0

\* segmentBeforeReset: what the last snapshot before the reset had counted.
SegmentBeforeReset(at, prev, d) ==
  IF prev # None /\ prev[d] >= at[d] THEN Delta(at[d], prev[d]) ELSE 0

\* Mutant: what was counted since the last reset is forgotten.
OffsetForgotten(b, prev, stored, d) == b.off[d]

\* The offset after a reset; the stored total when the snapshot tells nothing.
OffsetAfterReset(b, prev, stored, d) ==
  LET off == b.off[d] + SegmentBeforeReset(b.at, prev, d)
  IN IF off = b.off[d] /\ stored # None /\ stored[d] > off THEN stored[d] ELSE off

\* Mutant: what the counters show after the reset is left for the next sample.
MonthTrafficLate(b, prev, stored, now) ==
  IF ~CountersDropped(b, prev, now)
  THEN [reanchor |-> FALSE, at |-> b.at, off |-> b.off,
        total |-> [d \in Dirs |-> b.off[d] + Delta(b.at[d], now[d])]]
  ELSE LET off == [d \in Dirs |-> OffsetAfterReset(b, prev, stored, d)]
       IN [reanchor |-> TRUE, at |-> now, off |-> off, total |-> off]

\* computeMonthTraffic
MonthTraffic(b, prev, stored, now) ==
  IF ~CountersDropped(b, prev, now)
  THEN [reanchor |-> FALSE, at |-> b.at, off |-> b.off,
        total |-> [d \in Dirs |-> b.off[d] + Delta(b.at[d], now[d])]]
  ELSE LET off == [d \in Dirs |-> OffsetAfterReset(b, prev, stored, d)]
       IN [reanchor |-> TRUE, at |-> Zero, off |-> off,
           total |-> [d \in Dirs |-> off[d] + Delta(0, now[d])]]
=============================================================================
