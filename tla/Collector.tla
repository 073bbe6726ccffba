------------------------------ MODULE Collector ------------------------------
(***************************************************************************)
(* internal/monitor: the goroutine that samples the counters of the        *)
(* interface and keeps the monthly totals, with the command that clears    *)
(* them (-reset-month-traffic, a process of its own) and the world around: *)
(* traffic, peers that leave and join the interface, midnight on the last  *)
(* of the month, calls that fail, crashes.  Every statement of the         *)
(* database is one action.  The totals belong to names: a client that is   *)
(* revoked and created again under its name joins with counters at zero.   *)
(***************************************************************************)
EXTENDS Traffic, FiniteSets

CONSTANTS
  Names,         \* clients that are in wg0.conf
  MaxMonth,      \* bound on the months
  MaxBytes,      \* bound on the bytes of a client since its counters were reset
  MaxResets,     \* bound on the times counters start again
  MaxClears,     \* bound on the runs of -reset-month-traffic
  MaxFaults,     \* bound on the calls that fail
  MaxCrashes     \* bound on the times the process dies and is restarted

Calls == {"parse", "base.get", "has.get", "base.set", "snap.get", "total.get",
          "reanchor", "total.set", "snap.save"}

ASSUME CollectorAssumption ==
  /\ {MaxMonth, MaxBytes, MaxResets, MaxClears, MaxFaults, MaxCrashes} \subseteq Nat
  /\ MaxMonth > 0
  /\ None \notin Names
Months == 1 .. MaxMonth

ASSUME NoneAssumption ==
  /\ None \notin Bytes \cup Baseline
  /\ None \notin [month : Months, at : Bytes, epoch : Nat, hidden : BOOLEAN]

VARIABLES
  count,     \* the kernel's counters of each client, None when not live
  epoch,     \* history: how often they started again from zero
  month,     \* the calendar
  base,      \* traffic_baselines
  total,     \* monthly_traffic
  snap,      \* the latest row of usage_snapshots; the epoch is history
  col,       \* the collector: its next call and its local variables
  clear,     \* the month -reset-month-traffic has half cleared, or 0
  last,      \* history: the last sample of each client
  ideal,     \* history: the totals of an observer of the same samples who
             \* knows when the counters started again and never clears
  torn,      \* history: the clients whose last collection was cut off after a
             \* write and before the snapshot that goes with it
  slack,     \* history: the bytes a slip may charge a client once more
  clears, faults, crashes    \* what MaxClears, MaxFaults, MaxCrashes bound

world  == <<count, epoch, month>>
ledger == <<base, total, snap>>
ghosts == <<last, ideal, torn, slack>>
env    == <<clears, faults, crashes>>
vars   == <<count, epoch, month, base, total, snap, col, clear, last, ideal,
            torn, slack, clears, faults, crashes>>

\* The locals of collect: the sample, the month it is for, the client in hand
\* and those still to come, and what was read for it.
Waiting == [pc |-> "idle", m |-> 0, sample |-> [n \in Names |-> None],
            todo |-> {}, p |-> None, b |-> None, prev |-> None, stored |-> None]

Init ==
  /\ \E k \in 0 .. MaxBytes :
       count \in [Names -> {None, [Zero EXCEPT !["rx"] = k]}]
  /\ epoch = [n \in Names |-> 0]
  /\ month = 1
  /\ base  = [n \in Names |-> [m \in Months |-> None]]
  /\ total = [n \in Names |-> [m \in Months |-> None]]
  /\ snap  = [n \in Names |-> None]
  /\ col = Waiting
  /\ clear = 0
  /\ last  = [n \in Names |-> None]
  /\ ideal = [n \in Names |-> [m \in Months |-> Zero]]
  /\ torn  = {}
  /\ slack = [n \in Names |-> [m \in Months |-> Zero]]
  /\ clears = 0 /\ faults = 0 /\ crashes = 0

-----------------------------------------------------------------------------
(* collect                                                                  *)

\* The bytes of the counters in the sample the client in hand has.
Now == col.sample[col.p].at

\* The loop goes on with another client, or collect returns.
Continue(rest) ==
  \/ rest = {} /\ col' = Waiting
  \/ \E q \in rest :
       col' = [col EXCEPT !.pc = "base.get", !.p = q, !.todo = rest \ {q},
                          !.b = None, !.prev = None, !.stored = None]

\* GetPeerStats: the counters of all the peers at once.  (It may fail, and
\* collect returns: the ticker will call it again.)
Stats ==
  /\ col.pc = "idle"
  /\ col' = [col EXCEPT
       !.pc = "parse",
       !.sample = [n \in Names |-> IF count[n] = None THEN None
                                   ELSE [at |-> count[n], epoch |-> epoch[n]]]]
  /\ UNCHANGED <<world, ledger, clear, ghosts, env>>

\* The tables have something of client n.
Known(n) == snap[n] # None \/ \E m \in Months : total[n][m] # None

\* What the observer adds for client n: all there is for a client nobody has
\* sampled or counted, nothing for the first sample of a month, else the
\* difference to the last sample, which starts from zero if the counters have.
Gain(n, d) ==
  LET now == col.sample[n]
  IN IF last[n] = None \/ (last[n].month # month /\ ~Known(n)) THEN now.at[d]
     ELSE IF last[n].month # month THEN 0
     ELSE IF last[n].epoch # now.epoch THEN now.at[d]
     ELSE now.at[d] - last[n].at[d]

\* Bytes are hidden from the tables for good: the month's first sample was not
\* stored, or the counters were reset since the snapshot and later samples were
\* not stored or both counters have grown past it again.
Hidden(n) ==
  /\ last[n] # None
  /\ \/ last[n].hidden
     \/ last[n].month = month /\ base[n][month] = None
     \/ IF snap[n] = None THEN last[n].epoch # col.sample[n].epoch ELSE
          /\ snap[n].epoch # col.sample[n].epoch
          /\ \/ snap[n] # [at |-> last[n].at, epoch |-> last[n].epoch]
             \/ \A d \in Dirs : snap[n].at[d] <= col.sample[n].at[d]

\* wgconf.Parse and the clock.
Parse ==
  /\ col.pc = "parse"
  /\ LET sampled == {n \in Names : col.sample[n] # None}
     IN /\ \/ sampled = {} /\ col' = Waiting
           \/ \E q \in sampled :
                col' = [col EXCEPT !.pc = "base.get", !.m = month,
                                   !.p = q, !.todo = sampled \ {q}]
        /\ last' = [n \in Names |-> IF n \notin sampled THEN last[n] ELSE
             [month |-> month, at |-> col.sample[n].at,
              epoch |-> col.sample[n].epoch, hidden |-> Hidden(n)]]
        /\ ideal' = [n \in Names |-> IF n \notin sampled THEN ideal[n] ELSE
             [ideal[n] EXCEPT ![month] = [d \in Dirs |-> @[d] + Gain(n, d)]]]
  /\ UNCHANGED <<world, ledger, clear, torn, slack, env>>

Read == UNCHANGED <<world, ledger, clear, ghosts, env>>

BaseGet ==
  /\ col.pc = "base.get"
  /\ LET b == base[col.p][col.m]
     IN col' = [col EXCEPT !.pc = IF b = None THEN "has.get" ELSE "snap.get", !.b = b]
  /\ Read

\* resolveBaseline: the counters as they are, or zero for a client the previous
\* month knows nothing of.
BaselineFrom(at) == [at |-> at, off |-> Zero, epoch |-> col.sample[col.p].epoch]

\* Mutant: the previous month is not asked.
HasGetNever ==
  /\ col.pc = "has.get"
  /\ col' = [col EXCEPT !.pc = "base.set", !.b = BaselineFrom(Zero)]
  /\ Read

HasGet ==
  /\ col.pc = "has.get"
  /\ LET hadPrev == col.m - 1 \in Months /\ total[col.p][col.m - 1] # None
     IN col' = [col EXCEPT !.pc = "base.set",
                           !.b = BaselineFrom(IF hadPrev THEN Now ELSE Zero)]
  /\ Read

\* What a slip may charge the client in hand once more in this month: what its
\* latest snapshot and the sample show.
Owe ==
  LET prev == IF snap[col.p] = None THEN Zero ELSE snap[col.p].at
  IN slack' = [slack EXCEPT ![col.p][col.m] = [d \in Dirs |-> @[d] + prev[d] + Now[d]]]

\* A month's first baseline slips when it is zero for a known client, because
\* the previous month has nothing of it, or when the counters were reset since the
\* last snapshot.
BaselineSlips ==
  LET prev == snap[col.p]
  IN \/ /\ Known(col.p) /\ col.b.at = Zero
        /\ col.m - 1 \in Months => total[col.p][col.m - 1] = None
     \/ prev # None /\ CountersDropped(col.b, prev.at, Now)

BaseSet ==
  /\ col.pc = "base.set"
  /\ base' = [base EXCEPT ![col.p][col.m] = col.b]
  /\ col' = [col EXCEPT !.pc = "snap.get"]
  /\ IF BaselineSlips THEN Owe ELSE UNCHANGED slack
  /\ UNCHANGED <<world, total, snap, clear, last, ideal, torn, env>>

SnapGet ==
  /\ col.pc = "snap.get"
  /\ LET prev == snap[col.p]
     IN col' = [col EXCEPT !.pc = "total.get", !.prev = IF prev = None THEN None ELSE prev.at]
  /\ Read

Result == MonthTraffic(col.b, col.prev, col.stored, Now)

TotalGet ==
  /\ col.pc = "total.get"
  /\ LET stored == total[col.p][col.m]
         result == MonthTraffic(col.b, col.prev, stored, Now)
     IN col' = [col EXCEPT !.pc = IF result.reanchor THEN "reanchor" ELSE "total.set",
                           !.stored = stored]
  /\ Read

Reanchor ==
  /\ col.pc = "reanchor"
  /\ base' = [base EXCEPT ![col.p][col.m] =
                [at |-> Result.at, off |-> Result.off, epoch |-> col.sample[col.p].epoch]]
  /\ col' = [col EXCEPT !.pc = "total.set"]
  /\ UNCHANGED <<world, total, snap, clear, ghosts, env>>

\* Mutant: after a reset the snapshot is not saved.
TotalSetNoSnapshot ==
  /\ col.pc = "total.set"
  /\ total' = [total EXCEPT ![col.p][col.m] = Result.total]
  /\ IF Result.reanchor THEN Continue(col.todo) ELSE col' = [col EXCEPT !.pc = "snap.save"]
  /\ UNCHANGED <<world, base, snap, clear, ghosts, env>>

TotalSet ==
  /\ col.pc = "total.set"
  /\ total' = [total EXCEPT ![col.p][col.m] = Result.total]
  /\ col' = [col EXCEPT !.pc = "snap.save"]
  /\ UNCHANGED <<world, base, snap, clear, ghosts, env>>

\* Mutant: only the first snapshot of a client is kept.
SnapSaveOnce ==
  /\ col.pc = "snap.save"
  /\ snap' = [snap EXCEPT ![col.p] = IF @ = None THEN col.sample[col.p] ELSE @]
  /\ torn' = torn \ {col.p}
  /\ Continue(col.todo)
  /\ UNCHANGED <<world, base, total, clear, last, ideal, slack, env>>

SnapSave ==
  /\ col.pc = "snap.save"
  /\ snap' = [snap EXCEPT ![col.p] = col.sample[col.p]]
  /\ torn' = torn \ {col.p}
  /\ Continue(col.todo)
  /\ UNCHANGED <<world, base, total, clear, last, ideal, slack, env>>

\* The collection of the client in hand ends here.  After the re-anchoring the
\* next one sees the same reset and adds the old snapshot, or what was stored for
\* the sample, again.
CutOff ==
  /\ IF col.pc = "snap.save" \/ (col.pc = "total.set" /\ Result.reanchor)
     THEN torn' = torn \cup {col.p} ELSE UNCHANGED torn
  /\ IF col.pc \in {"total.set", "snap.save"} /\ Result.reanchor
     THEN Owe ELSE UNCHANGED slack

\* A call fails before it changes anything.  The error of HasTrafficInMonth
\* counts as "no traffic", every other one skips the client (or the sample).
\* A file parsed while RemovePeer has it truncated is a sample without clients,
\* as when Parse fails.
CallFails ==
  /\ col.pc \in Calls /\ faults < MaxFaults
  /\ faults' = faults + 1
  /\ CASE col.pc = "parse"   -> col' = Waiting
       [] col.pc = "has.get" -> col' = [col EXCEPT !.pc = "base.set",
                                                   !.b = BaselineFrom(Zero)]
       [] OTHER              -> Continue(col.todo)
  /\ IF col.pc = "has.get" THEN Owe /\ UNCHANGED torn ELSE CutOff
  /\ UNCHANGED <<world, ledger, clear, last, ideal, clears, crashes>>

-----------------------------------------------------------------------------
(* -reset-month-traffic: two statements, no transaction.                    *)

ClearTotals ==
  /\ clear = 0 /\ clears < MaxClears
  /\ clear' = month
  /\ total' = [n \in Names |-> [total[n] EXCEPT ![month] = None]]
  /\ UNCHANGED <<world, base, snap, col, ghosts, env>>

ClearBaselines ==
  /\ clear # 0
  /\ clear' = 0 /\ clears' = clears + 1
  /\ base' = [n \in Names |-> [base[n] EXCEPT ![clear] = None]]
  /\ UNCHANGED <<world, total, snap, col, ghosts, faults, crashes>>

\* The second statement fails (the database is busy with the collector), or the
\* command is killed: the totals are gone, the baselines stay.
ClearCutOff ==
  /\ clear # 0
  /\ clear' = 0 /\ clears' = clears + 1
  /\ UNCHANGED <<world, ledger, col, ghosts, faults, crashes>>

-----------------------------------------------------------------------------
(* The world around.                                                        *)

Transfer(n) ==
  /\ count[n] # None
  /\ count[n]["rx"] + count[n]["tx"] < MaxBytes
  /\ \E d \in Dirs : count' = [count EXCEPT ![n][d] = @ + 1]
  /\ UNCHANGED <<epoch, month, ledger, col, clear, ghosts, env>>

\* Stop or Revoke takes the client off the interface.
Leave(n) ==
  /\ count[n] # None /\ epoch[n] < MaxResets
  /\ count' = [count EXCEPT ![n] = None]
  /\ UNCHANGED <<epoch, month, ledger, col, clear, ghosts, env>>

\* Start or Create puts it on: its counters start from zero.
Join(n) ==
  /\ count[n] = None /\ epoch[n] < MaxResets
  /\ count' = [count EXCEPT ![n] = Zero]
  /\ epoch' = [epoch EXCEPT ![n] = @ + 1]
  /\ UNCHANGED <<month, ledger, col, clear, ghosts, env>>

\* wg-quick takes the interface down and up, or the host reboots.
Bounce ==
  /\ \A n \in Names : epoch[n] < MaxResets
  /\ count' = [n \in Names |-> IF count[n] = None THEN None ELSE Zero]
  /\ epoch' = [n \in Names |-> epoch[n] + 1]
  /\ UNCHANGED <<month, ledger, col, clear, ghosts, env>>

Midnight ==
  /\ month < MaxMonth
  /\ month' = month + 1
  /\ UNCHANGED <<count, epoch, ledger, col, clear, ghosts, env>>

\* The process dies, at any call, and is started again.
Crash ==
  /\ crashes < MaxCrashes
  /\ crashes' = crashes + 1
  /\ col' = Waiting
  /\ CutOff
  /\ UNCHANGED <<world, ledger, clear, last, ideal, clears, faults>>

-----------------------------------------------------------------------------

Collect == \/ Stats   \/ Parse    \/ BaseGet  \/ HasGet   \/ BaseSet \/ SnapGet
           \/ TotalGet \/ Reanchor \/ TotalSet \/ SnapSave \/ CallFails

Next ==
  \/ Collect
  \/ ClearTotals \/ ClearBaselines \/ ClearCutOff
  \/ \E n \in Names : Transfer(n) \/ Leave(n) \/ Join(n)
  \/ Bounce \/ Midnight \/ Crash

Spec == Init /\ [][Next]_vars

\* The ticker rings and the goroutine goes on.  No fairness for the world.
FairSpec == Spec /\ WF_vars(Collect)

-----------------------------------------------------------------------------

Sample == [at : Bytes, epoch : Nat]

Locals == [pc : Calls \cup {"idle"}, m : Months \cup {0},
           sample : [Names -> Sample \cup {None}],
           todo : SUBSET Names, p : Names \cup {None},
           b : Baseline \cup {None}, prev : Bytes \cup {None},
           stored : Bytes \cup {None}]

\* Every variable holds values of the kind the code keeps there; in particular
\* no total, offset or counter is ever negative.
TypeOK ==
  /\ count \in [Names -> Bytes \cup {None}]
  /\ epoch \in [Names -> Nat]
  /\ month \in Months
  /\ base  \in [Names -> [Months -> Baseline \cup {None}]]
  /\ total \in [Names -> [Months -> Bytes \cup {None}]]
  /\ snap  \in [Names -> Sample \cup {None}]
  /\ col \in Locals
  /\ clear \in Months \cup {0}
  /\ last \in [Names -> [month : Months, at : Bytes, epoch : Nat, hidden : BOOLEAN] \cup {None}]
  /\ {ideal, slack} \subseteq [Names -> [Months -> Bytes]]
  /\ torn \subseteq Names
  /\ {clears, faults, crashes} \subseteq Nat

\* A client is never charged, in a month, for bytes the samples of that month
\* do not show, except once more for what a slip left behind: a collection cut
\* off between the new baseline and the snapshot, a month that starts with a
\* baseline from before a reset, from a failed query or after a month's absence.
NeverOvercharged ==
  \A n \in Names, m \in Months : total[n][m] # None =>
    \A d \in Dirs : total[n][m][d] <= ideal[n][m][d] + slack[n][m][d]

\* Between two collections the total of the month is exactly what the samples
\* show, once the last of them is stored, whatever failed and died on the way,
\* unless a slip is behind, the totals were cleared, or bytes were hidden.
ExactBetweenSamples ==
  \A n \in Names :
    /\ col.pc = "idle" /\ last[n] # None /\ ~last[n].hidden
    /\ total[n][last[n].month] # None /\ n \notin torn
    /\ snap[n] = [at |-> last[n].at, epoch |-> last[n].epoch]
    /\ clear = 0 /\ clears = 0
    /\ \A m \in Months : slack[n][m] = Zero
    => total[n][last[n].month] = ideal[n][last[n].month]

\* Between two collections the three tables agree: the total is the offset and
\* what the latest snapshot counts from the baseline.  Only a clearing and a
\* failure together may leave it otherwise.
LedgerAgrees ==
  \A n \in Names \ torn :
    col.pc = "idle" /\ last[n] # None /\ (clears = 0 \/ faults + crashes = 0) =>
    LET b == base[n][last[n].month]
        t == total[n][last[n].month]
    IN b # None /\ t # None /\ clear = 0 =>
         \A d \in Dirs : /\ b.at[d] <= snap[n].at[d]
                         /\ t[d] = b.off[d] + (snap[n].at[d] - b.at[d])

\* A total the limit is compared with never goes down within its month, unless
\* the snapshot that goes with it was lost or the totals were cleared.
TotalsGrow ==
  [][\A n \in Names \ torn, m \in Months :
       /\ clear = 0 /\ clears = 0
       /\ total[n][m] # None /\ total'[n][m] # None
       => \A d \in Dirs : total[n][m][d] <= total'[n][m][d]]_total

\* "traffic counter reset detected" (the log of collect): the counters have been
\* reset since the baseline was written, so that no reset is counted twice.
ResetsCountedOnce ==
  [][Reanchor /\ col.p \notin torn /\ slack[col.p][col.m] = Zero =>
       base[col.p][col.m] = None
       \/ base[col.p][col.m].epoch # col.sample[col.p].epoch]_vars

\* Once the traffic pauses, the latest snapshot of every live client shows all
\* of it: no failure, crash or clearing makes the collector lose a client.
EventuallySampled ==
  \A n \in Names : <>[](count[n] # None => snap[n] # None /\ snap[n].at = count[n])

-----------------------------------------------------------------------------
(* What comments and texts say and the code does not keep.                  *)

\* The comment of resolveBaseline: a new calendar month starts from the counters
\* at its first collect.
MonthStartsFresh ==
  [][\A n \in Names, m \in Months \ {1} :
       total[n][m] = None /\ total'[n][m] # None /\ total[n][m - 1] # None =>
         \A d \in Dirs : total'[n][m][d] <= ideal[n][m][d]]_total

=============================================================================
