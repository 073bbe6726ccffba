-------------------------------- MODULE Views --------------------------------
(***************************************************************************)
(* The two answers that are put together from several queries: the list of *)
(* clients (List in internal/peer) and the statistics (handleStats in      *)
(* internal/api).  Each query is one step; between two of them the other   *)
(* requests and the collector go on writing.  What the answers say is      *)
(* compared with what was true while the request ran.                      *)
(*                                                                         *)
(* The writers are single statements, in any order: PeerService and        *)
(* Collector say more about when they come.  A total is upload and         *)
(* download together, and the rows are those of the month of the request;  *)
(* of a snapshot only `online` is kept.                                    *)
(***************************************************************************)
EXTENDS PeerTable, SequencesExt

CONSTANTS None,        \* no row, nothing read yet
          MaxTotal,    \* bytes of a client
          MaxWrites    \* statements of others while a request runs

ASSUME ViewBounds == MaxTotal \in Nat /\ MaxWrites \in Nat
ASSUME NoneAssumption == None \notin Nat \cup BOOLEAN \cup {"list", "stats"}

VARIABLES
  peers,    \* table peers
  totals,   \* table monthly_traffic, rows of the month
  online,   \* table usage_snapshots, latest rows
  request,  \* "list", "stats", or None when it is answered
  done,     \* queries it has made
  got,      \* what they returned
  answer,   \* its answer, None before and after an error
  writes,   \* statements of others so far
  seen      \* what held while it ran (history)

tables == <<peers, totals, online>>
vars   == <<tables, request, done, got, answer, writes, seen>>

\* A row as far as the views go.
RowOf(enabled, limit) ==
  [key |-> NoKey, enabled |-> enabled, cfg |-> NoCfg, limit |-> limit]

Rows == [key : {NoKey}, enabled : BOOLEAN, cfg : {NoCfg}, limit : Limits]

Recorded == {n \in Names : totals[n] # None}

Bytes(t, n) == IF t[n] = None THEN 0 ELSE t[n]

SumOf(t) == FoldFunctionOnSet(+, 0, [n \in Names |-> Bytes(t, n)], Names)

\* Mutants: the limit may be reached; 0, no limit, is taken for a limit.
ExceededStrictly(total, limit) == limit > 0 /\ total > limit
ExceededUnlimited(total, limit) == total >= limit

Exceeded(total, limit) == limit > 0 /\ total >= limit

-----------------------------------------------------------------------------
(* The queries.                                                              *)

\* Mutant: the statistics are read in the order in which they are shown.
QueriesSumLast(op) ==
  IF op = "list" THEN <<"peers", "usage", "monthly">> ELSE <<"usage", "monthly", "sum">>

\* The queries of List and of handleStats.
Queries(op) ==
  IF op = "list" THEN <<"peers", "usage", "monthly">> ELSE <<"sum", "usage", "monthly">>

\* MonthlyTrafficByPeer joins the totals with the limits of the moment.
Monthly ==
  [n \in Recorded |->
     LET limit == IF peers[n] = NoRow THEN 0 ELSE peers[n].limit
     IN [total |-> totals[n], over |-> Exceeded(totals[n], limit)]]

\* ListPeers, MonthlyTrafficTotals, LatestUsageByPeer.
Result(query) ==
  CASE query = "peers"   -> peers
    [] query = "sum"     -> SumOf(totals)
    [] query = "usage"   -> online
    [] query = "monthly" -> Monthly

NothingGot == [peers |-> None, sum |-> None, usage |-> None, monthly |-> None]

\* Mutant: the state of a client is not asked.
ListedAnyState(g) ==
  [n \in Present(g.peers) |->
     LET total == IF n \in DOMAIN g.monthly THEN g.monthly[n].total ELSE 0
     IN [online |-> g.usage[n] = TRUE, total |-> total,
         over   |-> \/ n \in DOMAIN g.monthly /\ g.monthly[n].over
                    \/ Exceeded(total, g.peers[n].limit)]]

\* The views of List: the limit of the row and the limit of the join both count.
Listed(g) ==
  [n \in Present(g.peers) |->
     LET total == IF n \in DOMAIN g.monthly THEN g.monthly[n].total ELSE 0
     IN [online |-> g.peers[n].enabled /\ g.usage[n] = TRUE, total |-> total,
         over   |-> \/ n \in DOMAIN g.monthly /\ g.monthly[n].over
                    \/ Exceeded(total, g.peers[n].limit)]]

\* The counts of the statistics.
Counted(g) ==
  [total  |-> g.sum,
   online |-> Cardinality({n \in Names : g.usage[n] = TRUE}),
   over   |-> Cardinality({n \in DOMAIN g.monthly : g.monthly[n].over}),
   byPeer |-> g.monthly]

-----------------------------------------------------------------------------

\* The clients that have used up their limit, the stopped ones, and the limits.
Over ==
  {n \in Present(peers) : totals[n] # None /\ 0 < peers[n].limit /\ peers[n].limit <= totals[n]}
Stopped   == {n \in Present(peers) : ~peers[n].enabled}
LimitsNow == {<<n, peers[n].limit>> : n \in Present(peers)}

Init ==
  /\ peers \in [Names -> Rows \cup {NoRow}]
  /\ totals \in [Names -> 0 .. MaxTotal \cup {None}]
  /\ online \in [Names -> BOOLEAN \cup {None}]
  /\ request \in {"list", "stats"}
  /\ done = 0 /\ got = NothingGot /\ answer = None
  /\ writes = 0
  /\ seen = [over |-> Over, stopped |-> Stopped, limits |-> LimitsNow,
             taken |-> [n \in Names |-> 0]]

\* One query of the request; the last one gives the answer.
Query ==
  /\ request # None
  /\ LET query == Queries(request)[done + 1]
     IN got' = [got EXCEPT ![query] = Result(query)]
  /\ done' = done + 1
  /\ IF done' < Len(Queries(request))
     THEN UNCHANGED <<request, answer>>
     ELSE /\ answer' = IF request = "list" THEN Listed(got') ELSE Counted(got')
          /\ request' = None
  /\ UNCHANGED <<tables, writes, seen>>

\* The database fails: the handler answers with the error.
QueryFails ==
  /\ request # None /\ request' = None
  /\ UNCHANGED <<tables, done, got, answer, writes, seen>>

\* The bytes the statement takes off the row of a client.
Fallen(n) ==
  IF Bytes(totals', n) < Bytes(totals, n) THEN Bytes(totals, n) - Bytes(totals', n) ELSE 0

\* A statement of another request or of the collector.
Writing ==
  /\ request # None
  /\ writes < MaxWrites /\ writes' = writes + 1
  /\ seen' = [over    |-> seen.over \cap Over',
              stopped |-> seen.stopped \cap Stopped',
              limits  |-> seen.limits \cup LimitsNow',
              taken   |-> [n \in Names |-> seen.taken[n] + Fallen(n)]]
  /\ UNCHANGED <<request, done, got, answer>>

\* Create, and the import of a new client.
WriteRow(n)      == peers' = UpsertRow(peers, n, RowOf(TRUE, 0)) /\ UNCHANGED <<totals, online>>
WriteLimit(n)    == /\ peers[n] # NoRow
                    /\ \E l \in Limits : peers' = SetLimit(peers, n, l)
                    /\ UNCHANGED <<totals, online>>
WriteSwitch(n)   == /\ peers[n] # NoRow
                    /\ \E e \in BOOLEAN : peers' = SetEnabled(peers, n, e)
                    /\ UNCHANGED <<totals, online>>
\* Revoke and the pruning.
WriteDelete(n)   == peers' = DeleteRow(peers, n) /\ UNCHANGED <<totals, online>>
\* SetMonthlyTraffic stores what it is given; after a snapshot that was not saved and
\* a reset that is less than the row has (TotalsGrow in Collector).
WriteTotal(n)    == /\ \E b \in 0 .. MaxTotal : totals' = [totals EXCEPT ![n] = b]
                    /\ UNCHANGED <<peers, online>>
\* SaveUsageSnapshot.
WriteSnapshot(n) == /\ \E o \in BOOLEAN : online' = [online EXCEPT ![n] = o]
                    /\ UNCHANGED <<peers, totals>>
\* The first statement of ResetMonthTraffic.
WriteClear       == totals' = [n \in Names |-> None] /\ UNCHANGED <<peers, online>>

Write ==
  /\ \/ \E n \in Names : \/ WriteRow(n)    \/ WriteLimit(n) \/ WriteSwitch(n)
                         \/ WriteDelete(n) \/ WriteTotal(n) \/ WriteSnapshot(n)
     \/ WriteClear
  /\ Writing

Next == Query \/ QueryFails \/ Write

Spec == Init /\ [][Next]_vars

-----------------------------------------------------------------------------

IsList  == answer # None /\ got.peers # None
IsStats == answer # None /\ got.sum # None

\* A client that has used up its limit from the start of the request to its end is
\* marked, in the list and in the statistics, whatever was written meanwhile.
OverLimitShown ==
  /\ IsList  => \A n \in seen.over : n \in DOMAIN answer /\ answer[n].over
  /\ IsStats => \A n \in seen.over : n \in DOMAIN answer.byPeer /\ answer.byPeer[n].over

\* A client is marked only for a limit it had while the request ran, and with a
\* total that reaches it: never against a limit that was lifted before.
MarksAreJustified ==
  LET justified(n, v) == \E l \in Limits : <<n, l>> \in seen.limits /\ 0 < l /\ l <= v.total
  IN /\ IsList  => \A n \in DOMAIN answer : answer[n].over => justified(n, answer[n])
     /\ IsStats => \A n \in DOMAIN answer.byPeer :
                     answer.byPeer[n].over => justified(n, answer.byPeer[n])

\* A client that was stopped all along is not shown online, though its last
\* snapshot may say so.
StoppedShownOffline ==
  IsList => \A n \in seen.stopped : n \in DOMAIN answer /\ ~answer[n].online

\* The total of the statistics, which is read first, is never more than what the
\* clients listed below it add up to, but for what was taken off their rows in
\* between: by a clearing of the month, or by a smaller total the collector stored.
TotalWithinRows ==
  LET rows == [n \in Names |-> IF n \in DOMAIN answer.byPeer THEN answer.byPeer[n].total ELSE None]
  IN IsStats => answer.total <= SumOf(rows) + SumOf(seen.taken)
=============================================================================
