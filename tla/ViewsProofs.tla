----------------------------- MODULE ViewsProofs -----------------------------
(***************************************************************************)
(* Proofs about the list and the statistics, for any clients, limits and   *)
(* any number of statements of others between the queries.  Three of the   *)
(* four properties follow from one invariant: what held all along holds    *)
(* now, and what the first query of the list returned was true then.       *)
(***************************************************************************)
EXTENDS Views, FiniteSetTheorems, TLAPS

\* What was seen agrees with the tables as they are.
SeenNow ==
  /\ seen.over \subseteq Over
  /\ seen.stopped \subseteq Stopped
  /\ LimitsNow \subseteq seen.limits

\* What was seen agrees with the rows the list has read.
SeenRead ==
  /\ seen.over \cup seen.stopped \subseteq Present(got.peers)
  /\ \A n \in seen.stopped : ~got.peers[n].enabled
  /\ \A n \in Present(got.peers) : <<n, got.peers[n].limit>> \in seen.limits

Progress ==
  /\ request # None =>
       /\ request \in {"list", "stats"}
       /\ done \in {0, 1, 2}
       /\ answer = None
       /\ SeenNow
       /\ request = "list"  => got.sum = None
       /\ request = "stats" => got.peers = None
       /\ request = "list" /\ done > 0 => SeenRead
  /\ IsList /\ IsStats => FALSE

ViewTypes ==
  /\ peers \in [Names -> Rows \cup {NoRow}]
  /\ totals \in [Names -> 0 .. MaxTotal \cup {None}]
  /\ seen \in [over : SUBSET Names, stopped : SUBSET Names,
               limits : SUBSET (Names \X Limits), taken : [Names -> Nat]]
  /\ DOMAIN got = {"peers", "sum", "usage", "monthly"}

Promises == OverLimitShown /\ MarksAreJustified /\ StoppedShownOffline

ViewInv == ViewTypes /\ Progress /\ Promises

-----------------------------------------------------------------------------

LEMMA RowFields ==
  \A r \in Rows : r \in Row /\ r # NoRow /\ r.limit \in Limits
                  /\ r.cfg = NoCfg /\ r.key = NoKey /\ r.enabled \in BOOLEAN
  <1> TAKE r \in Rows
  <1>1. NoCfg \in Cfg /\ NoKey \in Nat
    BY DEF NoCfg, Cfg, NoKey
  <1>2. r \in Row
    BY <1>1 DEF Rows, Row
  <1> QED BY <1>2, NoRowAssumption DEF Rows

LEMMA LimitsTyped ==
  ASSUME peers \in [Names -> Rows \cup {NoRow}]
  PROVE  LimitsNow \subseteq Names \X Limits
  BY RowFields DEF LimitsNow, Present

\* The statements of others keep the rows rows.
LEMMA WritesKeepRows ==
  ASSUME peers \in [Names -> Rows \cup {NoRow}], Write
  PROVE  peers' \in [Names -> Rows \cup {NoRow}]
  <1>1. ASSUME NEW n \in Names, WriteRow(n)
        PROVE peers' \in [Names -> Rows \cup {NoRow}]
    <2>1. RowOf(TRUE, 0) \in Rows
      BY LimitsAssumption DEF Rows, RowOf
    <2>2. CASE peers[n] = NoRow
      BY <1>1, <2>1, <2>2 DEF WriteRow, UpsertRow
    <2>3. CASE peers[n] # NoRow
      <3>1. peers[n] \in Rows
        BY <2>3
      <3> DEFINE row == [key |-> NoKey, enabled |-> TRUE, cfg |-> NoCfg, limit |-> peers[n].limit]
      <3>2. row \in Rows
        BY <3>1 DEF Rows
      <3>3. peers[n].cfg = NoCfg
        BY <3>1 DEF Rows
      <3>4. peers' = [peers EXCEPT ![n] = row]
        BY <1>1, <2>3, <3>3 DEF WriteRow, UpsertRow, RowOf
      <3> QED BY <3>2, <3>4
    <2> QED BY <2>2, <2>3
  <1>2. ASSUME NEW n \in Names, WriteLimit(n) \/ WriteSwitch(n)
        PROVE peers' \in [Names -> Rows \cup {NoRow}]
    <2>1. peers[n] \in Rows
      BY <1>2 DEF WriteLimit, WriteSwitch
    <2>2. CASE WriteLimit(n)
      <3>1. PICK l \in Limits : peers' = [peers EXCEPT ![n] = [peers[n] EXCEPT !.limit = l]]
        BY <2>2 DEF WriteLimit, SetLimit
      <3>2. [peers[n] EXCEPT !.limit = l] \in Rows
        BY <2>1 DEF Rows
      <3> QED BY <3>1, <3>2
    <2>3. CASE WriteSwitch(n)
      <3>1. PICK e \in BOOLEAN : peers' = [peers EXCEPT ![n] = [peers[n] EXCEPT !.enabled = e]]
        BY <2>3 DEF WriteSwitch, SetEnabled
      <3>2. [peers[n] EXCEPT !.enabled = e] \in Rows
        BY <2>1 DEF Rows
      <3> QED BY <3>1, <3>2
    <2> QED BY <1>2, <2>2, <2>3
  <1>3. ASSUME NEW n \in Names, WriteDelete(n) \/ WriteTotal(n) \/ WriteSnapshot(n)
        PROVE peers' \in [Names -> Rows \cup {NoRow}]
    BY <1>3 DEF WriteDelete, WriteTotal, WriteSnapshot, DeleteRow
  <1>4. CASE WriteClear
    BY <1>4 DEF WriteClear
  <1> QED BY <1>1, <1>2, <1>3, <1>4 DEF Write

LEMMA WriteTotals ==
  ASSUME totals \in [Names -> 0 .. MaxTotal \cup {None}], Write
  PROVE  totals' \in [Names -> 0 .. MaxTotal \cup {None}]
  <1>1. ASSUME NEW n \in Names, WriteTotal(n)
        PROVE  totals' \in [Names -> 0 .. MaxTotal \cup {None}]
    BY <1>1 DEF WriteTotal
  <1>2. CASE WriteClear
    BY <1>2 DEF WriteClear
  <1>3. ASSUME NEW n \in Names,
               WriteRow(n) \/ WriteLimit(n) \/ WriteSwitch(n) \/ WriteDelete(n) \/ WriteSnapshot(n)
        PROVE  totals' = totals
    BY <1>3 DEF WriteRow, WriteLimit, WriteSwitch, WriteDelete, WriteSnapshot
  <1> QED BY <1>1, <1>2, <1>3 DEF Write

\* What it takes off a row is a number of bytes, and the row keeps the rest.
LEMMA FallenIs ==
  ASSUME totals \in [Names -> 0 .. MaxTotal \cup {None}], Write, NEW n \in Names
  PROVE  /\ Bytes(totals, n) \in Nat /\ Bytes(totals', n) \in Nat /\ Fallen(n) \in Nat
         /\ Bytes(totals, n) <= Bytes(totals', n) + Fallen(n)
  <1> DEFINE a == Bytes(totals, n)
             b == Bytes(totals', n)
  <1>0. \A v \in 0 .. MaxTotal \cup {None} : v # None => v \in Nat
    BY ViewBounds
  <1>1. a \in Nat /\ b \in Nat
    <2>1. totals[n] \in 0 .. MaxTotal \cup {None} /\ totals'[n] \in 0 .. MaxTotal \cup {None}
      BY WriteTotals
    <2> QED BY <1>0, <2>1 DEF Bytes
  <1>2. Fallen(n) = IF b < a THEN a - b ELSE 0
    BY DEF Fallen
  <1> HIDE DEF a, b
  <1>3. CASE b < a
    <2>1. a - b \in Nat /\ a <= b + (a - b)
      BY <1>1, <1>3
    <2> QED BY <1>1, <1>2, <1>3, <2>1 DEF a, b
  <1>4. CASE ~ (b < a)
    <2>1. a <= b + 0 /\ Fallen(n) = 0
      BY <1>1, <1>2, <1>4
    <2> QED BY <1>1, <2>1 DEF a, b
  <1> QED BY <1>3, <1>4

LEMMA InitView == Init => ViewInv
  <1> SUFFICES ASSUME Init PROVE ViewInv
    OBVIOUS
  <1>1. ViewTypes
    BY LimitsTyped DEF Init, ViewTypes, Over, Stopped, Present, NothingGot
  <1>2. Progress
    BY DEF Init, Progress, SeenNow, IsList, IsStats, NothingGot
  <1>3. Promises
    BY DEF Init, Promises, OverLimitShown, MarksAreJustified, StoppedShownOffline, IsList, IsStats
  <1> QED BY <1>1, <1>2, <1>3 DEF ViewInv

LEMMA WriteView == ViewInv /\ Write => ViewInv'
  <1> SUFFICES ASSUME ViewInv, Write PROVE ViewInv'
    OBVIOUS
  <1> USE DEF ViewInv
  <1>1. Writing
    BY DEF Write
  <1>2. peers' \in [Names -> Rows \cup {NoRow}]
    BY WritesKeepRows DEF ViewTypes
  <1>3. LimitsNow' \subseteq Names \X Limits
    BY <1>2, RowFields DEF LimitsNow, Present
  <1>10. totals' \in [Names -> 0 .. MaxTotal \cup {None}]
    BY WriteTotals DEF ViewTypes
  <1>11. [n \in Names |-> seen.taken[n] + Fallen(n)] \in [Names -> Nat]
    BY FallenIs DEF ViewTypes
  <1>4. ViewTypes'
    BY <1>1, <1>2, <1>3, <1>10, <1>11 DEF Writing, ViewTypes
  <1>5. SeenNow'
    BY <1>1 DEF Writing, SeenNow
  <1>6. SeenRead => SeenRead'
    BY <1>1 DEF Writing, SeenRead, Present
  <1>7. answer = None /\ UNCHANGED <<request, done, got, answer>>
    BY <1>1 DEF Writing, Progress
  <1>8. Progress'
    BY <1>5, <1>6, <1>7 DEF Progress, IsList, IsStats
  <1>9. Promises'
    BY <1>7 DEF Promises, OverLimitShown, MarksAreJustified, StoppedShownOffline, IsList, IsStats
  <1> QED BY <1>4, <1>8, <1>9

\* The rows of MonthlyTrafficByPeer agree with what is seen at that moment.
LEMMA JoinedNow ==
  ASSUME ViewTypes, SeenNow
  PROVE  /\ \A n \in seen.over : n \in DOMAIN Monthly /\ Monthly[n].over
         /\ \A n \in DOMAIN Monthly : Monthly[n].over =>
              \E l \in Limits : <<n, l>> \in seen.limits /\ 0 < l /\ l <= Monthly[n].total
  <1>1. ASSUME NEW n \in seen.over
        PROVE n \in DOMAIN Monthly /\ Monthly[n].over
    BY <1>1 DEF SeenNow, Over, Present, Monthly, Recorded, Exceeded
  <1>2. ASSUME NEW n \in DOMAIN Monthly, Monthly[n].over
        PROVE \E l \in Limits : <<n, l>> \in seen.limits /\ 0 < l /\ l <= Monthly[n].total
    <2>1. n \in Names /\ Monthly[n].total = totals[n]
      BY <1>2 DEF Monthly, Recorded
    <2>2. CASE peers[n] = NoRow
      <3>1. Monthly[n].over = Exceeded(totals[n], 0)
        BY <2>1, <2>2, <1>2 DEF Monthly
      <3>2. ~Exceeded(totals[n], 0)
        BY DEF Exceeded
      <3> QED BY <1>2, <3>1, <3>2
    <2>3. CASE peers[n] # NoRow
      <3>1. peers[n].limit \in Limits /\ <<n, peers[n].limit>> \in seen.limits
        BY <2>1, <2>3, RowFields DEF ViewTypes, SeenNow, LimitsNow, Present
      <3>2. 0 < peers[n].limit /\ peers[n].limit <= totals[n]
        BY <1>2, <2>1, <2>3, LimitsAssumption, <3>1 DEF Monthly, Recorded, Exceeded
      <3> QED BY <2>1, <3>1, <3>2
    <2> QED BY <2>2, <2>3
  <1> QED BY <1>1, <1>2

\* The first query of the list.
LEMMA FirstOfList ==
  ASSUME ViewInv, Query, request = "list", done = 0
  PROVE  ViewInv'
  <1> USE DEF ViewInv
  <1>1. got' = [got EXCEPT !["peers"] = peers] /\ done' = 1
    BY DEF Query, Queries, Result
  <1>2. UNCHANGED <<request, answer, tables, seen>>
    BY <1>1 DEF Query, Queries
  <1>3. got'.peers = peers /\ got'.sum = got.sum
    BY <1>1 DEF ViewTypes
  <1>4. ViewTypes'
    BY <1>1, <1>2 DEF ViewTypes, tables
  <1>5. SeenNow /\ SeenNow'
    BY <1>2, NoneAssumption DEF Progress, SeenNow, Over, Stopped, LimitsNow, Present, tables
  <1>6. SeenRead'
    BY <1>2, <1>3, <1>5 DEF SeenRead, SeenNow, Over, Stopped, LimitsNow, Present
  <1>7. Progress' /\ Promises'
    BY <1>1, <1>2, <1>3, <1>5, <1>6, NoneAssumption DEF Progress, Promises, OverLimitShown,
       MarksAreJustified, StoppedShownOffline, IsList, IsStats
  <1> QED BY <1>4, <1>7

\* A query that neither begins a list nor ends a request.
LEMMA Middle ==
  ASSUME ViewInv, Query,
         (request = "list" /\ done = 1) \/ (request = "stats" /\ done \in {0, 1})
  PROVE  ViewInv'
  <1> USE DEF ViewInv
  <1>1. PICK q \in {"sum", "usage"} :
          got' = [got EXCEPT ![q] = Result(q)] /\ (request = "list" => q = "usage")
    <2>1. CASE request = "list" /\ done = 1
      BY <2>1 DEF Query, Queries
    <2>2. CASE request = "stats" /\ done = 0
      BY <2>2 DEF Query, Queries
    <2>3. CASE request = "stats" /\ done = 1
      BY <2>3 DEF Query, Queries
    <2> QED BY <2>1, <2>2, <2>3
  <1>2. UNCHANGED <<request, answer, tables, seen>> /\ done' = done + 1
    BY DEF Query, Queries
  <1>3. got'.peers = got.peers /\ (request = "list" => got'.sum = got.sum)
    BY <1>1 DEF ViewTypes
  <1>4. ViewTypes'
    BY <1>1, <1>2 DEF ViewTypes, tables
  <1>5. SeenNow /\ SeenNow'
    BY <1>2, NoneAssumption DEF Progress, SeenNow, Over, Stopped, LimitsNow, Present, tables
  <1>6. SeenRead => SeenRead'
    BY <1>2, <1>3 DEF SeenRead, Present
  <1>7. Progress' /\ Promises'
    BY <1>2, <1>3, <1>5, <1>6, NoneAssumption DEF Progress, Promises, OverLimitShown,
       MarksAreJustified, StoppedShownOffline, IsList, IsStats
  <1> QED BY <1>4, <1>7

\* The last query and the answer of the list.
LEMMA EndOfList ==
  ASSUME ViewInv, Query, request = "list", done = 2
  PROVE  ViewInv'
  <1> USE DEF ViewInv
  <1>1. got' = [got EXCEPT !["monthly"] = Monthly]
    BY DEF Query, Queries, Result
  <1>2. request' = None /\ answer' = Listed(got') /\ UNCHANGED <<tables, seen>>
    BY DEF Query, Queries
  <1>3. got'.peers = got.peers /\ got'.sum = None /\ got'.monthly = Monthly
    BY <1>1, NoneAssumption DEF ViewTypes, Progress
  <1>4. ViewTypes'
    BY <1>1, <1>2 DEF ViewTypes, tables
  <1>5. SeenNow /\ SeenRead
    BY NoneAssumption DEF Progress
  <1>6. DOMAIN answer' = Present(got.peers)
    BY <1>2, <1>3 DEF Listed, Present
  <1>7. \A n \in seen.over : n \in DOMAIN answer' /\ answer'[n].over
    <2> TAKE n \in seen.over
    <2>1. n \in Present(got.peers) /\ n \in DOMAIN Monthly /\ Monthly[n].over
      BY <1>5, JoinedNow DEF SeenRead
    <2> QED BY <2>1, <1>2, <1>3, <1>6 DEF Listed, Present
  <1>8. \A n \in seen.stopped : n \in DOMAIN answer' /\ ~answer'[n].online
    <2> TAKE n \in seen.stopped
    <2>1. n \in Present(got.peers) /\ ~got.peers[n].enabled
      BY <1>5 DEF SeenRead
    <2> QED BY <2>1, <1>2, <1>3, <1>6 DEF Listed, Present
  <1>9. ASSUME NEW n \in DOMAIN answer', answer'[n].over
        PROVE  \E l \in Limits : <<n, l>> \in seen.limits /\ 0 < l /\ l <= answer'[n].total
    <2>1. n \in Present(got.peers)
      BY <1>6, <1>9
    <2>2. answer'[n].total = IF n \in DOMAIN Monthly THEN Monthly[n].total ELSE 0
      BY <1>2, <1>3, <2>1 DEF Listed, Present
    <2>3. CASE n \in DOMAIN Monthly /\ Monthly[n].over
      BY <2>2, <2>3, <1>5, JoinedNow
    <2>4. CASE Exceeded(answer'[n].total, got.peers[n].limit)
      <3>1. <<n, got.peers[n].limit>> \in seen.limits /\ got.peers[n].limit \in Limits
        BY <1>5, <2>1 DEF SeenRead, ViewTypes
      <3> QED BY <3>1, <2>4 DEF Exceeded
    <2> QED BY <1>2, <1>3, <1>9, <2>1, <2>2, <2>3, <2>4 DEF Listed, Present
  <1>10. ~IsStats'
    BY <1>3 DEF IsStats
  <1>11. Promises'
    BY <1>2, <1>7, <1>8, <1>9, <1>10
    DEF Promises, OverLimitShown, MarksAreJustified, StoppedShownOffline
  <1>12. Progress'
    BY <1>2, <1>10 DEF Progress
  <1> QED BY <1>4, <1>11, <1>12

\* The last query and the answer of the statistics.
LEMMA EndOfStats ==
  ASSUME ViewInv, Query, request = "stats", done = 2
  PROVE  ViewInv'
  <1> USE DEF ViewInv
  <1>1. got' = [got EXCEPT !["monthly"] = Monthly]
    BY DEF Query, Queries, Result
  <1>2. request' = None /\ answer' = Counted(got') /\ UNCHANGED <<tables, seen>>
    BY DEF Query, Queries
  <1>3. got'.peers = None /\ got'.monthly = Monthly
    BY <1>1, NoneAssumption DEF ViewTypes, Progress
  <1>4. ViewTypes'
    BY <1>1, <1>2 DEF ViewTypes, tables
  <1>5. SeenNow
    BY NoneAssumption DEF Progress
  <1>6. answer'.byPeer = Monthly
    BY <1>2, <1>3 DEF Counted
  <1>7. ~IsList'
    BY <1>3 DEF IsList
  <1>8. Promises'
    BY <1>2, <1>5, <1>6, <1>7, JoinedNow
    DEF Promises, OverLimitShown, MarksAreJustified, StoppedShownOffline
  <1>9. Progress'
    BY <1>2, <1>7 DEF Progress
  <1> QED BY <1>4, <1>8, <1>9

LEMMA StepView == ViewInv /\ [Next]_vars => ViewInv'
  <1> SUFFICES ASSUME ViewInv, [Next]_vars PROVE ViewInv'
    OBVIOUS
  <1>1. CASE Query
    <2>1. request \in {"list", "stats"} /\ done \in {0, 1, 2}
      BY <1>1 DEF Query, ViewInv, Progress
    <2> QED BY <1>1, <2>1, FirstOfList, Middle, EndOfList, EndOfStats
  <1>2. CASE QueryFails
    BY <1>2 DEF QueryFails, ViewInv, ViewTypes, Progress, Promises, OverLimitShown,
       MarksAreJustified, StoppedShownOffline, IsList, IsStats, tables
  <1>3. CASE Write
    BY <1>3, WriteView
  <1>4. CASE UNCHANGED vars
    BY <1>4 DEF vars, tables, ViewInv, ViewTypes, Progress, SeenNow, SeenRead, Over, Stopped,
       LimitsNow, Present, Promises, OverLimitShown, MarksAreJustified, StoppedShownOffline,
       IsList, IsStats
  <1> QED BY <1>1, <1>2, <1>3, <1>4 DEF Next

\* A client that is over its limit from the first query to the last is marked in both
\* answers, for any number of writes between the queries: the row, the limit and the
\* total are read at three different moments.
THEOREM OverLimitIsShown == Spec => []OverLimitShown
  <1>1. ViewInv => OverLimitShown
    BY DEF ViewInv, Promises
  <1> QED BY <1>1, InitView, StepView, PTL DEF Spec

\* A mark is never for a limit that was lifted before the request came, nor with a total
\* below the limit, though List compares with the limits of two different moments.
THEOREM MarksStayJustified == Spec => []MarksAreJustified
  <1>1. ViewInv => MarksAreJustified
    BY DEF ViewInv, Promises
  <1> QED BY <1>1, InitView, StepView, PTL DEF Spec

\* A client that is stopped all along is listed, and not as online, whatever its last
\* snapshot says.
THEOREM StoppedAreOffline == Spec => []StoppedShownOffline
  <1>1. ViewInv => StoppedShownOffline
    BY DEF ViewInv, Promises
  <1> QED BY <1>1, InitView, StepView, PTL DEF Spec

-----------------------------------------------------------------------------
(* Sums.  SumOf folds + over a set in an unspecified order; that the order    *)
(* does not matter, and that more and larger numbers give more, is shown by   *)
(* smallest exceptions.                                                       *)

\* Among the finite subsets of S in T there is one that contains no other: a
\* statement about finite sets is proved by looking at a smallest exception.
LEMMA MinimalSet ==
  ASSUME NEW S, NEW T \in SUBSET FiniteSubsetsOf(S), T # {}
  PROVE  \E x \in T : \A y \in T : y \subseteq x => y = x
  <1> DEFINE R == StrictSubsetOrdering(S)
  <1>1. IsWellFoundedOn(R, FiniteSubsetsOf(S))
    BY FS_StrictSubsetOrderingWellFounded
  <1>2. \E x \in T : \A y \in T : ~ (<<y, x>> \in R)
    <2> HIDE DEF R
    <2> QED BY <1>1, WFMin
  <1>3. \A x, y \in T : y \subseteq x /\ y # x => <<y, x>> \in R
    BY DEF StrictSubsetOrdering, FiniteSubsetsOf
  <1> QED BY <1>2, <1>3

First(s) == CHOOSE x \in s : TRUE

\* h adds up t over every subset of S, the way SumOf does.
Adds(t, h, S) ==
  h = [s \in SUBSET S |-> IF s = {} THEN 0
                          ELSE t[CHOOSE x \in s : TRUE] + h[s \ {CHOOSE x \in s : TRUE}]]

\* What t adds up to over S.
Added(t, S) == FoldFunctionOnSet(+, 0, t, S)

LEMMA SumIsFold ==
  ASSUME NEW t, NEW S
  PROVE  Added(t, S) = (CHOOSE h : Adds(t, h, S))[S]
  BY DEF Added, FoldFunctionOnSet, MapThenFoldSet, Adds

LEMMA AddsAt ==
  ASSUME NEW t, NEW S, NEW h, Adds(t, h, S), NEW s \in SUBSET S
  PROVE  /\ s = {} => h[s] = 0
         /\ s # {} => First(s) \in s /\ h[s] = t[First(s)] + h[s \ {First(s)}]
  BY DEF Adds, First

\* Two that add up agree where both are defined.
LEMMA AddsOnce ==
  ASSUME NEW t, NEW U, IsFiniteSet(U), NEW A \in SUBSET U, NEW B \in SUBSET U,
         NEW g, NEW h, Adds(t, g, A), Adds(t, h, B)
  PROVE  \A s \in SUBSET (A \cap B) : g[s] = h[s]
  <1> DEFINE T == {s \in SUBSET (A \cap B) : g[s] # h[s]}
  <1> SUFFICES ASSUME T # {} PROVE FALSE
    OBVIOUS
  <1>1. T \subseteq FiniteSubsetsOf(U)
    BY FS_Subset DEF FiniteSubsetsOf
  <1>2. PICK s \in T : \A r \in T : r \subseteq s => r = s
    <2> HIDE DEF T
    <2> QED BY <1>1, MinimalSet
  <1>3. s = {} => g[s] = 0 /\ h[s] = 0
    BY AddsAt
  <1>4. s # {} => /\ First(s) \in s
                  /\ g[s] = t[First(s)] + g[s \ {First(s)}]
                  /\ h[s] = t[First(s)] + h[s \ {First(s)}]
    BY AddsAt
  <1>5. s # {} => g[s \ {First(s)}] = h[s \ {First(s)}]
    BY <1>2, <1>4
  <1> QED BY <1>3, <1>4, <1>5

\* There is one that adds up.
LEMMA AddsExists ==
  ASSUME NEW t, NEW U, IsFiniteSet(U)
  PROVE  \A A \in SUBSET U : \E h : Adds(t, h, A)
  <1> DEFINE T == {A \in SUBSET U : ~ \E h : Adds(t, h, A)}
  <1> SUFFICES ASSUME T # {} PROVE FALSE
    OBVIOUS
  <1>1. T \subseteq FiniteSubsetsOf(U)
    BY FS_Subset DEF FiniteSubsetsOf
  <1>2. PICK A \in T : \A B \in T : B \subseteq A => B = A
    <2> HIDE DEF T
    <2> QED BY <1>1, MinimalSet
  <1> DEFINE part(s) == CHOOSE g : Adds(t, g, s)
             rest(s) == s \ {First(s)}
             h == [s \in SUBSET A |-> IF s = {} THEN 0 ELSE t[First(s)] + part(rest(s))[rest(s)]]
  <1>3. \A s \in SUBSET A : s # {} => First(s) \in s
    BY DEF First
  <1>4. \A s \in SUBSET A : s # A => Adds(t, part(s), s)
    BY <1>2
  <1>5. ASSUME NEW s \in SUBSET A, s # A
        PROVE  h[s] = part(s)[s]
    <2>1. Adds(t, part(s), s)
      BY <1>4, <1>5
    <2>2. CASE s = {}
      <3>1. h[s] = 0
        BY <2>2
      <3>2. part(s)[s] = 0
        <4> HIDE DEF part
        <4> QED BY <2>1, <2>2, AddsAt
      <3> QED BY <3>1, <3>2
    <2>3. CASE s # {}
      <3>1. rest(s) \in SUBSET A /\ rest(s) # A /\ rest(s) \subseteq s
        BY <2>3, <1>3, <1>5
      <3>2. h[s] = t[First(s)] + part(rest(s))[rest(s)]
        BY <2>3
      <3>3. Adds(t, part(rest(s)), rest(s))
        <4> HIDE DEF part, rest
        <4> QED BY <3>1, <1>4
      <3>4. part(s)[s] = t[First(s)] + part(s)[rest(s)]
        <4> HIDE DEF part
        <4> QED BY <2>1, <2>3, AddsAt
      <3>5. part(s)[rest(s)] = part(rest(s))[rest(s)]
        <4> HIDE DEF part, rest
        <4> QED BY <2>1, <3>1, <3>3, AddsOnce
      <3> QED BY <3>2, <3>4, <3>5
    <2> QED BY <2>2, <2>3
  <1>6. ASSUME NEW s \in SUBSET A, s # {}
        PROVE  h[rest(s)] = part(rest(s))[rest(s)]
    <2>1. rest(s) \in SUBSET A /\ rest(s) # A
      BY <1>3, <1>6
    <2> HIDE DEF h, part, rest
    <2> QED BY <2>1, <1>5
  <1>7. h = [s \in SUBSET A |-> IF s = {} THEN 0 ELSE t[First(s)] + h[s \ {First(s)}]]
    <2>1. \A s \in SUBSET A : (IF s = {} THEN 0 ELSE t[First(s)] + part(rest(s))[rest(s)])
                             = IF s = {} THEN 0 ELSE t[First(s)] + h[rest(s)]
      <3> HIDE DEF h, part, rest
      <3> QED BY <1>6
    <2> DEFINE k == [s \in SUBSET A |-> IF s = {} THEN 0 ELSE t[First(s)] + h[rest(s)]]
    <2>2. h = k
      <3> HIDE DEF part, rest
      <3> QED BY <2>1
    <2> QED BY <2>2
  <1>8. Adds(t, h, A)
    <2> HIDE DEF h
    <2> QED BY <1>7 DEF Adds, First
  <1> QED BY <1>8, <1>2

LEMMA SumStep ==
  ASSUME NEW t, NEW S, IsFiniteSet(S)
  PROVE  /\ S = {} => Added(t, S) = 0
         /\ S # {} => \E x \in S : Added(t, S) = t[x] + Added(t, S \ {x})
  <1> DEFINE part(R) == CHOOSE g : Adds(t, g, R)
             rest    == S \ {First(S)}
  <1>1. \A R \in SUBSET S : Adds(t, part(R), R)
    BY AddsExists
  <1>2. \A R : Added(t, R) = part(R)[R]
    BY SumIsFold
  <1> HIDE DEF part
  <1>3. Adds(t, part(S), S) /\ Adds(t, part(rest), rest)
    BY <1>1
  <1>4. S = {} => part(S)[S] = 0
    BY <1>3, AddsAt
  <1>5. S # {} => First(S) \in S /\ part(S)[S] = t[First(S)] + part(S)[rest]
    BY <1>3, AddsAt
  <1>6. part(S)[rest] = part(rest)[rest]
    <2> HIDE DEF rest
    <2>1. rest \in SUBSET S
      BY DEF rest
    <2> QED BY <2>1, <1>3, AddsOnce
  <1> QED BY <1>2, <1>4, <1>5, <1>6

LEMMA SumNat ==
  ASSUME NEW U, IsFiniteSet(U), NEW t, \A x \in U : t[x] \in Nat
  PROVE  \A S \in SUBSET U : Added(t, S) \in Nat
  <1> DEFINE T == {S \in SUBSET U : Added(t, S) \notin Nat}
  <1> SUFFICES ASSUME T # {} PROVE FALSE
    OBVIOUS
  <1>1. T \subseteq FiniteSubsetsOf(U)
    BY FS_Subset DEF FiniteSubsetsOf
  <1>2. PICK S \in T : \A R \in T : R \subseteq S => R = S
    <2> HIDE DEF T
    <2> QED BY <1>1, MinimalSet
  <1>3. IsFiniteSet(S)
    BY FS_Subset
  <1>4. PICK x \in S : Added(t, S) = t[x] + Added(t, S \ {x})
    BY <1>2, <1>3, SumStep
  <1>5. Added(t, S \ {x}) \in Nat
    BY <1>2
  <1> QED BY <1>2, <1>4, <1>5

LEMMA SumAny ==
  ASSUME NEW U, IsFiniteSet(U), NEW t, \A x \in U : t[x] \in Nat
  PROVE  \A S \in SUBSET U : \A x \in S : Added(t, S) = t[x] + Added(t, S \ {x})
  <1> DEFINE T == {S \in SUBSET U : \E x \in S : Added(t, S) # t[x] + Added(t, S \ {x})}
  <1> SUFFICES ASSUME T # {} PROVE FALSE
    OBVIOUS
  <1>1. T \subseteq FiniteSubsetsOf(U)
    BY FS_Subset DEF FiniteSubsetsOf
  <1>2. PICK S \in T : \A R \in T : R \subseteq S => R = S
    <2> HIDE DEF T
    <2> QED BY <1>1, MinimalSet
  <1>3. PICK x \in S : Added(t, S) # t[x] + Added(t, S \ {x})
    OBVIOUS
  <1>4. IsFiniteSet(S)
    BY FS_Subset
  <1>5. PICK c \in S : Added(t, S) = t[c] + Added(t, S \ {c})
    BY <1>3, <1>4, SumStep
  <1>6. c # x
    BY <1>3, <1>5
  <1>0. \A R \in SUBSET S : R # S => R \notin T
    BY <1>2
  <1>7. Added(t, S \ {c}) = t[x] + Added(t, (S \ {c}) \ {x})
    <2>1. S \ {c} \in SUBSET U /\ x \in S \ {c}
      BY <1>6
    <2>2. S \ {c} \notin T
      BY <1>0
    <2> QED BY <2>1, <2>2
  <1>8. Added(t, S \ {x}) = t[c] + Added(t, (S \ {x}) \ {c})
    <2>1. S \ {x} \in SUBSET U /\ c \in S \ {x}
      BY <1>6
    <2>2. S \ {x} \notin T
      BY <1>0
    <2> QED BY <2>1, <2>2
  <1>9. (S \ {c}) \ {x} = (S \ {x}) \ {c}
    OBVIOUS
  <1>10. Added(t, (S \ {x}) \ {c}) \in Nat
    BY SumNat
  <1>11. t[x] \in Nat /\ t[c] \in Nat
    OBVIOUS
  <1>12. Added(t, S) = t[c] + (t[x] + Added(t, (S \ {x}) \ {c}))
    BY <1>5, <1>7, <1>9
  <1>13. t[x] + Added(t, S \ {x}) = t[x] + (t[c] + Added(t, (S \ {x}) \ {c}))
    BY <1>8
  <1> QED BY <1>3, <1>10, <1>11, <1>12, <1>13

\* Two sums, when the second grows by at least what the first falls, row by row.
LEMMA SumBalanced ==
  ASSUME NEW U, IsFiniteSet(U), NEW t, NEW k, NEW u, NEW l,
         \A x \in U : /\ t[x] \in Nat /\ k[x] \in Nat /\ u[x] \in Nat /\ l[x] \in Nat
                      /\ t[x] + k[x] <= u[x] + l[x]
  PROVE  Added(t, U) + Added(k, U) <= Added(u, U) + Added(l, U)
  <1> DEFINE T == {S \in SUBSET U : ~(Added(t, S) + Added(k, S) <= Added(u, S) + Added(l, S))}
  <1> SUFFICES ASSUME T # {} PROVE FALSE
    OBVIOUS
  <1>1. T \subseteq FiniteSubsetsOf(U)
    BY FS_Subset DEF FiniteSubsetsOf
  <1>2. PICK S \in T : \A R \in T : R \subseteq S => R = S
    <2> HIDE DEF T
    <2> QED BY <1>1, MinimalSet
  <1>3. IsFiniteSet(S)
    BY FS_Subset
  <1>4. CASE S = {}
    <2>1. Added(t, S) = 0 /\ Added(k, S) = 0 /\ Added(u, S) = 0 /\ Added(l, S) = 0
      BY <1>3, <1>4, SumStep
    <2> QED BY <1>2, <2>1
  <1>5. CASE S # {}
    <2>1. PICK x \in S : TRUE
      BY <1>5
    <2> DEFINE R == S \ {x}
    <2>2. R \in SUBSET U /\ R \notin T
      BY <1>2, <2>1
    <2>3. /\ Added(t, S) = t[x] + Added(t, R) /\ Added(k, S) = k[x] + Added(k, R)
          /\ Added(u, S) = u[x] + Added(u, R) /\ Added(l, S) = l[x] + Added(l, R)
      BY <2>1, SumAny
    <2>4. /\ Added(t, R) \in Nat /\ Added(k, R) \in Nat
          /\ Added(u, R) \in Nat /\ Added(l, R) \in Nat
      BY <2>2, SumNat
    <2>5. Added(t, R) + Added(k, R) <= Added(u, R) + Added(l, R)
      BY <2>2
    <2>6. ~(Added(t, S) + Added(k, S) <= Added(u, S) + Added(l, S))
      BY <1>2
    <2>7. /\ t[x] \in Nat /\ k[x] \in Nat /\ u[x] \in Nat /\ l[x] \in Nat
          /\ t[x] + k[x] <= u[x] + l[x]
      BY <2>1
    <2> HIDE DEF R, T
    <2> QED BY <2>3, <2>4, <2>5, <2>6, <2>7
  <1> QED BY <1>4, <1>5

-----------------------------------------------------------------------------
(* The total of the statistics.                                               *)

SumIsLow ==
  request = "stats" /\ done > 0 =>
    got.sum \in Nat /\ got.sum <= SumOf(totals) + SumOf(seen.taken)

TotalInv == SumIsLow /\ TotalWithinRows

RowBytes(t) == [n \in Names |-> Bytes(t, n)]

LEMMA SumsAre ==
  ASSUME IsFiniteSet(Names), NEW t \in [Names -> Nat \cup {None}]
  PROVE  /\ SumOf(t) = Added(RowBytes(t), Names) /\ SumOf(t) \in Nat
         /\ \A n \in Names : RowBytes(t)[n] = Bytes(t, n) /\ Bytes(t, n) \in Nat
  <1>1. SumOf(t) = Added(RowBytes(t), Names)
    BY DEF SumOf, Added, RowBytes
  <1>2. \A n \in Names : RowBytes(t)[n] = Bytes(t, n) /\ Bytes(t, n) \in Nat
    BY DEF RowBytes, Bytes
  <1>3. Added(RowBytes(t), Names) \in Nat
    BY <1>2, SumNat
  <1> QED BY <1>1, <1>2, <1>3

LEMMA TotalsAreBytes ==
  ASSUME NEW t \in [Names -> 0 .. MaxTotal \cup {None}]
  PROVE  t \in [Names -> Nat \cup {None}]
  <1>1. 0 .. MaxTotal \cup {None} \subseteq Nat \cup {None}
    BY ViewBounds
  <1> QED BY <1>1

\* What a statement of another request takes off a row is counted, so that the rows
\* and what was taken off them add up to no less than before.
LEMMA WriteBalances ==
  ASSUME IsFiniteSet(Names), ViewTypes, Write
  PROVE  /\ seen'.taken \in [Names -> Nat]
         /\ SumOf(totals) + SumOf(seen.taken) <= SumOf(totals') + SumOf(seen'.taken)
  <1> DEFINE t == totals
             k == seen.taken
             u == totals'
             l == seen'.taken
  <1>1. t \in [Names -> Nat \cup {None}] /\ u \in [Names -> Nat \cup {None}]
    BY WriteTotals, TotalsAreBytes DEF ViewTypes
  <1>2. k \in [Names -> Nat]
    BY DEF ViewTypes
  <1>3. l = [n \in Names |-> k[n] + Fallen(n)]
    BY DEF Write, Writing
  <1>5. \A n \in Names :
          /\ Bytes(t, n) \in Nat /\ Bytes(u, n) \in Nat /\ Fallen(n) \in Nat
          /\ Bytes(t, n) <= Bytes(u, n) + Fallen(n)
    BY FallenIs DEF ViewTypes
  <1> HIDE DEF t, u, k, l
  <1>7. l \in [Names -> Nat]
    BY <1>2, <1>3, <1>5
  <1>8. \A n \in Names : Bytes(k, n) = k[n] /\ Bytes(l, n) = l[n]
    BY <1>2, <1>7, NoneAssumption DEF Bytes
  <1>9. k \in [Names -> Nat \cup {None}] /\ l \in [Names -> Nat \cup {None}]
    BY <1>2, <1>7
  <1>10. \A n \in Names :
           /\ RowBytes(t)[n] \in Nat /\ RowBytes(k)[n] \in Nat
           /\ RowBytes(u)[n] \in Nat /\ RowBytes(l)[n] \in Nat
           /\ RowBytes(t)[n] + RowBytes(k)[n] <= RowBytes(u)[n] + RowBytes(l)[n]
    <2> TAKE n \in Names
    <2>1. /\ RowBytes(t)[n] = Bytes(t, n) /\ RowBytes(u)[n] = Bytes(u, n)
          /\ RowBytes(k)[n] = k[n] /\ RowBytes(l)[n] = l[n]
      BY <1>1, <1>8, <1>9, SumsAre
    <2>2. l[n] = k[n] + Fallen(n) /\ k[n] \in Nat /\ l[n] \in Nat
      BY <1>2, <1>3, <1>7
    <2> QED BY <1>5, <2>1, <2>2
  <1>11. Added(RowBytes(t), Names) + Added(RowBytes(k), Names)
           <= Added(RowBytes(u), Names) + Added(RowBytes(l), Names)
    BY <1>10, SumBalanced
  <1>12. SumOf(t) + SumOf(k) <= SumOf(u) + SumOf(l)
    BY <1>1, <1>9, <1>11, SumsAre
  <1> QED BY <1>7, <1>12 DEF t, u, k, l

LEMMA WriteKeepsTotal ==
  ASSUME IsFiniteSet(Names), ViewInv, TotalInv, Write
  PROVE  TotalInv'
  <1>1. UNCHANGED <<request, done, got, answer>>
    BY DEF Write, Writing
  <1>2. totals' \in [Names -> 0 .. MaxTotal \cup {None}]
    BY WriteTotals DEF ViewInv, ViewTypes
  <1>3. /\ seen'.taken \in [Names -> Nat]
        /\ SumOf(totals) + SumOf(seen.taken) <= SumOf(totals') + SumOf(seen'.taken)
    BY WriteBalances DEF ViewInv
  <1>4. /\ SumOf(totals) \in Nat /\ SumOf(seen.taken) \in Nat
        /\ SumOf(totals') \in Nat /\ SumOf(seen'.taken) \in Nat
    <2>1. totals \in [Names -> Nat \cup {None}] /\ totals' \in [Names -> Nat \cup {None}]
      BY <1>2, TotalsAreBytes DEF ViewInv, ViewTypes
    <2>2. seen.taken \in [Names -> Nat \cup {None}] /\ seen'.taken \in [Names -> Nat \cup {None}]
      BY <1>3 DEF ViewInv, ViewTypes
    <2> QED BY <2>1, <2>2, SumsAre
  <1>5. SumIsLow'
    <2> SUFFICES ASSUME request = "stats", done > 0
                 PROVE  got.sum \in Nat /\ got.sum <= SumOf(totals') + SumOf(seen'.taken)
      BY <1>1 DEF SumIsLow
    <2>1. got.sum \in Nat /\ got.sum <= SumOf(totals) + SumOf(seen.taken)
      BY DEF TotalInv, SumIsLow
    <2> QED BY <1>3, <1>4, <2>1
  <1>6. ~IsStats'
    <2>1. request # None
      BY DEF Write, Writing
    <2> QED BY <1>1, <2>1 DEF ViewInv, Progress, IsStats
  <1> QED BY <1>2, <1>5, <1>6 DEF TotalInv, TotalWithinRows

LEMMA QueryKeepsTotal ==
  ASSUME IsFiniteSet(Names), ViewInv, TotalInv, Query
  PROVE  TotalInv'
  <1>1. request \in {"list", "stats"} /\ done \in {0, 1, 2} /\ answer = None
        /\ (request = "list" => got.sum = None)
    BY DEF Query, ViewInv, Progress
  <1>2. UNCHANGED <<tables, seen>> /\ done' = done + 1
    BY DEF Query
  <1>3. /\ totals' = totals /\ SumOf(totals) \in Nat /\ SumOf(seen.taken) \in Nat
        /\ SumOf(totals) <= SumOf(totals) + SumOf(seen.taken)
    <2>1. totals \in [Names -> Nat \cup {None}] /\ seen.taken \in [Names -> Nat \cup {None}]
      BY TotalsAreBytes DEF ViewInv, ViewTypes
    <2>2. SumOf(totals) \in Nat /\ SumOf(seen.taken) \in Nat
      BY <2>1, SumsAre
    <2> QED BY <1>2, <2>2 DEF tables
  <1>4. CASE request = "list"
    <2>1. request' \in {"list", None} /\ got'.sum = got.sum
      <3>1. CASE done = 0
        BY <1>4, <3>1 DEF Query, Queries, ViewInv, ViewTypes
      <3>2. CASE done = 1
        BY <1>4, <3>2 DEF Query, Queries, ViewInv, ViewTypes
      <3>3. CASE done = 2
        BY <1>4, <3>3 DEF Query, Queries, ViewInv, ViewTypes
      <3> QED BY <1>1, <3>1, <3>2, <3>3
    <2> QED BY <1>1, <1>3, <1>4, <2>1, NoneAssumption
        DEF TotalInv, SumIsLow, TotalWithinRows, IsStats
  <1>5. CASE request = "stats" /\ done = 0
    <2>1. got' = [got EXCEPT !["sum"] = SumOf(totals)] /\ UNCHANGED <<request, answer>>
      BY <1>5 DEF Query, Queries, Result
    <2>2. got'.sum = SumOf(totals)
      BY <2>1 DEF ViewInv, ViewTypes
    <2>3. SumOf(seen'.taken) = SumOf(seen.taken) /\ SumOf(totals') = SumOf(totals)
      BY <1>2, <1>3
    <2>4. SumIsLow'
      BY <1>3, <2>2, <2>3 DEF SumIsLow
    <2>5. ~IsStats'
      BY <1>1, <2>1 DEF IsStats
    <2> QED BY <2>4, <2>5 DEF TotalInv, TotalWithinRows
  <1>6. CASE request = "stats" /\ done = 1
    <2>1. got' = [got EXCEPT !["usage"] = online] /\ UNCHANGED <<request, answer>>
      BY <1>6 DEF Query, Queries, Result
    <2>2. got'.sum = got.sum
      BY <2>1 DEF ViewInv, ViewTypes
    <2> QED BY <1>1, <1>2, <1>3, <1>6, <2>1, <2>2 DEF TotalInv, SumIsLow, TotalWithinRows, IsStats
  <1>7. CASE request = "stats" /\ done = 2
    <2>1. got' = [got EXCEPT !["monthly"] = Monthly] /\ request' = None /\ answer' = Counted(got')
      BY <1>7 DEF Query, Queries, Result
    <2>2. answer'.total = got.sum /\ answer'.byPeer = Monthly
      BY <2>1 DEF ViewInv, ViewTypes, Counted
    <2>3. [n \in Names |-> IF n \in DOMAIN answer'.byPeer THEN answer'.byPeer[n].total ELSE None]
            = totals
      BY <2>2 DEF Monthly, Recorded, ViewInv, ViewTypes
    <2>4. seen' = seen /\ got.sum <= SumOf(totals) + SumOf(seen.taken)
      BY <1>2, <1>7 DEF TotalInv, SumIsLow
    <2> QED BY <1>3, <2>1, <2>2, <2>3, <2>4, NoneAssumption DEF TotalInv, SumIsLow, TotalWithinRows
  <1> QED BY <1>1, <1>4, <1>5, <1>6, <1>7

\* The sum that is read first is never more than what the rows read last add up to
\* and what was taken off them in between, for any number of clients and of statements
\* of others, also when these clear the month or store a smaller total: a sample stored
\* meanwhile never makes the dashboard show a total that its own list falls short of
\* (handleStats: MonthlyTrafficTotals before MonthlyTrafficByPeer).
THEOREM TotalStaysWithinRows ==
  ASSUME IsFiniteSet(Names)
  PROVE  Spec => []TotalWithinRows
  <1>1. Init => TotalInv
    BY DEF Init, TotalInv, SumIsLow, TotalWithinRows, IsStats
  <1>2. ViewInv /\ TotalInv /\ [Next]_vars => TotalInv'
    <2> SUFFICES ASSUME ViewInv, TotalInv, [Next]_vars PROVE TotalInv'
      OBVIOUS
    <2>1. CASE QueryFails
      BY <2>1, NoneAssumption DEF QueryFails, TotalInv, SumIsLow, TotalWithinRows, IsStats, tables
    <2>2. CASE UNCHANGED vars
      BY <2>2 DEF vars, tables, TotalInv, SumIsLow, TotalWithinRows, IsStats
    <2> QED BY <2>1, <2>2, QueryKeepsTotal, WriteKeepsTotal DEF Next
  <1>3. TotalInv => TotalWithinRows
    BY DEF TotalInv
  <1> QED BY <1>1, <1>2, <1>3, InitView, StepView, PTL DEF Spec
=============================================================================
