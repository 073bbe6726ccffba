----------------------------- MODULE TextProofs ------------------------------
(***************************************************************************)
(* Proofs about the lines of the server configuration file, for any        *)
(* clients, layouts and overlapping edits, and about the parameters of a   *)
(* client configuration, for any random numbers in the ranges of           *)
(* GenerateJunkParams.                                                     *)
(***************************************************************************)
EXTENDS ConfText, ClientText, SequenceTheorems, FiniteSetTheorems, WellFoundedInduction, TLAPS

-----------------------------------------------------------------------------
(* What a loop over the lines returns is shown by the first line at which it *)
(* would be wrong.                                                           *)

LEMMA Smallest ==
  ASSUME NEW T \in SUBSET Nat, T # {}
  PROVE  \E x \in T : \A y \in T : x <= y
  <1> DEFINE R == OpToRel(<, Nat)
  <1>1. IsWellFoundedOn(R, Nat)
    BY NatLessThanWellFounded
  <1>2. \E x \in T : \A y \in T : ~ (<<y, x>> \in R)
    <2> HIDE DEF R
    <2> QED BY <1>1, WFMin
  <1>3. \A x, y \in T : ~ (<<y, x>> \in R) => x <= y
    BY DEF OpToRel
  <1> QED BY <1>2, <1>3

-----------------------------------------------------------------------------
(* The loop of RemovePeer.                                                   *)

Start == [skip |-> FALSE, out |-> <<>>]

OneLine(acc, line, n) ==
  IF line = Client(n) THEN [acc EXCEPT !.skip = TRUE]
  ELSE IF acc.skip    THEN [acc EXCEPT !.skip = line # Blank]
  ELSE [acc EXCEPT !.out = Append(@, line)]

\* h is what the loop has after the lines in s, for the sets s of lines up to line i.
Loops(h, t, n, S) ==
  h = [s \in SUBSET S |-> IF s = {} THEN Start
                          ELSE OneLine(h[s \ {Max(s)}], t[Max(s)], n)]

LEMMA RemainingLoops ==
  ASSUME NEW t, NEW n
  PROVE  Remaining(t, n) = (CHOOSE h : Loops(h, t, n, DOMAIN t))[DOMAIN t].out
  BY DEF Remaining, FoldLeft, MapThenFoldSet, Loops, OneLine, Start

LEMMA MaxIs ==
  ASSUME NEW S \in SUBSET Nat, NEW m \in S, \A x \in S : x <= m
  PROVE  Max(S) = m
  <1>1. \A y \in S : m >= y
    OBVIOUS
  <1>2. (Max(S) \in S /\ \A y \in S : Max(S) >= y)
    BY <1>1 DEF Max
  <1>3. Max(S) >= m /\ m >= Max(S) /\ Max(S) \in Nat /\ m \in Nat
    BY <1>1, <1>2
  <1> HIDE DEF Max
  <1> QED BY <1>3

LEMMA LoopExists ==
  ASSUME NEW t, NEW n
  PROVE  \A i \in Nat : \E h : Loops(h, t, n, 1 .. i)
  <1> DEFINE T == {i \in Nat : ~ \E h : Loops(h, t, n, 1 .. i)}
  <1> SUFFICES ASSUME T # {} PROVE FALSE
    OBVIOUS
  <1>1. PICK i \in T : \A j \in T : i <= j
    <2> HIDE DEF T
    <2>1. T \in SUBSET Nat
      BY DEF T
    <2> QED BY <2>1, Smallest
  <1>2. i # 0
    <2>1. 1 .. 0 = {}
      OBVIOUS
    <2>2. SUBSET (1 .. 0) = {{}}
      BY <2>1
    <2> DEFINE h == [s \in SUBSET (1 .. 0) |-> Start]
    <2>3. h = [s \in SUBSET (1 .. 0) |->
                 IF s = {} THEN Start ELSE OneLine(h[s \ {Max(s)}], t[Max(s)], n)]
      BY <2>2
    <2>4. Loops(h, t, n, 1 .. 0)
      <3> HIDE DEF h
      <3> QED BY <2>3 DEF Loops
    <2> QED BY <2>4
  <1>3. PICK g : Loops(g, t, n, 1 .. (i - 1))
    BY <1>1, <1>2
  <1> DEFINE h == [s \in SUBSET (1 .. i) |->
                     IF i \in s THEN OneLine(g[s \ {i}], t[i], n) ELSE g[s]]
  <1>4. ASSUME NEW s \in SUBSET (1 .. i)
        PROVE  h[s] = IF s = {} THEN Start ELSE OneLine(h[s \ {Max(s)}], t[Max(s)], n)
    <2>1. CASE i \in s
      <3>1. Max(s) = i
        BY <2>1, MaxIs
      <3>2. s \ {i} \in SUBSET (1 .. i) /\ i \notin s \ {i}
        OBVIOUS
      <3>3. h[s \ {i}] = g[s \ {i}]
        BY <3>2
      <3>4. h[s] = OneLine(g[s \ {i}], t[i], n)
        BY <2>1
      <3> HIDE DEF h
      <3> QED BY <2>1, <3>1, <3>3, <3>4
    <2>2. CASE i \notin s
      <3>1. s \in SUBSET (1 .. (i - 1))
        BY <1>1, <2>2
      <3>2. h[s] = g[s] /\ \A m : h[s \ {m}] = g[s \ {m}]
        BY <2>2
      <3>3. g[s] = IF s = {} THEN Start ELSE OneLine(g[s \ {Max(s)}], t[Max(s)], n)
        BY <1>3, <3>1 DEF Loops
      <3> HIDE DEF h
      <3> QED BY <3>2, <3>3
    <2> QED BY <2>1, <2>2
  <1>5. h = [s \in SUBSET (1 .. i) |->
               IF s = {} THEN Start ELSE OneLine(h[s \ {Max(s)}], t[Max(s)], n)]
    <2> DEFINE k == [s \in SUBSET (1 .. i) |->
                       IF s = {} THEN Start ELSE OneLine(h[s \ {Max(s)}], t[Max(s)], n)]
    <2>1. \A s \in SUBSET (1 .. i) : h[s] = k[s]
      <3> SUFFICES ASSUME NEW s \in SUBSET (1 .. i) PROVE h[s] = k[s]
        OBVIOUS
      <3>1. k[s] = IF s = {} THEN Start ELSE OneLine(h[s \ {Max(s)}], t[Max(s)], n)
        <4> HIDE DEF h
        <4> QED OBVIOUS
      <3> HIDE DEF h, k
      <3> QED BY <1>4, <3>1
    <2>2. h = [s \in SUBSET (1 .. i) |-> h[s]] /\ k = [s \in SUBSET (1 .. i) |-> k[s]]
      OBVIOUS
    <2>3. h = k
      <3> HIDE DEF h, k
      <3> QED BY <2>1, <2>2
    <2> QED BY <2>3
  <1>6. Loops(h, t, n, 1 .. i)
    <2> HIDE DEF h
    <2> QED BY <1>5 DEF Loops
  <1> QED BY <1>1, <1>6

\* What the loop has after i lines.
After(t, n, i) == (CHOOSE h : Loops(h, t, n, DOMAIN t))[1 .. i]

LEMMA LoopSteps ==
  ASSUME NEW t \in Seq(Line), NEW n
  PROVE  /\ After(t, n, 0) = Start
         /\ \A i \in 1 .. Len(t) : After(t, n, i) = OneLine(After(t, n, i - 1), t[i], n)
         /\ Remaining(t, n) = After(t, n, Len(t)).out
  <1> DEFINE h == CHOOSE g : Loops(g, t, n, DOMAIN t)
  <1>1. DOMAIN t = 1 .. Len(t) /\ Len(t) \in Nat
    OBVIOUS
  <1>2. Loops(h, t, n, 1 .. Len(t))
    <2>1. \E g : Loops(g, t, n, DOMAIN t)
      BY <1>1, LoopExists
    <2> QED BY <1>1, <2>1
  <1>3. \A i : After(t, n, i) = h[1 .. i]
    BY DEF After
  <1>4. Remaining(t, n) = h[1 .. Len(t)].out
    BY <1>1, RemainingLoops
  <1> HIDE DEF h
  <1>5. \A s \in SUBSET (1 .. Len(t)) :
          h[s] = IF s = {} THEN Start ELSE OneLine(h[s \ {Max(s)}], t[Max(s)], n)
    BY <1>2 DEF Loops
  <1>6. h[1 .. 0] = Start
    <2>1. 1 .. 0 = {} /\ {} \in SUBSET (1 .. Len(t))
      OBVIOUS
    <2> QED BY <1>5, <2>1
  <1>7. ASSUME NEW i \in 1 .. Len(t)
        PROVE  h[1 .. i] = OneLine(h[1 .. (i - 1)], t[i], n)
    <2>1. 1 .. i \in SUBSET (1 .. Len(t)) /\ i \in 1 .. i
      BY <1>1
    <2>2. Max(1 .. i) = i
      BY <2>1, MaxIs
    <2>3. (1 .. i) \ {i} = 1 .. (i - 1)
      BY <1>1
    <2> QED BY <1>5, <2>1, <2>2, <2>3
  <1> QED BY <1>3, <1>4, <1>6, <1>7

\* After line i the loop is in a block of name n.
Running(t, n, i) ==
  \E m \in 1 .. i : t[m] = Client(n) /\ \A j \in m .. i : t[j] # Blank

\* The lines up to line i that the loop keeps.
Kept(t, n, i) == {k \in 1 .. i : t[k] # Client(n) /\ ~Running(t, n, k - 1)}

\* s is the lines K of t in their order.
Picks(f, s, t, K) ==
  /\ f \in [1 .. Len(s) -> K]
  /\ \A x, y \in 1 .. Len(s) : x < y => f[x] < f[y]
  /\ \A k \in K : \E x \in 1 .. Len(s) : f[x] = k
  /\ \A x \in 1 .. Len(s) : s[x] = t[f[x]]

\* What the loop knows after line i.
LoopKnows(t, n, i) ==
  /\ After(t, n, i) \in [skip : BOOLEAN, out : Seq(Line)]
  /\ After(t, n, i).skip <=> Running(t, n, i)
  /\ \E f : Picks(f, After(t, n, i).out, t, Kept(t, n, i))

LEMMA ClientIsNoBlank == \A n : Client(n) # Blank
  BY DEF Client, Blank

LEMMA PicksOneMore ==
  ASSUME NEW t \in Seq(Line), NEW s \in Seq(Line), NEW i \in 1 .. Len(t), NEW K \in SUBSET (1 .. (i - 1)),
         NEW f, Picks(f, s, t, K)
  PROVE  \E g : Picks(g, Append(s, t[i]), t, K \cup {i})
  <1> DEFINE u == Append(s, t[i])
             g == [x \in 1 .. Len(u) |-> IF x = Len(u) THEN i ELSE f[x]]
  <1>1. /\ Len(s) \in Nat /\ t[i] \in Line /\ u \in Seq(Line) /\ Len(u) = Len(s) + 1
        /\ u[Len(u)] = t[i] /\ \A x \in 1 .. Len(s) : u[x] = s[x]
    OBVIOUS
  <1> HIDE DEF u
  <1>2. g[Len(u)] = i /\ \A x \in 1 .. Len(s) : g[x] = f[x] /\ f[x] \in K
    BY <1>1 DEF Picks
  <1>3. g \in [1 .. Len(u) -> K \cup {i}]
    <2>1. \A x \in 1 .. Len(u) : x = Len(u) \/ x \in 1 .. Len(s)
      BY <1>1
    <2>2. \A x \in 1 .. Len(u) : g[x] \in K \cup {i}
      <3> HIDE DEF g
      <3> QED BY <1>2, <2>1
    <2>3. g = [x \in 1 .. Len(u) |-> g[x]]
      OBVIOUS
    <2> HIDE DEF g
    <2> QED BY <2>2, <2>3
  <1> HIDE DEF g
  <1>4. ASSUME NEW x \in 1 .. Len(u), NEW y \in 1 .. Len(u), x < y PROVE g[x] < g[y]
    <2>1. x \in 1 .. Len(s) /\ (y = Len(u) \/ y \in 1 .. Len(s))
      BY <1>1, <1>4
    <2>2. CASE y = Len(u)
      <3>1. g[x] \in 1 .. (i - 1) /\ g[y] = i
        BY <1>2, <2>1, <2>2
      <3> QED BY <3>1
    <2>3. CASE y \in 1 .. Len(s)
      BY <1>2, <1>4, <2>1, <2>3 DEF Picks
    <2> QED BY <2>1, <2>2, <2>3
  <1>5. ASSUME NEW k \in K \cup {i} PROVE \E x \in 1 .. Len(u) : g[x] = k
    <2>1. CASE k \in K
      <3>1. PICK x \in 1 .. Len(s) : f[x] = k
        BY <2>1 DEF Picks
      <3>2. x \in 1 .. Len(u)
        BY <1>1
      <3> QED BY <1>2, <3>1, <3>2
    <2>2. CASE k = i
      <3>1. Len(u) \in 1 .. Len(u)
        BY <1>1
      <3> QED BY <1>2, <2>2, <3>1
    <2> QED BY <2>1, <2>2
  <1>6. ASSUME NEW x \in 1 .. Len(u) PROVE u[x] = t[g[x]]
    BY <1>1, <1>2 DEF Picks
  <1> QED BY <1>3, <1>4, <1>5, <1>6 DEF Picks, u

LEMMA LoopStepKnows ==
  ASSUME NEW t \in Seq(Line), NEW n, NEW i \in 1 .. Len(t), LoopKnows(t, n, i - 1)
  PROVE  LoopKnows(t, n, i)
  <1> DEFINE a == After(t, n, i - 1)
             b == After(t, n, i)
  <1>1. b = OneLine(a, t[i], n)
    BY LoopSteps
  <1>2. /\ a \in [skip : BOOLEAN, out : Seq(Line)]
        /\ a.skip <=> Running(t, n, i - 1)
        /\ \E f : Picks(f, a.out, t, Kept(t, n, i - 1))
    BY DEF LoopKnows
  <1>3. t[i] \in Line /\ i \in 1 .. i /\ i \in Nat
    OBVIOUS
  <1>4. Kept(t, n, i) = Kept(t, n, i - 1) \cup
                          (IF t[i] # Client(n) /\ ~Running(t, n, i - 1) THEN {i} ELSE {})
    BY DEF Kept
  <1>5. SUFFICES /\ b \in [skip : BOOLEAN, out : Seq(Line)]
                 /\ b.skip <=> Running(t, n, i)
                 /\ \E f : Picks(f, b.out, t, Kept(t, n, i))
    BY DEF LoopKnows
  <1> HIDE DEF a, b
  <1>6. CASE t[i] = Client(n)
    <2>1. b = [a EXCEPT !.skip = TRUE]
      BY <1>1, <1>6 DEF OneLine
    <2>2. b \in [skip : BOOLEAN, out : Seq(Line)] /\ b.skip = TRUE /\ b.out = a.out
      BY <1>2, <2>1
    <2>3. Running(t, n, i)
      BY <1>3, <1>6, ClientIsNoBlank DEF Running
    <2>4. Kept(t, n, i) = Kept(t, n, i - 1)
      BY <1>4, <1>6
    <2> QED BY <1>2, <2>2, <2>3, <2>4
  <1>7. CASE t[i] # Client(n) /\ a.skip
    <2>1. b = [a EXCEPT !.skip = t[i] # Blank]
      BY <1>1, <1>7 DEF OneLine
    <2>2. b \in [skip : BOOLEAN, out : Seq(Line)] /\ (b.skip <=> t[i] # Blank) /\ b.out = a.out
      BY <1>2, <2>1
    <2>3. Running(t, n, i) <=> t[i] # Blank
      <3>1. PICK m \in 1 .. (i - 1) : t[m] = Client(n) /\ \A j \in m .. (i - 1) : t[j] # Blank
        BY <1>2, <1>7 DEF Running
      <3>2. t[i] # Blank => \A j \in m .. i : t[j] # Blank
        BY <3>1
      <3>3. m \in 1 .. i
        OBVIOUS
      <3> QED BY <3>1, <3>2, <3>3 DEF Running
    <2>4. Kept(t, n, i) = Kept(t, n, i - 1)
      BY <1>2, <1>4, <1>7
    <2> QED BY <1>2, <2>2, <2>3, <2>4
  <1>8. CASE t[i] # Client(n) /\ ~a.skip
    <2>1. b = [a EXCEPT !.out = Append(@, t[i])]
      BY <1>1, <1>8 DEF OneLine
    <2>2. b \in [skip : BOOLEAN, out : Seq(Line)] /\ b.skip = a.skip /\ b.out = Append(a.out, t[i])
      <3>1. Append(a.out, t[i]) \in Seq(Line)
        BY <1>2, <1>3, AppendProperties
      <3> QED BY <1>2, <2>1, <3>1
    <2>3. ~Running(t, n, i)
      <3> SUFFICES ASSUME NEW m \in 1 .. i, t[m] = Client(n), \A j \in m .. i : t[j] # Blank
                   PROVE  FALSE
        BY DEF Running
      <3>1. m \in 1 .. (i - 1) /\ \A j \in m .. (i - 1) : t[j] # Blank
        BY <1>8
      <3> QED BY <1>2, <1>8, <3>1 DEF Running
    <2>4. Kept(t, n, i) = Kept(t, n, i - 1) \cup {i}
      BY <1>2, <1>4, <1>8
    <2>5. Kept(t, n, i - 1) \in SUBSET (1 .. (i - 1))
      BY DEF Kept
    <2>6. \E f : Picks(f, b.out, t, Kept(t, n, i))
      <3>1. PICK f : Picks(f, a.out, t, Kept(t, n, i - 1))
        BY <1>2
      <3>2. a.out \in Seq(Line)
        BY <1>2
      <3>3. \E g : Picks(g, Append(a.out, t[i]), t, Kept(t, n, i - 1) \cup {i})
        BY <2>5, <3>1, <3>2, PicksOneMore
      <3> QED BY <2>2, <2>4, <3>3
    <2> QED BY <1>2, <1>8, <2>2, <2>3, <2>6
  <1> QED BY <1>6, <1>7, <1>8

\* The loop keeps the lines outside the blocks of the name, in their order.
LEMMA RemainingPicks ==
  ASSUME NEW t \in Seq(Line), NEW n
  PROVE  /\ Remaining(t, n) \in Seq(Line)
         /\ \E f : Picks(f, Remaining(t, n), t, Kept(t, n, Len(t)))
  <1>1. LoopKnows(t, n, 0)
    <2>1. After(t, n, 0) = Start
      BY LoopSteps
    <2>2. /\ Start \in [skip : BOOLEAN, out : Seq(Line)]
          /\ Start.skip = FALSE /\ Start.out = <<>>
      BY DEF Start
    <2>3. ~Running(t, n, 0) /\ Kept(t, n, 0) = {}
      BY DEF Running, Kept
    <2>4. Picks(<<>>, <<>>, t, {})
      BY DEF Picks
    <2> QED BY <2>1, <2>2, <2>3, <2>4 DEF LoopKnows
  <1> DEFINE T == {i \in 0 .. Len(t) : ~LoopKnows(t, n, i)}
  <1>2. T = {}
    <2> SUFFICES ASSUME T # {} PROVE FALSE
      OBVIOUS
    <2>1. PICK i \in T : \A j \in T : i <= j
      <3> HIDE DEF T
      <3>1. T \in SUBSET Nat
        BY DEF T
      <3> QED BY <3>1, Smallest
    <2>2. i \in 1 .. Len(t) /\ LoopKnows(t, n, i - 1)
      BY <1>1, <2>1
    <2> QED BY <2>1, <2>2, LoopStepKnows
  <1>3. LoopKnows(t, n, Len(t))
    <2>1. Len(t) \in 0 .. Len(t)
      OBVIOUS
    <2> QED BY <1>2, <2>1
  <1>4. Remaining(t, n) = After(t, n, Len(t)).out
    BY LoopSteps
  <1> QED BY <1>3, <1>4 DEF LoopKnows

LEMMA MaxIn ==
  ASSUME NEW m \in Nat, NEW S \in SUBSET (0 .. m), S # {}
  PROVE  Max(S) \in S /\ \A x \in S : x <= Max(S)
  <1> DEFINE T == {i \in Nat : m - i \in S}
  <1>1. T \in SUBSET Nat
    OBVIOUS
  <1>2. PICK x \in S : TRUE
    OBVIOUS
  <1>3. m - x \in T
    <2>1. m - x \in Nat /\ m - (m - x) = x
      OBVIOUS
    <2> QED BY <2>1
  <1>4. PICK i \in T : \A j \in T : i <= j
    <2> HIDE DEF T
    <2> QED BY <1>1, <1>3, Smallest
  <1>5. \A y \in S : y <= m - i
    <2> TAKE y \in S
    <2>1. m - y \in Nat /\ m - (m - y) = y
      OBVIOUS
    <2>2. m - y \in T
      BY <2>1
    <2>3. i <= m - y /\ i \in Nat
      BY <1>4, <2>2
    <2> QED BY <2>1, <2>3
  <1>6. m - i \in S /\ S \in SUBSET Nat
    BY <1>4
  <1>7. Max(S) = m - i
    <2> DEFINE top == m - i
    <2>1. top \in S /\ \A y \in S : y <= top
      BY <1>5, <1>6
    <2> HIDE DEF top
    <2>2. Max(S) = top
      BY <1>6, <2>1, MaxIs
    <2> QED BY <2>2 DEF top
  <1> QED BY <1>5, <1>6, <1>7

\* What RemovePeer writes back is what it kept, with blank lines at its end only.
LEMMA TrimmedIs ==
  ASSUME NEW s \in Seq(Line)
  PROVE  /\ Trimmed(s) \in Seq(Line)
         /\ \E p \in 0 .. Len(s) :
              /\ p < Len(Trimmed(s))
              /\ \A x \in 1 .. p : Trimmed(s)[x] = s[x]
              /\ \A x \in 1 .. Len(Trimmed(s)) : x > p => Trimmed(s)[x] = Blank
              /\ \A x \in 1 .. Len(s) : x > p => s[x] = Blank
  <1> DEFINE S == {0} \cup {i \in DOMAIN s : s[i] # Blank}
             p == Max(S)
             u == IF p = 0 THEN <<Blank>> ELSE SubSeq(s, 1, p)
  <1>1. DOMAIN s = 1 .. Len(s) /\ Len(s) \in Nat
    OBVIOUS
  <1>2. p \in S /\ \A x \in S : x <= p
    <2>1. S \in SUBSET (0 .. Len(s)) /\ S # {}
      BY <1>1
    <2> HIDE DEF S
    <2> QED BY <1>1, <2>1, MaxIn
  <1>3. p \in 0 .. Len(s) /\ \A x \in 1 .. Len(s) : x > p => s[x] = Blank
    <2> HIDE DEF p
    <2> QED BY <1>1, <1>2
  <1>4. Trimmed(s) = u \o <<Blank>>
    BY DEF Trimmed
  <1> HIDE DEF S, p
  <1>5. <<Blank>> \in Seq(Line) /\ Len(<<Blank>>) = 1 /\ <<Blank>>[1] = Blank
    <2>1. Blank \in Line
      BY DEF Blank, Line
    <2> QED BY <2>1
  <1>6. u \in Seq(Line) /\ (p = 0 => Len(u) = 1 /\ u[1] = Blank)
        /\ (p # 0 => Len(u) = p /\ \A x \in 1 .. p : u[x] = s[x])
    <2>1. CASE p = 0
      BY <1>5, <2>1
    <2>2. CASE p # 0
      <3>1. p \in 1 .. Len(s)
        BY <1>3, <2>2
      <3>2. SubSeq(s, 1, p) \in Seq(Line) /\ Len(SubSeq(s, 1, p)) = p
            /\ \A x \in 1 .. p : SubSeq(s, 1, p)[x] = s[x]
        BY <1>1, <3>1
      <3> QED BY <2>2, <3>2
    <2> QED BY <2>1, <2>2
  <1> HIDE DEF u
  <1>7. /\ u \o <<Blank>> \in Seq(Line) /\ Len(u \o <<Blank>>) = Len(u) + 1
        /\ \A x \in 1 .. Len(u) : (u \o <<Blank>>)[x] = u[x]
        /\ (u \o <<Blank>>)[Len(u) + 1] = Blank
    BY <1>5, <1>6
  <1> DEFINE r == u \o <<Blank>>
  <1>8. r \in Seq(Line) /\ Len(r) = Len(u) + 1 /\ Len(u) \in Nat
        /\ (\A x \in 1 .. Len(u) : r[x] = u[x]) /\ r[Len(u) + 1] = Blank
    BY <1>6, <1>7
  <1> HIDE DEF r
  <1>9. p < Len(r) /\ \A x \in 1 .. p : r[x] = s[x]
    BY <1>3, <1>6, <1>8
  <1>10. \A x \in 1 .. Len(r) : x > p => r[x] = Blank
    BY <1>3, <1>6, <1>8
  <1> QED BY <1>3, <1>4, <1>8, <1>9, <1>10 DEF r

\* r is the lines K of t in their order, but for blank lines at the end.
Cuts(p, f, r, t, K) ==
  /\ p \in Nat /\ p < Len(r) /\ f \in [1 .. p -> K]
  /\ \A x, y \in 1 .. p : x < y => f[x] < f[y]
  /\ \A x \in 1 .. p : r[x] = t[f[x]]
  /\ \A x \in 1 .. Len(r) : x > p => r[x] = Blank
  /\ \A k \in K : t[k] # Blank \/ (\E x \in 1 .. p : k <= f[x]) => \E x \in 1 .. p : f[x] = k

LEMMA RemovedCuts ==
  ASSUME NEW t \in Seq(Line), NEW n
  PROVE  /\ Removed(t, n) \in Seq(Line)
         /\ \E p, f : Cuts(p, f, Removed(t, n), t, Kept(t, n, Len(t)))
  <1> DEFINE s == Remaining(t, n)
             K == Kept(t, n, Len(t))
             r == Removed(t, n)
  <1>1. s \in Seq(Line) /\ \E g : Picks(g, s, t, K)
    BY RemainingPicks
  <1>2. PICK g : Picks(g, s, t, K)
    BY <1>1
  <1>3. K \subseteq 1 .. Len(t)
    BY DEF Kept
  <1>4. r = Trimmed(s)
    BY DEF Removed
  <1> HIDE DEF s, K, r
  <1>5. r \in Seq(Line)
    BY <1>1, <1>4, TrimmedIs
  <1>6. PICK p \in 0 .. Len(s) :
          /\ p < Len(r)
          /\ \A x \in 1 .. p : r[x] = s[x]
          /\ \A x \in 1 .. Len(r) : x > p => r[x] = Blank
          /\ \A x \in 1 .. Len(s) : x > p => s[x] = Blank
    BY <1>1, <1>4, TrimmedIs
  <1> DEFINE f == [x \in 1 .. p |-> g[x]]
  <1>7. /\ Len(s) \in Nat /\ p \in Nat
        /\ \A x \in 1 .. p : x \in 1 .. Len(s) /\ f[x] = g[x] /\ g[x] \in K /\ g[x] \in Nat
    <2>1. Len(s) \in Nat /\ p \in Nat
      BY <1>1, <1>6
    <2>2. \A x \in 1 .. p : x \in 1 .. Len(s) /\ f[x] = g[x]
      BY <2>1
    <2>3. \A x \in 1 .. Len(s) : g[x] \in K /\ g[x] \in Nat
      <3>1. g \in [1 .. Len(s) -> K] /\ \A k \in K : k \in Nat
        BY <1>2, <1>3 DEF Picks
      <3> QED BY <3>1
    <2> HIDE DEF f
    <2> QED BY <2>1, <2>2, <2>3
  <1>8. f \in [1 .. p -> K]
    BY <1>7
  <1> HIDE DEF f
  <1>9. \A x, y \in 1 .. p : x < y => f[x] < f[y]
    BY <1>2, <1>7 DEF Picks
  <1>10. \A x \in 1 .. p : r[x] = t[f[x]]
    BY <1>2, <1>6, <1>7 DEF Picks
  <1>11. ASSUME NEW k \in K, t[k] # Blank \/ \E x \in 1 .. p : k <= f[x]
         PROVE  \E x \in 1 .. p : f[x] = k
    <2>1. PICK y \in 1 .. Len(s) : g[y] = k
      BY <1>2 DEF Picks
    <2>2. y <= p
      <3> SUFFICES ASSUME y > p PROVE FALSE
        BY <1>7
      <3>1. s[y] = Blank /\ s[y] = t[k]
        BY <1>2, <1>6, <2>1 DEF Picks
      <3>2. PICK x \in 1 .. p : k <= f[x]
        BY <1>11, <3>1
      <3>3. g[x] < g[y] /\ f[x] = g[x]
        <4>1. x \in 1 .. Len(s) /\ x < y
          BY <1>7, <3>2
        <4> QED BY <1>2, <1>7, <4>1 DEF Picks
      <3>4. g[x] \in Nat /\ k \in Nat
        BY <1>3, <1>7
      <3> QED BY <2>1, <3>2, <3>3, <3>4
    <2>3. y \in 1 .. p
      BY <2>2
    <2> QED BY <1>7, <2>1, <2>3
  <1>12. Cuts(p, f, r, t, K)
    BY <1>6, <1>7, <1>8, <1>9, <1>10, <1>11 DEF Cuts
  <1> QED BY <1>5, <1>12 DEF r, K

-----------------------------------------------------------------------------
(* A text whose client blocks are as AppendPeer writes them.                 *)

\* A client block has its five lines.
Whole(t) ==
  \A i \in Markers(t) :
    /\ i + 4 \in 1 .. Len(t) /\ t[i][2] \in Names
    /\ t[i + 1] = Peer
    /\ t[i + 2][1] = "PublicKey" /\ t[i + 2][2] \in Nat \ {0}
    /\ t[i + 3][1] = "AllowedIPs" /\ t[i + 3][2] \in Octets
    /\ t[i + 4] = Blank

\* Keys and addresses stand in such blocks only.
Owned(t) ==
  \A i \in 1 .. Len(t) :
    /\ t[i][1] = "PublicKey"  => \E m \in Markers(t) : i = m + 2
    /\ t[i][1] = "AllowedIPs" => \E m \in Markers(t) : i = m + 3

\* The blocks are in the order in which their keys were issued.
Ascending(t, last) ==
  /\ \A i, j \in Markers(t) : i < j => t[i + 2][2] < t[j + 2][2]
  /\ \A i \in Markers(t) : t[i + 2][2] <= last

Ended(t) == Len(t) > 0 /\ t[Len(t)] = Blank

Laid(t, last) == t \in Seq(Line) /\ Whole(t) /\ Owned(t) /\ Ascending(t, last)

\* The last line of the last client is ended.
Closed(t) == Markers(t) # {} => Ended(t)

Formed(t, last) == Laid(t, last) /\ Closed(t)

LEMMA LinesAre ==
  /\ \A l \in Line : l = <<l[1], l[2]>>
  /\ Blank[1] = "blank" /\ Peer[1] = "[Peer]" /\ Iface[1] = "[Interface]" /\ Other[1] = "other"
  /\ \A n : Client(n)[1] = "### Client" /\ Client(n)[2] = n
  /\ \A k : Key(k)[1] = "PublicKey" /\ Key(k)[2] = k
  /\ \A i : Ips(i)[1] = "AllowedIPs" /\ Ips(i)[2] = i
  <1>1. \A A, B : \A l \in A \X B : l = <<l[1], l[2]>>
    OBVIOUS
  <1>2. \A l \in Line : l = <<l[1], l[2]>>
    BY <1>1 DEF Line
  <1> QED BY <1>2 DEF Blank, Peer, Iface, Other, Client, Key, Ips

LEMMA MarkersAre ==
  ASSUME NEW t \in Seq(Line)
  PROVE  /\ Markers(t) = {i \in 1 .. Len(t) : t[i][1] = "### Client"}
         /\ \A i \in Markers(t) : i \in Nat \ {0} /\ t[i] # Blank
  <1>1. DOMAIN t = 1 .. Len(t) /\ Len(t) \in Nat
    OBVIOUS
  <1>2. Markers(t) = {i \in 1 .. Len(t) : t[i][1] = "### Client"}
    BY <1>1 DEF Markers
  <1>3. \A i \in 1 .. Len(t) : i \in Nat \ {0}
    BY <1>1
  <1> QED BY <1>2, <1>3, LinesAre

LEMMA ClientLine ==
  ASSUME NEW t \in Seq(Line), NEW n, NEW i \in 1 .. Len(t)
  PROVE  t[i] = Client(n) <=> i \in Markers(t) /\ t[i][2] = n
  <1>1. t[i] = <<t[i][1], t[i][2]>>
    <2>1. t[i] \in Line
      OBVIOUS
    <2> QED BY <2>1, LinesAre
  <1>2. t[i] = Client(n) => t[i][1] = "### Client" /\ t[i][2] = n
    BY LinesAre
  <1>3. t[i][1] = "### Client" /\ t[i][2] = n => t[i] = Client(n)
    BY <1>1 DEF Client
  <1> QED BY <1>2, <1>3, MarkersAre

\* A block ends at its first blank line: the lines below the marker up to there.
LEMMA BlockEnds ==
  ASSUME NEW t \in Seq(Line), Whole(t), NEW m \in Markers(t), NEW k \in Nat, m <= k,
         \A j \in m .. k : t[j] # Blank
  PROVE  k \in m .. (m + 3)
  <1>1. m \in Nat /\ t[m + 4] = Blank
    BY MarkersAre DEF Whole
  <1>2. ~ (m + 4 <= k)
    <2> SUFFICES ASSUME m + 4 <= k PROVE FALSE
      OBVIOUS
    <2>1. m + 4 \in m .. k
      BY <1>1
    <2> QED BY <1>1, <2>1
  <1> QED BY <1>1, <1>2

\* The lines of a block are no markers but the first, and none is a blank.
LEMMA BlockInside ==
  ASSUME NEW t \in Seq(Line), Whole(t), NEW m \in Markers(t)
  PROVE  /\ m \in Nat \ {0} /\ m + 4 <= Len(t)
         /\ \A j \in {m, m + 1, m + 2, m + 3} : t[j] # Blank
         /\ \A j \in {m + 1, m + 2, m + 3, m + 4} : j \notin Markers(t)
  <1>1. m \in Nat \ {0} /\ t[m] # Blank
    BY MarkersAre
  <1>2. /\ m + 4 \in 1 .. Len(t)
        /\ t[m + 1] = Peer /\ t[m + 2][1] = "PublicKey"
        /\ t[m + 3][1] = "AllowedIPs" /\ t[m + 4] = Blank
    BY DEF Whole
  <1>3. \A j \in Markers(t) : t[j][1] = "### Client"
    BY DEF Markers
  <1>4. t[m + 1] # Blank /\ t[m + 2] # Blank /\ t[m + 3] # Blank
    BY <1>2 DEF Blank, Peer
  <1>5. t[m + 1][1] = "[Peer]" /\ t[m + 4][1] = "blank"
    BY <1>2 DEF Blank, Peer
  <1>6. m + 1 \notin Markers(t) /\ m + 2 \notin Markers(t) /\ m + 3 \notin Markers(t)
        /\ m + 4 \notin Markers(t)
    BY <1>2, <1>3, <1>5
  <1>7. m + 4 <= Len(t)
    BY <1>2
  <1> QED BY <1>1, <1>4, <1>6, <1>7

\* Between two markers there is a whole block.
LEMMA MarkersApart ==
  ASSUME NEW t \in Seq(Line), Whole(t), NEW m \in Markers(t), NEW i \in Markers(t), m < i
  PROVE  m + 4 < i
  <1>1. m \in Nat /\ i \in Nat
    BY MarkersAre
  <1>2. i \notin {m + 1, m + 2, m + 3, m + 4}
    BY BlockInside
  <1> QED BY <1>1, <1>2

LEMMA OwnerAbove ==
  ASSUME NEW t \in Seq(Line), Whole(t), NEW i \in Markers(t), i > 1
  PROVE  Owner(t, i - 1) = Blank
  <1> DEFINE above == {m \in Markers(t) : m <= i - 1 /\ \A j \in m .. (i - 1) : t[j] # Blank}
  <1>1. i \in Nat
    BY MarkersAre
  <1>2. ASSUME NEW m \in above PROVE FALSE
    <2>1. m \in Markers(t) /\ m \in Nat /\ m <= i - 1
      BY MarkersAre
    <2>2. m < i
      BY <1>1, <2>1
    <2>3. m + 4 < i
      BY <2>1, <2>2, MarkersApart
    <2>4. t[m + 4] = Blank
      BY <2>1 DEF Whole
    <2>5. m + 4 \in m .. (i - 1)
      BY <1>1, <2>1, <2>3
    <2> QED BY <2>4, <2>5
  <1>3. above = {}
    BY <1>2
  <1> QED BY <1>3 DEF Owner

\* What ParseContent finds in a block.
LEMMA ParsedPeerIs ==
  ASSUME NEW t \in Seq(Line), Whole(t), Owned(t), NEW i \in Markers(t)
  PROVE  ParsedPeer(t, i) = [name |-> t[i][2], key |-> t[i + 2][2], ip |-> t[i + 3][2]]
  <1>1. /\ i \in Nat \ {0} /\ i + 4 <= Len(t) /\ Len(t) \in Nat
        /\ t[i + 2][1] = "PublicKey" /\ t[i + 3][1] = "AllowedIPs"
    BY BlockInside DEF Whole
  <1>2. DOMAIN t = 1 .. Len(t)
    OBVIOUS
  <1>3. i + 2 \in BlockAt(t, i) /\ i + 3 \in BlockAt(t, i)
    <2>1. \A m \in Markers(t) : i < m => i + 4 < m /\ m \in Nat
      BY MarkersApart, MarkersAre
    <2>2. \A m \in Markers(t) : i < m => i + 2 < m /\ i + 3 < m
      BY <1>1, <2>1
    <2> QED BY <1>1, <2>2 DEF BlockAt
  <1>4. \A j \in BlockAt(t, i), m \in Markers(t), d \in {2, 3} : j = m + d => m = i
    <2> TAKE j \in BlockAt(t, i), m \in Markers(t), d \in {2, 3}
    <2> HAVE j = m + d
    <2>1. m \in Nat /\ j \in Nat /\ i < j /\ d \in Nat
      <3>1. j \in 1 .. Len(t) /\ i < j
        BY <1>1 DEF BlockAt
      <3>2. m \in Nat
        BY MarkersAre
      <3>3. j \in Nat /\ d \in Nat
        BY <3>1
      <3> QED BY <3>1, <3>2, <3>3
    <2>2. ~ (i < m)
      BY <2>1 DEF BlockAt
    <2>3. ~ (m < i)
      <3> SUFFICES ASSUME m < i PROVE FALSE
        OBVIOUS
      <3>1. m + 4 < i
        BY MarkersApart
      <3> QED BY <1>1, <2>1, <3>1
    <2> QED BY <1>1, <2>1, <2>2, <2>3
  <1>5. {j \in BlockAt(t, i) : t[j][1] = "PublicKey"} = {i + 2}
    <2>1. \A j \in BlockAt(t, i) : j \in 1 .. Len(t)
      BY <1>1 DEF BlockAt
    <2>2. \A j \in BlockAt(t, i) : t[j][1] = "PublicKey" => j = i + 2
      BY <1>4, <2>1 DEF Owned
    <2> QED BY <1>1, <1>3, <2>2
  <1>6. {j \in BlockAt(t, i) : t[j][1] = "AllowedIPs"} = {i + 3}
    <2>1. \A j \in BlockAt(t, i) : j \in 1 .. Len(t)
      BY <1>1 DEF BlockAt
    <2>2. \A j \in BlockAt(t, i) : t[j][1] = "AllowedIPs" => j = i + 3
      BY <1>4, <2>1 DEF Owned
    <2> QED BY <1>1, <1>3, <2>2
  <1>7. \A j \in Nat : Max({j}) = j
    BY MaxIs
  <1>8. Value(t, BlockAt(t, i), "PublicKey") = t[i + 2][2]
    BY <1>1, <1>5, <1>7 DEF Value
  <1>9. Value(t, BlockAt(t, i), "AllowedIPs") = t[i + 3][2]
    BY <1>1, <1>6, <1>7 DEF Value
  <1> QED BY <1>8, <1>9 DEF ParsedPeer

LEMMA FormedFits == Formed(text, lastKey) => WellFormed
  <1> SUFFICES ASSUME Formed(text, lastKey) PROVE WellFormed
    OBVIOUS
  <1>1. \A i \in Markers(text) : i > 1 => Owner(text, i - 1) = Blank
    BY OwnerAbove DEF Formed, Laid
  <1>2. \A i \in Markers(text) : ParsedPeer(text, i).key = text[i + 2][2]
    BY ParsedPeerIs DEF Formed, Laid
  <1> QED BY <1>1, <1>2 DEF Formed, Laid, WellFormed, Ascending, Ended, Closed

-----------------------------------------------------------------------------
(* A removal.                                                                *)

\* The loop keeps the five lines of a client of another name.
LEMMA KeptBlock ==
  ASSUME NEW t \in Seq(Line), Whole(t), NEW n, NEW i \in Markers(t), t[i][2] # n
  PROVE  \A k \in i .. (i + 4) : k \in Kept(t, n, Len(t))
  <1>1. /\ i \in Nat \ {0} /\ i + 4 <= Len(t) /\ Len(t) \in Nat
        /\ \A j \in {i + 1, i + 2, i + 3, i + 4} : j \notin Markers(t)
    BY BlockInside
  <1> TAKE k \in i .. (i + 4)
  <1>2. k \in 1 .. Len(t) /\ k \in {i, i + 1, i + 2, i + 3, i + 4}
    BY <1>1
  <1>3. t[k] # Client(n)
    BY <1>1, <1>2, ClientLine
  <1>4. ~Running(t, n, k - 1)
    <2> SUFFICES ASSUME NEW m \in 1 .. (k - 1), t[m] = Client(n),
                        \A j \in m .. (k - 1) : t[j] # Blank
                 PROVE  FALSE
      BY DEF Running
    <2>1. m \in 1 .. Len(t) /\ m < k /\ k - 1 \in Nat /\ m <= k - 1
      BY <1>1, <1>2
    <2>2. m \in Markers(t) /\ m # i
      BY <2>1, ClientLine
    <2>3. m < i
      BY <1>1, <1>2, <2>1, <2>2
    <2>4. m + 4 < i
      BY <2>2, <2>3, MarkersApart
    <2>5. k - 1 \in m .. (m + 3)
      BY <2>1, <2>2, BlockEnds
    <2> QED BY <1>1, <1>2, <2>1, <2>4, <2>5
  <1> QED BY <1>2, <1>3, <1>4 DEF Kept

\* It drops the key and the address of a client of that name.
LEMMA DroppedBlock ==
  ASSUME NEW t \in Seq(Line), Whole(t), NEW n, NEW m \in Markers(t), t[m][2] = n
  PROVE  \A k \in m .. (m + 3) : k \notin Kept(t, n, Len(t))
  <1>1. /\ m \in Nat \ {0} /\ m + 4 <= Len(t) /\ Len(t) \in Nat
        /\ \A j \in {m, m + 1, m + 2, m + 3} : t[j] # Blank
    BY BlockInside
  <1>2. t[m] = Client(n)
    <2>1. m \in 1 .. Len(t)
      BY <1>1
    <2> QED BY <2>1, ClientLine
  <1> TAKE k \in m .. (m + 3)
  <1>3. CASE k = m
    BY <1>2, <1>3 DEF Kept
  <1>4. CASE k # m
    <2>1. m \in 1 .. (k - 1)
      BY <1>1, <1>4
    <2>2. \A j \in m .. (k - 1) : t[j] # Blank
      <3> TAKE j \in m .. (k - 1)
      <3>1. j \in {m, m + 1, m + 2, m + 3}
        BY <1>1
      <3> QED BY <1>1, <3>1
    <2> QED BY <1>2, <2>1, <2>2 DEF Kept, Running
  <1> QED BY <1>3, <1>4

\* It keeps the head of the [Interface] section.
LEMMA KeptIface ==
  ASSUME NEW t \in Seq(Line), Whole(t), NEW n, NEW k \in 1 .. Len(t), t[k] = Iface
  PROVE  k \in Kept(t, n, Len(t))
  <1>1. t[k] # Client(n)
    BY LinesAre
  <1>2. ~Running(t, n, k - 1)
    <2> SUFFICES ASSUME NEW m \in 1 .. (k - 1), t[m] = Client(n),
                        \A j \in m .. (k - 1) : t[j] # Blank
                 PROVE  FALSE
      BY DEF Running
    <2>1. m \in 1 .. Len(t) /\ m \in Nat /\ k \in Nat /\ m <= k - 1 /\ k - 1 \in Nat
      OBVIOUS
    <2>2. m \in Markers(t)
      BY <2>1, ClientLine
    <2>3. k - 1 \in m .. (m + 3)
      BY <2>1, <2>2, BlockEnds
    <2>4. k \in {m + 1, m + 2, m + 3, m + 4}
      BY <2>1, <2>3
    <2>5. t[m + 1] = Peer /\ t[m + 2][1] = "PublicKey" /\ t[m + 3][1] = "AllowedIPs" /\ t[m + 4] = Blank
      BY <2>2 DEF Whole
    <2>6. t[k][1] = "[Interface]"
      BY LinesAre
    <2> QED BY <2>4, <2>5, <2>6, LinesAre
  <1> QED BY <1>1, <1>2 DEF Kept

\* The line below a kept line, if it is kept too and is no end of the text.
LEMMA CutNext ==
  ASSUME NEW r, NEW t, NEW K \in SUBSET Nat, NEW p, NEW f, Cuts(p, f, r, t, K)
  PROVE  \A y : \A x \in 1 .. p, k \in K :
           y = x + 1 /\ f[x] + 1 = k /\ (t[k] # Blank \/ y <= p) => y \in 1 .. p /\ f[y] = k
  <1> SUFFICES ASSUME NEW y, NEW x \in 1 .. p, NEW k \in K,
                      y = x + 1, f[x] + 1 = k, t[k] # Blank \/ y <= p
               PROVE  y \in 1 .. p /\ f[y] = k
    OBVIOUS
  <1>1. p \in Nat /\ (\A z \in 1 .. p : f[z] \in Nat) /\ k \in Nat
    BY DEF Cuts
  <1>2. \A z \in 1 .. p : (x < z => f[x] < f[z]) /\ (z < x => f[z] < f[x])
    BY DEF Cuts
  <1>3. t[k] # Blank \/ \E z \in 1 .. p : k <= f[z]
    <2>1. ASSUME y <= p PROVE k <= f[y] /\ y \in 1 .. p
      <3>1. y \in 1 .. p /\ x < y
        BY <1>1, <2>1
      <3> QED BY <1>1, <1>2, <3>1
    <2> QED BY <2>1
  <1>4. PICK z \in 1 .. p : f[z] = k
    BY <1>3 DEF Cuts
  <1>5. x < z
    BY <1>1, <1>2, <1>4
  <1>6. y \in 1 .. p /\ x < y /\ (y = z \/ y < z)
    BY <1>1, <1>5
  <1>7. f[x] < f[y] /\ (y < z => f[y] < f[z])
    BY <1>2, <1>4, <1>6 DEF Cuts
  <1>8. f[y] \in Nat
    BY <1>1, <1>6
  <1> QED BY <1>1, <1>4, <1>6, <1>7, <1>8

\* A block that is kept is found again, line by line.
LEMMA CutBlock ==
  ASSUME NEW r \in Seq(Line), NEW t \in Seq(Line), Whole(t), NEW n, NEW p, NEW f,
         Cuts(p, f, r, t, Kept(t, n, Len(t))),
         NEW j \in 1 .. p, f[j] \in Markers(t)
  PROVE  /\ t[f[j]][2] # n
         /\ j + 3 <= p /\ j + 4 <= Len(r) /\ r[j + 4] = Blank
         /\ f[j + 1] = f[j] + 1 /\ f[j + 2] = f[j] + 2 /\ f[j + 3] = f[j] + 3
  <1> DEFINE K == Kept(t, n, Len(t))
             i == f[j]
  <1>1. /\ p \in Nat /\ p < Len(r) /\ Len(r) \in Nat /\ i \in K /\ K \in SUBSET Nat
        /\ Cuts(p, f, r, t, K)
    BY DEF Cuts, Kept
  <1>2. t[i][2] # n
    <2>1. i \in 1 .. Len(t)
      BY <1>1 DEF Kept
    <2>2. i \in i .. (i + 3)
      BY <1>1
    <2> QED BY <1>1, <2>2, DroppedBlock
  <1>3. /\ i \in Nat
        /\ \A k \in {i, i + 1, i + 2, i + 3} : t[k] # Blank
        /\ t[i + 4] = Blank
    BY BlockInside DEF Whole
  <1>4. i + 1 \in K /\ i + 2 \in K /\ i + 3 \in K /\ i + 4 \in K
    <2>1. \A k \in i .. (i + 4) : k \in K
      BY <1>2, KeptBlock
    <2> HIDE DEF i, K
    <2> QED BY <1>3, <2>1
  <1> HIDE DEF i, K
  <1>5. \A y : \A x \in 1 .. p, k \in K :
          y = x + 1 /\ f[x] + 1 = k /\ (t[k] # Blank \/ y <= p) => y \in 1 .. p /\ f[y] = k
    <2>1. Cuts(p, f, r, t, K) /\ K \in SUBSET Nat
      BY <1>1
    <2> QED BY ONLY <2>1, CutNext
  <1>6. j + 1 \in 1 .. p /\ f[j + 1] = i + 1
    BY <1>3, <1>4, <1>5 DEF i
  <1>7. j + 2 \in 1 .. p /\ f[j + 2] = i + 2
    <2>1. j + 2 = (j + 1) + 1 /\ f[j + 1] + 1 = i + 2
      BY <1>3, <1>6
    <2> QED BY <1>3, <1>4, <1>5, <1>6, <2>1
  <1>8. j + 3 \in 1 .. p /\ f[j + 3] = i + 3
    <2>1. j + 3 = (j + 2) + 1 /\ f[j + 2] + 1 = i + 3
      BY <1>3, <1>7
    <2> QED BY <1>3, <1>4, <1>5, <1>7, <2>1
  <1>9. j + 3 <= p /\ j + 4 <= Len(r) /\ j + 4 \in 1 .. Len(r)
    BY <1>1, <1>8
  <1>10. r[j + 4] = Blank
    <2>1. CASE j + 4 <= p
      <3>1. j + 4 = (j + 3) + 1 /\ f[j + 3] + 1 = i + 4
        BY <1>3, <1>8
      <3>2. j + 4 \in 1 .. p /\ f[j + 4] = i + 4
        BY <1>3, <1>4, <1>5, <1>8, <2>1, <3>1
      <3> QED BY <1>1, <1>3, <3>2 DEF Cuts
    <2>2. CASE ~ (j + 4 <= p)
      <3>1. j + 4 > p
        BY <1>1, <2>2
      <3> QED BY <1>1, <1>9, <3>1 DEF Cuts
    <2> QED BY <2>1, <2>2
  <1> QED BY <1>2, <1>6, <1>7, <1>8, <1>9, <1>10 DEF i

\* The clients of what is left are those of another name.
LEMMA CutMarkers ==
  ASSUME NEW r \in Seq(Line), NEW t \in Seq(Line), Whole(t), NEW n, NEW p, NEW f,
         Cuts(p, f, r, t, Kept(t, n, Len(t)))
  PROVE  /\ \A j \in Markers(r) : j \in 1 .. p /\ f[j] \in Markers(t) /\ r[j] = t[f[j]]
         /\ \A i \in Markers(t) : t[i][2] # n => \E j \in Markers(r) : f[j] = i
  <1>1. p \in Nat /\ p < Len(r) /\ Len(r) \in Nat
    BY DEF Cuts
  <1>2. \A x \in 1 .. p : r[x] = t[f[x]] /\ f[x] \in 1 .. Len(t)
    <2>1. \A x \in 1 .. p : r[x] = t[f[x]] /\ f[x] \in Kept(t, n, Len(t))
      BY DEF Cuts
    <2> QED BY <2>1 DEF Kept
  <1>3. Markers(r) = {i \in 1 .. Len(r) : r[i][1] = "### Client"}
        /\ Markers(t) = {i \in 1 .. Len(t) : t[i][1] = "### Client"}
    BY MarkersAre
  <1>4. ASSUME NEW j \in Markers(r)
        PROVE  j \in 1 .. p /\ f[j] \in Markers(t) /\ r[j] = t[f[j]]
    <2>1. j \in 1 .. p
      <3>1. j \in 1 .. Len(r) /\ r[j] # Blank
        BY <1>3, LinesAre
      <3>2. ~ (j > p)
        BY <3>1 DEF Cuts
      <3> QED BY <1>1, <3>1, <3>2
    <2> QED BY <1>2, <1>3, <2>1
  <1>5. ASSUME NEW i \in Markers(t), t[i][2] # n
        PROVE  \E j \in Markers(r) : f[j] = i
    <2>1. i \in Kept(t, n, Len(t)) /\ t[i] # Blank
      <3>1. i \in Nat /\ t[i] # Blank
        BY BlockInside
      <3>2. i \in i .. (i + 4)
        BY <3>1
      <3> QED BY <1>5, <3>1, <3>2, KeptBlock
    <2>2. PICK j \in 1 .. p : f[j] = i
      BY <2>1 DEF Cuts
    <2>3. j \in 1 .. Len(r)
      BY <1>1
    <2>4. j \in Markers(r)
      BY <1>2, <1>3, <2>2, <2>3
    <2> QED BY <2>2, <2>4
  <1> QED BY <1>4, <1>5

\* What is left is formed as before.
LEMMA CutForms ==
  ASSUME NEW r \in Seq(Line), NEW t, NEW last, Formed(t, last), NEW n, NEW p, NEW f,
         Cuts(p, f, r, t, Kept(t, n, Len(t)))
  PROVE  Formed(r, last)
  <1>1. t \in Seq(Line) /\ Whole(t) /\ Owned(t) /\ Ascending(t, last)
    BY DEF Formed, Laid
  <1>2. p \in Nat /\ p < Len(r) /\ Len(r) \in Nat
    BY DEF Cuts
  <1>3. \A x \in 1 .. p : r[x] = t[f[x]] /\ f[x] \in Nat /\ f[x] \in Kept(t, n, Len(t))
                          /\ f[x] \in 1 .. Len(t)
    <2>1. \A x \in 1 .. p : r[x] = t[f[x]] /\ f[x] \in Kept(t, n, Len(t))
      BY DEF Cuts
    <2> QED BY <1>1, <2>1 DEF Kept
  <1>4. ASSUME NEW j \in Markers(r)
        PROVE  /\ j \in 1 .. p /\ j \in Nat \ {0} /\ f[j] \in Markers(t) /\ r[j] = t[f[j]]
               /\ j + 4 \in 1 .. Len(r)
               /\ r[j + 1] = t[f[j] + 1] /\ r[j + 2] = t[f[j] + 2] /\ r[j + 3] = t[f[j] + 3]
               /\ r[j + 4] = Blank
    <2>1. j \in 1 .. p /\ f[j] \in Markers(t) /\ r[j] = t[f[j]]
      BY <1>1, CutMarkers
    <2>2. /\ j + 3 <= p /\ j + 4 <= Len(r) /\ r[j + 4] = Blank
          /\ f[j + 1] = f[j] + 1 /\ f[j + 2] = f[j] + 2 /\ f[j + 3] = f[j] + 3
      BY <1>1, <2>1, CutBlock
    <2>3. j \in Nat \ {0} /\ j + 1 \in 1 .. p /\ j + 2 \in 1 .. p /\ j + 3 \in 1 .. p
          /\ j + 4 \in 1 .. Len(r)
      BY <1>2, <2>1, <2>2
    <2>4. r[j + 1] = t[f[j + 1]] /\ r[j + 2] = t[f[j + 2]] /\ r[j + 3] = t[f[j + 3]]
      BY <2>3 DEF Cuts
    <2>5. r[j + 1] = t[f[j] + 1] /\ r[j + 2] = t[f[j] + 2] /\ r[j + 3] = t[f[j] + 3]
      BY <2>2, <2>4
    <2> QED BY <2>1, <2>2, <2>3, <2>5
  <1>5. Whole(r)
    BY <1>1, <1>4 DEF Whole
  <1>6. Owned(r)
    <2> SUFFICES ASSUME NEW j \in 1 .. Len(r), NEW d \in {2, 3},
                        r[j][1] = IF d = 2 THEN "PublicKey" ELSE "AllowedIPs"
                 PROVE  \E m \in Markers(r) : j = m + d
      BY DEF Owned
    <2>1. j \in 1 .. p
      <3>1. ~ (j > p)
        BY LinesAre DEF Cuts
      <3> QED BY <1>2, <3>1
    <2>2. PICK m \in Markers(t) : f[j] = m + d
      BY <1>1, <1>3, <2>1 DEF Owned
    <2>3. m \in Nat /\ d \in Nat /\ f[j] \in Nat
      <3>1. m \in Nat
        BY <1>1, MarkersAre
      <3>2. d \in Nat
        OBVIOUS
      <3> QED BY <1>3, <2>1, <3>1, <3>2
    <2>4. t[m][2] # n
      <3> SUFFICES ASSUME t[m][2] = n PROVE FALSE
        OBVIOUS
      <3>1. f[j] \in m .. (m + 3)
        BY <2>2, <2>3
      <3> QED BY <1>1, <1>3, <2>1, <3>1, DroppedBlock
    <2>5. PICK x \in Markers(r) : f[x] = m
      BY <1>1, <2>4, CutMarkers
    <2>6. x \in 1 .. p /\ x \in Nat
      BY <1>4
    <2>7. x + d \in 1 .. p /\ f[x + d] = m + d
      <3>1. x + 3 <= p /\ f[x + 2] = m + 2 /\ f[x + 3] = m + 3
        BY <1>1, <2>5, <2>6, CutBlock
      <3> QED BY <1>2, <2>6, <3>1
    <2>8. \A y, z \in 1 .. p : y < z => f[y] < f[z]
      BY DEF Cuts
    <2>9. ~ (j < x + d) /\ ~ (x + d < j)
      BY <2>1, <2>2, <2>3, <2>7, <2>8
    <2>10. j = x + d
      BY <1>2, <2>1, <2>3, <2>6, <2>9
    <2> QED BY <2>10
  <1>7. Ascending(r, last)
    <2>1. \A i, j \in Markers(r) : i < j => f[i] < f[j]
      BY <1>4 DEF Cuts
    <2>2. \A i \in Markers(r) : f[i] \in Markers(t) /\ r[i + 2] = t[f[i] + 2]
      BY <1>4
    <2>3. \A i, j \in Markers(r) : i < j => r[i + 2][2] < r[j + 2][2]
      <3> TAKE i, j \in Markers(r)
      <3> HAVE i < j
      <3>1. t[f[i] + 2][2] < t[f[j] + 2][2]
        BY <1>1, <2>1, <2>2 DEF Ascending
      <3> QED BY <2>2, <3>1
    <2>4. \A i \in Markers(r) : r[i + 2][2] <= last
      <3> TAKE i \in Markers(r)
      <3>1. t[f[i] + 2][2] <= last
        BY <1>1, <2>2 DEF Ascending
      <3> QED BY <2>2, <3>1
    <2> QED BY <2>3, <2>4 DEF Ascending
  <1>8. Ended(r)
    <2>1. Len(r) \in 1 .. Len(r) /\ Len(r) > p /\ Len(r) > 0
      BY <1>2
    <2> QED BY <2>1 DEF Ended, Cuts
  <1> QED BY <1>5, <1>6, <1>7, <1>8 DEF Formed, Laid, Closed

LEMMA RecordWithout ==
  ASSUME NEW i, NEW S, NEW n
  PROVE  WithoutPeer([iface |-> i, blocks |-> S], n) = [iface |-> i, blocks |-> S \ Named(S, n)]
  <1> DEFINE cf == [iface |-> i, blocks |-> S]
  <1>1. cf.blocks = S
    OBVIOUS
  <1>2. \A X : [cf EXCEPT !.blocks = X] = [iface |-> i, blocks |-> X]
    OBVIOUS
  <1>3. WithoutPeer(cf, n) = [cf EXCEPT !.blocks = cf.blocks \ Named(cf.blocks, n)]
    BY DEF WithoutPeer
  <1> HIDE DEF cf
  <1>4. WithoutPeer(cf, n) = [iface |-> i, blocks |-> S \ Named(S, n)]
    BY <1>1, <1>2, <1>3
  <1> QED BY <1>4 DEF cf

\* And it is the file without the clients of the name, to all who parse it.
LEMMA CutParses ==
  ASSUME NEW r \in Seq(Line), NEW t, NEW last, Formed(t, last), NEW n, NEW p, NEW f,
         Cuts(p, f, r, t, Kept(t, n, Len(t)))
  PROVE  ParseContent(r) = WithoutPeer(ParseContent(t), n)
  <1>1. t \in Seq(Line) /\ Whole(t) /\ Owned(t)
    BY DEF Formed, Laid
  <1>2. r \in Seq(Line) /\ Whole(r) /\ Owned(r)
    BY CutForms DEF Formed, Laid
  <1>3. p \in Nat /\ p < Len(r) /\ Len(r) \in Nat /\ Len(t) \in Nat
    BY <1>1 DEF Cuts
  <1>4. \A x \in 1 .. p : r[x] = t[f[x]] /\ f[x] \in 1 .. Len(t)
    <2>1. \A x \in 1 .. p : r[x] = t[f[x]] /\ f[x] \in Kept(t, n, Len(t))
      BY DEF Cuts
    <2> QED BY <1>1, <2>1 DEF Kept
  <1>5. ASSUME NEW j \in Markers(r)
        PROVE  /\ f[j] \in Markers(t) /\ t[f[j]][2] # n
               /\ ParsedPeer(r, j) = ParsedPeer(t, f[j])
    <2>1. j \in 1 .. p /\ f[j] \in Markers(t) /\ r[j] = t[f[j]]
      BY <1>1, CutMarkers
    <2>2. /\ t[f[j]][2] # n /\ j + 3 <= p
          /\ f[j + 2] = f[j] + 2 /\ f[j + 3] = f[j] + 3
      BY <1>1, <2>1, CutBlock
    <2>3. j + 2 \in 1 .. p /\ j + 3 \in 1 .. p
      BY <1>3, <2>1, <2>2
    <2>4. r[j + 2] = t[f[j] + 2] /\ r[j + 3] = t[f[j] + 3]
      BY <1>4, <2>2, <2>3
    <2>5. ParsedPeer(r, j) = [name |-> r[j][2], key |-> r[j + 2][2], ip |-> r[j + 3][2]]
      BY <1>2, ParsedPeerIs
    <2>6. ParsedPeer(t, f[j]) =
            [name |-> t[f[j]][2], key |-> t[f[j] + 2][2], ip |-> t[f[j] + 3][2]]
      BY <1>1, <2>1, ParsedPeerIs
    <2> QED BY <2>1, <2>2, <2>4, <2>5, <2>6
  <1>6. \A i \in Markers(t) : ParsedPeer(t, i).name = t[i][2]
    BY DEF ParsedPeer
  <1>7. {ParsedPeer(r, j) : j \in Markers(r)}
          = {b \in {ParsedPeer(t, i) : i \in Markers(t)} : b.name # n}
    <2>1. ASSUME NEW j \in Markers(r)
          PROVE  ParsedPeer(r, j) \in {b \in {ParsedPeer(t, i) : i \in Markers(t)} : b.name # n}
      BY <1>5, <1>6
    <2>2. ASSUME NEW i \in Markers(t), ParsedPeer(t, i).name # n
          PROVE  ParsedPeer(t, i) \in {ParsedPeer(r, j) : j \in Markers(r)}
      <3>1. PICK j \in Markers(r) : f[j] = i
        BY <1>1, <1>6, <2>2, CutMarkers
      <3> QED BY <1>5, <3>1
    <2> QED BY <2>1, <2>2
  <1>8. Contains(r, Iface) <=> Contains(t, Iface)
    <2>1. ASSUME NEW j \in 1 .. Len(r), r[j] = Iface
          PROVE  \E i \in 1 .. Len(t) : t[i] = Iface
      <3>1. ~ (j > p)
        BY <2>1 DEF Cuts, Iface, Blank
      <3>2. j \in 1 .. p
        BY <1>3, <3>1
      <3> QED BY <1>4, <2>1, <3>2
    <2>2. ASSUME NEW i \in 1 .. Len(t), t[i] = Iface
          PROVE  \E j \in 1 .. Len(r) : r[j] = Iface
      <3>1. i \in Kept(t, n, Len(t)) /\ t[i] # Blank
        BY <1>1, <2>2, KeptIface DEF Iface, Blank
      <3>2. PICK j \in 1 .. p : f[j] = i
        BY <3>1 DEF Cuts
      <3>3. j \in 1 .. Len(r)
        BY <1>3
      <3> QED BY <1>4, <2>2, <3>2, <3>3
    <2> QED BY <2>1, <2>2 DEF Contains
  <1> DEFINE B(u) == {ParsedPeer(u, i) : i \in Markers(u)}
  <1>9. \A u : ParseContent(u) = [iface |-> Contains(u, Iface), blocks |-> B(u)]
    BY DEF ParseContent
  <1>10. B(r) = {b \in B(t) : b.name # n}
    BY <1>7
  <1> HIDE DEF B
  <1>11. B(r) = B(t) \ Named(B(t), n)
    BY <1>10 DEF Named
  <1>12. WithoutPeer(ParseContent(t), n)
           = [iface |-> Contains(t, Iface), blocks |-> B(t) \ Named(B(t), n)]
    BY <1>9, RecordWithout
  <1>13. Contains(r, Iface) = Contains(t, Iface)
    BY <1>8 DEF Contains
  <1> QED BY <1>9, <1>11, <1>12, <1>13

LEMMA RemovedForms ==
  ASSUME NEW t, NEW last, Formed(t, last), NEW n
  PROVE  /\ Formed(Removed(t, n), last)
         /\ ParseContent(Removed(t, n)) = WithoutPeer(ParseContent(t), n)
  <1>1. t \in Seq(Line)
    BY DEF Formed, Laid
  <1>2. Removed(t, n) \in Seq(Line)
    BY <1>1, RemovedCuts
  <1>3. PICK p, f : Cuts(p, f, Removed(t, n), t, Kept(t, n, Len(t)))
    BY <1>1, RemovedCuts
  <1> QED BY <1>2, <1>3, CutForms, CutParses

-----------------------------------------------------------------------------
(* Additions.                                                                *)

\* A line below that is blank or that no loop looks at changes nothing.
LEMMA LineMore ==
  ASSUME NEW t, NEW last, Laid(t, last), NEW l \in {Blank, Other}
  PROVE  Laid(t \o <<l>>, last) /\ ParseContent(t \o <<l>>) = ParseContent(t)
  <1> DEFINE u == t \o <<l>>
  <1>1. t \in Seq(Line) /\ Whole(t) /\ Owned(t) /\ Ascending(t, last) /\ Len(t) \in Nat
    BY DEF Laid
  <1>2. l \in Line /\ l[1] \in {"blank", "other"} /\ l # Iface
    <2>1. Blank \in Line /\ Other \in Line
      BY DEF Line, Blank, Other
    <2> QED BY <2>1, LinesAre
  <1>3. u \in Seq(Line) /\ Len(u) = Len(t) + 1 /\ u[Len(t) + 1] = l
        /\ \A i \in 1 .. Len(t) : u[i] = t[i]
    BY <1>1, <1>2
  <1> HIDE DEF u
  <1>4. Markers(u) = Markers(t)
    <2>1. /\ Markers(u) = {i \in 1 .. Len(u) : u[i][1] = "### Client"}
          /\ Markers(t) = {i \in 1 .. Len(t) : t[i][1] = "### Client"}
      BY <1>1, <1>3, MarkersAre
    <2>2. \A i \in 1 .. Len(u) : i \in 1 .. Len(t) \/ i = Len(t) + 1
      BY <1>1, <1>3
    <2>3. \A i \in 1 .. Len(t) : i \in 1 .. Len(u)
      BY <1>1, <1>3
    <2> QED BY <1>2, <1>3, <2>1, <2>2, <2>3
  <1>5. ASSUME NEW i \in Markers(t)
        PROVE  /\ i \in 1 .. Len(t) /\ i + 1 \in 1 .. Len(t) /\ i + 2 \in 1 .. Len(t)
               /\ i + 3 \in 1 .. Len(t) /\ i + 4 \in 1 .. Len(t) /\ i + 4 \in 1 .. Len(u)
    <2>1. i \in Nat \ {0} /\ i + 4 <= Len(t)
      BY <1>1, BlockInside
    <2> QED BY <1>1, <1>3, <2>1
  <1>6. \A i \in Markers(t) : /\ u[i] = t[i] /\ u[i + 1] = t[i + 1] /\ u[i + 2] = t[i + 2]
                              /\ u[i + 3] = t[i + 3] /\ u[i + 4] = t[i + 4]
    BY <1>3, <1>5
  <1>7. Whole(u)
    BY <1>1, <1>4, <1>5, <1>6 DEF Whole
  <1>8. Owned(u)
    <2>1. \A i \in 1 .. Len(u) : (i \in 1 .. Len(t) /\ u[i] = t[i]) \/ u[i] = l
      BY <1>1, <1>3
    <2> QED BY <1>1, <1>2, <1>4, <2>1 DEF Owned
  <1>9. Ascending(u, last)
    BY <1>1, <1>4, <1>6 DEF Ascending
  <1>10. \A i \in Markers(t) : ParsedPeer(u, i) = ParsedPeer(t, i)
    <2> TAKE i \in Markers(t)
    <2>1. ParsedPeer(u, i) = [name |-> u[i][2], key |-> u[i + 2][2], ip |-> u[i + 3][2]]
      BY <1>3, <1>4, <1>7, <1>8, ParsedPeerIs
    <2>2. ParsedPeer(t, i) = [name |-> t[i][2], key |-> t[i + 2][2], ip |-> t[i + 3][2]]
      BY <1>1, ParsedPeerIs
    <2> QED BY <1>6, <2>1, <2>2
  <1>11. Contains(u, Iface) = Contains(t, Iface)
    <2>1. \A i \in 1 .. Len(u) : (i \in 1 .. Len(t) /\ u[i] = t[i]) \/ u[i] = l
      BY <1>1, <1>3
    <2>2. \A i \in 1 .. Len(t) : i \in 1 .. Len(u) /\ u[i] = t[i]
      BY <1>1, <1>3
    <2> QED BY <1>2, <2>1, <2>2 DEF Contains
  <1>12. {ParsedPeer(u, i) : i \in Markers(u)} = {ParsedPeer(t, i) : i \in Markers(t)}
    BY <1>4, <1>10
  <1> QED BY <1>3, <1>7, <1>8, <1>9, <1>11, <1>12 DEF Laid, ParseContent, u

\* The five lines of a new client.
LEMMA BlockLinesAre ==
  ASSUME NEW n \in Names, NEW k \in Nat, NEW i \in Octets
  PROVE  LET B == BlockLines([name |-> n, key |-> k, ip |-> i])
         IN  /\ B \in Seq(Line) /\ Len(B) = 5
             /\ B[1] = Client(n) /\ B[2] = Peer /\ B[3] = Key(k) /\ B[4] = Ips(i) /\ B[5] = Blank
  <1>1. Client(n) \in Line /\ Peer \in Line /\ Key(k) \in Line /\ Blank \in Line
    BY DEF Line, Client, Peer, Key, Blank
  <1>2. Ips(i) \in Line
    <2>1. i \in Nat
      BY LastOctetAssumption DEF Octets
    <2> QED BY <2>1 DEF Line, Ips
  <1>3. BlockLines([name |-> n, key |-> k, ip |-> i]) = <<Client(n), Peer, Key(k), Ips(i), Blank>>
    BY DEF BlockLines
  <1> DEFINE B == <<Client(n), Peer, Key(k), Ips(i), Blank>>
  <1>4. /\ B \in Seq(Line) /\ Len(B) = 5
        /\ B[1] = Client(n) /\ B[2] = Peer /\ B[3] = Key(k) /\ B[4] = Ips(i) /\ B[5] = Blank
    BY <1>1, <1>2
  <1> HIDE DEF B
  <1> QED BY <1>3, <1>4 DEF B

\* Below a text whose keys are older they are a client more.
LEMMA BlockMore ==
  ASSUME NEW t, NEW last \in Nat, Laid(t, last), NEW n \in Names, NEW i \in Octets
  PROVE  LET b == [name |-> n, key |-> last + 1, ip |-> i]
         IN  /\ Formed(t \o BlockLines(b), last + 1)
             /\ ParseContent(t \o BlockLines(b)) = AppendPeer(ParseContent(t), b)
  <1> DEFINE b == [name |-> n, key |-> last + 1, ip |-> i]
             B == BlockLines(b)
             u == t \o B
             L == Len(t)
  <1>1. t \in Seq(Line) /\ Whole(t) /\ Owned(t) /\ Ascending(t, last) /\ L \in Nat
    BY DEF Laid
  <1>2. /\ B \in Seq(Line) /\ Len(B) = 5
        /\ B[1] = Client(n) /\ B[2] = Peer /\ B[3] = Key(last + 1) /\ B[4] = Ips(i) /\ B[5] = Blank
    BY BlockLinesAre
  <1>3. /\ u \in Seq(Line) /\ Len(u) = L + 5 /\ \A x \in 1 .. L : u[x] = t[x]
        /\ \A x \in 1 .. 5 : u[L + x] = B[x]
    <2> HIDE DEF B
    <2>1. u \in Seq(Line) /\ Len(u) = L + 5
          /\ \A x \in 1 .. (L + 5) : u[x] = IF x <= L THEN t[x] ELSE B[x - L]
      <3>1. t \in Seq(Line) /\ B \in Seq(Line) /\ Len(B) = 5
        BY <1>1, <1>2
      <3>2. t \o B \in Seq(Line) /\ Len(t \o B) = Len(t) + Len(B)
            /\ \A x \in 1 .. Len(t) + Len(B) :
                 (t \o B)[x] = IF x <= Len(t) THEN t[x] ELSE B[x - Len(t)]
        BY <3>1, ConcatProperties
      <3> QED BY <3>1, <3>2
    <2>2. ASSUME NEW x \in 1 .. 5 PROVE u[L + x] = B[x]
      <3>1. L + x \in 1 .. (L + 5) /\ ~ (L + x <= L) /\ (L + x) - L = x
        BY <1>1
      <3> HIDE DEF L, u
      <3> QED BY <2>1, <3>1
    <2>3. ASSUME NEW x \in 1 .. L PROVE u[x] = t[x]
      <3>1. x \in 1 .. (L + 5) /\ x <= L
        BY <1>1
      <3> HIDE DEF L, u
      <3> QED BY <2>1, <3>1
    <2> QED BY <2>1, <2>2, <2>3
  <1> HIDE DEF B, u, L
  <1>4. /\ u[L + 1] = Client(n) /\ u[L + 2] = Peer /\ u[L + 3] = Key(last + 1)
        /\ u[L + 4] = Ips(i) /\ u[L + 5] = Blank
    BY <1>2, <1>3
  <1>5. \A x \in 1 .. Len(u) : \/ x \in 1 .. L /\ u[x] = t[x]
                               \/ x \in {L + 1, L + 2, L + 3, L + 4, L + 5}
    BY <1>1, <1>3
  <1>6. Markers(u) = Markers(t) \cup {L + 1}
    <2>1. /\ Markers(u) = {x \in 1 .. Len(u) : u[x][1] = "### Client"}
          /\ Markers(t) = {x \in 1 .. L : t[x][1] = "### Client"}
      BY <1>1, <1>3, MarkersAre DEF L
    <2>2. /\ u[L + 1][1] = "### Client" /\ u[L + 2][1] # "### Client" /\ u[L + 3][1] # "### Client"
          /\ u[L + 4][1] # "### Client" /\ u[L + 5][1] # "### Client"
      BY <1>4, LinesAre
    <2>3. (\A x \in 1 .. L : x \in 1 .. Len(u)) /\ L + 1 \in 1 .. Len(u)
      BY <1>1, <1>3
    <2>4. \A x \in Markers(u) : x \in Markers(t) \cup {L + 1}
      BY <1>5, <2>1, <2>2
    <2>5. \A x \in Markers(t) \cup {L + 1} : x \in Markers(u)
      BY <1>3, <2>1, <2>2, <2>3
    <2> QED BY <2>4, <2>5
  <1>7. ASSUME NEW m \in Markers(t)
        PROVE  /\ m \in Nat \ {0} /\ m + 4 <= L /\ m + 4 \in 1 .. Len(u)
               /\ u[m] = t[m] /\ u[m + 1] = t[m + 1] /\ u[m + 2] = t[m + 2]
               /\ u[m + 3] = t[m + 3] /\ u[m + 4] = t[m + 4]
    <2>1. m \in Nat \ {0} /\ m + 4 <= L
      BY <1>1, BlockInside DEF L
    <2>2. /\ m \in 1 .. L /\ m + 1 \in 1 .. L /\ m + 2 \in 1 .. L /\ m + 3 \in 1 .. L
          /\ m + 4 \in 1 .. L /\ m + 4 \in 1 .. Len(u)
      BY <1>1, <1>3, <2>1
    <2> QED BY <1>3, <2>1, <2>2
  <1>8. /\ L + 1 + 4 = L + 5 /\ L + 1 + 3 = L + 4 /\ L + 1 + 2 = L + 3 /\ L + 1 + 1 = L + 2
        /\ L + 5 \in 1 .. Len(u)
    BY <1>1, <1>3
  <1>9. /\ u[L + 1][2] = n /\ u[L + 3][1] = "PublicKey" /\ u[L + 3][2] = last + 1
        /\ u[L + 4][1] = "AllowedIPs" /\ u[L + 4][2] = i
    <2>1. u[L + 1][2] = n
      BY <1>4, LinesAre
    <2>2. u[L + 3][1] = "PublicKey" /\ u[L + 3][2] = last + 1
      BY <1>4, LinesAre
    <2>3. u[L + 4][1] = "AllowedIPs" /\ u[L + 4][2] = i
      BY <1>4, LinesAre
    <2> QED BY <2>1, <2>2, <2>3
  <1>10. Whole(u)
    <2> SUFFICES ASSUME NEW m \in Markers(u)
                 PROVE  /\ m + 4 \in 1 .. Len(u) /\ u[m][2] \in Names
                        /\ u[m + 1] = Peer
                        /\ u[m + 2][1] = "PublicKey" /\ u[m + 2][2] \in Nat \ {0}
                        /\ u[m + 3][1] = "AllowedIPs" /\ u[m + 3][2] \in Octets
                        /\ u[m + 4] = Blank
      BY DEF Whole
    <2>1. CASE m \in Markers(t)
      BY <1>1, <1>7, <2>1 DEF Whole
    <2>2. CASE m = L + 1
      <3>1. last + 1 \in Nat \ {0}
        OBVIOUS
      <3> QED BY <1>4, <1>8, <1>9, <2>2, <3>1
    <2> QED BY <1>6, <2>1, <2>2
  <1>11. Owned(u)
    <2> SUFFICES ASSUME NEW x \in 1 .. Len(u)
                 PROVE  /\ u[x][1] = "PublicKey"  => \E m \in Markers(u) : x = m + 2
                        /\ u[x][1] = "AllowedIPs" => \E m \in Markers(u) : x = m + 3
      BY DEF Owned
    <2>1. CASE x \in 1 .. L /\ u[x] = t[x]
      BY <1>1, <1>6, <2>1 DEF Owned, L
    <2>2. CASE x \in {L + 1, L + 2, L + 3, L + 4, L + 5}
      <3>1. L + 1 \in Markers(u)
        BY <1>6
      <3>2. /\ u[L + 1][1] \notin {"PublicKey", "AllowedIPs"}
            /\ u[L + 2][1] \notin {"PublicKey", "AllowedIPs"}
            /\ u[L + 5][1] \notin {"PublicKey", "AllowedIPs"}
        BY <1>4, LinesAre
      <3> QED BY <1>8, <1>9, <2>2, <3>1, <3>2
    <2> QED BY <1>5, <2>1, <2>2
  <1>12. Ascending(u, last + 1)
    <2>1. \A m \in Markers(t) : u[m + 2][2] \in Nat /\ u[m + 2][2] <= last
      BY <1>1, <1>7 DEF Whole, Ascending
    <2>2. \A m \in Markers(t) : u[m + 2][2] < last + 1 /\ u[m + 2][2] <= last + 1
      BY <2>1
    <2>3. u[L + 1 + 2][2] = last + 1 /\ last + 1 <= last + 1
      BY <1>8, <1>9
    <2>4. \A x, y \in Markers(t) : x < y => u[x + 2][2] < u[y + 2][2]
      BY <1>1, <1>7 DEF Ascending
    <2>5. \A x \in Markers(t) : ~ (L + 1 < x)
      BY <1>1, <1>7
    <2>6. ~ (L + 1 < L + 1)
      BY <1>1
    <2> QED BY <1>6, <2>2, <2>3, <2>4, <2>5, <2>6 DEF Ascending
  <1>13. Ended(u)
    BY <1>1, <1>3, <1>4 DEF Ended
  <1>14. \A m \in Markers(t) : ParsedPeer(u, m) = ParsedPeer(t, m)
    <2> TAKE m \in Markers(t)
    <2>1. ParsedPeer(u, m) = [name |-> u[m][2], key |-> u[m + 2][2], ip |-> u[m + 3][2]]
      BY <1>3, <1>6, <1>10, <1>11, ParsedPeerIs
    <2>2. ParsedPeer(t, m) = [name |-> t[m][2], key |-> t[m + 2][2], ip |-> t[m + 3][2]]
      BY <1>1, ParsedPeerIs
    <2> QED BY <1>7, <2>1, <2>2
  <1>15. ParsedPeer(u, L + 1) = b
    <2>1. ParsedPeer(u, L + 1) =
            [name |-> u[L + 1][2], key |-> u[L + 1 + 2][2], ip |-> u[L + 1 + 3][2]]
      BY <1>3, <1>6, <1>10, <1>11, ParsedPeerIs
    <2> QED BY <1>8, <1>9, <2>1
  <1>16. Contains(u, Iface) = Contains(t, Iface)
    <2>1. \A x \in 1 .. L : x \in 1 .. Len(u) /\ u[x] = t[x]
      BY <1>1, <1>3
    <2>2. /\ u[L + 1] # Iface /\ u[L + 2] # Iface /\ u[L + 3] # Iface /\ u[L + 4] # Iface
          /\ u[L + 5] # Iface
      <3>1. Iface[1] = "[Interface]" /\ u[L + 3][1] = "PublicKey" /\ u[L + 4][1] = "AllowedIPs"
        BY <1>9, LinesAre
      <3>2. u[L + 1][1] = "### Client" /\ u[L + 2][1] = "[Peer]" /\ u[L + 5][1] = "blank"
        BY <1>4, LinesAre
      <3> QED BY <3>1, <3>2
    <2> QED BY <1>5, <2>1, <2>2 DEF Contains, L
  <1> HIDE DEF b
  <1>17. {ParsedPeer(u, m) : m \in Markers(u)} = {ParsedPeer(t, m) : m \in Markers(t)} \cup {b}
    BY <1>6, <1>14, <1>15
  <1>18. ParseContent(u) = AppendPeer(ParseContent(t), b)
    <2> DEFINE S(v) == {ParsedPeer(v, m) : m \in Markers(v)}
    <2>1. \A v : ParseContent(v) = [iface |-> Contains(v, Iface), blocks |-> S(v)]
      BY DEF ParseContent
    <2>2. S(u) = S(t) \cup {b}
      BY <1>17
    <2> HIDE DEF S
    <2>3. \A x, X, Y : [[iface |-> x, blocks |-> X] EXCEPT !.blocks = Y] = [iface |-> x, blocks |-> Y]
      OBVIOUS
    <2>4. AppendPeer(ParseContent(t), b) = [ParseContent(t) EXCEPT !.blocks = ParseContent(t).blocks \cup {b}]
      BY DEF AppendPeer
    <2>5. ParseContent(t).blocks = S(t)
      BY <2>1
    <2> QED BY <1>16, <2>1, <2>2, <2>3, <2>4, <2>5
  <1> QED BY <1>3, <1>10, <1>11, <1>12, <1>13, <1>18 DEF Formed, Laid, Closed, u, B, b

-----------------------------------------------------------------------------
(* The texts without a client: a truncated file, and the file of a server to *)
(* which nobody has been added.                                              *)

LEMMA EmptyLaid ==
  ASSUME NEW t \in Seq(Line), NEW last, \A i \in 1 .. Len(t) : t[i] \in {Blank, Iface, Other}
  PROVE  Laid(t, last) /\ ParseContent(t) = [iface |-> Contains(t, Iface), blocks |-> {}]
  <1>1. Markers(t) = {i \in 1 .. Len(t) : t[i][1] = "### Client"}
    BY MarkersAre
  <1>2. \A i \in 1 .. Len(t) : t[i][1] \in {"blank", "[Interface]", "other"}
    BY LinesAre
  <1>3. Markers(t) = {}
    BY <1>1, <1>2
  <1>4. Whole(t) /\ Owned(t) /\ Ascending(t, last)
    BY <1>2, <1>3 DEF Whole, Owned, Ascending
  <1>5. {ParsedPeer(t, i) : i \in Markers(t)} = {}
    BY <1>3
  <1> QED BY <1>4, <1>5 DEF Laid, ParseContent

LEMMA TruncatedText ==
  ASSUME NEW last
  PROVE  Formed(<<Blank>>, last) /\ ParseContent(<<Blank>>) = Truncated
  <1> DEFINE t == <<Blank>>
  <1>1. Blank \in Line
    BY DEF Line, Blank
  <1>2. t \in Seq(Line) /\ Len(t) = 1 /\ t[1] = Blank
    BY <1>1
  <1> HIDE DEF t
  <1>3. \A i \in 1 .. Len(t) : t[i] = Blank
    BY <1>2
  <1>4. Contains(t, Iface) = FALSE
    <2>1. Blank # Iface
      BY LinesAre
    <2> QED BY <1>3, <2>1 DEF Contains
  <1>5. Laid(t, last) /\ ParseContent(t) = [iface |-> FALSE, blocks |-> {}]
    BY <1>2, <1>3, <1>4, EmptyLaid
  <1>6. Ended(t)
    BY <1>2 DEF Ended
  <1> QED BY <1>5, <1>6 DEF Formed, Closed, Truncated, t

Head3 == <<Iface, Other, Blank>>

LEMMA FirstText ==
  /\ Head3 \in Seq(Line)
  /\ Formed(Head3, 0)
  /\ ParseContent(Head3) = [iface |-> TRUE, blocks |-> {}]
  <1>1. Blank \in Line /\ Iface \in Line /\ Other \in Line
    BY DEF Line, Blank, Iface, Other
  <1>2. /\ Head3 \in Seq(Line) /\ Len(Head3) = 3
        /\ Head3[1] = Iface /\ Head3[2] = Other /\ Head3[3] = Blank
    BY <1>1 DEF Head3
  <1>3. \A i \in 1 .. Len(Head3) : Head3[i] \in {Blank, Iface, Other}
    BY <1>2
  <1>4. Contains(Head3, Iface) = TRUE
    BY <1>2 DEF Contains
  <1>5. Laid(Head3, 0) /\ ParseContent(Head3) = [iface |-> TRUE, blocks |-> {}]
    BY <1>2, <1>3, <1>4, EmptyLaid
  <1>6. Ended(Head3)
    BY <1>2 DEF Ended
  <1> QED BY <1>2, <1>5, <1>6 DEF Formed, Closed

-----------------------------------------------------------------------------
(* The file as the program finds it.                                         *)

\* What FlattenSeq makes of the first k of the sequences P.
Flattens(F, P, k) == F = [i \in 1 .. k |-> IF i = 1 THEN P[i] ELSE F[i - 1] \o P[i]]

LEMMA FlattenExists ==
  ASSUME NEW P
  PROVE  \A k \in Nat : \E F : Flattens(F, P, k)
  <1> DEFINE T == {k \in Nat : ~ \E F : Flattens(F, P, k)}
  <1> SUFFICES ASSUME T # {} PROVE FALSE
    OBVIOUS
  <1>1. PICK k \in T : \A j \in T : k <= j
    <2> HIDE DEF T
    <2>1. T \in SUBSET Nat
      BY DEF T
    <2> QED BY <2>1, Smallest
  <1>2. k # 0
    <2> DEFINE F == [i \in 1 .. 0 |-> <<>>]
    <2>1. 1 .. 0 = {}
      OBVIOUS
    <2>2. F = [i \in 1 .. 0 |-> IF i = 1 THEN P[i] ELSE F[i - 1] \o P[i]]
      BY <2>1
    <2>3. Flattens(F, P, 0)
      <3> HIDE DEF F
      <3> QED BY <2>2 DEF Flattens
    <2> QED BY <2>3
  <1>3. PICK G : Flattens(G, P, k - 1)
    BY <1>1, <1>2
  <1> DEFINE F == [i \in 1 .. k |-> IF i = k THEN (IF i = 1 THEN P[i] ELSE G[i - 1] \o P[i])
                                    ELSE G[i]]
  <1>4. \A i \in 1 .. k : i < k => F[i] = G[i]
    OBVIOUS
  <1>5. \A i \in 1 .. k : i # 1 => i - 1 \in 1 .. k /\ i - 1 < k
    BY <1>1
  <1>6. ASSUME NEW i \in 1 .. k
        PROVE  F[i] = IF i = 1 THEN P[i] ELSE F[i - 1] \o P[i]
    <2>1. CASE i = k
      <3>1. F[i] = IF i = 1 THEN P[i] ELSE G[i - 1] \o P[i]
        BY <2>1
      <3>2. i # 1 => F[i - 1] = G[i - 1]
        <4> HIDE DEF F
        <4> QED BY <1>4, <1>5
      <3> HIDE DEF F
      <3> QED BY <3>1, <3>2
    <2>2. CASE i # k
      <3>1. i < k /\ i \in 1 .. (k - 1)
        BY <1>1, <2>2
      <3>2. G[i] = IF i = 1 THEN P[i] ELSE G[i - 1] \o P[i]
        BY <1>3, <3>1 DEF Flattens
      <3>3. F[i] = G[i] /\ (i # 1 => F[i - 1] = G[i - 1])
        <4> HIDE DEF F
        <4> QED BY <1>4, <1>5, <3>1
      <3> HIDE DEF F
      <3> QED BY <3>2, <3>3
    <2> QED BY <2>1, <2>2
  <1>7. F = [i \in 1 .. k |-> F[i]]
    OBVIOUS
  <1>8. Flattens(F, P, k)
    <2> HIDE DEF F
    <2> QED BY <1>6, <1>7 DEF Flattens
  <1> QED BY <1>1, <1>8

LEMMA FlattenSteps ==
  ASSUME NEW P, Len(P) \in Nat
  PROVE  \E F : /\ Flattens(F, P, Len(P))
                /\ FlattenSeq(P) = IF Len(P) = 0 THEN P ELSE F[Len(P)]
  <1> DEFINE F == CHOOSE G : Flattens(G, P, Len(P))
  <1>1. Flattens(F, P, Len(P))
    BY FlattenExists
  <1>2. FlattenSeq(P) = IF Len(P) = 0 THEN P ELSE F[Len(P)]
    BY DEF FlattenSeq, Flattens
  <1> QED BY <1>1, <1>2

Lead(shape) == IF shape = "edited" THEN <<Other>> ELSE <<>>
Tail0(shape) == IF shape = "edited" THEN <<Blank>> ELSE <<>>

Has(t) == ParseContent(t).iface = TRUE

LEMMA LeadAndTail ==
  ASSUME NEW shape
  PROVE  /\ Lead(shape) \in Seq(Line) /\ Tail0(shape) \in Seq(Line)
         /\ Lead(shape) \in {<<>>, <<Other>>} /\ Tail0(shape) \in {<<>>, <<Blank>>}
  <1>1. Blank \in Line /\ Other \in Line
    BY DEF Line, Blank, Other
  <1>2. <<>> \in Seq(Line) /\ <<Blank>> \in Seq(Line) /\ <<Other>> \in Seq(Line)
    BY <1>1
  <1> QED BY <1>2 DEF Lead, Tail0

\* A client under the next key, in any of the layouts.
LEMMA ClientMore ==
  ASSUME NEW t, NEW last \in Nat, Formed(t, last), Has(t), NEW n \in Names, NEW i \in Octets,
         NEW shape
  PROVE  LET b == [name |-> n, key |-> last + 1, ip |-> i]
             part == Lead(shape) \o BlockLines(b) \o Tail0(shape)
         IN  part \in Seq(Line) /\ Formed(t \o part, last + 1) /\ Has(t \o part)
  <1> DEFINE b == [name |-> n, key |-> last + 1, ip |-> i]
             B == BlockLines(b)
             lead == Lead(shape)
             tail == Tail0(shape)
             u == t \o lead
             v == u \o B
             w == v \o tail
  <1>1. t \in Seq(Line) /\ Laid(t, last) /\ lead \in Seq(Line) /\ tail \in Seq(Line)
        /\ lead \in {<<>>, <<Other>>} /\ tail \in {<<>>, <<Blank>>}
    BY LeadAndTail DEF Formed, Laid
  <1>2. B \in Seq(Line)
    <2>1. last + 1 \in Nat
      OBVIOUS
    <2> QED BY <2>1, BlockLinesAre
  <1> HIDE DEF lead, tail
  <1>3. Laid(u, last) /\ Has(u)
    <2>1. CASE lead = <<>>
      BY <1>1, <2>1, ConcatEmptySeq
    <2>2. CASE lead = <<Other>>
      BY <1>1, <2>2, LineMore DEF Has
    <2> QED BY <1>1, <2>1, <2>2
  <1> HIDE DEF u
  <1>4. Formed(v, last + 1) /\ Has(v)
    <2>1. Formed(v, last + 1) /\ ParseContent(v) = AppendPeer(ParseContent(u), b)
      BY <1>3, BlockMore
    <2>2. AppendPeer(ParseContent(u), b).iface = ParseContent(u).iface
      BY DEF AppendPeer, ParseContent
    <2> QED BY <1>3, <2>1, <2>2 DEF Has
  <1> HIDE DEF v, B
  <1>5. Formed(w, last + 1) /\ Has(w)
    <2>1. v \in Seq(Line) /\ Laid(v, last + 1)
      BY <1>4 DEF Formed, Laid
    <2>2. CASE tail = <<>>
      BY <1>4, <2>1, <2>2, ConcatEmptySeq
    <2>3. CASE tail = <<Blank>>
      <3>1. Laid(w, last + 1) /\ ParseContent(w) = ParseContent(v)
        BY <2>1, <2>3, LineMore
      <3>2. Blank \in Line
        BY DEF Line, Blank
      <3>3. Len(w) = Len(v) + 1 /\ w[Len(v) + 1] = Blank /\ Len(v) \in Nat
        BY <2>1, <2>3, <3>2
      <3>4. Ended(w)
        BY <3>3 DEF Ended
      <3> QED BY <1>4, <3>1, <3>4 DEF Formed, Closed, Has
    <2> QED BY <1>1, <2>2, <2>3
  <1>6. w = t \o (lead \o B \o tail)
    <2>1. lead \o B \in Seq(Line)
      BY <1>1, <1>2, ConcatProperties
    <2>2. v = t \o (lead \o B)
      BY <1>1, <1>2, ConcatAssociative DEF u, v
    <2> DEFINE m == lead \o B
    <2>3. m \in Seq(Line) /\ v = t \o m
      BY <2>1, <2>2
    <2> HIDE DEF m
    <2>4. (t \o m) \o tail = t \o (m \o tail)
      <3>1. t \in Seq(Line) /\ m \in Seq(Line) /\ tail \in Seq(Line)
        BY <1>1, <2>3
      <3> QED BY ONLY <3>1, ConcatAssociative, SMT
    <2>5. w = t \o (m \o tail)
      BY <2>3, <2>4
    <2> HIDE DEF w
    <2> QED BY <2>5 DEF m
  <1>7. lead \o B \o tail \in Seq(Line)
    <2>1. lead \o B \in Seq(Line)
      BY <1>1, <1>2, ConcatProperties
    <2> QED BY <1>1, <2>1, ConcatProperties
  <1> HIDE DEF w
  <1> QED BY <1>5, <1>6, <1>7 DEF B, b, lead, tail

LEMMA WrittenForms ==
  ASSUME NEW k \in 0 .. MaxClients, NEW names \in [1 .. k -> Names], NEW shape,
         shape # "manual"
  PROVE  LET t == Written([i \in 1 .. k |-> [name |-> names[i], key |-> i, ip |-> i + 1]], shape)
         IN  Formed(t, k) /\ Has(t)
  <1> DEFINE client(i) == [name |-> names[i], key |-> i, ip |-> i + 1]
             part(i) == Lead(shape) \o BlockLines(client(i)) \o Tail0(shape)
             clients == [i \in 1 .. k |-> client(i)]
             P == [i \in 1 .. k |-> part(i)]
             t == Written(clients, shape)
  <1>1. k \in Nat /\ k < LastOctet /\ LastOctet \in Nat
    BY BoundsAssumption, LastOctetAssumption
  <1>2. t = Head3 \o FlattenSeq(P)
    <2>1. DOMAIN clients = 1 .. k /\ \A i \in 1 .. k : clients[i] = client(i)
      OBVIOUS
    <2>2. t = Head3 \o FlattenSeq([i \in DOMAIN clients |->
                                     Lead(shape) \o BlockLines(clients[i]) \o Tail0(shape)])
      <3> HIDE DEF clients
      <3> QED BY DEF Written, Head3, Lead, Tail0
    <2>3. [i \in DOMAIN clients |-> Lead(shape) \o BlockLines(clients[i]) \o Tail0(shape)] = P
      <3> HIDE DEF clients, client
      <3> QED BY <2>1
    <2> HIDE DEF clients, t, P
    <2> QED BY <2>2, <2>3
  <1>3. Len(P) = k
    BY <1>1
  <1>4. PICK F : Flattens(F, P, k) /\ FlattenSeq(P) = IF k = 0 THEN P ELSE F[k]
    BY <1>1, <1>3, FlattenSteps
  <1>5. \A i \in 1 .. k : F[i] = IF i = 1 THEN part(i) ELSE F[i - 1] \o part(i)
    <2>1. \A i \in 1 .. k : P[i] = part(i)
      OBVIOUS
    <2> HIDE DEF P, part
    <2> QED BY <1>4, <2>1 DEF Flattens
  <1>6. k = 0 => P = <<>>
    OBVIOUS
  <1> HIDE DEF P, t, clients
  <1> DEFINE T(i) == IF i = 0 THEN Head3 ELSE Head3 \o F[i]
             Good(i) == (i # 0 => F[i] \in Seq(Line)) /\ Formed(T(i), i) /\ Has(T(i))
  <1>7. Good(0)
    BY FirstText DEF Has
  <1>8. ASSUME NEW i \in 1 .. k, Good(i - 1) PROVE Good(i)
    <2>1. i \in Nat /\ i - 1 \in Nat /\ (i - 1) + 1 = i /\ i + 1 \in Octets /\ names[i] \in Names
      BY <1>1 DEF Octets
    <2>2. client(i) = [name |-> names[i], key |-> (i - 1) + 1, ip |-> i + 1]
      BY <2>1
    <2>3. part(i) \in Seq(Line) /\ Formed(T(i - 1) \o part(i), i) /\ Has(T(i - 1) \o part(i))
      <3> DEFINE last == i - 1
                 u == T(last)
      <3>1. last \in Nat /\ last + 1 = i /\ Formed(u, last) /\ Has(u)
            /\ client(i) = [name |-> names[i], key |-> last + 1, ip |-> i + 1]
        BY <1>8, <2>1, <2>2
      <3> HIDE DEF last, u, client, T
      <3>2. part(i) \in Seq(Line) /\ Formed(u \o part(i), last + 1) /\ Has(u \o part(i))
        BY <2>1, <3>1, ClientMore
      <3> QED BY <3>1, <3>2 DEF u, last
    <2> DEFINE q == part(i)
    <2>4. q \in Seq(Line) /\ Formed(T(i - 1) \o q, i) /\ Has(T(i - 1) \o q) /\ i # 0
      BY <2>1, <2>3
    <2>5. F[i] = IF i = 1 THEN q ELSE F[i - 1] \o q
      BY <1>5
    <2>6. i # 1 => F[i - 1] \in Seq(Line) /\ T(i - 1) = Head3 \o F[i - 1]
      <3> HAVE i # 1
      <3>1. i - 1 # 0
        BY <2>1
      <3>2. F[i - 1] \in Seq(Line)
        BY <1>8, <3>1
      <3>3. T(i - 1) = Head3 \o F[i - 1]
        BY <3>1
      <3> QED BY <3>2, <3>3
    <2>7. i = 1 => T(i - 1) = Head3
      BY <2>1
    <2>8. T(i) = Head3 \o F[i]
      BY <2>4
    <2>9. Head3 \in Seq(Line)
      BY FirstText DEF Formed, Laid
    <2> HIDE DEF q, T
    <2>10. F[i] \in Seq(Line) /\ Head3 \o F[i] = T(i - 1) \o q
      <3>1. CASE i = 1
        BY <2>4, <2>5, <2>7, <3>1
      <3>2. CASE i # 1
        <4> DEFINE f == F[i - 1]
        <4>1. F[i] = f \o q /\ f \in Seq(Line) /\ T(i - 1) = Head3 \o f
          BY <2>5, <2>6, <3>2
        <4> HIDE DEF f
        <4>2. f \o q \in Seq(Line)
          BY <2>4, <4>1, ConcatProperties
        <4>3. (Head3 \o f) \o q = Head3 \o (f \o q)
          BY <2>4, <2>9, <4>1, ConcatAssociative
        <4> QED BY <4>1, <4>2, <4>3
      <3> QED BY <3>1, <3>2
    <2> QED BY <2>4, <2>8, <2>10
  <1> HIDE DEF Good
  <1>9. Good(k)
    <2> DEFINE bad == {i \in 0 .. k : ~Good(i)}
    <2> SUFFICES ASSUME bad # {} PROVE FALSE
      BY <1>1
    <2>1. PICK i \in bad : \A j \in bad : i <= j
      <3> HIDE DEF bad
      <3>1. bad \in SUBSET Nat
        BY DEF bad
      <3> QED BY <3>1, Smallest
    <2>2. i \in 1 .. k /\ Good(i - 1)
      BY <1>1, <1>7, <2>1
    <2> QED BY <1>8, <2>1, <2>2
  <1>10. t = T(k)
    <2>1. CASE k = 0
      BY <1>2, <1>4, <1>6, <2>1, FirstText, ConcatEmptySeq
    <2>2. CASE k # 0
      BY <1>2, <1>4, <2>2
    <2> QED BY <2>1, <2>2
  <1>11. Formed(t, k) /\ Has(t)
    <2> HIDE DEF T
    <2> QED BY <1>9, <1>10 DEF Good
  <1> QED BY <1>11 DEF t, clients

LEMMA ManualForms ==
  ASSUME NEW clients
  PROVE  Formed(Written(clients, "manual"), 0) /\ Has(Written(clients, "manual"))
  <1> DEFINE t == <<Iface, Other>>
  <1>1. Written(clients, "manual") = t
    BY DEF Written
  <1>2. Iface \in Line /\ Other \in Line
    BY DEF Line, Iface, Other
  <1>3. t \in Seq(Line) /\ Len(t) = 2 /\ t[1] = Iface /\ t[2] = Other
    BY <1>2
  <1> HIDE DEF t
  <1>4. \A i \in 1 .. Len(t) : t[i] \in {Blank, Iface, Other}
    BY <1>3
  <1>5. Contains(t, Iface) = TRUE
    BY <1>3 DEF Contains
  <1>6. Laid(t, 0) /\ ParseContent(t) = [iface |-> TRUE, blocks |-> {}]
    BY <1>3, <1>4, <1>5, EmptyLaid
  <1>7. Markers(t) = {}
    <2>1. \A i \in 1 .. Len(t) : t[i][1] # "### Client"
      BY <1>4, LinesAre
    <2> QED BY <1>3, <2>1, MarkersAre
  <1> QED BY <1>1, <1>6, <1>7 DEF Formed, Closed, Has

\* A later key changes nothing of this.
LEMMA LaterForms ==
  ASSUME NEW t, NEW last \in Nat, Formed(t, last)
  PROVE  Formed(t, last + 1)
  <1>1. Laid(t, last) /\ Closed(t) /\ Ascending(t, last) /\ Whole(t)
    BY DEF Formed, Laid
  <1>2. \A i \in Markers(t) : t[i + 2][2] \in Nat /\ t[i + 2][2] <= last
    BY <1>1 DEF Whole, Ascending
  <1>3. \A i \in Markers(t) : t[i + 2][2] <= last + 1
    BY <1>2
  <1>4. Ascending(t, last + 1)
    BY <1>1, <1>3 DEF Ascending
  <1> QED BY <1>1, <1>4 DEF Formed, Laid

\* What ParseContent makes of a formed text is a configuration of WgConf.
LEMMA ParsesToConfig ==
  ASSUME NEW t, NEW last \in Nat, Formed(t, last)
  PROVE  /\ ParseContent(t) \in Config
         /\ \A b \in ParseContent(t).blocks : b.key <= last
  <1>1. t \in Seq(Line) /\ Whole(t) /\ Owned(t) /\ Ascending(t, last)
    BY DEF Formed, Laid
  <1>2. \A i \in Markers(t) : ParsedPeer(t, i) \in Block /\ ParsedPeer(t, i).key <= last
    <2> TAKE i \in Markers(t)
    <2>1. ParsedPeer(t, i) = [name |-> t[i][2], key |-> t[i + 2][2], ip |-> t[i + 3][2]]
      BY <1>1, ParsedPeerIs
    <2>2. /\ t[i][2] \in Names /\ t[i + 2][2] \in Nat \ {0} /\ t[i + 3][2] \in Octets
          /\ t[i + 2][2] <= last
      BY <1>1 DEF Whole, Ascending
    <2> QED BY <2>1, <2>2 DEF Block
  <1>3. ParseContent(t).iface \in BOOLEAN
    BY DEF ParseContent, Contains
  <1> QED BY <1>2, <1>3 DEF ParseContent, Config

TextInv ==
  /\ lastKey \in Nat
  /\ Formed(text, lastKey)
  /\ edits \in [Editors -> Edit \cup {NoEdit}]
  /\ \A e \in Editors : edits[e] # NoEdit => Formed(edits[e].copy, lastKey)

\* Nothing is said once two rewrites have run into each other.
SplicedOrFormed == spliced \/ TextInv

LEMMA InitText == Init => TextInv /\ Has(text)
  <1> SUFFICES ASSUME Init PROVE TextInv /\ Has(text)
    OBVIOUS
  <1>1. PICK k \in 0 .. MaxClients, shape \in Shapes :
          \E names \in [1 .. k -> Names] :
            /\ shape = "manual" => k = 0
            /\ text = Written([i \in 1 .. k |-> [name |-> names[i], key |-> i, ip |-> i + 1]], shape)
            /\ lastKey = k
    BY DEF Init
  <1>2. PICK names \in [1 .. k -> Names] :
            /\ shape = "manual" => k = 0
            /\ text = Written([i \in 1 .. k |-> [name |-> names[i], key |-> i, ip |-> i + 1]], shape)
            /\ lastKey = k
    BY <1>1
  <1>3. Formed(text, lastKey) /\ Has(text)
    BY <1>2, WrittenForms, ManualForms
  <1>4. lastKey \in Nat
    BY <1>2, BoundsAssumption
  <1>5. edits = [e \in Editors |-> NoEdit]
    BY DEF Init
  <1> QED BY <1>3, <1>4, <1>5 DEF TextInv

\* The block of a client Create has added, through both views of the file.
LEMMA AppendToFileText ==
  ASSUME TextInv, AppendToFile
  PROVE  /\ TextInv'
         /\ \E n \in Names, i \in Octets :
              ParseContent(text') =
                AppendPeer(ParseContent(text), [name |-> n, key |-> lastKey + 1, ip |-> i])
  <1>1. PICK n \in Names, i \in Octets :
          text' = Appended(text, [name |-> n, key |-> lastKey + 1, ip |-> i])
    BY DEF AppendToFile
  <1>2. lastKey \in Nat /\ Formed(text, lastKey) /\ Laid(text, lastKey)
    BY DEF TextInv, Formed
  <1>3. /\ Formed(text', lastKey + 1)
        /\ ParseContent(text') =
             AppendPeer(ParseContent(text), [name |-> n, key |-> lastKey + 1, ip |-> i])
    BY <1>1, <1>2, BlockMore DEF Appended
  <1>4. lastKey' = lastKey + 1 /\ edits' = edits /\ lastKey' \in Nat
    BY <1>2 DEF AppendToFile
  <1>5. \A e \in Editors : edits[e] # NoEdit => Formed(edits[e].copy, lastKey + 1)
    BY <1>2, LaterForms DEF TextInv
  <1>6. edits \in [Editors -> Edit \cup {NoEdit}]
    BY DEF TextInv
  <1>7. Formed(text, lastKey)' /\ (\A e \in Editors : edits[e] # NoEdit => Formed(edits[e].copy, lastKey))'
    <2>1. Formed(text', lastKey')
      BY <1>3, <1>4
    <2>2. \A e \in Editors : edits'[e] # NoEdit => Formed(edits'[e].copy, lastKey')
      BY <1>4, <1>5
    <2> QED BY <2>1, <2>2 DEF Formed, Laid, Closed, Ended, Ascending, Whole, Owned, Markers
  <1> QED BY <1>3, <1>4, <1>6, <1>7 DEF TextInv

\* To read is to take the formed text along.
LEMMA ReadFileText ==
  ASSUME TextInv, NEW e \in Editors, ReadFile(e)
  PROVE  TextInv'
  <1>1. PICK n \in Names : edits' = [edits EXCEPT ![e] = [name |-> n, copy |-> text, cut |-> FALSE]]
    BY DEF ReadFile
  <1>2. text' = text /\ lastKey' = lastKey
    BY DEF ReadFile
  <1>3. lastKey \in Nat /\ Formed(text, lastKey) /\ text \in Seq(Line)
    BY DEF TextInv, Formed, Laid
  <1> DEFINE r == [name |-> n, copy |-> text, cut |-> FALSE]
  <1>4. r \in Edit /\ r.copy = text
    BY <1>3 DEF Edit
  <1>5. edits \in [Editors -> Edit \cup {NoEdit}] /\ edits' = [edits EXCEPT ![e] = r]
    BY <1>1 DEF TextInv
  <1> HIDE DEF r
  <1>6. edits' \in [Editors -> Edit \cup {NoEdit}]
    BY <1>4, <1>5
  <1>7. \A d \in Editors : edits'[d] = r \/ edits'[d] = edits[d]
    BY <1>5
  <1>8. \A d \in Editors : edits'[d] # NoEdit => Formed(edits'[d].copy, lastKey)
    BY <1>3, <1>4, <1>7 DEF TextInv
  <1> QED BY <1>2, <1>3, <1>6, <1>8 DEF TextInv

\* The empty file parses to nothing, and everything may follow it.
LEMMA TruncateText ==
  ASSUME TextInv, NEW e \in Editors, Truncate(e)
  PROVE  /\ TextInv'
         /\ ParseContent(text') = Truncated
         /\ \A d \in Editors :
              /\ edits'[d] = NoEdit <=> edits[d] = NoEdit
              /\ edits'[d].name = edits[d].name /\ edits'[d].copy = edits[d].copy
  <1>1. /\ edits[e] # NoEdit /\ text' = <<Blank>> /\ lastKey' = lastKey
        /\ edits' = [edits EXCEPT ![e].cut = TRUE]
    BY DEF Truncate
  <1>2. Formed(text', lastKey') /\ ParseContent(text') = Truncated
    BY <1>1, TruncatedText
  <1>3. edits \in [Editors -> Edit \cup {NoEdit}] /\ lastKey \in Nat
    BY DEF TextInv
  <1>4. edits[e] \in Edit
    BY <1>1, <1>3
  <1> DEFINE r == [edits[e] EXCEPT !.cut = TRUE]
  <1>5. r \in Edit /\ r.name = edits[e].name /\ r.copy = edits[e].copy
    BY <1>4 DEF Edit
  <1>6. edits' = [edits EXCEPT ![e] = r]
    BY <1>1
  <1> HIDE DEF r
  <1>7. edits' \in [Editors -> Edit \cup {NoEdit}]
    BY <1>3, <1>5, <1>6
  <1>8. r # NoEdit
    BY <1>5, NoEditAssumption
  <1>9. \A d \in Editors : (d = e /\ edits'[d] = r) \/ (d # e /\ edits'[d] = edits[d])
    BY <1>3, <1>6
  <1>10. \A d \in Editors :
           /\ edits'[d] = NoEdit <=> edits[d] = NoEdit
           /\ edits'[d].name = edits[d].name /\ edits'[d].copy = edits[d].copy
    BY <1>1, <1>5, <1>8, <1>9
  <1>11. \A d \in Editors : edits'[d] # NoEdit => Formed(edits'[d].copy, lastKey')
    BY <1>1, <1>10 DEF TextInv
  <1> QED BY <1>1, <1>2, <1>3, <1>7, <1>10, <1>11 DEF TextInv

\* What is written back is the formed text without the blocks of the name.
LEMMA WriteFileText ==
  ASSUME TextInv, NEW e \in Editors, WriteFile(e), text' = Removed(edits[e].copy, edits[e].name)
  PROVE  /\ TextInv'
         /\ edits[e] # NoEdit
         /\ ParseContent(text') = WithoutPeer(ParseContent(edits[e].copy), edits[e].name)
  <1>1. /\ edits[e] # NoEdit /\ text' = Removed(edits[e].copy, edits[e].name)
        /\ lastKey' = lastKey /\ edits' = [edits EXCEPT ![e] = NoEdit]
    BY DEF WriteFile
  <1>2. Formed(edits[e].copy, lastKey)
    BY <1>1 DEF TextInv
  <1>3. /\ Formed(text', lastKey')
        /\ ParseContent(text') = WithoutPeer(ParseContent(edits[e].copy), edits[e].name)
    BY <1>1, <1>2, RemovedForms
  <1>4. edits \in [Editors -> Edit \cup {NoEdit}] /\ lastKey \in Nat
    BY DEF TextInv
  <1>5. edits' \in [Editors -> Edit \cup {NoEdit}]
    BY <1>1, <1>4
  <1>6. \A d \in Editors : edits'[d] = NoEdit \/ edits'[d] = edits[d]
    BY <1>1, <1>4
  <1>7. \A d \in Editors : edits'[d] # NoEdit => Formed(edits'[d].copy, lastKey')
    BY <1>1, <1>6 DEF TextInv
  <1> QED BY <1>1, <1>3, <1>4, <1>5, <1>7 DEF TextInv

\* Nothing happens.
LEMMA StutterText ==
  ASSUME TextInv, UNCHANGED vars
  PROVE  TextInv'
  <1>1. text' = text /\ edits' = edits /\ lastKey' = lastKey
    BY DEF vars
  <1> QED BY <1>1 DEF TextInv

\* Either the content stands alone in the file or it is spliced with what was there.
LEMMA WholeOrSpliced ==
  ASSUME NEW e \in Editors, WriteFile(e)
  PROVE  \/ text' = Removed(edits[e].copy, edits[e].name) /\ spliced' = spliced
         \/ /\ spliced' = TRUE
            /\ \E end \in Ends(text) :
                 text' = Front(Removed(edits[e].copy, edits[e].name)) \o end
  BY DEF WriteFile

LEMMA StaysSpliced == spliced /\ [Next]_vars => spliced'
  <1> SUFFICES ASSUME spliced, [Next]_vars PROVE spliced'
    OBVIOUS
  <1>1. CASE AppendToFile
    BY <1>1 DEF AppendToFile
  <1>2. ASSUME NEW e \in Editors, RemovePeer(e) PROVE spliced'
    BY <1>2, WholeOrSpliced DEF RemovePeer, ReadFile, Truncate
  <1>3. CASE UNCHANGED vars
    BY <1>3 DEF vars
  <1> QED BY <1>1, <1>2, <1>3 DEF Next

LEMMA StepText == SplicedOrFormed /\ [Next]_vars => SplicedOrFormed'
  <1> SUFFICES ASSUME TextInv, [Next]_vars PROVE spliced' \/ TextInv'
    BY StaysSpliced DEF SplicedOrFormed
  <1>1. CASE AppendToFile
    BY <1>1, AppendToFileText
  <1>2. ASSUME NEW e \in Editors, RemovePeer(e) PROVE spliced' \/ TextInv'
    BY <1>2, ReadFileText, TruncateText, WriteFileText, WholeOrSpliced DEF RemovePeer
  <1>3. CASE UNCHANGED vars
    BY <1>3, StutterText
  <1> QED BY <1>1, <1>2, <1>3 DEF Next

\* The text of the file stays one that AppendPeer, RemovePeer and ParseContent read
\* alike: each client block ends in an empty line, the line above a marker belongs to
\* no block, the last line is ended, and the blocks stand in the order of their keys.
\* Holds for any number of clients, names, keys and overlapping RemovePeers
\* (wgconf.go, AppendPeer and RemovePeer).
THEOREM TextStaysFormed == Spec => []WellFormed
  <1>1. Init => SplicedOrFormed
    BY InitText DEF SplicedOrFormed
  <1>2. SplicedOrFormed => WellFormed
    BY FormedFits DEF SplicedOrFormed, TextInv, WellFormed
  <1> QED BY <1>1, <1>2, StepText, PTL DEF Spec

-----------------------------------------------------------------------------
(* A splice.                                                                 *)

\* u has the lines of c but the last, the line h in its place, and the lines of t
\* below line i: line x of u, from the length of c on, comes from line x - Len(c) + i
\* of t.
Joins(u, c, t, i, h) ==
  /\ u \in Seq(Line) /\ Len(u) = Len(c) + Len(t) - i
  /\ \A x \in 1 .. (Len(c) - 1) : u[x] = c[x]
  /\ u[Len(c)] = h
  /\ \A x \in (Len(c) + 1) .. Len(u) : u[x] = t[x - Len(c) + i]

\* The markers of t that are in u.
Lower(u, c, t, i, h) ==
  {x \in Len(c) .. Len(u) : x - Len(c) + i \in Markers(t) /\ (x = Len(c) => h = t[i])}

\* What the lemmas below assume.
Splice(u, c, t, i, h) ==
  /\ c \in Seq(Line) /\ Whole(c) /\ Owned(c) /\ Ended(c)
  /\ t \in Seq(Line) /\ Whole(t) /\ Owned(t)
  /\ i \in 1 .. (Len(t) - 1) /\ h \in {t[i], Other, Blank}
  /\ Joins(u, c, t, i, h)

LEMMA SpliceJoins ==
  ASSUME NEW c \in Seq(Line), Len(c) > 0, NEW t \in Seq(Line), NEW i \in 1 .. (Len(t) - 1),
         NEW h \in Line
  PROVE  Joins(Front(c) \o (<<h>> \o SubSeq(t, i + 1, Len(t))), c, t, i, h)
  <1> DEFINE a == Front(c)
             z == SubSeq(t, i + 1, Len(t))
             k == Len(c)
             n == Len(t)
             w == <<h>> \o z
             u == a \o w
  <1>1. k \in Nat /\ k > 0 /\ n \in Nat /\ i \in Nat /\ i + 1 <= n /\ i >= 1
    OBVIOUS
  <1>2. a \in Seq(Line) /\ Len(a) = k - 1 /\ \A x \in 1 .. (k - 1) : a[x] = c[x]
    <2>1. \A x \in 1 .. (k - 1) : c[x] \in Line
      BY <1>1
    <2>2. /\ SubSeq(c, 1, k - 1) \in Seq(Line)
          /\ Len(SubSeq(c, 1, k - 1)) = IF 1 <= k - 1 THEN (k - 1) - 1 + 1 ELSE 0
          /\ \A x \in 1 .. ((k - 1) - 1 + 1) : SubSeq(c, 1, k - 1)[x] = c[1 + x - 1]
      BY <1>1, <2>1, SubSeqProperties
    <2>3. (k - 1) - 1 + 1 = k - 1 /\ (~ (1 <= k - 1) => k - 1 = 0)
          /\ \A x \in 1 .. (k - 1) : 1 + x - 1 = x
      <3> HIDE DEF k, n
      <3>1. (k - 1) - 1 + 1 = k - 1 /\ (~ (1 <= k - 1) => k - 1 = 0)
        BY <1>1
      <3>2. \A x \in 1 .. (k - 1) : 1 + x - 1 = x
        OBVIOUS
      <3> QED BY <3>1, <3>2
    <2>4. a = SubSeq(c, 1, k - 1)
      BY DEF Front
    <2> HIDE DEF a
    <2> QED BY <2>2, <2>3, <2>4
  <1>3. z \in Seq(Line) /\ Len(z) = n - i /\ \A x \in 1 .. (n - i) : z[x] = t[x + i]
    <2>1. \A x \in (i + 1) .. n : t[x] \in Line
      BY <1>1
    <2>2. /\ z \in Seq(Line) /\ Len(z) = n - (i + 1) + 1
          /\ \A x \in 1 .. (n - (i + 1) + 1) : z[x] = t[(i + 1) + x - 1]
      BY <1>1, <2>1, SubSeqProperties
    <2>3. n - (i + 1) + 1 = n - i /\ \A x \in 1 .. (n - i) : (i + 1) + x - 1 = x + i
      BY <1>1
    <2> QED BY <2>2, <2>3
  <1> HIDE DEF a, z
  <1>4. <<h>> \in Seq(Line) /\ Len(<<h>>) = 1 /\ <<h>>[1] = h
    OBVIOUS
  <1>5. /\ w \in Seq(Line) /\ Len(w) = 1 + (n - i)
        /\ \A x \in 1 .. (1 + (n - i)) : w[x] = IF x <= 1 THEN <<h>>[x] ELSE z[x - 1]
    <2> DEFINE g == <<h>>
    <2>1. g \in Seq(Line) /\ Len(g) = 1
      BY <1>4
    <2> HIDE DEF g
    <2>2. /\ g \o z \in Seq(Line) /\ Len(g \o z) = Len(g) + Len(z)
          /\ \A x \in 1 .. (Len(g) + Len(z)) :
               (g \o z)[x] = IF x <= Len(g) THEN g[x] ELSE z[x - Len(g)]
      BY <1>3, <2>1, ConcatProperties
    <2>3. Len(g) + Len(z) = 1 + (n - i)
      BY <1>3, <2>1
    <2> QED BY <2>1, <2>2, <2>3 DEF g
  <1> HIDE DEF w
  <1>6. /\ u \in Seq(Line) /\ Len(u) = (k - 1) + (1 + (n - i))
        /\ \A x \in 1 .. ((k - 1) + (1 + (n - i))) :
             u[x] = IF x <= k - 1 THEN a[x] ELSE w[x - (k - 1)]
    <2>1. /\ a \o w \in Seq(Line) /\ Len(a \o w) = Len(a) + Len(w)
          /\ \A x \in 1 .. (Len(a) + Len(w)) :
               (a \o w)[x] = IF x <= Len(a) THEN a[x] ELSE w[x - Len(a)]
      BY <1>2, <1>5, ConcatProperties
    <2>2. Len(a) + Len(w) = (k - 1) + (1 + (n - i))
      BY <1>2, <1>5
    <2> QED BY <1>2, <2>1, <2>2
  <1> HIDE DEF u, k, n
  <1>7. Len(u) = k + n - i
    BY <1>1, <1>6
  <1>8. \A x \in 1 .. (k - 1) : u[x] = c[x]
    BY <1>1, <1>2, <1>6
  <1>9. u[k] = h
    <2>1. k \in 1 .. ((k - 1) + (1 + (n - i))) /\ ~ (k <= k - 1) /\ k - (k - 1) = 1
          /\ 1 \in 1 .. (1 + (n - i))
      BY <1>1
    <2> QED BY <1>4, <1>5, <1>6, <2>1
  <1>10. ASSUME NEW x \in (k + 1) .. Len(u) PROVE u[x] = t[x - k + i]
    <2>1. /\ x \in Int /\ x \in 1 .. ((k - 1) + (1 + (n - i))) /\ ~ (x <= k - 1)
          /\ x - (k - 1) \in 1 .. (1 + (n - i)) /\ ~ (x - (k - 1) <= 1)
          /\ (x - (k - 1)) - 1 = x - k /\ x - k \in 1 .. (n - i)
      BY <1>1, <1>6
    <2>2. u[x] = w[x - (k - 1)]
      BY <1>6, <2>1
    <2>3. w[x - (k - 1)] = z[(x - (k - 1)) - 1]
      BY <1>5, <2>1
    <2> QED BY <1>3, <2>1, <2>2, <2>3
  <1> QED BY <1>6, <1>7, <1>8, <1>9, <1>10 DEF Joins, u, w, a, z, k, n

LEMMA ValueIs ==
  ASSUME NEW t, NEW lines \in SUBSET Nat, NEW kind, NEW k \in lines, t[k][1] = kind,
         \A j \in lines : t[j][1] = kind => j <= k
  PROVE  Value(t, lines, kind) = t[k][2]
  <1> DEFINE found == {j \in lines : t[j][1] = kind}
  <1>1. found \in SUBSET Nat /\ k \in found /\ \A j \in found : j <= k
    OBVIOUS
  <1>2. Value(t, lines, kind) = IF found = {} THEN 0 ELSE t[Max(found)][2]
    BY DEF Value
  <1> HIDE DEF found
  <1>3. Max(found) = k
    BY <1>1, MaxIs
  <1> QED BY <1>1, <1>2, <1>3

\* Where the lines of a splice come from.
LEMMA JoinLines ==
  ASSUME NEW u, NEW c, NEW t, NEW i, NEW h, Splice(u, c, t, i, h)
  PROVE  /\ Len(c) \in Nat \ {0} /\ Len(t) \in Nat /\ Len(u) \in Nat /\ i \in Nat \ {0}
         /\ u \in Seq(Line) /\ c \in Seq(Line) /\ t \in Seq(Line)
         /\ Len(u) = Len(c) + Len(t) - i /\ Len(c) < Len(u)
         /\ \A x \in 1 .. (Len(c) - 1) : u[x] = c[x]
         /\ \A x \in (Len(c) + 1) .. Len(u) : u[x] = t[x - Len(c) + i]
         /\ \A x \in Len(c) .. Len(u) : \/ u[x] = t[x - Len(c) + i]
                                        \/ x = Len(c) /\ h # t[i] /\ u[x] \in {Other, Blank}
         /\ h = t[i] => u[Len(c)] = t[i]
  <1>1. /\ c \in Seq(Line) /\ t \in Seq(Line) /\ u \in Seq(Line) /\ Len(c) > 0
        /\ i \in 1 .. (Len(t) - 1) /\ h \in {t[i], Other, Blank}
        /\ Len(u) = Len(c) + Len(t) - i /\ u[Len(c)] = h
        /\ \A x \in 1 .. (Len(c) - 1) : u[x] = c[x]
        /\ \A x \in (Len(c) + 1) .. Len(u) : u[x] = t[x - Len(c) + i]
    BY DEF Splice, Joins, Ended
  <1>2. Len(c) \in Nat \ {0} /\ Len(t) \in Nat /\ i \in Nat \ {0} /\ i < Len(t)
    BY <1>1
  <1>3. Len(u) \in Nat /\ Len(c) < Len(u)
    BY <1>1, <1>2
  <1>4. ASSUME NEW x \in Len(c) .. Len(u)
        PROVE  \/ u[x] = t[x - Len(c) + i]
               \/ x = Len(c) /\ h # t[i] /\ u[x] \in {Other, Blank}
    <2>1. CASE x = Len(c)
      <3>1. x - Len(c) + i = i
        BY <1>2, <2>1
      <3> QED BY <1>1, <2>1, <3>1
    <2>2. CASE x # Len(c)
      <3>1. x \in (Len(c) + 1) .. Len(u)
        BY <1>2, <1>3, <2>2
      <3> QED BY <1>1, <3>1
    <2> QED BY <2>1, <2>2
  <1> QED BY <1>1, <1>2, <1>3, <1>4

LEMMA JoinMarkers ==
  ASSUME NEW u, NEW c, NEW t, NEW i, NEW h, Splice(u, c, t, i, h)
  PROVE  /\ Markers(u) = Markers(c) \cup Lower(u, c, t, i, h)
         /\ \A m \in Markers(c) : m \in Nat \ {0} /\ m + 4 <= Len(c) /\ m < Len(c)
         /\ \A m \in Markers(t) : m \in Nat \ {0} /\ m + 4 <= Len(t)
         /\ \A x \in Lower(u, c, t, i, h) : x \in Nat /\ Len(c) <= x /\ x - Len(c) + i \in Markers(t)
  <1>1. /\ Len(c) \in Nat \ {0} /\ Len(t) \in Nat /\ Len(u) \in Nat /\ i \in Nat \ {0}
        /\ u \in Seq(Line) /\ c \in Seq(Line) /\ t \in Seq(Line) /\ Len(c) < Len(u)
        /\ Len(u) = Len(c) + Len(t) - i
    BY JoinLines
  <1>2. Whole(c) /\ Whole(t)
    BY DEF Splice
  <1>3. \A m \in Markers(c) : m \in Nat \ {0} /\ m + 4 <= Len(c) /\ m < Len(c)
    <2>1. \A m \in Markers(c) : m \in Nat \ {0} /\ m + 4 <= Len(c)
      BY <1>1, <1>2, BlockInside
    <2> QED BY <1>1, <2>1
  <1>4. \A m \in Markers(t) : m \in Nat \ {0} /\ m + 4 <= Len(t)
    BY <1>1, <1>2, BlockInside
  <1>5. /\ Markers(u) = {x \in 1 .. Len(u) : u[x][1] = "### Client"}
        /\ Markers(c) = {x \in 1 .. Len(c) : c[x][1] = "### Client"}
        /\ Markers(t) = {x \in 1 .. Len(t) : t[x][1] = "### Client"}
    BY <1>1, MarkersAre
  <1>6. ASSUME NEW x \in 1 .. (Len(c) - 1) PROVE x \in Markers(u) <=> x \in Markers(c)
    <2>1. u[x] = c[x]
      BY JoinLines
    <2>2. x \in 1 .. Len(c) /\ x \in 1 .. Len(u)
      BY <1>1
    <2> QED BY <1>5, <2>1, <2>2
  <1>7. ASSUME NEW x \in Len(c) .. Len(u)
        PROVE  x \in Markers(u) <=> x \in Lower(u, c, t, i, h)
    <2>1. x \in 1 .. Len(u) /\ x - Len(c) + i \in 1 .. Len(t)
      BY <1>1
    <2>2. x \in Markers(u) <=> u[x][1] = "### Client"
      BY <1>5, <2>1
    <2>3. x - Len(c) + i \in Markers(t) <=> t[x - Len(c) + i][1] = "### Client"
      BY <1>5, <2>1
    <2>4. CASE u[x] = t[x - Len(c) + i] /\ (x = Len(c) => h = t[i])
      BY <2>2, <2>3, <2>4 DEF Lower
    <2>5. CASE x = Len(c) /\ h # t[i] /\ u[x] \in {Other, Blank}
      <3>1. u[x][1] # "### Client"
        BY <2>5, LinesAre
      <3>2. x \notin Lower(u, c, t, i, h)
        BY <2>5 DEF Lower
      <3> QED BY <2>2, <3>1, <3>2
    <2>6. \/ u[x] = t[x - Len(c) + i]
          \/ x = Len(c) /\ h # t[i] /\ u[x] \in {Other, Blank}
      BY JoinLines
    <2>7. x = Len(c) /\ h # t[i] => u[x] = h /\ h \in {Other, Blank}
      BY DEF Splice, Joins
    <2> QED BY <2>4, <2>5, <2>6, <2>7
  <1>8. \A x \in 1 .. Len(u) : x \in 1 .. (Len(c) - 1) \/ x \in Len(c) .. Len(u)
    BY <1>1
  <1>9. \A x \in Lower(u, c, t, i, h) :
          x \in Len(c) .. Len(u) /\ x \in Nat /\ Len(c) <= x /\ x - Len(c) + i \in Markers(t)
    BY <1>1 DEF Lower
  <1>10. \A x \in Markers(c) : x \in 1 .. (Len(c) - 1)
    BY <1>1, <1>3
  <1>11. \A x \in Markers(u) : x \in 1 .. Len(u)
    BY <1>5
  <1>12. Markers(u) = Markers(c) \cup Lower(u, c, t, i, h)
    BY <1>6, <1>7, <1>8, <1>9, <1>10, <1>11
  <1> QED BY <1>3, <1>4, <1>9, <1>12

\* The blocks of t that are whole in u are the same in both.
LEMMA JoinLower ==
  ASSUME NEW u, NEW c, NEW t, NEW i, NEW h, Splice(u, c, t, i, h),
         NEW x \in Lower(u, c, t, i, h)
  PROVE  ParsedPeer(u, x) = ParsedPeer(t, x - Len(c) + i)
  <1> DEFINE y == x - Len(c) + i
             lines == BlockAt(u, x)
  <1>1. /\ Len(c) \in Nat \ {0} /\ Len(t) \in Nat /\ Len(u) \in Nat /\ i \in Nat \ {0}
        /\ u \in Seq(Line) /\ t \in Seq(Line) /\ Len(u) = Len(c) + Len(t) - i
    BY JoinLines
  <1>0. /\ \A z \in (Len(c) + 1) .. Len(u) : u[z] = t[z - Len(c) + i]
        /\ h = t[i] => u[Len(c)] = t[i]
    BY JoinLines
  <1>2. Whole(t) /\ Owned(t)
    BY DEF Splice
  <1>3. /\ x \in Nat /\ Len(c) <= x /\ y \in Markers(t) /\ y \in Nat /\ y + 4 <= Len(t)
        /\ x <= Len(u) /\ (x = Len(c) => h = t[i])
    BY <1>1, JoinMarkers DEF Lower
  <1>4. u[x] = t[y]
    <2>1. CASE x = Len(c)
      <3>1. y = i
        BY <1>1, <2>1
      <3> QED BY <1>0, <1>3, <2>1, <3>1
    <2>2. CASE x # Len(c)
      <3>1. x \in (Len(c) + 1) .. Len(u)
        BY <1>1, <1>3, <2>2
      <3> QED BY <1>0, <3>1
    <2> QED BY <2>1, <2>2
  <1>5. ASSUME NEW d \in {2, 3} PROVE x + d \in 1 .. Len(u) /\ u[x + d] = t[y + d]
    <2>1. PICK z \in (Len(c) + 1) .. Len(u) : z = x + d
      BY <1>1, <1>3
    <2>2. u[z] = t[z - Len(c) + i]
      BY <1>0
    <2>3. z \in 1 .. Len(u) /\ z - Len(c) + i = y + d
      BY <1>1, <1>3, <2>1
    <2> QED BY <2>1, <2>2, <2>3
  <1>6. /\ t[y + 2][1] = "PublicKey" /\ t[y + 3][1] = "AllowedIPs"
    BY <1>2, <1>3 DEF Whole
  <1>7. ASSUME NEW m \in Markers(u), x < m PROVE x + 4 < m /\ m \in Nat
    <2>1. m \in Lower(u, c, t, i, h)
      BY <1>1, <1>3, <1>7, JoinMarkers
    <2>2. m \in Nat /\ m - Len(c) + i \in Markers(t) /\ y < m - Len(c) + i
      BY <1>1, <1>3, <1>7, <2>1, JoinMarkers
    <2>3. y + 4 < m - Len(c) + i
      BY <1>1, <1>2, <1>3, <2>2, MarkersApart
    <2> QED BY <1>1, <1>3, <2>2, <2>3
  <1>8. x + 2 \in lines /\ x + 3 \in lines
    <2>1. x + 2 \in (x + 1) .. Len(u) /\ x + 3 \in (x + 1) .. Len(u)
      <3>1. x + 4 <= Len(u)
        BY <1>1, <1>3
      <3> QED BY <1>1, <1>3, <3>1
    <2>2. \A m \in Markers(u) : x < m => x + 2 < m /\ x + 3 < m
      BY <1>3, <1>7
    <2> QED BY <2>1, <2>2 DEF BlockAt
  <1>9. ASSUME NEW j \in lines, NEW d \in {2, 3},
               u[j][1] = IF d = 2 THEN "PublicKey" ELSE "AllowedIPs"
        PROVE  j = x + d
    <2>1. j \in Nat /\ x < j /\ j <= Len(u) /\ j \in (Len(c) + 1) .. Len(u)
          /\ \A m \in Markers(u) : x < m => j < m
      BY <1>1, <1>3 DEF BlockAt
    <2>2. u[j] = t[j - Len(c) + i] /\ j - Len(c) + i \in 1 .. Len(t)
      <3>1. u[j] = t[j - Len(c) + i]
        BY <1>0, <2>1
      <3> QED BY <1>1, <2>1, <3>1
    <2>3. PICK b \in Markers(t) : j - Len(c) + i = b + d
      BY <1>2, <1>9, <2>2 DEF Owned
    <2>4. b \in Nat \ {0} /\ b + 4 <= Len(t)
      BY JoinMarkers
    <2>5. ~ (y < b)
      <3> SUFFICES ASSUME y < b PROVE FALSE
        OBVIOUS
      <3> DEFINE z == b + Len(c) - i
      <3>1. z \in Nat /\ x < z /\ z < j /\ z - Len(c) + i = b /\ z \in Len(c) .. Len(u) /\ z # Len(c)
        BY <1>1, <1>3, <2>1, <2>3, <2>4
      <3>2. z \in Lower(u, c, t, i, h)
        BY <3>1 DEF Lower
      <3>3. z \in Markers(u)
        BY <3>2, JoinMarkers
      <3> QED BY <2>1, <3>1, <3>3
    <2>6. ~ (b < y)
      <3> SUFFICES ASSUME b < y PROVE FALSE
        OBVIOUS
      <3>1. b + 4 < y
        BY <1>1, <1>2, <1>3, MarkersApart
      <3> QED BY <1>1, <1>3, <2>1, <2>3, <2>4, <3>1
    <2>7. b = y
      BY <1>3, <2>4, <2>5, <2>6
    <2> QED BY <1>1, <1>3, <2>1, <2>3, <2>7
  <1>10. lines \in SUBSET Nat
    BY <1>1, <1>3 DEF BlockAt
  <1>11. Value(u, lines, "PublicKey") = u[x + 2][2]
    <2>1. u[x + 2][1] = "PublicKey"
      BY <1>5, <1>6
    <2>2. \A j \in lines : u[j][1] = "PublicKey" => j <= x + 2
      <3>1. \A j \in lines : u[j][1] = "PublicKey" => j = x + 2
        BY <1>9
      <3> QED BY <1>3, <3>1
    <2> HIDE DEF lines
    <2> QED BY <1>8, <1>10, <2>1, <2>2, ValueIs
  <1>12. Value(u, lines, "AllowedIPs") = u[x + 3][2]
    <2>1. u[x + 3][1] = "AllowedIPs"
      BY <1>5, <1>6
    <2>2. \A j \in lines : u[j][1] = "AllowedIPs" => j <= x + 3
      <3>1. \A j \in lines : u[j][1] = "AllowedIPs" => j = x + 3
        BY <1>9
      <3> QED BY <1>3, <3>1
    <2> HIDE DEF lines
    <2> QED BY <1>8, <1>10, <2>1, <2>2, ValueIs
  <1>13. ParsedPeer(u, x) = [name |-> u[x][2], key |-> u[x + 2][2], ip |-> u[x + 3][2]]
    BY <1>11, <1>12 DEF ParsedPeer
  <1>14. ParsedPeer(t, y) = [name |-> t[y][2], key |-> t[y + 2][2], ip |-> t[y + 3][2]]
    BY <1>1, <1>2, <1>3, ParsedPeerIs
  <1>15. u[x + 2] = t[y + 2] /\ u[x + 3] = t[y + 3]
    BY <1>5
  <1> QED BY <1>4, <1>13, <1>14, <1>15

\* A key or an address among the lines of a block of c is the block's own.
LEMMA UpperLine ==
  ASSUME NEW u, NEW c, NEW t, NEW i, NEW h, Splice(u, c, t, i, h),
         NEW m \in Markers(c), NEW j \in BlockAt(u, m), j < Len(c), NEW d \in {2, 3},
         u[j][1] = IF d = 2 THEN "PublicKey" ELSE "AllowedIPs"
  PROVE  j = m + d
  <1>1. /\ Len(c) \in Nat \ {0} /\ Len(u) \in Nat /\ u \in Seq(Line) /\ c \in Seq(Line)
        /\ Len(c) < Len(u) /\ \A x \in 1 .. (Len(c) - 1) : u[x] = c[x]
    BY JoinLines
  <1>2. Whole(c) /\ Owned(c)
    BY DEF Splice
  <1>3. \A b \in Markers(c) : b \in Nat \ {0} /\ b \in Markers(u)
    BY JoinMarkers
  <1>4. j \in Nat /\ m < j /\ \A b \in Markers(u) : m < b => j < b
    BY <1>1, <1>3 DEF BlockAt
  <1>5. j \in 1 .. (Len(c) - 1) /\ j \in 1 .. Len(c)
    BY <1>1, <1>3, <1>4
  <1>6. PICK b \in Markers(c) : j = b + d
    BY <1>1, <1>2, <1>5 DEF Owned
  <1>7. ~ (m < b)
    BY <1>3, <1>4, <1>6
  <1>8. ~ (b < m)
    <2> SUFFICES ASSUME b < m PROVE FALSE
      OBVIOUS
    <2>1. b + 4 < m
      BY <1>1, <1>2, MarkersApart
    <2> QED BY <1>3, <1>4, <1>6, <2>1
  <1>9. b = m
    BY <1>3, <1>7, <1>8
  <1> QED BY <1>6, <1>9

\* So are the blocks of c, but the last one.
LEMMA JoinUpper ==
  ASSUME NEW u, NEW c, NEW t, NEW i, NEW h, Splice(u, c, t, i, h),
         NEW m \in Markers(c), NEW m2 \in Markers(c), m < m2
  PROVE  ParsedPeer(u, m) = ParsedPeer(c, m)
  <1> DEFINE lines == BlockAt(u, m)
  <1>1. /\ Len(c) \in Nat \ {0} /\ Len(u) \in Nat /\ u \in Seq(Line) /\ c \in Seq(Line)
        /\ Len(c) < Len(u) /\ \A x \in 1 .. (Len(c) - 1) : u[x] = c[x]
    BY JoinLines
  <1>2. Whole(c) /\ Owned(c)
    BY DEF Splice
  <1>3. m \in Nat \ {0} /\ m2 \in Nat /\ m + 4 < m2 /\ m2 < Len(c)
    BY <1>1, <1>2, JoinMarkers, MarkersApart
  <1>4. /\ c[m + 2][1] = "PublicKey" /\ c[m + 3][1] = "AllowedIPs"
    BY <1>2 DEF Whole
  <1>5. u[m] = c[m] /\ u[m + 2] = c[m + 2] /\ u[m + 3] = c[m + 3]
    <2>1. m \in 1 .. (Len(c) - 1) /\ m + 2 \in 1 .. (Len(c) - 1) /\ m + 3 \in 1 .. (Len(c) - 1)
      BY <1>1, <1>3
    <2> QED BY <1>1, <2>1
  <1>6. \A x \in Markers(u) : m < x => m + 4 < x
    <2>1. \A x \in Markers(c) : m < x => m + 4 < x
      BY <1>1, <1>2, MarkersApart
    <2>2. \A x \in Lower(u, c, t, i, h) : x \in Nat /\ Len(c) <= x
      BY JoinMarkers
    <2>3. \A x \in Lower(u, c, t, i, h) : m + 4 < x
      BY <1>1, <1>3, <2>2
    <2> QED BY <2>1, <2>3, JoinMarkers
  <1>7. m + 2 \in lines /\ m + 3 \in lines
    <2>1. m + 2 \in (m + 1) .. Len(u) /\ m + 3 \in (m + 1) .. Len(u)
      BY <1>1, <1>3
    <2>2. \A x \in Markers(u) : x \in Nat
      BY <1>1, MarkersAre
    <2>3. \A x \in Markers(u) : m < x => m + 2 < x /\ m + 3 < x
      BY <1>3, <1>6, <2>2
    <2> QED BY <2>1, <2>3 DEF BlockAt
  <1>8. ASSUME NEW j \in lines, NEW d \in {2, 3},
               u[j][1] = IF d = 2 THEN "PublicKey" ELSE "AllowedIPs"
        PROVE  j = m + d
    <2>1. j \in Nat /\ m < j /\ j < m2
      <3>1. m2 \in Markers(u)
        BY JoinMarkers
      <3> QED BY <1>1, <1>3, <3>1 DEF BlockAt
    <2>2. j < Len(c)
      BY <1>1, <1>3, <2>1
    <2> QED BY <1>8, <2>2, UpperLine
  <1>9. lines \in SUBSET Nat
    BY <1>1, <1>3 DEF BlockAt
  <1>10. Value(u, lines, "PublicKey") = u[m + 2][2]
    <2>1. u[m + 2][1] = "PublicKey"
      BY <1>4, <1>5
    <2>2. \A j \in lines : u[j][1] = "PublicKey" => j <= m + 2
      <3>1. \A j \in lines : u[j][1] = "PublicKey" => j = m + 2
        BY <1>8
      <3> QED BY <1>3, <3>1
    <2> HIDE DEF lines
    <2> QED BY <1>7, <1>9, <2>1, <2>2, ValueIs
  <1>11. Value(u, lines, "AllowedIPs") = u[m + 3][2]
    <2>1. u[m + 3][1] = "AllowedIPs"
      BY <1>4, <1>5
    <2>2. \A j \in lines : u[j][1] = "AllowedIPs" => j <= m + 3
      <3>1. \A j \in lines : u[j][1] = "AllowedIPs" => j = m + 3
        BY <1>8
      <3> QED BY <1>3, <3>1
    <2> HIDE DEF lines
    <2> QED BY <1>7, <1>9, <2>1, <2>2, ValueIs
  <1>12. ParsedPeer(u, m) = [name |-> u[m][2], key |-> u[m + 2][2], ip |-> u[m + 3][2]]
    BY <1>10, <1>11 DEF ParsedPeer
  <1>13. ParsedPeer(c, m) = [name |-> c[m][2], key |-> c[m + 2][2], ip |-> c[m + 3][2]]
    BY <1>1, <1>2, ParsedPeerIs
  <1> QED BY <1>5, <1>12, <1>13

\* The block of t that is cut: it begins above line i, or at line i, which is not in u.
IsCut(b, t, i, h) == b \in Markers(t) /\ b <= i /\ (b = i => h # t[i])

\* Line j of u is the key or the address of a block, below the lines of c.
Below(u, c, m, j, d) ==
  /\ j \in BlockAt(u, m) /\ ~ (j < Len(c)) /\ d \in {2, 3}
  /\ u[j][1] = IF d = 2 THEN "PublicKey" ELSE "AllowedIPs"

\* It comes from line d of the block that is cut.
OfCut(u, c, t, i, h, j, d) ==
  /\ j \in Nat /\ u[j] = t[j - Len(c) + i]
  /\ \E b \in Markers(t) : IsCut(b, t, i, h) /\ j - Len(c) + i = b + d

\* A key or an address of t below the last block of c and above all others is of that
\* block.
LEMMA CutLine ==
  ASSUME NEW u, NEW c, NEW t, NEW i, NEW h, Splice(u, c, t, i, h),
         NEW m \in Markers(c), NEW j, NEW d, Below(u, c, m, j, d)
  PROVE  OfCut(u, c, t, i, h, j, d)
  <1>0. /\ j \in BlockAt(u, m) /\ ~ (j < Len(c)) /\ d \in {2, 3}
        /\ u[j][1] = IF d = 2 THEN "PublicKey" ELSE "AllowedIPs"
    BY DEF Below
  <1>1. /\ Len(c) \in Nat \ {0} /\ Len(t) \in Nat /\ Len(u) \in Nat /\ i \in Nat \ {0}
        /\ u \in Seq(Line) /\ Len(u) = Len(c) + Len(t) - i
        /\ \A x \in Len(c) .. Len(u) : \/ u[x] = t[x - Len(c) + i]
                                       \/ x = Len(c) /\ h # t[i] /\ u[x] \in {Other, Blank}
    BY JoinLines
  <1>2. Owned(t)
    BY DEF Splice
  <1>3. m \in Nat \ {0} /\ m < Len(c)
    BY JoinMarkers
  <1>4. j \in Nat /\ j \in Len(c) .. Len(u) /\ \A x \in Markers(u) : m < x => j < x
    BY <1>0, <1>1, <1>3 DEF BlockAt
  <1>5. u[j] \notin {Other, Blank}
    BY <1>0, LinesAre
  <1>6. u[j] = t[j - Len(c) + i] /\ j - Len(c) + i \in 1 .. Len(t)
    BY <1>1, <1>4, <1>5
  <1>7. PICK b \in Markers(t) : j - Len(c) + i = b + d
    BY <1>0, <1>2, <1>6 DEF Owned
  <1>8. b \in Nat \ {0} /\ b + 4 <= Len(t)
    BY JoinMarkers
  <1>9. ASSUME b > i \/ (b = i /\ h = t[i]) PROVE FALSE
    <2>1. PICK x \in Len(c) .. Len(u) : x = b + Len(c) - i
      <3>1. b + Len(c) - i \in Len(c) .. Len(u)
        <4> DEFINE lc == Len(c)
                   lt == Len(t)
                   lu == Len(u)
        <4>1. lc \in Nat /\ lt \in Nat /\ lu \in Nat /\ i \in Nat /\ b \in Nat /\ lu = lc + lt - i
              /\ b + 4 <= lt /\ i <= b
          BY <1>1, <1>8, <1>9
        <4> HIDE DEF lc, lt, lu
        <4>2. b + lc - i \in lc .. lu
          BY <4>1
        <4> QED BY <4>2 DEF lc, lu
      <3> QED BY <3>1
    <2>2. x - Len(c) + i = b /\ (x = Len(c) => b = i)
      BY <1>1, <1>8, <2>1
    <2>3. x \in Lower(u, c, t, i, h)
      BY <1>1, <1>8, <1>9, <2>2 DEF Lower
    <2>4. x \in Markers(u)
      BY <2>3, JoinMarkers
    <2>5. m < x /\ x < j
      BY <1>0, <1>1, <1>3, <1>4, <1>7, <1>8, <2>1
    <2> QED BY <1>1, <1>4, <2>1, <2>4, <2>5
  <1>10. IsCut(b, t, i, h)
    BY <1>1, <1>8, <1>9 DEF IsCut
  <1> QED BY <1>4, <1>6, <1>7, <1>10 DEF OfCut

\* Below a key of the cut block comes its address.
LEMMA KeyThenIp ==
  ASSUME NEW u, NEW c, NEW t, NEW i, NEW h, Splice(u, c, t, i, h),
         NEW m \in Markers(c), NEW j \in BlockAt(u, m), ~ (j < Len(c)), u[j][1] = "PublicKey"
  PROVE  \E k \in BlockAt(u, m) : ~ (k < Len(c)) /\ u[k][1] = "AllowedIPs"
  <1>1. /\ Len(c) \in Nat \ {0} /\ Len(t) \in Nat /\ Len(u) \in Nat /\ i \in Nat \ {0}
        /\ u \in Seq(Line) /\ t \in Seq(Line) /\ Len(u) = Len(c) + Len(t) - i
        /\ \A x \in (Len(c) + 1) .. Len(u) : u[x] = t[x - Len(c) + i]
    BY JoinLines
  <1>2. Whole(t)
    BY DEF Splice
  <1>3. m \in Nat \ {0} /\ m < Len(c)
    BY JoinMarkers
  <1> DEFINE d == 2
  <1>0. Below(u, c, m, j, d)
    BY DEF Below
  <1> HIDE DEF d
  <1>4. PICK b \in Markers(t) : j - Len(c) + i = b + 2
    <2>1. OfCut(u, c, t, i, h, j, d)
      BY <1>0, CutLine
    <2> QED BY <2>1 DEF OfCut, d
  <1>5. b \in Nat \ {0} /\ b + 4 <= Len(t) /\ b + 3 \notin Markers(t) /\ t[b + 3][1] = "AllowedIPs"
    BY <1>1, <1>2, BlockInside DEF Whole
  <1>6. j \in Nat /\ j \in (m + 1) .. Len(u) /\ \A x \in Markers(u) : m < x => j < x
    BY <1>1, <1>3 DEF BlockAt
  <1>7. PICK k \in (Len(c) + 1) .. Len(u) : k = j + 1
    BY <1>1, <1>4, <1>5, <1>6
  <1>8. k - Len(c) + i = b + 3 /\ k \in (m + 1) .. Len(u) /\ ~ (k < Len(c))
    <2> DEFINE lc == Len(c)
               lu == Len(u)
    <2>1. lc \in Nat /\ lu \in Nat /\ i \in Nat /\ m \in Nat /\ b \in Nat /\ j \in Nat /\ m < j
          /\ k \in (lc + 1) .. lu /\ k = j + 1 /\ j - lc + i = b + 2
      BY <1>1, <1>3, <1>4, <1>5, <1>6, <1>7
    <2> HIDE DEF lc, lu
    <2>2. k - lc + i = b + 3 /\ k \in (m + 1) .. lu /\ ~ (k < lc)
      BY <2>1
    <2> QED BY <2>2 DEF lc, lu
  <1>9. u[k][1] = "AllowedIPs"
    BY <1>1, <1>5, <1>8
  <1>10. \A x \in Markers(u) : m < x => k < x
    <2> TAKE x \in Markers(u)
    <2> HAVE m < x
    <2>1. j < x /\ x \in Nat
      BY <1>1, <1>6, MarkersAre
    <2>2. x # k
      <3> SUFFICES ASSUME x = k PROVE FALSE
        OBVIOUS
      <3>1. x \notin Markers(c)
        <4>1. \A y \in Markers(c) : y < Len(c)
          BY JoinMarkers
        <4> QED BY <1>8, <4>1
      <3>2. x \in Lower(u, c, t, i, h)
        BY <3>1, JoinMarkers
      <3>3. x - Len(c) + i \in Markers(t)
        BY <3>2, JoinMarkers
      <3> QED BY <1>5, <1>8, <3>3
    <2> QED BY <1>6, <1>7, <2>1, <2>2
  <1>11. k \in BlockAt(u, m)
    BY <1>8, <1>10 DEF BlockAt
  <1> QED BY <1>8, <1>9, <1>11

\* There is one such block.
LEMMA OneCut ==
  ASSUME NEW u, NEW c, NEW t, NEW i, NEW h, Splice(u, c, t, i, h),
         NEW b, IsCut(b, t, i, h), NEW e, IsCut(e, t, i, h),
         NEW d \in {2, 3}, i <= b + d, NEW f \in {2, 3}, i <= e + f
  PROVE  b = e
  <1>1. Whole(t) /\ t \in Seq(Line) /\ i \in Nat
    BY JoinLines DEF Splice
  <1>2. b \in Markers(t) /\ e \in Markers(t) /\ b \in Nat /\ e \in Nat /\ b <= i /\ e <= i
    BY JoinMarkers DEF IsCut
  <1>3. b < e => b + 4 < e
    BY <1>1, <1>2, MarkersApart
  <1>4. e < b => e + 4 < b
    BY <1>1, <1>2, MarkersApart
  <1> QED BY <1>1, <1>2, <1>3, <1>4

\* The last block of c keeps its values or takes over those of the block of t whose
\* last lines follow.
LEMMA JoinLast ==
  ASSUME NEW u, NEW c, NEW t, NEW i, NEW h, Splice(u, c, t, i, h),
         NEW m \in Markers(c), \A x \in Markers(c) : ~ (m < x)
  PROVE  \/ ParsedPeer(u, m) = ParsedPeer(c, m)
         \/ \E b : /\ IsCut(b, t, i, h)
                   /\ ParsedPeer(u, m) \in Overlaid(ParsedPeer(c, m), ParsedPeer(t, b))
  <1> DEFINE lines == BlockAt(u, m)
             l == ParsedPeer(c, m)
  <1>1. /\ Len(c) \in Nat \ {0} /\ Len(t) \in Nat /\ Len(u) \in Nat /\ i \in Nat \ {0}
        /\ u \in Seq(Line) /\ c \in Seq(Line) /\ t \in Seq(Line)
        /\ Len(u) = Len(c) + Len(t) - i /\ Len(c) < Len(u)
        /\ \A x \in 1 .. (Len(c) - 1) : u[x] = c[x]
        /\ \A x \in (Len(c) + 1) .. Len(u) : u[x] = t[x - Len(c) + i]
    BY JoinLines
  <1>2. Whole(c) /\ Owned(c) /\ Whole(t) /\ Owned(t)
    BY DEF Splice
  <1>3. m \in Nat \ {0} /\ m + 4 <= Len(c)
    BY JoinMarkers
  <1>4. /\ c[m + 2][1] = "PublicKey" /\ c[m + 3][1] = "AllowedIPs"
    BY <1>2 DEF Whole
  <1>5. u[m] = c[m] /\ u[m + 2] = c[m + 2] /\ u[m + 3] = c[m + 3]
    <2>1. m \in 1 .. (Len(c) - 1) /\ m + 2 \in 1 .. (Len(c) - 1) /\ m + 3 \in 1 .. (Len(c) - 1)
      BY <1>1, <1>3
    <2> QED BY <1>1, <2>1
  <1>6. \A x \in Markers(u) : m < x => Len(c) <= x /\ x \in Lower(u, c, t, i, h)
    BY JoinMarkers
  <1>7. m + 2 \in lines /\ m + 3 \in lines
    <2>1. m + 2 \in (m + 1) .. Len(u) /\ m + 3 \in (m + 1) .. Len(u)
      BY <1>1, <1>3
    <2>2. \A x \in Markers(u) : x \in Nat
      BY <1>1, MarkersAre
    <2>3. \A x \in Markers(u) : m < x => m + 2 < x /\ m + 3 < x
      BY <1>1, <1>3, <1>6, <2>2
    <2> QED BY <2>1, <2>3 DEF BlockAt
  <1>8. lines \in SUBSET Nat
    BY <1>1, <1>3 DEF BlockAt
  <1>9. ParsedPeer(u, m) = [name |-> c[m][2], key |-> Value(u, lines, "PublicKey"),
                            ip |-> Value(u, lines, "AllowedIPs")]
    BY <1>5 DEF ParsedPeer
  <1>10. l = [name |-> c[m][2], key |-> c[m + 2][2], ip |-> c[m + 3][2]]
    BY <1>1, <1>2, ParsedPeerIs
  <1>11. \A j \in lines, d \in {2, 3} :
           j < Len(c) /\ u[j][1] = (IF d = 2 THEN "PublicKey" ELSE "AllowedIPs") => j = m + d
    BY UpperLine
  <1>12. ASSUME NEW j \in lines, NEW d \in {2, 3}, ~ (j < Len(c)),
                u[j][1] = IF d = 2 THEN "PublicKey" ELSE "AllowedIPs"
         PROVE  /\ j \in Nat /\ u[j] = t[j - Len(c) + i]
                /\ \E b \in Markers(t) : IsCut(b, t, i, h) /\ j - Len(c) + i = b + d
    <2>1. Below(u, c, m, j, d)
      BY <1>12 DEF Below
    <2>2. OfCut(u, c, t, i, h, j, d)
      BY <2>1, CutLine
    <2> QED BY <2>2 DEF OfCut
  <1> DEFINE low(kind) == {j \in lines : ~ (j < Len(c)) /\ u[j][1] = kind}
  <1>13. CASE low("AllowedIPs") = {}
    <2>1. low("PublicKey") = {}
      BY <1>13, KeyThenIp
    <2>2. Value(u, lines, "PublicKey") = u[m + 2][2]
      <3>1. u[m + 2][1] = "PublicKey"
        BY <1>4, <1>5
      <3>2. \A j \in lines : u[j][1] = "PublicKey" => j <= m + 2
        <4>1. \A j \in lines : u[j][1] = "PublicKey" => j = m + 2
          BY <1>11, <2>1
        <4> QED BY <1>3, <4>1
      <3> HIDE DEF lines
      <3> QED BY <1>7, <1>8, <3>1, <3>2, ValueIs
    <2>3. Value(u, lines, "AllowedIPs") = u[m + 3][2]
      <3>1. u[m + 3][1] = "AllowedIPs"
        BY <1>4, <1>5
      <3>2. \A j \in lines : u[j][1] = "AllowedIPs" => j <= m + 3
        <4>1. \A j \in lines : u[j][1] = "AllowedIPs" => j = m + 3
          BY <1>11, <1>13
        <4> QED BY <1>3, <4>1
      <3> HIDE DEF lines
      <3> QED BY <1>7, <1>8, <3>1, <3>2, ValueIs
    <2> QED BY <1>5, <1>9, <1>10, <2>2, <2>3
  <1>14. CASE low("AllowedIPs") # {}
    <2>1. PICK k \in low("AllowedIPs") : TRUE
      BY <1>14
    <2>2. /\ k \in lines /\ k \in Nat /\ ~ (k < Len(c)) /\ u[k][1] = "AllowedIPs"
          /\ u[k] = t[k - Len(c) + i]
          /\ \E b \in Markers(t) : IsCut(b, t, i, h) /\ k - Len(c) + i = b + 3
      <3>1. k \in lines /\ ~ (k < Len(c)) /\ u[k][1] = "AllowedIPs"
        BY <2>1
      <3> DEFINE d == 3
      <3>2. d \in {2, 3} /\ u[k][1] = IF d = 2 THEN "PublicKey" ELSE "AllowedIPs"
        BY <3>1
      <3> HIDE DEF d, lines
      <3>3. /\ k \in Nat /\ u[k] = t[k - Len(c) + i]
            /\ \E b \in Markers(t) : IsCut(b, t, i, h) /\ k - Len(c) + i = b + d
        BY <1>12, <3>1, <3>2
      <3> QED BY <3>1, <3>3 DEF d
    <2>3. PICK b \in Markers(t) : IsCut(b, t, i, h) /\ k - Len(c) + i = b + 3
      BY <2>2
    <2>4. b \in Nat /\ i <= b + 3 /\ u[k] = t[b + 3]
      <3>1. b \in Nat
        BY JoinMarkers
      <3>2. i <= b + 3
        BY <1>1, <2>2, <2>3, <3>1
      <3>3. u[k] = t[b + 3]
        BY <2>2, <2>3
      <3> QED BY <3>1, <3>2, <3>3
    <2>5. ASSUME NEW j \in lines, NEW d \in {2, 3}, ~ (j < Len(c)),
                 u[j][1] = IF d = 2 THEN "PublicKey" ELSE "AllowedIPs"
          PROVE  j = b + d + Len(c) - i /\ u[j] = t[b + d]
      <3>1. j \in Nat /\ u[j] = t[j - Len(c) + i]
        BY <1>12, <2>5
      <3>2. PICK e \in Markers(t) : IsCut(e, t, i, h) /\ j - Len(c) + i = e + d
        BY <1>12, <2>5
      <3>3. e \in Nat /\ i <= e + d
        BY <1>1, <2>5, <3>1, <3>2, JoinMarkers
      <3>4. e = b
        BY <2>3, <2>4, <3>2, <3>3, OneCut
      <3> QED BY <1>1, <2>4, <3>1, <3>2, <3>4
    <2>6. ParsedPeer(t, b) = [name |-> t[b][2], key |-> t[b + 2][2], ip |-> t[b + 3][2]]
      BY <1>1, <1>2, ParsedPeerIs
    <2>7. Value(u, lines, "AllowedIPs") = t[b + 3][2]
      <3>1. \A j \in lines : u[j][1] = "AllowedIPs" => j <= k
        <4> TAKE j \in lines
        <4> HAVE u[j][1] = "AllowedIPs"
        <4>1. CASE j < Len(c)
          BY <1>1, <1>8, <2>2, <4>1
        <4>2. CASE ~ (j < Len(c))
          <5>1. j = b + 3 + Len(c) - i
            BY <2>5, <4>2
          <5> QED BY <1>1, <2>2, <2>3, <2>4, <5>1
        <4> QED BY <4>1, <4>2
      <3> HIDE DEF lines
      <3>2. Value(u, lines, "AllowedIPs") = u[k][2]
        BY <1>8, <2>2, <3>1, ValueIs
      <3> QED BY <2>4, <3>2
    <2>8. CASE low("PublicKey") = {}
      <3>1. Value(u, lines, "PublicKey") = u[m + 2][2]
        <4>1. u[m + 2][1] = "PublicKey"
          BY <1>4, <1>5
        <4>2. \A j \in lines : u[j][1] = "PublicKey" => j <= m + 2
          <5>1. \A j \in lines : u[j][1] = "PublicKey" => j = m + 2
            BY <1>11, <2>8
          <5> QED BY <1>3, <5>1
        <4> HIDE DEF lines
        <4> QED BY <1>7, <1>8, <4>1, <4>2, ValueIs
      <3>2. ParsedPeer(u, m) = [name |-> c[m][2], key |-> c[m + 2][2], ip |-> t[b + 3][2]]
        BY <1>5, <1>9, <2>7, <3>1
      <3>3. ParsedPeer(u, m) = [l EXCEPT !.ip = ParsedPeer(t, b).ip]
        BY <1>10, <2>6, <3>2
      <3> QED BY <2>3, <3>3 DEF Overlaid
    <2>9. CASE low("PublicKey") # {}
      <3>1. PICK q \in low("PublicKey") : TRUE
        BY <2>9
      <3>2. q \in lines /\ ~ (q < Len(c)) /\ u[q][1] = "PublicKey"
        BY <3>1
      <3>3. q = b + 2 + Len(c) - i /\ u[q] = t[b + 2] /\ q \in Nat
        BY <1>8, <2>5, <3>2
      <3>4. Value(u, lines, "PublicKey") = t[b + 2][2]
        <4>1. \A j \in lines : u[j][1] = "PublicKey" => j <= q
          <5> TAKE j \in lines
          <5> HAVE u[j][1] = "PublicKey"
          <5>1. CASE j < Len(c)
            BY <1>1, <1>8, <3>2, <3>3, <5>1
          <5>2. CASE ~ (j < Len(c))
            <6>1. j = b + 2 + Len(c) - i
              BY <2>5, <5>2
            <6> QED BY <3>3, <6>1
          <5> QED BY <5>1, <5>2
        <4> HIDE DEF lines
        <4>2. Value(u, lines, "PublicKey") = u[q][2]
          BY <1>8, <3>2, <4>1, ValueIs
        <4> QED BY <3>3, <4>2
      <3>5. ParsedPeer(u, m) = [name |-> c[m][2], key |-> t[b + 2][2], ip |-> t[b + 3][2]]
        BY <1>9, <2>7, <3>4
      <3>6. ParsedPeer(u, m) = [ParsedPeer(t, b) EXCEPT !.name = l.name]
        BY <1>10, <2>6, <3>5
      <3> QED BY <2>3, <3>6 DEF Overlaid
    <2> QED BY <2>8, <2>9
  <1> QED BY <1>13, <1>14

\* Two blocks of a text have different keys.
LEMMA BlocksDiffer ==
  ASSUME NEW t, NEW last, Laid(t, last), NEW x \in Markers(t), NEW y \in Markers(t),
         ParsedPeer(t, x) = ParsedPeer(t, y)
  PROVE  x = y
  <1>1. t \in Seq(Line) /\ Whole(t) /\ Owned(t) /\ Ascending(t, last)
    BY DEF Laid
  <1>2. ParsedPeer(t, x).key = t[x + 2][2] /\ ParsedPeer(t, y).key = t[y + 2][2]
    BY <1>1, ParsedPeerIs
  <1>3. x \in Nat /\ y \in Nat
    BY <1>1, MarkersAre
  <1>4. t[x + 2][2] \in Nat /\ t[y + 2][2] \in Nat
    BY <1>1 DEF Whole
  <1>5. (x < y => t[x + 2][2] < t[y + 2][2]) /\ (y < x => t[y + 2][2] < t[x + 2][2])
    BY <1>1 DEF Ascending
  <1> QED BY <1>2, <1>3, <1>4, <1>5

LEMMA LastMarker ==
  ASSUME NEW t \in Seq(Line), Markers(t) # {}
  PROVE  \E m \in Markers(t) : \A x \in Markers(t) : ~ (m < x)
  <1> DEFINE n == Len(t)
             T == {n - x : x \in Markers(t)}
  <1>1. n \in Nat /\ \A x \in Markers(t) : x \in Nat /\ x <= n
    <2>1. n \in Nat
      OBVIOUS
    <2>2. \A x \in Markers(t) : x \in 1 .. n
      BY MarkersAre
    <2> HIDE DEF n
    <2> QED BY <2>1, <2>2
  <1> HIDE DEF n
  <1>2. T \in SUBSET Nat /\ T # {}
    BY <1>1
  <1>3. PICK z \in T : \A y \in T : z <= y
    <2> HIDE DEF T
    <2> QED BY <1>2, Smallest
  <1>4. PICK m \in Markers(t) : z = n - m
    BY <1>3
  <1>5. \A x \in Markers(t) : ~ (m < x)
    <2> TAKE x \in Markers(t)
    <2>1. n - x \in T
      OBVIOUS
    <2>2. n - m <= n - x
      BY <1>3, <1>4, <2>1
    <2> HIDE DEF T
    <2> QED BY <1>1, <2>2
  <1> QED BY <1>5

\* The whole blocks that stay of t are blocks of t, and none is the one that is cut.
LEMMA JoinRest ==
  ASSUME NEW u, NEW c, NEW t, NEW i, NEW h, Splice(u, c, t, i, h), NEW last, Laid(t, last),
         NEW x \in Lower(u, c, t, i, h)
  PROVE  /\ ParsedPeer(u, x) \in ParseContent(t).blocks
         /\ \A b : IsCut(b, t, i, h) => ParsedPeer(u, x) # ParsedPeer(t, b)
  <1> DEFINE y == x - Len(c) + i
  <1>1. ParsedPeer(u, x) = ParsedPeer(t, y)
    BY JoinLower
  <1>2. y \in Markers(t) /\ x \in Nat /\ Len(c) <= x /\ (x = Len(c) => h = t[i])
    BY JoinMarkers DEF Lower
  <1>3. Len(c) \in Nat /\ i \in Nat
    BY JoinLines
  <1>4. ASSUME NEW b, IsCut(b, t, i, h) PROVE ParsedPeer(u, x) # ParsedPeer(t, b)
    <2>1. b \in Markers(t) /\ b \in Nat /\ b <= i /\ (b = i => h # t[i])
      BY <1>4, JoinMarkers DEF IsCut
    <2>2. y # b
      BY <1>2, <1>3, <2>1
    <2> HIDE DEF y
    <2> QED BY <1>1, <1>2, <2>1, <2>2, BlocksDiffer
  <1>5. ParsedPeer(t, y) \in ParseContent(t).blocks
    BY <1>2 DEF ParseContent
  <1> QED BY <1>1, <1>4, <1>5

LEMMA JoinIface ==
  ASSUME NEW u, NEW c, NEW t, NEW i, NEW h, Splice(u, c, t, i, h)
  PROVE  Contains(u, Iface) \in {Contains(c, Iface), Contains(c, Iface) \/ Contains(t, Iface)}
  <1>1. /\ Len(c) \in Nat \ {0} /\ Len(t) \in Nat /\ Len(u) \in Nat /\ i \in Nat \ {0}
        /\ Len(u) = Len(c) + Len(t) - i /\ Len(c) < Len(u)
        /\ \A x \in 1 .. (Len(c) - 1) : u[x] = c[x]
        /\ \A x \in Len(c) .. Len(u) : \/ u[x] = t[x - Len(c) + i]
                                       \/ x = Len(c) /\ h # t[i] /\ u[x] \in {Other, Blank}
    BY JoinLines
  <1>2. c[Len(c)] = Blank
    BY DEF Splice, Ended
  <1>3. Iface # Blank /\ Iface # Other
    BY LinesAre
  <1>4. /\ Contains(u, Iface) <=> \E x \in 1 .. Len(u) : u[x] = Iface
        /\ Contains(c, Iface) <=> \E x \in 1 .. Len(c) : c[x] = Iface
        /\ Contains(t, Iface) <=> \E x \in 1 .. Len(t) : t[x] = Iface
    BY DEF Contains
  <1>5. Contains(c, Iface) => Contains(u, Iface)
    <2> SUFFICES ASSUME NEW x \in 1 .. Len(c), c[x] = Iface PROVE Contains(u, Iface)
      BY <1>4
    <2>1. x # Len(c)
      BY <1>2, <1>3
    <2>2. x \in 1 .. (Len(c) - 1) /\ x \in 1 .. Len(u)
      BY <1>1, <2>1
    <2>3. u[x] = Iface
      BY <1>1, <2>2
    <2> QED BY <1>4, <2>2, <2>3
  <1>6. Contains(u, Iface) => Contains(c, Iface) \/ Contains(t, Iface)
    <2> SUFFICES ASSUME NEW x \in 1 .. Len(u), u[x] = Iface
                 PROVE  Contains(c, Iface) \/ Contains(t, Iface)
      BY <1>4
    <2>1. CASE x < Len(c)
      <3>1. x \in 1 .. (Len(c) - 1) /\ x \in 1 .. Len(c)
        BY <1>1, <2>1
      <3>2. c[x] = Iface
        BY <1>1, <3>1
      <3> QED BY <1>4, <3>1, <3>2
    <2>2. CASE ~ (x < Len(c))
      <3>1. x \in Len(c) .. Len(u) /\ x - Len(c) + i \in 1 .. Len(t)
        BY <1>1, <2>2
      <3>2. t[x - Len(c) + i] = Iface
        BY <1>1, <1>3, <3>1
      <3> QED BY <1>4, <3>1, <3>2
    <2> QED BY <2>1, <2>2
  <1>7. Contains(u, Iface) \in BOOLEAN /\ Contains(c, Iface) \in BOOLEAN /\ Contains(t, Iface) \in BOOLEAN
    BY DEF Contains
  <1> HIDE DEF Contains
  <1> QED BY <1>5, <1>6, <1>7

\* blocks is what Splices may make of new and old.
Mixed(blocks, new, old) ==
  \E rest \in SUBSET old :
    \/ blocks = new \cup rest
    \/ \E l \in new, d \in old :
         \E m \in Overlaid(l, d) : d \notin rest /\ blocks = (new \ {l}) \cup {m} \cup rest

LEMMA JoinBlocks ==
  ASSUME NEW u, NEW c, NEW t, NEW i, NEW h, Splice(u, c, t, i, h),
         NEW last, Laid(t, last), Laid(c, last)
  PROVE  Mixed(ParseContent(u).blocks, ParseContent(c).blocks, ParseContent(t).blocks)
  <1> DEFINE new == ParseContent(c).blocks
             old == ParseContent(t).blocks
             rest == {ParsedPeer(u, x) : x \in Lower(u, c, t, i, h)}
  <1>1. /\ new = {ParsedPeer(c, x) : x \in Markers(c)}
        /\ old = {ParsedPeer(t, x) : x \in Markers(t)}
        /\ ParseContent(u).blocks = {ParsedPeer(u, x) : x \in Markers(u)}
    BY DEF ParseContent
  <1>2. Markers(u) = Markers(c) \cup Lower(u, c, t, i, h)
    BY JoinMarkers
  <1>3. rest \in SUBSET old
    BY JoinRest
  <1>4. ParseContent(u).blocks = {ParsedPeer(u, x) : x \in Markers(c)} \cup rest
    BY <1>1, <1>2
  <1>5. CASE Markers(c) = {}
    <2>1. ParseContent(u).blocks = new \cup rest
      BY <1>1, <1>4, <1>5
    <2> HIDE DEF new, old, rest
    <2>2. Mixed(ParseContent(u).blocks, new, old)
      BY <1>3, <2>1 DEF Mixed
    <2> QED BY <2>2 DEF new, old
  <1>6. CASE Markers(c) # {}
    <2>1. c \in Seq(Line)
      BY DEF Splice
    <2>2. PICK m \in Markers(c) : \A x \in Markers(c) : ~ (m < x)
      BY <1>6, <2>1, LastMarker
    <2> DEFINE l == ParsedPeer(c, m)
               others == {ParsedPeer(u, x) : x \in Markers(c) \ {m}}
    <2>3. l \in new
      BY <1>1
    <2>4. \A x \in Markers(c) \ {m} : ParsedPeer(u, x) = ParsedPeer(c, x)
      <3> TAKE x \in Markers(c) \ {m}
      <3>1. x \in Nat /\ m \in Nat
        BY <2>1, MarkersAre
      <3>2. x < m
        BY <2>2, <3>1
      <3> QED BY <3>2, JoinUpper
    <2>5. \A x \in Markers(c) \ {m} : ParsedPeer(c, x) # l
      BY BlocksDiffer
    <2>6. others = new \ {l}
      BY <1>1, <2>4, <2>5
    <2>7. ParseContent(u).blocks = others \cup {ParsedPeer(u, m)} \cup rest
      BY <1>4
    <2>8. CASE ParsedPeer(u, m) = l
      <3>1. ParseContent(u).blocks = new \cup rest
        <4> HIDE DEF l, others, new, rest
        <4> QED BY <2>3, <2>6, <2>7, <2>8
      <3> HIDE DEF new, old, rest
      <3>2. Mixed(ParseContent(u).blocks, new, old)
        BY <1>3, <3>1 DEF Mixed
      <3> QED BY <3>2 DEF new, old
    <2>9. ASSUME NEW b, IsCut(b, t, i, h), ParsedPeer(u, m) \in Overlaid(l, ParsedPeer(t, b))
          PROVE  \E d \in old : \E z \in Overlaid(l, d) :
                   /\ d \notin rest
                   /\ ParseContent(u).blocks = (new \ {l}) \cup {z} \cup rest
      <3>1. ParsedPeer(t, b) \in old
        BY <1>1, <2>9 DEF IsCut
      <3>2. ParsedPeer(t, b) \notin rest
        BY <2>9, JoinRest
      <3>3. ParseContent(u).blocks = (new \ {l}) \cup {ParsedPeer(u, m)} \cup rest
        BY <2>6, <2>7
      <3> HIDE DEF l, old, new, rest
      <3> QED BY <2>9, <3>1, <3>2, <3>3
    <2>10. \/ ParsedPeer(u, m) = l
           \/ \E b : IsCut(b, t, i, h) /\ ParsedPeer(u, m) \in Overlaid(l, ParsedPeer(t, b))
      BY <2>2, JoinLast
    <2> HIDE DEF l, old, new, rest, others
    <2>11. CASE ~ (ParsedPeer(u, m) = l)
      <3>1. PICK b : IsCut(b, t, i, h) /\ ParsedPeer(u, m) \in Overlaid(l, ParsedPeer(t, b))
        BY <2>10, <2>11
      <3>2. PICK d \in old : \E z \in Overlaid(l, d) :
                   /\ d \notin rest
                   /\ ParseContent(u).blocks = (new \ {l}) \cup {z} \cup rest
        BY <2>9, <3>1
      <3>3. Mixed(ParseContent(u).blocks, new, old)
        BY <1>3, <2>3, <3>2 DEF Mixed
      <3> QED BY <3>3 DEF new, old
    <2> QED BY <2>8, <2>11 DEF l, old, new, rest, others
  <1> QED BY <1>5, <1>6

\* A splice of two texts, read by ParseContent, is a splice of what the two are read
\* as.
LEMMA SpliceParses ==
  ASSUME NEW c, NEW t, NEW last, Laid(c, last), Ended(c), Laid(t, last), NEW end \in Ends(t)
  PROVE  ParseContent(Front(c) \o end) \in Splices(ParseContent(c), ParseContent(t))
  <1>1. PICK i \in 1 .. (Len(t) - 1) :
          \E h \in {t[i], Other, Blank} : end = <<h>> \o SubSeq(t, i + 1, Len(t))
    <2>1. PICK i \in 1 .. (Len(t) - 1) :
            end \in {<<first>> \o SubSeq(t, i + 1, Len(t)) :
                       first \in IF t[i] = Blank THEN {Blank} ELSE {t[i], Other, Blank}}
      BY DEF Ends
    <2>2. PICK h \in IF t[i] = Blank THEN {Blank} ELSE {t[i], Other, Blank} :
            end = <<h>> \o SubSeq(t, i + 1, Len(t))
      BY <2>1
    <2>3. h \in {t[i], Other, Blank}
      BY <2>2
    <2> QED BY <2>2, <2>3
  <1>0. PICK h \in {t[i], Other, Blank} : end = <<h>> \o SubSeq(t, i + 1, Len(t))
    BY <1>1
  <1> DEFINE u == Front(c) \o end
             new == ParseContent(c)
             old == ParseContent(t)
             cf == ParseContent(u)
  <1>2. /\ c \in Seq(Line) /\ t \in Seq(Line) /\ Whole(c) /\ Owned(c) /\ Whole(t) /\ Owned(t)
        /\ Len(c) > 0 /\ h \in Line
    <2>1. t \in Seq(Line) /\ i \in 1 .. Len(t)
      BY DEF Laid
    <2>2. t[i] \in Line /\ Other \in Line /\ Blank \in Line
      <3>1. t[i] \in Line
        BY <2>1
      <3>2. Other \in Line
        BY DEF Line, Other
      <3>3. Blank \in Line
        BY DEF Line, Blank
      <3> QED BY <3>1, <3>2, <3>3
    <2> QED BY <2>2 DEF Laid, Ended
  <1>3. Splice(u, c, t, i, h)
    <2>1. Joins(u, c, t, i, h)
      BY <1>0, <1>2, SpliceJoins
    <2> HIDE DEF u
    <2> QED BY <1>2, <2>1 DEF Splice
  <1> HIDE DEF u
  <1>4. cf.iface \in {new.iface, new.iface \/ old.iface}
    BY <1>3, JoinIface DEF ParseContent
  <1>5. PICK rest \in SUBSET old.blocks :
           \/ cf.blocks = new.blocks \cup rest
           \/ \E l \in new.blocks, d \in old.blocks :
                \E m \in Overlaid(l, d) :
                  d \notin rest /\ cf.blocks = (new.blocks \ {l}) \cup {m} \cup rest
    <2> HIDE DEF cf, new, old
    <2>1. Mixed(ParseContent(u).blocks, ParseContent(c).blocks, ParseContent(t).blocks)
      BY <1>3, JoinBlocks
    <2>2. Mixed(cf.blocks, new.blocks, old.blocks)
      BY <2>1 DEF cf, new, old
    <2> QED BY <2>2 DEF Mixed
  <1>6. cf = [iface |-> cf.iface, blocks |-> cf.blocks]
    BY DEF ParseContent
  <1> HIDE DEF cf, new, old
  <1> DEFINE wholes == {new.blocks \cup r : r \in SUBSET old.blocks}
             cuts == UNION {{(new.blocks \ {l}) \cup {m} \cup r :
                               m \in Overlaid(l, d), r \in SUBSET (old.blocks \ {d})} :
                             l \in new.blocks, d \in old.blocks}
  <1>7. cf.blocks \in wholes \cup cuts
    <2>1. CASE cf.blocks = new.blocks \cup rest
      BY <2>1
    <2>2. ASSUME NEW l \in new.blocks, NEW d \in old.blocks, NEW m \in Overlaid(l, d),
                 d \notin rest, cf.blocks = (new.blocks \ {l}) \cup {m} \cup rest
          PROVE  cf.blocks \in cuts
      <3>1. rest \in SUBSET (old.blocks \ {d})
        BY <2>2
      <3> DEFINE of(x, y) == {(new.blocks \ {x}) \cup {z} \cup r :
                                z \in Overlaid(x, y), r \in SUBSET (old.blocks \ {y})}
      <3>3. cuts = UNION {of(x, y) : x \in new.blocks, y \in old.blocks}
        OBVIOUS
      <3>4. cf.blocks \in of(l, d)
        <4> HIDE DEF cuts
        <4> QED BY <2>2, <3>1
      <3> HIDE DEF of, cuts
      <3> QED BY <3>3, <3>4
    <2> HIDE DEF cuts
    <2> QED BY <1>5, <2>1, <2>2
  <1>8. Splices(new, old) = [iface : {new.iface, new.iface \/ old.iface}, blocks : wholes \cup cuts]
    BY DEF Splices
  <1> HIDE DEF wholes, cuts
  <1>9. cf \in Splices(new, old)
    BY <1>4, <1>6, <1>7, <1>8
  <1> QED BY <1>9 DEF cf, new, old, u

-----------------------------------------------------------------------------

\* The refinement of ConfFile: the state it sees in this one, and its steps.
ViewEdits ==
  [e \in Editors |->
    IF edits[e] = NoEdit THEN NoEdit
    ELSE [name |-> edits[e].name, copy |-> ParseContent(edits[e].copy)]]

\* An editor of the text is at work exactly where the one of ConfFile is.
LEMMA ViewEditsAre ==
  ASSUME TextInv, NEW e \in Editors, edits[e] # NoEdit
  PROVE  /\ ViewEdits[e] = [name |-> edits[e].name, copy |-> ParseContent(edits[e].copy)]
         /\ ViewEdits[e] # NoEdit
         /\ ViewEdits[e].name = edits[e].name
         /\ ViewEdits[e].copy = ParseContent(edits[e].copy)
  <1> DEFINE c == ParseContent(edits[e].copy)
             n == edits[e].name
  <1>1. edits[e] \in Edit /\ Formed(edits[e].copy, lastKey) /\ lastKey \in Nat
    BY DEF TextInv
  <1>2. n \in Names
    BY <1>1 DEF Edit
  <1>3. c \in Config
    BY <1>1, ParsesToConfig
  <1>4. ViewEdits[e] = [name |-> n, copy |-> c]
    BY DEF ViewEdits
  <1> HIDE DEF c, n
  <1>5. [name |-> n, copy |-> c] \in [name : Names, copy : Config]
    BY <1>2, <1>3
  <1>6. [name |-> n, copy |-> c] # NoEdit
    BY <1>5, NoEditAssumption
  <1>7. [name |-> n, copy |-> c].name = n /\ [name |-> n, copy |-> c].copy = c
    OBVIOUS
  <1>8. ViewEdits[e] # NoEdit /\ ViewEdits[e].name = n /\ ViewEdits[e].copy = c
    BY <1>4, <1>6, <1>7
  <1> QED BY <1>4, <1>8 DEF c, n

LEMMA ViewInit == Init => View!Init
  <1> SUFFICES ASSUME Init PROVE View!Init
    OBVIOUS
  <1>1. TextInv /\ Has(text)
    BY InitText
  <1>2. /\ ParseContent(text) \in Config
        /\ \A b \in ParseContent(text).blocks : b.key <= lastKey
    BY <1>1, ParsesToConfig DEF TextInv
  <1>3. edits = [e \in Editors |-> NoEdit]
    BY DEF Init
  <1>4. spliced = FALSE /\ [e \in Editors |->
          IF edits[e] = NoEdit THEN NoEdit
          ELSE [name |-> edits[e].name, copy |-> ParseContent(edits[e].copy)]]
        = [e \in Editors |-> NoEdit]
    BY <1>3 DEF Init
  <1> QED BY <1>1, <1>2, <1>4
     DEF View!Init, View!Config, View!Block, View!Octets, Config, Block, Octets, Has

LEMMA ViewAppend ==
  ASSUME TextInv, AppendToFile
  PROVE  View!Append
  <1>1. PICK n \in Names, i \in Octets :
          ParseContent(text') =
            AppendPeer(ParseContent(text), [name |-> n, key |-> lastKey + 1, ip |-> i])
    BY AppendToFileText
  <1> DEFINE b == [name |-> n, key |-> lastKey + 1, ip |-> i]
             cf == ParseContent(text)
             cf2 == ParseContent(text')
  <1>2. cf2 = AppendPeer(cf, b) /\ b.key = lastKey + 1
    BY <1>1
  <1>3. cf.blocks \cup {b} = cf2.blocks
    BY <1>2 DEF AppendPeer, ParseContent
  <1>4. \E c \in cf2.blocks : c.key = lastKey + 1 /\ cf2 = AppendPeer(cf, c)
    <2> HIDE DEF b, cf, cf2
    <2> QED BY <1>2, <1>3
  <1>5. lastKey' = lastKey + 1 /\ edits' = edits /\ spliced' = spliced
    BY DEF AppendToFile
  <1>6. ViewEdits' = ViewEdits
    BY <1>5 DEF ViewEdits
  <1> HIDE DEF b, cf, cf2
  <1>7. \E c \in cf2.blocks : c.key = lastKey + 1 /\ cf2 = View!AppendPeer(cf, c)
    BY <1>4 DEF View!AppendPeer, AppendPeer
  <1> QED BY <1>5, <1>6, <1>7 DEF View!Append, ViewEdits, cf, cf2

LEMMA ViewRead ==
  ASSUME TextInv, NEW e \in Editors, ReadFile(e)
  PROVE  View!Read(e)
  <1>1. PICK n \in Names : edits' = [edits EXCEPT ![e] = [name |-> n, copy |-> text, cut |-> FALSE]]
    BY DEF ReadFile
  <1>2. edits[e] = NoEdit /\ text' = text /\ lastKey' = lastKey /\ spliced' = spliced
    BY DEF ReadFile
  <1> DEFINE r == [name |-> n, copy |-> text, cut |-> FALSE]
             cf == ParseContent(text)
             s == [name |-> n, copy |-> cf]
  <1>3. edits \in [Editors -> Edit \cup {NoEdit}] /\ r \in Edit
    BY DEF TextInv, Formed, Laid, Edit
  <1>4. edits' = [edits EXCEPT ![e] = r]
    BY <1>1
  <1>5. r # NoEdit /\ r.name = n /\ ParseContent(r.copy) = cf
    BY <1>3, NoEditAssumption
  <1> HIDE DEF r, cf
  <1>6. \A d \in Editors : edits'[d] = IF d = e THEN r ELSE edits[d]
    BY <1>3, <1>4
  <1>7. \A d \in Editors : ViewEdits'[d] = IF d = e THEN s ELSE ViewEdits[d]
    BY <1>5, <1>6 DEF ViewEdits
  <1>8. ViewEdits[e] = NoEdit
    BY <1>2 DEF ViewEdits
  <1>9. ViewEdits' = [ViewEdits EXCEPT ![e] = s]
    <2>1. ViewEdits = [d \in Editors |-> ViewEdits[d]] /\ ViewEdits' = [d \in Editors |-> ViewEdits'[d]]
      BY DEF ViewEdits
    <2> HIDE DEF s
    <2> QED BY <1>7, <2>1
  <1>10. \E m \in Names : ViewEdits' = [ViewEdits EXCEPT ![e] = [name |-> m, copy |-> ParseContent(text)]]
    BY <1>9 DEF cf
  <1> QED BY <1>2, <1>8, <1>10 DEF View!Read, ViewEdits

LEMMA ViewTruncate ==
  ASSUME TextInv, NEW e \in Editors, Truncate(e)
  PROVE  View!Truncate(e)
  <1>1. edits[e] # NoEdit /\ lastKey' = lastKey /\ spliced' = spliced
    BY DEF Truncate
  <1>2. ParseContent(text') = Truncated
    BY TruncateText
  <1>3. \A d \in Editors :
          /\ edits'[d] = NoEdit <=> edits[d] = NoEdit
          /\ edits'[d].name = edits[d].name /\ edits'[d].copy = edits[d].copy
    BY TruncateText
  <1>4. ViewEdits' = ViewEdits
    BY <1>3 DEF ViewEdits
  <1>5. ViewEdits[e] # NoEdit
    BY <1>1, ViewEditsAre
  <1> QED BY <1>1, <1>2, <1>4, <1>5 DEF View!Truncate, View!Truncated, Truncated, ViewEdits

\* The content of a removal ends in a blank line.
LEMMA RemovedEnds ==
  ASSUME NEW t \in Seq(Line), NEW n
  PROVE  Ended(Removed(t, n))
  <1> DEFINE r == Removed(t, n)
  <1>1. r \in Seq(Line)
    BY RemovedCuts
  <1>2. PICK p, f : Cuts(p, f, r, t, Kept(t, n, Len(t)))
    BY RemovedCuts
  <1>3. p \in Nat /\ p < Len(r) /\ \A x \in 1 .. Len(r) : x > p => r[x] = Blank
    BY <1>2 DEF Cuts
  <1> HIDE DEF r
  <1>4. Len(r) \in Nat
    BY <1>1
  <1>5. Len(r) \in 1 .. Len(r) /\ Len(r) > p /\ Len(r) > 0
    BY <1>3, <1>4
  <1> QED BY <1>3, <1>5 DEF Ended, r

LEMMA ViewWrite ==
  ASSUME TextInv, NEW e \in Editors, WriteFile(e)
  PROVE  View!Write(e)
  <1> DEFINE content == Removed(edits[e].copy, edits[e].name)
             blocks == WithoutPeer(ParseContent(edits[e].copy), edits[e].name)
  <1>1. edits[e] # NoEdit /\ lastKey' = lastKey /\ edits' = [edits EXCEPT ![e] = NoEdit]
    BY DEF WriteFile
  <1>2. /\ Formed(edits[e].copy, lastKey) /\ Formed(text, lastKey)
        /\ edits[e].copy \in Seq(Line)
    BY <1>1 DEF TextInv, Formed, Laid
  <1>3. /\ ViewEdits[e] # NoEdit /\ ViewEdits[e].name = edits[e].name
        /\ ViewEdits[e].copy = ParseContent(edits[e].copy)
    BY <1>1, ViewEditsAre
  <1>4. edits \in [Editors -> Edit \cup {NoEdit}]
    BY DEF TextInv
  <1>5. \A d \in Editors : edits'[d] = IF d = e THEN NoEdit ELSE edits[d]
    BY <1>1, <1>4
  <1>6. \A d \in Editors : ViewEdits'[d] = IF d = e THEN NoEdit ELSE ViewEdits[d]
    BY <1>5 DEF ViewEdits
  <1>7. ViewEdits' = [ViewEdits EXCEPT ![e] = NoEdit]
    <2>1. ViewEdits = [d \in Editors |-> ViewEdits[d]] /\ ViewEdits' = [d \in Editors |-> ViewEdits'[d]]
      BY DEF ViewEdits
    <2> QED BY <1>6, <2>1
  <1>8. Formed(content, lastKey) /\ ParseContent(content) = blocks /\ Ended(content)
    BY <1>2, RemovedForms, RemovedEnds
  <1> DEFINE conf2 == ParseContent(text')
  <1>9. \/ UNCHANGED spliced /\ conf2 = blocks
        \/ spliced' = TRUE /\ conf2 \in Splices(blocks, ParseContent(text))
    <2>1. CASE text' = content /\ spliced' = spliced
      BY <1>8, <2>1
    <2>2. ASSUME spliced' = TRUE, NEW end \in Ends(text), text' = Front(content) \o end
          PROVE  spliced' = TRUE /\ conf2 \in Splices(blocks, ParseContent(text))
      <3>1. ParseContent(Front(content) \o end) \in Splices(ParseContent(content), ParseContent(text))
        <4> HIDE DEF content
        <4> QED BY <1>2, <1>8, SpliceParses DEF Formed
      <3> QED BY <1>8, <2>2, <3>1
    <2> QED BY <2>1, <2>2, WholeOrSpliced
  <1>10. blocks = View!WithoutPeer(ViewEdits[e].copy, ViewEdits[e].name)
    BY <1>3 DEF View!WithoutPeer, View!Named, WithoutPeer, Named
  <1>11. \A new, old : View!Splices(new, old) = Splices(new, old)
    BY DEF View!Splices, View!Overlaid, Splices, Overlaid
  <1> HIDE DEF blocks, conf2
  <1>12. \/ UNCHANGED spliced /\ conf2 = View!WithoutPeer(ViewEdits[e].copy, ViewEdits[e].name)
         \/ /\ spliced' = TRUE
            /\ conf2 \in View!Splices(View!WithoutPeer(ViewEdits[e].copy, ViewEdits[e].name),
                                      ParseContent(text))
    BY <1>9, <1>10, <1>11
  <1> QED BY <1>1, <1>3, <1>7, <1>12 DEF View!Write, ViewEdits, conf2

LEMMA ViewStep == SplicedOrFormed /\ [Next]_vars => [View!Next]_(View!vars)
  <1> SUFFICES ASSUME TextInv, [Next]_vars PROVE [View!Next]_(View!vars)
    BY StaysSpliced DEF SplicedOrFormed, View!Next, View!Spliced
  <1>1. CASE AppendToFile
    BY <1>1, ViewAppend DEF View!Next
  <1>2. ASSUME NEW e \in Editors, RemovePeer(e) PROVE View!Next
    <2>1. View!Read(e) \/ View!Truncate(e) \/ View!Write(e)
      BY <1>2, ViewRead, ViewTruncate, ViewWrite DEF RemovePeer
    <2> QED BY <2>1 DEF View!Next
  <1>3. CASE UNCHANGED vars
    <2>1. text' = text /\ edits' = edits /\ lastKey' = lastKey /\ spliced' = spliced
      BY <1>3 DEF vars
    <2> QED BY <2>1 DEF View!vars
  <1> QED BY <1>1, <1>2, <1>3 DEF Next

\* Seen through ParseContent, every edit of the text is the edit of a set of blocks
\* that PeerService takes it for: AppendPeer adds one block and leaves the others
\* alone, RemovePeer writes back the file it read without the blocks of its name,
\* however many of them overlap (wgconf.go, AppendPeer, RemovePeer, ParseContent).
THEOREM EditsAreOfBlocks == Spec => ImplementsConfFile
  <1>1. Init => SplicedOrFormed
    BY InitText DEF SplicedOrFormed
  <1>2. Init => View!Init
    BY ViewInit
  <1>3. SplicedOrFormed /\ [Next]_vars => [View!Next]_(View!vars)
    BY ViewStep
  <1> QED BY <1>1, <1>2, <1>3, StepText, PTL DEF Spec, ImplementsConfFile, View!Spec

-----------------------------------------------------------------------------
(* The lines of two texts that correspond one to one, in order, are the same. *)

LEMMA NthGrows ==
  ASSUME NEW S, IsFiniteSet(S), S \subseteq Nat, NEW i \in S, NEW j \in S, Nth(S, i) = Nth(S, j)
  PROVE  i = j
  <1>1. ASSUME NEW a \in S, NEW b \in S, a < b, Nth(S, a) = Nth(S, b) PROVE FALSE
    <2> DEFINE A == {x \in S : x <= a}
               B == {x \in S : x <= b}
    <2>1. IsFiniteSet(B)
      <3>1. B \in SUBSET S
        OBVIOUS
      <3> QED BY <3>1, FS_Subset
    <2>2. A \in SUBSET B
      <3>1. a \in Nat /\ b \in Nat /\ \A x \in S : x \in Nat
        OBVIOUS
      <3>2. \A x \in S : x <= a => x <= b
        BY <1>1, <3>1
      <3> QED BY <3>2
    <2>3. Cardinality(A) = Cardinality(B)
      BY <1>1 DEF Nth
    <2>4. b \in B /\ b \notin A
      BY <1>1
    <2>5. B = A
      <3> HIDE DEF A, B
      <3> QED BY <2>1, <2>2, <2>3, FS_Subset
    <2> QED BY <2>4, <2>5
  <1>2. i \in Nat /\ j \in Nat
    OBVIOUS
  <1>3. i < j \/ j < i \/ i = j
    BY <1>2
  <1> QED BY <1>1, <1>3

LEMMA Corresponding ==
  ASSUME NEW t, NEW u, NEW S, NEW T, IsFiniteSet(S), IsFiniteSet(T), S \subseteq Nat, T \subseteq Nat,
         NEW g \in [T -> S],
         \A x, y \in T : x < y => g[x] < g[y],
         \A i \in S : \E j \in T : g[j] = i,
         \A j \in T : u[j] = t[g[j]]
  PROVE  SameLines(t, S, u, T)
  <1>1. \A x, y \in T : g[x] = g[y] => x = y
    <2> TAKE x, y \in T
    <2>1. x \in Nat /\ y \in Nat /\ g[x] \in Nat /\ g[y] \in Nat
      OBVIOUS
    <2>2. x < y \/ y < x \/ x = y
      BY <2>1
    <2>3. x < y => g[x] < g[y]
      OBVIOUS
    <2>4. y < x => g[y] < g[x]
      OBVIOUS
    <2> QED BY <2>1, <2>2, <2>3, <2>4
  <1>2. Cardinality(S) = Cardinality(T)
    <2>1. g \in Bijection(T, S)
      BY <1>1 DEF Bijection, Injection, Surjection, IsInjective
    <2>2. ExistsBijection(T, S)
      BY <2>1 DEF ExistsBijection
    <2> QED BY <2>2, FS_Bijection
  <1>3. ASSUME NEW j \in T PROVE Nth(S, g[j]) = Nth(T, j)
    <2> DEFINE A == {x \in T : x <= j}
               B == {y \in S : y <= g[j]}
               h == [x \in A |-> g[x]]
    <2>1. \A x \in T : x <= j <=> g[x] <= g[j]
      <3> TAKE x \in T
      <3>1. x \in Nat /\ j \in Nat /\ g[x] \in Nat /\ g[j] \in Nat
        OBVIOUS
      <3>2. (x < j => g[x] < g[j]) /\ (j < x => g[j] < g[x])
        OBVIOUS
      <3>3. x = j => g[x] = g[j]
        OBVIOUS
      <3> QED BY <3>1, <3>2, <3>3
    <2>2. h \in [A -> B]
      BY <2>1
    <2>3. \A y \in B : \E x \in A : h[x] = y
      BY <2>1
    <2>4. \A x, y \in A : h[x] = h[y] => x = y
      BY <1>1
    <2>5. IsFiniteSet(A)
      <3>1. A \in SUBSET T
        OBVIOUS
      <3> QED BY <3>1, FS_Subset
    <2>6. Cardinality(B) = Cardinality(A)
      <3> HIDE DEF A, B, h
      <3>1. h \in Bijection(A, B)
        BY <2>2, <2>3, <2>4 DEF Bijection, Injection, Surjection, IsInjective
      <3>2. ExistsBijection(A, B)
        BY <3>1 DEF ExistsBijection
      <3> QED BY <2>5, <3>2, FS_Bijection
    <2> QED BY <2>6 DEF Nth
  <1>4. ASSUME NEW i \in S, NEW j \in T, Nth(S, i) = Nth(T, j) PROVE t[i] = u[j]
    <2>1. g[j] \in S /\ Nth(S, i) = Nth(S, g[j])
      BY <1>3, <1>4
    <2>2. i = g[j]
      BY <2>1, NthGrows
    <2> QED BY <2>2
  <1> QED BY <1>2, <1>4 DEF SameLines

LEMMA LinesFinite ==
  ASSUME NEW X, NEW t \in Seq(X), NEW S \in SUBSET DOMAIN t
  PROVE  IsFiniteSet(S) /\ S \subseteq Nat
  <1>1. DOMAIN t = 1 .. Len(t) /\ Len(t) \in Nat
    OBVIOUS
  <1>2. IsFiniteSet(1 .. Len(t))
    BY <1>1, FS_Interval
  <1> QED BY <1>1, <1>2, FS_Subset

\* The loop of RemovePeer drops a line of text exactly where the line is in a block
\* of the name.
LEMMA OwnerKept ==
  ASSUME NEW t \in Seq(Line), Whole(t), NEW n, NEW i \in 1 .. Len(t), t[i] # Blank
  PROVE  i \in Kept(t, n, Len(t)) <=> Owner(t, i) # Client(n)
  <1> DEFINE above == {m \in Markers(t) : m <= i /\ \A j \in m .. i : t[j] # Blank}
  <1>1. i \in Nat /\ Len(t) \in Nat
    OBVIOUS
  <1>2. \A m \in above, d \in above : m = d
    <2> TAKE m \in above, d \in above
    <2>1. m \in Markers(t) /\ d \in Markers(t) /\ m \in Nat /\ d \in Nat /\ m <= i /\ d <= i
      BY MarkersAre
    <2>2. i \in m .. (m + 3) /\ i \in d .. (d + 3)
      BY <1>1, <2>1, BlockEnds
    <2>3. (m < d => m + 4 < d) /\ (d < m => d + 4 < m)
      BY <2>1, MarkersApart
    <2> QED BY <1>1, <2>1, <2>2, <2>3
  <1>3. \A m \in above : m \in Nat /\ above = {m}
    BY <1>2, MarkersAre
  <1>4. \A m \in above : Owner(t, i) = t[m]
    <2> TAKE m \in above
    <2>1. Max(above) = m
      <3> HIDE DEF above
      <3>1. above \in SUBSET Nat /\ \A x \in above : x <= m
        BY <1>3
      <3> QED BY <3>1, MaxIs
    <2> QED BY <2>1 DEF Owner
  <1>5. above = {} => Owner(t, i) = Blank
    BY DEF Owner
  <1>6. ASSUME i \notin Kept(t, n, Len(t)) PROVE Owner(t, i) = Client(n)
    <2>1. t[i] = Client(n) \/ Running(t, n, i - 1)
      BY <1>6 DEF Kept
    <2>2. CASE t[i] = Client(n)
      <3>1. i \in above
        BY <1>1, <2>2, ClientLine
      <3> QED BY <1>4, <2>2, <3>1
    <2>3. CASE Running(t, n, i - 1)
      <3>1. PICK m \in 1 .. (i - 1) : t[m] = Client(n) /\ \A j \in m .. (i - 1) : t[j] # Blank
        BY <2>3 DEF Running
      <3>2. m \in 1 .. Len(t) /\ m <= i /\ m \in Nat
        BY <1>1, <3>1
      <3>3. \A j \in m .. i : t[j] # Blank
        <4>1. \A j \in m .. i : j = i \/ j \in m .. (i - 1)
          BY <1>1, <3>2
        <4> QED BY <3>1, <4>1
      <3>4. m \in above
        BY <3>1, <3>2, <3>3, ClientLine
      <3> QED BY <1>4, <3>1, <3>4
    <2> QED BY <2>1, <2>2, <2>3
  <1>7. ASSUME Owner(t, i) = Client(n), i \in Kept(t, n, Len(t)) PROVE FALSE
    <2>1. above # {}
      BY <1>5, <1>7, ClientIsNoBlank
    <2>2. PICK m \in above : TRUE
      BY <2>1
    <2>3. t[m] = Client(n) /\ m <= i /\ m \in Markers(t) /\ m \in Nat \ {0}
      BY <1>4, <1>7, <2>2, MarkersAre
    <2>4. i # m /\ ~Running(t, n, i - 1)
      BY <1>7, <2>3 DEF Kept
    <2>5. m \in 1 .. (i - 1)
      BY <1>1, <2>3, <2>4
    <2>6. \A j \in m .. (i - 1) : t[j] # Blank
      <3>1. \A j \in m .. (i - 1) : j \in m .. i
        BY <1>1, <2>3
      <3> QED BY <2>2, <3>1
    <2> QED BY <2>3, <2>4, <2>5, <2>6 DEF Running
  <1> QED BY <1>6, <1>7

LEMMA WriteTakesTheBlock ==
  ASSUME TextInv, NEW e \in Editors, WriteFile(e), ~spliced'
  PROVE  LET old == edits[e].copy
             others == {i \in DOMAIN old :
                          old[i] # Blank /\ Owner(old, i) # Client(edits[e].name)}
         IN SameLines(old, others, text', {i \in DOMAIN text' : text'[i] # Blank})
  <1> DEFINE t == edits[e].copy
             n == edits[e].name
             r == text'
             K == Kept(t, n, Len(t))
             S == {i \in DOMAIN t : t[i] # Blank /\ Owner(t, i) # Client(n)}
             T == {i \in DOMAIN r : r[i] # Blank}
  <1>1. edits[e] # NoEdit /\ r = Removed(t, n)
    BY WholeOrSpliced DEF WriteFile
  <1>2. t \in Seq(Line) /\ Whole(t)
    BY <1>1 DEF TextInv, Formed, Laid
  <1>3. r \in Seq(Line)
    BY <1>1, <1>2, RemovedCuts
  <1>4. PICK p, f : Cuts(p, f, r, t, K)
    <2> HIDE DEF r, t, n
    <2> QED BY <1>1, <1>2, RemovedCuts
  <1> HIDE DEF t, n, r
  <1>5. DOMAIN t = 1 .. Len(t) /\ DOMAIN r = 1 .. Len(r) /\ Len(r) \in Nat /\ Len(t) \in Nat
    BY <1>2, <1>3
  <1>6. IsFiniteSet(S) /\ S \subseteq Nat /\ IsFiniteSet(T) /\ T \subseteq Nat
    <2>1. S \in SUBSET DOMAIN t /\ T \in SUBSET DOMAIN r
      OBVIOUS
    <2> HIDE DEF S, T
    <2> QED BY <1>2, <1>3, <2>1, LinesFinite
  <1>7. \A i \in 1 .. Len(t) : t[i] # Blank => (i \in K <=> Owner(t, i) # Client(n))
    BY <1>2, OwnerKept
  <1>8. K \subseteq 1 .. Len(t)
    BY DEF Kept
  <1>9. p \in Nat /\ p < Len(r) /\ f \in [1 .. p -> K]
    BY <1>4 DEF Cuts
  <1>10. \A x, y \in 1 .. p : x < y => f[x] < f[y]
    BY <1>4 DEF Cuts
  <1>11. \A x \in 1 .. p : r[x] = t[f[x]]
    BY <1>4 DEF Cuts
  <1>12. \A x \in 1 .. Len(r) : x > p => r[x] = Blank
    BY <1>4 DEF Cuts
  <1>13. \A k \in K : t[k] # Blank => \E x \in 1 .. p : f[x] = k
    BY <1>4 DEF Cuts
  <1> HIDE DEF K
  <1>14. \A x \in T : x \in 1 .. p /\ f[x] \in S
    <2> TAKE x \in T
    <2>1. x \in 1 .. Len(r) /\ r[x] # Blank
      BY <1>5
    <2>2. x \in 1 .. p
      BY <1>5, <1>9, <1>12, <2>1
    <2>3. f[x] \in K /\ t[f[x]] # Blank
      BY <1>9, <1>11, <2>1, <2>2
    <2> QED BY <1>5, <1>7, <1>8, <2>2, <2>3
  <1>15. \A i \in S : \E x \in T : f[x] = i
    <2> TAKE i \in S
    <2>1. i \in K /\ t[i] # Blank
      BY <1>5, <1>7
    <2>2. PICK x \in 1 .. p : f[x] = i
      BY <1>13, <2>1
    <2>3. r[x] # Blank /\ x \in 1 .. Len(r)
      BY <1>5, <1>9, <1>11, <2>1, <2>2
    <2> QED BY <1>5, <2>2, <2>3
  <1> DEFINE g == [x \in T |-> f[x]]
  <1>16. SameLines(t, S, r, T)
    <2>1. g \in [T -> S]
      BY <1>14
    <2>2. \A x, y \in T : x < y => g[x] < g[y]
      <3> HIDE DEF T
      <3> QED BY <1>10, <1>14
    <2>3. \A i \in S : \E j \in T : g[j] = i
      <3> HIDE DEF T, S
      <3> QED BY <1>15
    <2>4. \A j \in T : r[j] = t[g[j]]
      <3> HIDE DEF T
      <3> QED BY <1>11, <1>14
    <2> HIDE DEF g, S, T
    <2> QED BY <1>6, <2>1, <2>2, <2>3, <2>4, Corresponding
  <1> QED BY <1>16 DEF t, n, r

\* A removal takes the lines of the blocks of its name and leaves every other line of
\* the text it read, an administrator's comments included, in its place among them
\* (wgconf.go, RemovePeer).
THEOREM RemovalTakesOnlyTheBlock == Spec => OnlyTheBlock
  <1>1. Init => SplicedOrFormed
    BY InitText DEF SplicedOrFormed
  <1>2. SplicedOrFormed /\ [Next]_vars =>
          [\A e \in Editors : WriteFile(e) /\ ~spliced' =>
             LET old == edits[e].copy
                 others == {i \in DOMAIN old :
                              old[i] # Blank /\ Owner(old, i) # Client(edits[e].name)}
             IN SameLines(old, others, text', {i \in DOMAIN text' : text'[i] # Blank})]_vars
    BY WriteTakesTheBlock, StaysSpliced DEF SplicedOrFormed
  <1> QED BY <1>1, <1>2, StepText, PTL DEF Spec, OnlyTheBlock

-----------------------------------------------------------------------------
(* The configuration of a client.                                            *)

Fits(j) ==
  /\ j.jc \in 2 .. 7
  /\ 8 <= j.jmin /\ j.jmin < j.jmax /\ j.jmax <= 128

LEMMA GeneratedFits == \A d \in Draws : Fits(GenerateJunkParams(d))
  <1> TAKE d \in Draws
  <1>1. d.jc \in 2 .. 7 /\ d.jmin \in 8 .. 48 /\ d.delta \in 16 .. 96
    BY DrawsAssumption
  <1> QED BY <1>1, SMT DEF Fits, GenerateJunkParams

LEMMA StepFits == JunkFits /\ [ClientNext]_clientVars => JunkFits'
  <1> SUFFICES ASSUME JunkFits, [ClientNext]_clientVars PROVE JunkFits'
    OBVIOUS
  <1>1. CASE Complete
    BY <1>1, GeneratedFits DEF Complete, JunkFits, Fits
  <1>2. CASE Download \/ Refuse \/ UNCHANGED clientVars
    BY <1>2 DEF Download, Refuse, JunkFits, clientVars
  <1> QED BY <1>1, <1>2 DEF ClientNext

\* Whatever the random numbers, the parameters in any configuration the program
\* hands out are ones the client accepts (junk.go, GenerateJunkParams).
THEOREM JunkAlwaysFits == ClientSpec => []JunkFits
  <1>1. ClientInit => JunkFits
    BY GeneratedFits DEF ClientInit, JunkFits, Fits
  <1> QED BY <1>1, StepFits, PTL DEF ClientSpec

\* The two halves of HandedComplete, for any text.
Marked(t) ==
  \E i \in DOMAIN t :
    /\ {k \in DOMAIN t : t[k][1] = "Jc"} = {i}
    /\ \E h \in 1 .. i : t[h] = CIface /\ \A k \in h .. i : t[k] # CPeer

Content(t) == {i \in DOMAIN t : t[i][1] # "Jc" /\ t[i] # CBlank}

\* Where injectJunkParams puts the parameters.
LEMMA FirstPeer ==
  ASSUME NEW X, NEW t \in Seq(X), PeerBelowInterface(t) # {}
  PROVE  LET p == Min(PeerBelowInterface(t))
         IN  /\ p \in 1 .. Len(t) /\ t[p] = CPeer
             /\ \E h \in 1 .. p : t[h] = CIface /\ h < p
                                  /\ \A k \in h .. (p - 1) : t[k] # CPeer
  <1> DEFINE P == PeerBelowInterface(t)
             p == Min(P)
  <1>1. DOMAIN t = 1 .. Len(t) /\ Len(t) \in Nat
    OBVIOUS
  <1>2. P \in SUBSET Nat /\ P # {}
    BY <1>1 DEF PeerBelowInterface
  <1>3. p \in P /\ \A y \in P : p <= y
    <2> HIDE DEF P
    <2>1. \E x \in P : \A y \in P : x <= y
      BY <1>2, Smallest
    <2> QED BY <2>1 DEF Min
  <1> HIDE DEF p
  <1>4. p \in 1 .. Len(t) /\ t[p] = CPeer
    BY <1>1, <1>3 DEF PeerBelowInterface
  <1>5. PICK h \in 1 .. p : t[h] = CIface
    BY <1>3 DEF PeerBelowInterface
  <1>6. h # p
    BY <1>4, <1>5 DEF CIface, CPeer
  <1>7. ASSUME NEW k \in h .. (p - 1), t[k] = CPeer PROVE FALSE
    <2>1. k \in DOMAIN t /\ h \in 1 .. k /\ k < p
      BY <1>1, <1>4, <1>5
    <2>2. k \in P
      BY <1>5, <1>7, <2>1 DEF PeerBelowInterface
    <2> QED BY <1>2, <1>3, <2>1, <2>2
  <1>8. h < p
    BY <1>1, <1>4, <1>5, <1>6
  <1> QED BY <1>4, <1>5, <1>7, <1>8 DEF p

LEMMA Joined ==
  ASSUME NEW Y, NEW a \in Seq(Y), NEW c \in Seq(Y)
  PROVE  /\ a \o c \in Seq(Y) /\ Len(a \o c) = Len(a) + Len(c)
         /\ Len(a) \in Nat /\ Len(c) \in Nat
         /\ \A x \in 1 .. Len(a) : (a \o c)[x] = a[x]
         /\ \A x \in 1 .. Len(c) : (a \o c)[Len(a) + x] = c[x]
  OBVIOUS

\* The lines of what it returns: two new ones at p, and the empty lines at the end
\* made one.
LEMMA InjectedLines ==
  ASSUME NEW X, NEW t \in Seq(X), PeerBelowInterface(t) # {}, NEW j
  PROVE  LET p == Min(PeerBelowInterface(t))
             u == Injected(t, j)
         IN  \E Y : \E q \in Nat :
               /\ u \in Seq(Y) /\ Len(u) = q + 1 /\ p + 2 <= q /\ q <= Len(t) + 2
               /\ \A x \in 1 .. (p - 1) : u[x] = t[x]
               /\ u[p] = Junk(j) /\ u[p + 1] = CBlank /\ u[q + 1] = CBlank
               /\ \A x \in (p + 2) .. q : u[x] = t[x - 2]
               /\ \A x \in 1 .. Len(t) : q < x + 2 => t[x] = CBlank
  <1> DEFINE p == Min(PeerBelowInterface(t))
             L == Len(t)
             Y == X \cup {Junk(j), CBlank}
             a == SubSeq(t, 1, p - 1)
             m == <<Junk(j), CBlank>>
             c == SubSeq(t, p, L)
             s == a \o m \o c
             Q == {i \in DOMAIN s : s[i] # CBlank}
             q == Max(Q)
             u == SubSeq(s, 1, q) \o <<CBlank>>
  <1>1. p \in 1 .. L /\ t[p] = CPeer /\ L \in Nat
    BY FirstPeer
  <1>2. u = Injected(t, j)
    BY DEF Injected, OneNewline
  <1> HIDE DEF p
  <1>3. t \in Seq(Y)
    <2>1. DOMAIN t = 1 .. L /\ t \in [1 .. L -> X]
      OBVIOUS
    <2>2. t \in [1 .. L -> Y]
      BY <2>1
    <2> HIDE DEF Y
    <2> QED BY <1>1, <2>2
  <1>4. Junk(j) \in Y /\ CBlank \in Y
    OBVIOUS
  <1> HIDE DEF Y
  <1>5. a \in Seq(Y) /\ Len(a) = p - 1 /\ \A x \in 1 .. (p - 1) : a[x] = t[x]
    BY <1>1, <1>3
  <1>6. c \in Seq(Y) /\ Len(c) = L - p + 1 /\ \A x \in 1 .. (L - p + 1) : c[x] = t[p + x - 1]
    BY <1>1, <1>3
  <1>7. m \in Seq(Y) /\ Len(m) = 2 /\ m[1] = Junk(j) /\ m[2] = CBlank
    BY <1>4
  <1> HIDE DEF a, m, c
  <1> DEFINE b == a \o m
  <1>8. /\ b \in Seq(Y) /\ Len(b) = p + 1
        /\ \A x \in 1 .. (p - 1) : b[x] = t[x]
        /\ b[p] = Junk(j) /\ b[p + 1] = CBlank
    <2>1. /\ b \in Seq(Y) /\ Len(b) = (p - 1) + 2
          /\ \A x \in 1 .. (p - 1) : b[x] = a[x]
          /\ \A x \in 1 .. 2 : b[(p - 1) + x] = m[x]
      <3>1. a \in Seq(Y) /\ m \in Seq(Y)
        BY <1>5, <1>7
      <3>2. /\ b \in Seq(Y) /\ Len(b) = Len(a) + Len(m)
            /\ \A x \in 1 .. Len(a) : b[x] = a[x]
            /\ \A x \in 1 .. Len(m) : b[Len(a) + x] = m[x]
        BY <3>1, Joined
      <3> HIDE DEF b
      <3> QED BY <1>5, <1>7, <3>2
    <2> HIDE DEF b
    <2>3. b[(p - 1) + 1] = m[1] /\ b[(p - 1) + 2] = m[2]
      BY <2>1
    <2>4. (p - 1) + 1 = p /\ (p - 1) + 2 = p + 1
      BY <1>1
    <2> QED BY <1>1, <1>5, <1>7, <2>1, <2>3, <2>4
  <1>9. s = b \o c
    OBVIOUS
  <1> HIDE DEF b, s
  <1>10. /\ s \in Seq(Y) /\ Len(s) = L + 2
         /\ \A x \in 1 .. (p + 1) : s[x] = b[x]
         /\ \A x \in (p + 2) .. (L + 2) : s[x] = t[x - 2]
    <2>1. /\ s \in Seq(Y) /\ Len(s) = (p + 1) + (L - p + 1)
          /\ \A x \in 1 .. (p + 1) : s[x] = b[x]
          /\ \A y \in 1 .. (L - p + 1) : s[(p + 1) + y] = c[y]
      BY <1>6, <1>8, <1>9, Joined
    <2> HIDE DEF s
    <2>2. Len(s) = L + 2
      BY <1>1, <2>1
    <2>4. ASSUME NEW x \in (p + 2) .. (L + 2) PROVE s[x] = t[x - 2]
      <3>1. x - (p + 1) \in 1 .. (L - p + 1) /\ (p + 1) + (x - (p + 1)) = x
            /\ p + (x - (p + 1)) - 1 = x - 2
        BY <1>1
      <3> QED BY <1>6, <2>1, <3>1
    <2> QED BY <2>1, <2>2, <2>4
  <1>11. /\ q \in Q /\ \A y \in Q : q >= y
         /\ p + 2 \in Q
    <2>1. DOMAIN s = 1 .. (L + 2)
      BY <1>10
    <2>2. p + 2 \in Q
      <3>1. p + 2 \in 1 .. (L + 2) /\ p + 2 \in (p + 2) .. (L + 2) /\ (p + 2) - 2 = p
        BY <1>1
      <3>2. s[p + 2] = CPeer
        BY <1>1, <1>10, <3>1
      <3> QED BY <2>1, <3>1, <3>2 DEF CPeer, CBlank
    <2>3. Q \subseteq 1 .. (L + 2)
      BY <2>1
    <2> HIDE DEF Q
    <2>4. Q \in SUBSET (0 .. (L + 2)) /\ Q # {} /\ L + 2 \in Nat
      BY <1>1, <2>2, <2>3
    <2>5. Max(Q) \in Q /\ \A y \in Q : y <= Max(Q)
      BY <1>1, <2>4, MaxIn
    <2> QED BY <2>2, <2>4, <2>5
  <1> HIDE DEF q
  <1>12. q \in Nat /\ p + 2 <= q /\ q <= L + 2 /\ q \in 1 .. (L + 2)
    <2>1. q \in 1 .. (L + 2)
      BY <1>10, <1>11
    <2> QED BY <1>1, <1>11, <2>1
  <1>13. \A x \in 1 .. (L + 2) : q < x => s[x] = CBlank
    <2> TAKE x \in 1 .. (L + 2)
    <2> HAVE q < x
    <2>1. x \notin Q
      BY <1>1, <1>11, <1>12
    <2> QED BY <1>10, <2>1
  <1>14. /\ u \in Seq(Y) /\ Len(u) = q + 1 /\ u[q + 1] = CBlank
         /\ \A x \in 1 .. q : u[x] = s[x]
    <2> DEFINE v == SubSeq(s, 1, q)
    <2>1. v \in Seq(Y) /\ Len(v) = q /\ \A x \in 1 .. q : v[x] = s[x]
      BY <1>1, <1>10, <1>12
    <2>2. u = v \o <<CBlank>>
      OBVIOUS
    <2> HIDE DEF v, u
    <2> QED BY <1>4, <1>12, <2>1, <2>2
  <1> HIDE DEF u
  <1>15. \A x \in 1 .. (p + 1) : u[x] = b[x]
    BY <1>1, <1>10, <1>12, <1>14
  <1>16. \A x \in 1 .. (p - 1) : u[x] = t[x]
    BY <1>1, <1>8, <1>15
  <1>17. u[p] = Junk(j) /\ u[p + 1] = CBlank
    BY <1>1, <1>8, <1>15
  <1>18. \A x \in (p + 2) .. q : u[x] = t[x - 2]
    BY <1>1, <1>10, <1>12, <1>14
  <1>19. \A x \in 1 .. L : q < x + 2 => t[x] = CBlank
    <2> TAKE x \in 1 .. L
    <2> HAVE q < x + 2
    <2>1. x + 2 \in (p + 2) .. (L + 2) /\ x + 2 \in 1 .. (L + 2) /\ (x + 2) - 2 = x
      BY <1>1, <1>12
    <2> QED BY <1>10, <1>13, <2>1
  <1> QED BY <1>2, <1>12, <1>14, <1>16, <1>17, <1>18, <1>19 DEF p

\* Of the lines it returns, those that are not of the parameters are those of the
\* text, in their order; and the parameters are there once, in the section.
LEMMA InjectedFits ==
  ASSUME NEW X, NEW t \in Seq(X), PeerBelowInterface(t) # {}, ~HasJunkParams(t), NEW j
  PROVE  /\ Marked(Injected(t, j))
         /\ SameLines(Injected(t, j), Content(Injected(t, j)), t, Content(t))
  <1> DEFINE p == Min(PeerBelowInterface(t))
             u == Injected(t, j)
             L == Len(t)
  <1>1. p \in 1 .. L /\ t[p] = CPeer /\ L \in Nat /\ DOMAIN t = 1 .. L
    BY FirstPeer
  <1>2. PICK h \in 1 .. p : t[h] = CIface /\ h < p /\ \A k \in h .. (p - 1) : t[k] # CPeer
    BY FirstPeer
  <1>3. PICK Y : \E q \in Nat :
               /\ u \in Seq(Y) /\ Len(u) = q + 1 /\ p + 2 <= q /\ q <= Len(t) + 2
               /\ \A x \in 1 .. (p - 1) : u[x] = t[x]
               /\ u[p] = Junk(j) /\ u[p + 1] = CBlank /\ u[q + 1] = CBlank
               /\ \A x \in (p + 2) .. q : u[x] = t[x - 2]
               /\ \A x \in 1 .. Len(t) : q < x + 2 => t[x] = CBlank
    BY InjectedLines
  <1>4. PICK q \in Nat :
               /\ u \in Seq(Y) /\ Len(u) = q + 1 /\ p + 2 <= q /\ q <= Len(t) + 2
               /\ \A x \in 1 .. (p - 1) : u[x] = t[x]
               /\ u[p] = Junk(j) /\ u[p + 1] = CBlank /\ u[q + 1] = CBlank
               /\ \A x \in (p + 2) .. q : u[x] = t[x - 2]
               /\ \A x \in 1 .. Len(t) : q < x + 2 => t[x] = CBlank
    BY <1>3
  <1> HIDE DEF p, u
  <1>5. DOMAIN u = 1 .. (q + 1)
    BY <1>4
  <1>6. \A x \in 1 .. L : t[x][1] # "Jc"
    BY <1>1 DEF HasJunkParams
  <1>7. Junk(j)[1] = "Jc" /\ CBlank[1] # "Jc" /\ Junk(j) # CPeer /\ Junk(j) # CBlank
    BY DEF Junk, CBlank, CPeer
  <1>8. \A x \in 1 .. (q + 1) : x < p \/ x = p \/ x = p + 1 \/ x \in (p + 2) .. q \/ x = q + 1
    BY <1>1, <1>4
  <1>9. \A x \in (p + 2) .. q : x - 2 \in 1 .. L /\ x - 2 >= p /\ (x - 2) + 2 = x
    BY <1>1, <1>4
  <1>10. \A x \in 1 .. (q + 1) : x < p => x \in 1 .. (p - 1) /\ x \in 1 .. L
    BY <1>1
  <1>11. \A x \in 1 .. (q + 1) : u[x][1] = "Jc" <=> x = p
    <2> TAKE x \in 1 .. (q + 1)
    <2>1. CASE x < p
      <3>1. u[x] = t[x] /\ t[x][1] # "Jc"
        BY <1>4, <1>6, <1>10, <2>1
      <3> QED BY <1>1, <2>1, <3>1
    <2>2. CASE x = p
      BY <1>4, <1>7, <2>2
    <2>3. CASE x = p + 1
      <3>1. x # p
        BY <1>1, <2>3
      <3> QED BY <1>4, <1>7, <2>3, <3>1
    <2>4. CASE x \in (p + 2) .. q
      <3>1. u[x] = t[x - 2] /\ t[x - 2][1] # "Jc"
        BY <1>4, <1>6, <1>9, <2>4
      <3>2. x # p
        BY <1>1, <2>4
      <3> QED BY <3>1, <3>2
    <2>5. CASE x = q + 1
      <3>1. x # p
        BY <1>1, <1>4, <2>5
      <3> QED BY <1>4, <1>7, <2>5, <3>1
    <2> QED BY <1>8, <2>1, <2>2, <2>3, <2>4, <2>5
  <1>12. p \in 1 .. (q + 1)
    BY <1>1, <1>4
  <1>13. Marked(u)
    <2>1. {k \in DOMAIN u : u[k][1] = "Jc"} = {p}
      BY <1>5, <1>11, <1>12
    <2>2. h \in 1 .. (p - 1) /\ h \in Nat
      BY <1>1, <1>2
    <2>3. u[h] = CIface
      BY <1>2, <1>4, <2>2
    <2>4. \A k \in h .. p : u[k] # CPeer
      <3> TAKE k \in h .. p
      <3>1. CASE k = p
        BY <1>4, <1>7, <3>1
      <3>2. CASE k # p
        <4>1. k \in h .. (p - 1) /\ k \in 1 .. (p - 1)
          BY <1>1, <2>2, <3>2
        <4> QED BY <1>2, <1>4, <4>1
      <3> QED BY <3>1, <3>2
    <2> QED BY <1>2, <1>5, <1>12, <2>1, <2>3, <2>4 DEF Marked
  <1> DEFINE S == Content(u)
             T == Content(t)
             g == [y \in T |-> IF y < p THEN y ELSE y + 2]
  <1>14. \A x : x \in S <=> x \in 1 .. (q + 1) /\ x # p /\ u[x] # CBlank
    BY <1>5, <1>11 DEF Content
  <1>15. \A y : y \in T <=> y \in 1 .. L /\ t[y] # CBlank
    BY <1>1, <1>6 DEF Content
  <1>16. \A y \in T : y < p => y \in S /\ u[y] = t[y]
    <2> TAKE y \in T
    <2> HAVE y < p
    <2>1. y \in 1 .. L /\ t[y] # CBlank
      BY <1>15
    <2>2. y \in 1 .. (q + 1) /\ y # p /\ y \in 1 .. (p - 1)
      BY <1>1, <1>4, <2>1
    <2> QED BY <1>4, <1>14, <2>1, <2>2
  <1>17. \A y \in T : ~ (y < p) => y + 2 \in S /\ u[y + 2] = t[y]
    <2> TAKE y \in T
    <2> HAVE ~ (y < p)
    <2>1. y \in 1 .. L /\ t[y] # CBlank
      BY <1>15
    <2>2. ~ (q < y + 2)
      BY <1>4, <2>1
    <2>3. y + 2 \in (p + 2) .. q /\ (y + 2) - 2 = y /\ y + 2 \in 1 .. (q + 1) /\ y + 2 # p
      BY <1>1, <2>1, <2>2
    <2>4. u[y + 2] = t[y]
      BY <1>4, <2>3
    <2> QED BY <1>14, <2>1, <2>3, <2>4
  <1>18. \A x \in S : \E y \in T : (IF y < p THEN y ELSE y + 2) = x
    <2> TAKE x \in S
    <2>1. x \in 1 .. (q + 1) /\ x # p /\ u[x] # CBlank
      BY <1>14
    <2>2. x # p + 1 /\ x # q + 1
      BY <1>4, <2>1
    <2>3. CASE x < p
      <3>1. x \in 1 .. L /\ u[x] = t[x]
        BY <1>4, <1>10, <2>1, <2>3
      <3>2. x \in T
        BY <1>15, <2>1, <3>1
      <3> QED BY <2>3, <3>2
    <2>4. CASE ~ (x < p)
      <3>1. x \in (p + 2) .. q
        BY <1>8, <2>1, <2>2, <2>4
      <3>2. x - 2 \in 1 .. L /\ x - 2 >= p /\ (x - 2) + 2 = x /\ u[x] = t[x - 2]
        BY <1>4, <1>9, <3>1
      <3>3. x - 2 \in T
        BY <1>15, <2>1, <3>2
      <3>4. ~ (x - 2 < p)
        BY <1>1, <3>2
      <3> QED BY <3>2, <3>3, <3>4
    <2> QED BY <2>3, <2>4
  <1>19. IsFiniteSet(S) /\ S \subseteq Nat /\ IsFiniteSet(T) /\ T \subseteq Nat
    <2>1. S \in SUBSET DOMAIN u /\ T \in SUBSET DOMAIN t
      BY DEF Content
    <2>2. u \in Seq(Y)
      BY <1>4
    <2> HIDE DEF S, T
    <2> QED BY <2>1, <2>2, LinesFinite
  <1> HIDE DEF S, T
  <1>20. g \in [T -> S]
    BY <1>16, <1>17
  <1>21. \A x, y \in T : x < y => g[x] < g[y]
    <2> TAKE x, y \in T
    <2>1. x \in Nat /\ y \in Nat /\ p \in Nat
      BY <1>1, <1>19
    <2>2. g[x] = (IF x < p THEN x ELSE x + 2) /\ g[y] = (IF y < p THEN y ELSE y + 2)
      OBVIOUS
    <2> HIDE DEF g
    <2> QED BY <2>1, <2>2
  <1>22. \A i \in S : \E y \in T : g[y] = i
    BY <1>18
  <1>23. \A y \in T : t[y] = u[g[y]]
    BY <1>16, <1>17
  <1>24. SameLines(u, S, t, T)
    <2> HIDE DEF g
    <2> QED BY <1>19, <1>20, <1>21, <1>22, <1>23, Corresponding
  <1> QED BY <1>13, <1>24 DEF u, S, T

\* A text has the lines it has.
LEMMA SameAsItself ==
  ASSUME NEW X, NEW t \in Seq(X)
  PROVE  SameLines(t, Content(t), t, Content(t))
  <1> DEFINE S == Content(t)
             g == [x \in S |-> x]
  <1>1. IsFiniteSet(S) /\ S \subseteq Nat
    <2>1. S \in SUBSET DOMAIN t
      BY DEF Content
    <2> HIDE DEF S
    <2> QED BY <2>1, LinesFinite
  <1> HIDE DEF S
  <1>2. g \in [S -> S] /\ \A x \in S : g[x] = x
    OBVIOUS
  <1> HIDE DEF g
  <1>3. SameLines(t, S, t, S)
    BY <1>1, <1>2, Corresponding
  <1> QED BY <1>3 DEF S

Fit(t) == Marked(t) /\ SameLines(t, Content(t), original, Content(original))

\* Until the parameters are in it the configuration is the one it was at first.
ClientInv ==
  /\ \E X : original \in Seq(X)
  /\ (~HasJunkParams(stored) /\ stored = original) \/ Fit(stored)
  /\ handed # Nothing => Fit(handed)

LEMMA FitHasJunk ==
  ASSUME NEW t, Fit(t)
  PROVE  HasJunkParams(t)
  BY DEF Fit, Marked, HasJunkParams

LEMMA BuiltFits ==
  ASSUME NEW j
  PROVE  LET t == BuildClientConfig(j)
         IN  Marked(t) /\ \E X : t \in Seq(X)
  <1> DEFINE t == BuildClientConfig(j)
             X == {CIface, Setting, Junk(j), CBlank, CPeer}
  <1>1. t \in Seq(X) /\ DOMAIN t = 1 .. 7
    BY DEF BuildClientConfig
  <1>2. /\ t[1] = CIface /\ t[2] = Setting /\ t[3] = Junk(j) /\ t[4] = CBlank
        /\ t[5] = CPeer /\ t[6] = Setting /\ t[7] = CBlank
    BY DEF BuildClientConfig
  <1> HIDE DEF t
  <1>3. \A k \in 1 .. 7 : t[k][1] = "Jc" <=> k = 3
    <2> TAKE k \in 1 .. 7
    <2>1. k = 1 \/ k = 2 \/ k = 3 \/ k = 4 \/ k = 5 \/ k = 6 \/ k = 7
      OBVIOUS
    <2> QED BY <1>2, <2>1 DEF CIface, Setting, Junk, CBlank, CPeer
  <1>4. {k \in DOMAIN t : t[k][1] = "Jc"} = {3}
    BY <1>1, <1>3
  <1>5. \A k \in 1 .. 3 : t[k] # CPeer
    <2> TAKE k \in 1 .. 3
    <2>1. k = 1 \/ k = 2 \/ k = 3
      OBVIOUS
    <2> QED BY <1>2, <2>1 DEF CIface, Setting, Junk, CPeer
  <1>6. Marked(t)
    <2>1. 1 \in 1 .. 3 /\ 3 \in DOMAIN t
      BY <1>1
    <2> QED BY <1>2, <1>4, <1>5, <2>1 DEF Marked
  <1> QED BY <1>1, <1>6 DEF t

LEMMA ForeignIsPlain ==
  ASSUME NEW t \in Foreign
  PROVE  ~HasJunkParams(t) /\ \E X : t \in Seq(X)
  <1> DEFINE X == {CIface, CPeer, Setting, CBlank}
  <1>1. PICK s \in SeqOf(X, MaxForeign) : t = Append(s, CBlank)
    BY DEF Foreign
  <1>2. PICK m \in 0 .. MaxForeign : s \in [1 .. m -> X]
    BY <1>1 DEF SeqOf
  <1>3. m \in Nat
    BY MaxForeignAssumption
  <1>4. \A x \in X : x[1] # "Jc"
    BY DEF CIface, CPeer, Setting, CBlank
  <1>5. CBlank \in X
    OBVIOUS
  <1> HIDE DEF X
  <1>6. s \in Seq(X)
    BY <1>2, <1>3
  <1>7. t \in Seq(X)
    BY <1>1, <1>5, <1>6
  <1>8. \A i \in DOMAIN t : t[i] \in X
    BY <1>7
  <1> QED BY <1>4, <1>7, <1>8 DEF HasJunkParams

LEMMA ClientStart == ClientInit => ClientInv
  <1> SUFFICES ASSUME ClientInit PROVE ClientInv
    OBVIOUS
  <1>1. original = stored /\ handed = Nothing
    BY DEF ClientInit
  <1>2. CASE stored = BuildClientConfig(junk)
    <2>1. Marked(stored) /\ \E X : stored \in Seq(X)
      BY <1>2, BuiltFits
    <2>2. SameLines(stored, Content(stored), stored, Content(stored))
      BY <2>1, SameAsItself
    <2> QED BY <1>1, <2>1, <2>2 DEF ClientInv, Fit
  <1>3. CASE stored \in Foreign
    BY <1>1, <1>3, ForeignIsPlain DEF ClientInv
  <1> QED BY <1>2, <1>3 DEF ClientInit

LEMMA ClientSteps == ClientInv /\ [ClientNext]_clientVars => ClientInv'
  <1> SUFFICES ASSUME ClientInv, [ClientNext]_clientVars PROVE ClientInv'
    OBVIOUS
  <1>1. CASE Download
    <2>1. Fit(stored)
      BY <1>1 DEF Download, ClientInv
    <2>2. handed' = stored /\ stored' = stored /\ original' = original
      BY <1>1 DEF Download
    <2>3. Fit(stored') /\ Fit(handed')
      BY <2>1, <2>2
    <2> QED BY <2>2, <2>3 DEF ClientInv, Fit
  <1>2. CASE Complete
    <2>1. ~HasJunkParams(stored) /\ PeerBelowInterface(stored) # {} /\ original' = original
          /\ handed' = Injected(stored, junk') /\ (stored' = stored \/ stored' = handed')
      BY <1>2 DEF Complete
    <2>2. stored = original
      BY <2>1, FitHasJunk DEF ClientInv
    <2>3. PICK X : original \in Seq(X)
      BY DEF ClientInv
    <2>4. Fit(handed')
      <3>1. stored \in Seq(X)
        BY <2>2, <2>3
      <3>2. Marked(handed') /\ SameLines(handed', Content(handed'), stored, Content(stored))
        BY <2>1, <3>1, InjectedFits
      <3> QED BY <2>2, <3>2 DEF Fit
    <2> QED BY <2>1, <2>2, <2>3, <2>4 DEF ClientInv, Fit
  <1>3. CASE Refuse \/ UNCHANGED clientVars
    <2>1. stored' = stored /\ original' = original /\ (handed' = Nothing \/ handed' = handed)
      BY <1>3 DEF Refuse, clientVars
    <2> QED BY <2>1 DEF ClientInv, Fit
  <1> QED BY <1>1, <1>2, <1>3 DEF ClientNext

\* Every configuration a client is given, whatever the program built or another tool
\* left and however often the download was repeated or its result not stored, has its
\* own lines in their order and the parameters once, in the [Interface] section
\* (junk.go, EnsureJunkParams and injectJunkParams).
THEOREM HandedAlwaysComplete == ClientSpec => []HandedComplete
  <1>1. ClientInv => HandedComplete
    BY DEF ClientInv, Fit, Marked, Content, HandedComplete
  <1> QED BY <1>1, ClientStart, ClientSteps, PTL DEF ClientSpec
=============================================================================
