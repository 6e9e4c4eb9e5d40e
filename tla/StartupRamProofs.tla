-------------------------- MODULE StartupRamProofs --------------------------
(***************************************************************************)
(* Theorems about the RAM lists of startup.                                *)
(***************************************************************************)
EXTENDS StartupRam, NaturalsInduction, WellFoundedInduction, TLAPS

-----------------------------------------------------------------------------
(* Induction and folds.                                                    *)

(* Every set of naturals has a least element, which Min yields.            *)
LEMMA MinExists ==
  ASSUME NEW t \in SUBSET Nat, t # {}
  PROVE  Min(t) \in t /\ \A y \in t : Min(t) <= y
<1> DEFINE R == OpToRel(<, Nat)
<1>1. IsWellFoundedOn(R, Nat)
  BY NatLessThanWellFounded
<1>2. PICK x \in t : \A y \in t : ~ (<<y, x>> \in R)
  <2> HIDE DEF R
  <2> QED BY <1>1, WFMin
<1>3. ASSUME NEW y \in t PROVE x <= y
  <2>1. y < x => <<y, x>> \in R
    BY DEF OpToRel
  <2>2. x \in Nat /\ y \in Nat /\ ~ (y < x)
    <3> HIDE DEF R
    <3> QED BY <1>2, <2>1
  <2> QED BY <2>2
<1> QED BY <1>3 DEF Min

(* Induction over the naturals, on a set in place of a predicate.          *)
LEMMA NatSet ==
  ASSUME NEW T, 0 \in T, \A n \in Nat : n \in T => n + 1 \in T
  PROVE  Nat \subseteq T
<1> DEFINE B == {n \in Nat : n \notin T}
<1> SUFFICES ASSUME B # {} PROVE FALSE
  OBVIOUS
<1>1. PICK x \in B : \A y \in B : x <= y
  <2>1. B \in SUBSET Nat
    OBVIOUS
  <2> HIDE DEF B
  <2> QED BY <2>1, MinExists
<1>2. x # 0 /\ x - 1 \in Nat
  OBVIOUS
<1>3. x - 1 \notin T
  BY <1>2
<1> QED BY <1>1, <1>2, <1>3

(* Every bounded set of naturals has a greatest element, which Max yields. *)
LEMMA MaxExists ==
  ASSUME NEW n \in Nat, NEW t \in SUBSET (0 .. n), t # {}
  PROVE  /\ \E x \in t : \A y \in t : y <= x
         /\ Max(t) \in t /\ \A y \in t : Max(t) >= y
<1> DEFINE U == {m \in Nat : \A y \in t : y <= m}
<1>1. n \in U
  OBVIOUS
<1>2. PICK x \in U : \A y \in U : x <= y
  <2>1. U \in SUBSET Nat
    OBVIOUS
  <2> HIDE DEF U
  <2> QED BY <1>1, <2>1, MinExists
<1>3. x \in t
  <2> SUFFICES ASSUME x \notin t PROVE FALSE
    OBVIOUS
  <2>1. \A y \in t : y < x
    OBVIOUS
  <2>2. x - 1 \in Nat /\ \A y \in t : y <= x - 1
    <3>1. PICK y \in t : TRUE
      OBVIOUS
    <3>2. x \in Nat /\ y \in Nat /\ y < x /\ \A u \in t : u \in Nat
      BY <2>1
    <3> QED BY <2>1, <3>2
  <2>3. x - 1 \in U
    BY <2>2
  <2> QED BY <1>2, <2>2, <2>3
<1>4. \A y \in t : x >= y /\ y <= x
  OBVIOUS
<1> QED BY <1>3, <1>4 DEF Max

(* The iterator of a fold from the left, whose operation is a function,    *)
(* exists.                                                                 *)
IsIterator(g, F, b, s) ==
  g = [t \in SUBSET DOMAIN s |-> IF t = {} THEN b ELSE F[g[t \ {Max(t)}]][s[Max(t)]]]

(* A fold over a sequence has a function behind it: the recursion on the   *)
(* set of entries done is well founded.                                    *)
LEMMA FoldExists ==
  ASSUME NEW A, NEW B, NEW F \in [A -> [B -> A]], NEW b \in A, NEW s \in Seq(B)
  PROVE  \E g \in [SUBSET DOMAIN s -> A] : IsIterator(g, F, b, s)
<1> DEFINE Eq(g, k) == \A t \in SUBSET (1 .. k) :
              g[t] = IF t = {} THEN b ELSE F[g[t \ {Max(t)}]][s[Max(t)]]
           T == {k \in Nat : k <= Len(s) => \E g \in [SUBSET (1 .. k) -> A] : Eq(g, k)}
<1>1. 0 \in T
  <2> DEFINE g == [t \in SUBSET (1 .. 0) |-> b]
  <2>1. g \in [SUBSET (1 .. 0) -> A] /\ Eq(g, 0)
    OBVIOUS
  <2> QED BY <2>1
<1>0. Len(s) \in Nat
  OBVIOUS
<1>2. ASSUME NEW k \in Nat, k \in T, k + 1 <= Len(s)
      PROVE  \E g \in [SUBSET (1 .. k + 1) -> A] : Eq(g, k + 1)
  <2>1. PICK g \in [SUBSET (1 .. k) -> A] : Eq(g, k)
    <3> HIDE DEF Eq
    <3>1. k <= Len(s)
      BY <1>0, <1>2
    <3> QED BY <1>2, <3>1
  <2> DEFINE h == [t \in SUBSET (1 .. k + 1) |->
                     IF k + 1 \in t THEN F[g[t \ {k + 1}]][s[k + 1]] ELSE g[t]]
  <2>2. s[k + 1] \in B
    BY <1>2
  <2>3. ASSUME NEW t \in SUBSET (1 .. k + 1)
        PROVE  /\ t \ {k + 1} \in SUBSET (1 .. k)
               /\ k + 1 \notin t => t \in SUBSET (1 .. k) /\ t \ {Max(t)} \in SUBSET (1 .. k)
    <3>1. t \ {k + 1} \in SUBSET (1 .. k)
      BY ONLY k \in Nat, t \in SUBSET (1 .. k + 1)
    <3>2. k + 1 \notin t => t = t \ {k + 1}
      OBVIOUS
    <3> QED BY <3>1, <3>2
  <2>4. h \in [SUBSET (1 .. k + 1) -> A]
    <3> SUFFICES ASSUME NEW t \in SUBSET (1 .. k + 1) PROVE h[t] \in A
      OBVIOUS
    <3>1. CASE k + 1 \in t
      <4>1. g[t \ {k + 1}] \in A
        BY <2>3
      <4> QED BY <3>1, <4>1, <2>2
    <3>2. CASE k + 1 \notin t
      BY <3>2, <2>3
    <3> QED BY <3>1, <3>2
  <2>5. \A t \in SUBSET (1 .. k) : h[t] = g[t]
    OBVIOUS
  <2>6. \A t \in SUBSET (1 .. k + 1) : k + 1 \in t => h[t] = F[g[t \ {k + 1}]][s[k + 1]]
    OBVIOUS
  <2> HIDE DEF h
  <2>7. ASSUME NEW t \in SUBSET (1 .. k + 1)
        PROVE  h[t] = IF t = {} THEN b ELSE F[h[t \ {Max(t)}]][s[Max(t)]]
    <3>1. CASE k + 1 \in t
      <4>1. Max(t) \in t /\ Max(t) >= k + 1
        <5>1. k + 1 \in Nat /\ t \in SUBSET (0 .. k + 1)
          OBVIOUS
        <5> QED BY ONLY <5>1, <3>1, MaxExists
      <4>2. Max(t) = k + 1
        <5>1. Max(t) \in 1 .. k + 1
          BY ONLY <4>1, t \in SUBSET (1 .. k + 1)
        <5>2. \A x \in 1 .. k + 1 : x >= k + 1 => x = k + 1
          OBVIOUS
        <5> QED BY <4>1, <5>1, <5>2
      <4>3. h[t \ {k + 1}] = g[t \ {k + 1}]
        BY <2>3, <2>5
      <4> QED BY <3>1, <4>2, <4>3, <2>6
    <3>2. CASE k + 1 \notin t
      BY <3>2, <2>3, <2>5, <2>1
    <3> QED BY <3>1, <3>2
  <2> QED BY <2>4, <2>7
<1> HIDE DEF Eq
<1>3. ASSUME NEW k \in Nat, k \in T PROVE k + 1 \in T
  <2>1. k + 1 \in Nat
    OBVIOUS
  <2> QED BY <1>2, <1>3, <2>1
<1>4. Nat \subseteq T
  <2> HIDE DEF T
  <2> QED BY <1>1, <1>3, NatSet
<1>5. PICK g \in [SUBSET (1 .. Len(s)) -> A] : Eq(g, Len(s))
  <2>1. Len(s) \in Nat /\ Len(s) <= Len(s)
    OBVIOUS
  <2> QED BY <1>4, <2>1
<1>6. DOMAIN s = 1 .. Len(s)
  OBVIOUS
<1> QED BY <1>5, <1>6 DEF Eq, IsIterator

(* Where the greatest index of 1 .. n is n, and without it 1 .. n - 1.     *)
LEMMA MaxInterval ==
  ASSUME NEW n \in Nat \ {0}
  PROVE  Max(1 .. n) = n /\ (1 .. n) \ {n} = 1 .. n - 1 /\ 1 .. n # {}
<1>1. 1 .. n # {} /\ n \in 1 .. n
  OBVIOUS
<1>2. Max(1 .. n) \in 1 .. n /\ Max(1 .. n) >= n
  <2>1. 1 .. n \in SUBSET (0 .. n)
    OBVIOUS
  <2> QED BY <1>1, <2>1, MaxExists
<1>3. \A x \in 1 .. n : x >= n => x = n
  OBVIOUS
<1> QED BY <1>1, <1>2, <1>3

Span == [addr : Int, size : Int]

(* A sequence with one entry replaced.                                     *)
LEMMA ExceptSeq ==
  ASSUME NEW S, NEW s \in Seq(S), NEW k \in 1 .. Len(s), NEW v \in S
  PROVE  /\ [s EXCEPT ![k] = v] \in Seq(S)
         /\ Len([s EXCEPT ![k] = v]) = Len(s)
OBVIOUS

(* A round of add_mem's second loop makes a list of ranges.                *)
LEMMA AbsorbSpan ==
  ASSUME NEW l \in Seq(Span), NEW r \in Span
  PROVE  Absorb(l, r) \in Seq(Span)
<1>1. CASE l # <<>> /\ r.addr <= Last(l).addr + Last(l).size
  <2> DEFINE e == Last(l).addr + Last(l).size
             z == (IF r.addr + r.size > e THEN r.addr + r.size ELSE e) - Last(l).addr
  <2>1. Len(l) \in 1 .. Len(l) /\ Last(l) \in Span
    BY <1>1 DEF Last
  <2>2. z \in Int
    BY <2>1 DEF Span
  <2>3. Absorb(l, r) = [l EXCEPT ![Len(l)] = [@ EXCEPT !.size = z]]
    BY <1>1 DEF Absorb
  <2> HIDE DEF z
  <2>4. [l[Len(l)] EXCEPT !.size = z] \in Span
    BY <2>1, <2>2 DEF Span, Last
  <2> QED BY <2>1, <2>3, <2>4, ExceptSeq
<1>2. CASE ~ (l # <<>> /\ r.addr <= Last(l).addr + Last(l).size)
  <2>1. Absorb(l, r) = Append(l, r)
    BY <1>2 DEF Absorb
  <2> QED BY <2>1
<1> QED BY <1>1, <1>2

(* add_mem's second loop, round by round.                                  *)
LEMMA AbsorbRounds ==
  ASSUME NEW s \in Seq(Span)
  PROVE  \E f : /\ f[0] = <<>>
                /\ \A n \in 1 .. Len(s) : f[n] = Absorb(f[n - 1], s[n])
                /\ FoldLeft(Absorb, <<>>, s) = f[Len(s)]
<1> DEFINE F == [l \in Seq(Span) |-> [r \in Span |-> Absorb(l, r)]]
           Eq(g) == g = [t \in SUBSET DOMAIN s |->
                           IF t = {} THEN <<>> ELSE Absorb(g[t \ {Max(t)}], s[Max(t)])]
           iter == CHOOSE g : Eq(g)
           f == [n \in 0 .. Len(s) |-> iter[1 .. n]]
<1>1. FoldLeft(Absorb, <<>>, s) = iter[DOMAIN s]
  BY DEF FoldLeft, MapThenFoldSet
<1>2. Eq(iter)
  <2>1. F \in [Seq(Span) -> [Span -> Seq(Span)]]
    BY AbsorbSpan
  <2>2. PICK g \in [SUBSET DOMAIN s -> Seq(Span)] : IsIterator(g, F, <<>>, s)
    <3> HIDE DEF F
    <3>1. <<>> \in Seq(Span)
      OBVIOUS
    <3> QED BY <2>1, <3>1, FoldExists
  <2>3. ASSUME NEW t \in SUBSET DOMAIN s, t # {}
        PROVE  F[g[t \ {Max(t)}]][s[Max(t)]] = Absorb(g[t \ {Max(t)}], s[Max(t)])
    <3>1. Max(t) \in t
      <4>1. Len(s) \in Nat /\ t \in SUBSET (0 .. Len(s))
        OBVIOUS
      <4> QED BY ONLY <4>1, <2>3, MaxExists
    <3>2. g[t \ {Max(t)}] \in Seq(Span) /\ s[Max(t)] \in Span
      BY <3>1
    <3> QED BY <3>2
  <2>4. Eq(g)
    <3> HIDE DEF F
    <3> QED BY <2>2, <2>3 DEF IsIterator
  <2> HIDE DEF Eq
  <2> QED BY <2>4
<1>3. DOMAIN s = 1 .. Len(s) /\ Len(s) \in Nat
  OBVIOUS
<1> HIDE DEF iter
<1>4. f[0] = <<>>
  <2>1. 1 .. 0 = {} /\ {} \in SUBSET DOMAIN s
    OBVIOUS
  <2>2. iter[{}] = <<>>
    BY <1>2, <2>1
  <2> QED BY <2>1, <2>2, <1>3
<1>5. ASSUME NEW n \in 1 .. Len(s)
      PROVE  f[n] = Absorb(f[n - 1], s[n])
  <2>1. 1 .. n \in SUBSET DOMAIN s /\ n \in 0 .. Len(s) /\ n - 1 \in 0 .. Len(s)
    OBVIOUS
  <2>2. Max(1 .. n) = n /\ (1 .. n) \ {n} = 1 .. n - 1 /\ 1 .. n # {}
    BY MaxInterval
  <2>3. iter[1 .. n] = Absorb(iter[(1 .. n) \ {Max(1 .. n)}], s[Max(1 .. n)])
    BY <1>2, <2>1, <2>2
  <2> QED BY <2>1, <2>2, <2>3
<1>6. FoldLeft(Absorb, <<>>, s) = f[Len(s)]
  BY <1>1, <1>3
<1> QED BY <1>4, <1>5, <1>6

Remaining(l, r, addr, size) == l \o Remains(r, addr, addr + size)

(* What alloc_ram leaves of an entry is a list of ranges.                  *)
LEMMA RemainsSpan ==
  ASSUME NEW addr \in Int, NEW size \in Int, NEW l \in Seq(Span), NEW r \in Span
  PROVE  Remaining(l, r, addr, size) \in Seq(Span)
<1>1. Remains(r, addr, addr + size) \in Seq(Span)
  <2> DEFINE end == addr + size
             re == r.addr + r.size
             s == IF addr < r.addr THEN addr ELSE r.addr
             e == IF end > re THEN end ELSE re
             left == IF addr = s THEN <<>> ELSE <<Entry(s, addr - s)>>
             right == IF end = e THEN <<>> ELSE <<Entry(end, e - end)>>
  <2>1. s \in Int /\ e \in Int /\ end \in Int
    BY DEF Span
  <2>2. Entry(s, addr - s) \in Span /\ Entry(end, e - end) \in Span
    BY <2>1 DEF Entry, Span
  <2>3. left \in Seq(Span) /\ right \in Seq(Span)
    BY <2>2
  <2>4. <<r>> \in Seq(Span) /\ left \o right \in Seq(Span)
    BY <2>3
  <2> QED BY <2>4 DEF Remains
<1> QED BY <1>1 DEF Remaining

(* alloc_ram's loop, round by round.                                       *)
LEMMA TakenRounds ==
  ASSUME NEW addr \in Int, NEW size \in Int, NEW s \in Seq(Span)
  PROVE  \E f : /\ f[0] = <<>>
                /\ \A n \in 1 .. Len(s) : f[n] = Remaining(f[n - 1], s[n], addr, size)
                /\ Taken(s, addr, size) = f[Len(s)]
<1> DEFINE F == [l \in Seq(Span) |-> [r \in Span |-> Remaining(l, r, addr, size)]]
           Eq(g) == g = [t \in SUBSET DOMAIN s |->
                           IF t = {} THEN <<>> ELSE Remaining(g[t \ {Max(t)}], s[Max(t)], addr, size)]
           iter == CHOOSE g : Eq(g)
           f == [n \in 0 .. Len(s) |-> iter[1 .. n]]
<1>1. Taken(s, addr, size) = iter[DOMAIN s]
  BY DEF Taken, Remaining, FoldLeft, MapThenFoldSet
<1>2. Eq(iter)
  <2>1. F \in [Seq(Span) -> [Span -> Seq(Span)]]
    BY RemainsSpan
  <2>2. PICK g \in [SUBSET DOMAIN s -> Seq(Span)] : IsIterator(g, F, <<>>, s)
    <3> HIDE DEF F
    <3>1. <<>> \in Seq(Span)
      OBVIOUS
    <3> QED BY <2>1, <3>1, FoldExists
  <2>3. ASSUME NEW t \in SUBSET DOMAIN s, t # {}
        PROVE  F[g[t \ {Max(t)}]][s[Max(t)]] = Remaining(g[t \ {Max(t)}], s[Max(t)], addr, size)
    <3>1. Max(t) \in t
      <4>1. Len(s) \in Nat /\ t \in SUBSET (0 .. Len(s))
        OBVIOUS
      <4> QED BY ONLY <4>1, <2>3, MaxExists
    <3>2. g[t \ {Max(t)}] \in Seq(Span) /\ s[Max(t)] \in Span
      BY <3>1
    <3> QED BY <3>2
  <2>4. Eq(g)
    <3> HIDE DEF F
    <3> QED BY <2>2, <2>3 DEF IsIterator
  <2> HIDE DEF Eq
  <2> QED BY <2>4
<1>3. DOMAIN s = 1 .. Len(s) /\ Len(s) \in Nat
  OBVIOUS
<1> HIDE DEF iter
<1>4. f[0] = <<>>
  <2>1. 1 .. 0 = {} /\ {} \in SUBSET DOMAIN s
    OBVIOUS
  <2>2. iter[{}] = <<>>
    BY <1>2, <2>1
  <2> QED BY <2>1, <2>2, <1>3
<1>5. ASSUME NEW n \in 1 .. Len(s)
      PROVE  f[n] = Remaining(f[n - 1], s[n], addr, size)
  <2>1. 1 .. n \in SUBSET DOMAIN s /\ n \in 0 .. Len(s) /\ n - 1 \in 0 .. Len(s)
    OBVIOUS
  <2>2. Max(1 .. n) = n /\ (1 .. n) \ {n} = 1 .. n - 1 /\ 1 .. n # {}
    BY MaxInterval
  <2>3. iter[1 .. n] = Remaining(iter[(1 .. n) \ {Max(1 .. n)}], s[Max(1 .. n)], addr, size)
    BY <1>2, <2>1, <2>2
  <2> QED BY <2>1, <2>2, <2>3
<1>6. Taken(s, addr, size) = f[Len(s)]
  BY <1>1, <1>3
<1> QED BY <1>4, <1>5, <1>6

Zone == [start : Int, end : Int]
Gap == [s : Int, e : Int]

(* fix_size makes a candidate of a candidate.                              *)
LEMMA FixGap ==
  ASSUME NEW c \in Gap, NEW a \in Zone
  PROVE  fix_size(c, a) \in Gap
BY DEF fix_size, Gap, Zone, Nowhere

(* The search's loop over avoid_list, round by round.                      *)
LEMMA CandidateRounds ==
  ASSUME NEW q \in Span, NEW s \in Seq(Zone)
  PROVE  \E f : /\ f[0] = [s |-> q.addr, e |-> q.addr + q.size]
                /\ \A n \in 1 .. Len(s) : f[n] = fix_size(f[n - 1], s[n])
                /\ Candidate(q, s) = f[Len(s)]
<1> DEFINE F == [l \in Gap |-> [r \in Zone |-> fix_size(l, r)]]
           Eq(g) == g = [t \in SUBSET DOMAIN s |->
                           IF t = {} THEN [s |-> q.addr, e |-> q.addr + q.size] ELSE fix_size(g[t \ {Max(t)}], s[Max(t)])]
           iter == CHOOSE g : Eq(g)
           f == [n \in 0 .. Len(s) |-> iter[1 .. n]]
<1>1. Candidate(q, s) = iter[DOMAIN s]
  BY DEF Candidate, FoldLeft, MapThenFoldSet
<1>2. Eq(iter)
  <2>1. F \in [Gap -> [Zone -> Gap]]
    BY FixGap
  <2>2. PICK g \in [SUBSET DOMAIN s -> Gap] : IsIterator(g, F, [s |-> q.addr, e |-> q.addr + q.size], s)
    <3> HIDE DEF F
    <3>1. [s |-> q.addr, e |-> q.addr + q.size] \in Gap
      BY DEF Span, Gap
    <3> QED BY <2>1, <3>1, FoldExists
  <2>3. ASSUME NEW t \in SUBSET DOMAIN s, t # {}
        PROVE  F[g[t \ {Max(t)}]][s[Max(t)]] = fix_size(g[t \ {Max(t)}], s[Max(t)])
    <3>1. Max(t) \in t
      <4>1. Len(s) \in Nat /\ t \in SUBSET (0 .. Len(s))
        OBVIOUS
      <4> QED BY ONLY <4>1, <2>3, MaxExists
    <3>2. g[t \ {Max(t)}] \in Gap /\ s[Max(t)] \in Zone
      BY <3>1
    <3> QED BY <3>2
  <2>4. Eq(g)
    <3> HIDE DEF F
    <3> QED BY <2>2, <2>3 DEF IsIterator
  <2> HIDE DEF Eq
  <2> QED BY <2>4
<1>3. DOMAIN s = 1 .. Len(s) /\ Len(s) \in Nat
  OBVIOUS
<1> HIDE DEF iter
<1>4. f[0] = [s |-> q.addr, e |-> q.addr + q.size]
  <2>1. 1 .. 0 = {} /\ {} \in SUBSET DOMAIN s
    OBVIOUS
  <2>2. iter[{}] = [s |-> q.addr, e |-> q.addr + q.size]
    BY <1>2, <2>1
  <2> QED BY <2>1, <2>2, <1>3
<1>5. ASSUME NEW n \in 1 .. Len(s)
      PROVE  f[n] = fix_size(f[n - 1], s[n])
  <2>1. 1 .. n \in SUBSET DOMAIN s /\ n \in 0 .. Len(s) /\ n - 1 \in 0 .. Len(s)
    OBVIOUS
  <2>2. Max(1 .. n) = n /\ (1 .. n) \ {n} = 1 .. n - 1 /\ 1 .. n # {}
    BY MaxInterval
  <2>3. iter[1 .. n] = fix_size(iter[(1 .. n) \ {Max(1 .. n)}], s[Max(1 .. n)])
    BY <1>2, <2>1, <2>2
  <2> QED BY <2>1, <2>2, <2>3
<1>6. Candidate(q, s) = f[Len(s)]
  BY <1>1, <1>3
<1> QED BY <1>4, <1>5, <1>6

(* One round of as_add_containing.                                         *)
Piece(l, c, r) ==
  LET s == IF c.addr > r.addr THEN c.addr ELSE r.addr
      e == IF c.addr + c.size < r.addr + r.size THEN c.addr + c.size - 1
           ELSE r.addr + r.size - 1
  IN IF Extent(c) \cap Extent(r) = {} THEN l
     ELSE Append(l, [start |-> s, end |-> e])

(* A round of as_add_containing makes a list of asinfo entries.            *)
LEMMA PieceZone ==
  ASSUME NEW q \in Span, NEW l \in Seq(Zone), NEW c \in Span
  PROVE  Piece(l, c, q) \in Seq(Zone)
<1> DEFINE s == IF c.addr > q.addr THEN c.addr ELSE q.addr
           e == IF c.addr + c.size < q.addr + q.size THEN c.addr + c.size - 1
                ELSE q.addr + q.size - 1
<1>1. [start |-> s, end |-> e] \in Zone
  BY DEF Span, Zone
<1>2. Append(l, [start |-> s, end |-> e]) \in Seq(Zone)
  BY <1>1
<1> QED BY <1>2 DEF Piece

(* as_add_containing, round by round.                                      *)
LEMMA PieceRounds ==
  ASSUME NEW q \in Span, NEW list \in Seq(Zone), ram \in Seq(Span)
  PROVE  \E f : /\ f[0] = list
                /\ \A n \in 1 .. Len(ram) : f[n] = Piece(f[n - 1], ram[n], q)
                /\ as_add_containing(list, q) = f[Len(ram)]
<1> DEFINE F == [l \in Seq(Zone) |-> [r \in Span |-> Piece(l, r, q)]]
           Eq(g) == g = [t \in SUBSET DOMAIN ram |->
                           IF t = {} THEN list ELSE Piece(g[t \ {Max(t)}], ram[Max(t)], q)]
           iter == CHOOSE g : Eq(g)
           f == [n \in 0 .. Len(ram) |-> iter[1 .. n]]
<1>1. as_add_containing(list, q) = iter[DOMAIN ram]
  BY DEF as_add_containing, Piece, FoldLeft, MapThenFoldSet
<1>2. Eq(iter)
  <2>1. F \in [Seq(Zone) -> [Span -> Seq(Zone)]]
    BY PieceZone
  <2>2. PICK g \in [SUBSET DOMAIN ram -> Seq(Zone)] : IsIterator(g, F, list, ram)
    <3> HIDE DEF F
    <3>1. list \in Seq(Zone)
      OBVIOUS
    <3> QED BY <2>1, <3>1, FoldExists
  <2>3. ASSUME NEW t \in SUBSET DOMAIN ram, t # {}
        PROVE  F[g[t \ {Max(t)}]][ram[Max(t)]] = Piece(g[t \ {Max(t)}], ram[Max(t)], q)
    <3>1. Max(t) \in t
      <4>1. Len(ram) \in Nat /\ t \in SUBSET (0 .. Len(ram))
        OBVIOUS
      <4> QED BY ONLY <4>1, <2>3, MaxExists
    <3>2. g[t \ {Max(t)}] \in Seq(Zone) /\ ram[Max(t)] \in Span
      BY <3>1
    <3> QED BY <3>2
  <2>4. Eq(g)
    <3> HIDE DEF F
    <3> QED BY <2>2, <2>3 DEF IsIterator
  <2> HIDE DEF Eq
  <2> QED BY <2>4
<1>3. DOMAIN ram = 1 .. Len(ram) /\ Len(ram) \in Nat
  OBVIOUS
<1> HIDE DEF iter
<1>4. f[0] = list
  <2>1. 1 .. 0 = {} /\ {} \in SUBSET DOMAIN ram
    OBVIOUS
  <2>2. iter[{}] = list
    BY <1>2, <2>1
  <2> QED BY <2>1, <2>2, <1>3
<1>5. ASSUME NEW n \in 1 .. Len(ram)
      PROVE  f[n] = Piece(f[n - 1], ram[n], q)
  <2>1. 1 .. n \in SUBSET DOMAIN ram /\ n \in 0 .. Len(ram) /\ n - 1 \in 0 .. Len(ram)
    OBVIOUS
  <2>2. Max(1 .. n) = n /\ (1 .. n) \ {n} = 1 .. n - 1 /\ 1 .. n # {}
    BY MaxInterval
  <2>3. iter[1 .. n] = Piece(iter[(1 .. n) \ {Max(1 .. n)}], ram[Max(1 .. n)], q)
    BY <1>2, <2>1, <2>2
  <2> QED BY <2>1, <2>2, <2>3
<1>6. as_add_containing(list, q) = f[Len(ram)]
  BY <1>1, <1>3
<1> QED BY <1>4, <1>5, <1>6

-----------------------------------------------------------------------------
(* The list of free ranges: entries within 0 .. Top, in ascending order,   *)
(* that neither overlap nor touch.                                         *)

Block == {r \in Span : 0 <= r.addr /\ 1 <= r.size /\ r.addr + r.size <= Top + 1}

Apart(l) == \A i, j \in DOMAIN l : i < j => l[i].addr + l[i].size < l[j].addr

Good(l) == l \in Seq(Block) /\ Apart(l)

(* Ranges of memory are ranges.                                            *)
LEMMA BlockSpan == Block \subseteq Span /\ Seq(Block) \subseteq Seq(Span)
BY DEF Block

(* The highest address is a number.                                        *)
LEMMA TopNat == Top \in Nat
BY StartupRamAssumption DEF StartupRamAssumption

(* The start and the size of a range of memory.                            *)
LEMMA BlockInt ==
  \A b \in Block : /\ b.addr \in Int /\ b.size \in Int
                   /\ 0 <= b.addr /\ 1 <= b.size /\ b.addr + b.size <= Top + 1
BY DEF Block, Span

(* The addresses of a range.                                               *)
LEMMA InExtent ==
  ASSUME NEW r \in Span
  PROVE  \A x : x \in Extent(r) <=> x \in Int /\ r.addr <= x /\ x < r.addr + r.size
BY DEF Extent, Span

(* The addresses of a list of ranges.                                      *)
LEMMA InCells ==
  ASSUME NEW l \in Seq(Span)
  PROVE  \A x : x \in Cells(l) <=>
           x \in Int /\ \E i \in DOMAIN l : l[i].addr <= x /\ x < l[i].addr + l[i].size
<1>1. \A i \in DOMAIN l : l[i] \in Span
  OBVIOUS
<1>2. \A x : x \in Cells(l) <=> \E i \in DOMAIN l : x \in Extent(l[i])
  BY DEF Cells
<1> QED BY <1>1, <1>2, InExtent

(* A round of add_mem's second loop keeps the list in shape and adds the   *)
(* entry's addresses.                                                      *)
LEMMA AbsorbRound ==
  ASSUME NEW l, Good(l), NEW r \in Block, l # <<>> => Last(l).addr <= r.addr
  PROVE  /\ Good(Absorb(l, r))
         /\ Absorb(l, r) # <<>> /\ Last(Absorb(l, r)).addr <= r.addr
         /\ Cells(Absorb(l, r)) = Cells(l) \cup Extent(r)
<1> USE TopNat
<1>1. CASE l # <<>> /\ r.addr <= Last(l).addr + Last(l).size
  <2> DEFINE k == Len(l)
             e == l[k].addr + l[k].size
             z == (IF r.addr + r.size > e THEN r.addr + r.size ELSE e) - l[k].addr
             v == [l[k] EXCEPT !.size = z]
             a == [l EXCEPT ![k] = v]
  <2>1. k \in 1 .. Len(l) /\ l[k] \in Block /\ Last(l) = l[k] /\ l \in Seq(Block)
    BY <1>1 DEF Last, Good
  <2>a. /\ l[k].addr \in Int /\ l[k].size \in Int /\ r.addr \in Int /\ r.size \in Int
        /\ 0 <= l[k].addr /\ 1 <= l[k].size /\ l[k].addr + l[k].size <= Top + 1
        /\ 0 <= r.addr /\ 1 <= r.size /\ r.addr + r.size <= Top + 1
        /\ l[k].addr <= r.addr /\ r.addr <= l[k].addr + l[k].size
    BY <1>1, <2>1, BlockInt
  <2>b. /\ z \in Int /\ 1 <= z /\ l[k].addr + z <= Top + 1
        /\ \A x \in Int : l[k].addr <= x /\ x < l[k].addr + z <=>
             \/ l[k].addr <= x /\ x < l[k].addr + l[k].size
             \/ r.addr <= x /\ x < r.addr + r.size
    <3>1. z = r.addr + r.size - l[k].addr \/ z = l[k].size
      BY <2>a
    <3>2. z >= l[k].size /\ l[k].addr + z >= r.addr + r.size
      BY <2>a
    <3> HIDE DEF z, k
    <3>3. z \in Int
      BY <2>a, <3>1
    <3> QED BY ONLY TopNat, <2>a, <3>1, <3>2, <3>3
  <2> HIDE DEF z
  <2>2. v \in Block /\ v.addr = l[k].addr /\ v.size = z
    BY <2>1, <2>b DEF Block, Span
  <2>3. Absorb(l, r) = a
    BY <1>1, <2>1 DEF Absorb, z
  <2> HIDE DEF v
  <2>4. a \in Seq(Block) /\ Len(a) = k /\ a[k] = v /\ \A i \in 1 .. k - 1 : a[i] = l[i]
    BY <2>1, <2>2, ExceptSeq
  <2> HIDE DEF a, k
  <2>5. Apart(a)
    BY <2>1, <2>2, <2>4 DEF Good, Apart, k
  <2>6. ASSUME NEW x PROVE x \in Cells(a) <=> x \in Cells(l) \cup Extent(r)
    <3>1. /\ x \in Cells(a) <=> x \in Int /\ \E i \in 1 .. k : a[i].addr <= x /\ x < a[i].addr + a[i].size
          /\ x \in Cells(l) <=> x \in Int /\ \E i \in 1 .. k : l[i].addr <= x /\ x < l[i].addr + l[i].size
          /\ x \in Extent(r) <=> x \in Int /\ r.addr <= x /\ x < r.addr + r.size
      BY <2>1, <2>4, InCells, InExtent, BlockSpan DEF k
    <3>2. \A i \in 1 .. k : i # k => a[i] = l[i]
      BY <2>1, <2>4
    <3>3. x \in Int => (a[k].addr <= x /\ x < a[k].addr + a[k].size <=>
             \/ l[k].addr <= x /\ x < l[k].addr + l[k].size
             \/ r.addr <= x /\ x < r.addr + r.size)
      BY <2>2, <2>4, <2>b
    <3> QED BY <3>1, <3>2, <3>3, <2>1
  <2> QED BY <1>1, <2>1, <2>2, <2>3, <2>4, <2>5, <2>6 DEF Good, Last
<1>2. CASE ~ (l # <<>> /\ r.addr <= Last(l).addr + Last(l).size)
  <2> DEFINE k == Len(l)
             a == Append(l, r)
  <2>1. l \in Seq(Block) /\ k \in Nat
    BY DEF Good
  <2>2. Absorb(l, r) = a
    BY <1>2 DEF Absorb
  <2>3. a \in Seq(Block) /\ Len(a) = k + 1 /\ a[k + 1] = r /\ \A i \in 1 .. k : a[i] = l[i]
    BY <2>1
  <2> HIDE DEF a
  <2>4. k # 0 => l[k].addr + l[k].size < r.addr /\ l[k] \in Block
    BY <1>2, <2>1 DEF Last, Block, Span
  <2>5. Apart(a)
    <3>1. \A i \in 1 .. k : l[i].addr + l[i].size < r.addr
      <4> SUFFICES ASSUME NEW i \in 1 .. k PROVE l[i].addr + l[i].size < r.addr
        OBVIOUS
      <4>1. l[i] \in Block /\ (i = k \/ l[i].addr + l[i].size < l[k].addr)
        BY <2>1 DEF Good, Apart
      <4> QED BY <2>4, <4>1, BlockInt
    <3> QED BY <2>1, <2>3, <3>1 DEF Good, Apart
  <2>6. ASSUME NEW x PROVE x \in Cells(a) <=> x \in Cells(l) \cup Extent(r)
    <3>1. /\ x \in Cells(a) <=> x \in Int /\ \E i \in 1 .. k + 1 : a[i].addr <= x /\ x < a[i].addr + a[i].size
          /\ x \in Cells(l) <=> x \in Int /\ \E i \in 1 .. k : l[i].addr <= x /\ x < l[i].addr + l[i].size
          /\ x \in Extent(r) <=> x \in Int /\ r.addr <= x /\ x < r.addr + r.size
      BY <2>1, <2>3, InCells, InExtent, BlockSpan
    <3> QED BY <3>1, <2>1, <2>3
  <2> QED BY <2>1, <2>2, <2>3, <2>5, <2>6 DEF Good, Last, Block, Span
<1> QED BY <1>1, <1>2

(* The addresses of the first n entries.                                   *)
Upto(s, n) == UNION {Extent(s[i]) : i \in 1 .. n}

(* The addresses of the first entries, one more.                           *)
LEMMA UptoNext ==
  ASSUME NEW s, NEW n \in Nat
  PROVE  /\ Upto(s, 0) = {}
         /\ Upto(s, n + 1) = Upto(s, n) \cup Extent(s[n + 1])
<1>1. 1 .. 0 = {} /\ 1 .. n + 1 = (1 .. n) \cup {n + 1}
  OBVIOUS
<1> QED BY <1>1 DEF Upto

(* The addresses of all entries.                                           *)
LEMMA UptoAll ==
  ASSUME NEW S, NEW s \in Seq(S)
  PROVE  Upto(s, Len(s)) = Cells(s)
<1>1. DOMAIN s = 1 .. Len(s)
  OBVIOUS
<1> QED BY <1>1 DEF Upto, Cells

(* add_mem's second loop turns a list in ascending order into one whose    *)
(* entries do not touch, with the same addresses.                          *)
LEMMA Merged ==
  ASSUME NEW s \in Seq(Block), \A i, j \in DOMAIN s : i < j => s[i].addr <= s[j].addr
  PROVE  Good(FoldLeft(Absorb, <<>>, s)) /\ Cells(FoldLeft(Absorb, <<>>, s)) = Cells(s)
<1>1. PICK f : /\ f[0] = <<>>
               /\ \A n \in 1 .. Len(s) : f[n] = Absorb(f[n - 1], s[n])
               /\ FoldLeft(Absorb, <<>>, s) = f[Len(s)]
  BY BlockSpan, AbsorbRounds
<1> DEFINE Inv(n) == /\ Good(f[n])
                     /\ f[n] # <<>> => n > 0 /\ Last(f[n]).addr <= s[n].addr
                     /\ Cells(f[n]) = Upto(s, n)
           T == {n \in Nat : n <= Len(s) => Inv(n)}
<1>2. 0 \in T
  <2>1. Good(<<>>) /\ Cells(<<>>) = {}
    BY DEF Good, Apart, Cells
  <2> QED BY <1>1, <2>1, UptoNext
<1>3. ASSUME NEW n \in Nat, n \in T PROVE n + 1 \in T
  <2> SUFFICES ASSUME n + 1 <= Len(s) PROVE Inv(n + 1)
    OBVIOUS
  <2>1. n <= Len(s) /\ n + 1 \in 1 .. Len(s) /\ s[n + 1] \in Block
    OBVIOUS
  <2>2. Inv(n)
    BY <1>3, <2>1
  <2>3. f[n + 1] = Absorb(f[n], s[n + 1])
    BY <1>1, <2>1
  <2>4. f[n] # <<>> => Last(f[n]).addr <= s[n + 1].addr
    <3>1. n > 0 => s[n] \in Block /\ s[n].addr <= s[n + 1].addr
      BY <2>1
    <3> SUFFICES ASSUME f[n] # <<>> PROVE Last(f[n]).addr <= s[n + 1].addr
      OBVIOUS
    <3>2. Last(f[n]) \in Block
      BY <2>2 DEF Good, Last
    <3> QED BY <2>1, <2>2, <3>1, <3>2, BlockInt
  <2> HIDE DEF T
  <2>5. /\ Good(f[n + 1]) /\ f[n + 1] # <<>> /\ Last(f[n + 1]).addr <= s[n + 1].addr
        /\ Cells(f[n + 1]) = Cells(f[n]) \cup Extent(s[n + 1])
    BY <2>1, <2>2, <2>3, <2>4, AbsorbRound
  <2> QED BY <2>2, <2>5, UptoNext
<1>4. Nat \subseteq T
  <2> HIDE DEF T
  <2> QED BY <1>2, <1>3, NatSet
<1>5. Inv(Len(s))
  <2>1. Len(s) \in Nat /\ Len(s) <= Len(s)
    OBVIOUS
  <2> HIDE DEF Inv
  <2> QED BY <1>4, <2>1
<1> QED BY <1>1, <1>5, UptoAll

(* Where add_mem inserts an entry.                                         *)
Place(list, start) ==
  LET i == SelectInSeq(list, LAMBDA r : r.addr > start)
  IN IF i = 0 THEN Len(list) + 1 ELSE i

(* add_mem's first loop stops at the first entry that begins behind the new*)
(* one.                                                                    *)
LEMMA Placed ==
  ASSUME NEW start \in Int, NEW list \in Seq(Block)
  PROVE  /\ Place(list, start) \in 1 .. Len(list) + 1
         /\ \A j \in 1 .. Place(list, start) - 1 : list[j].addr <= start
         /\ Place(list, start) <= Len(list) => list[Place(list, start)].addr > start
<1> DEFINE I == {j \in 1 .. Len(list) : list[j].addr > start}
           k == Place(list, start)
<1>1. \A j \in 1 .. Len(list) : list[j] \in Block
  OBVIOUS
<1>2. k = IF I = {} THEN Len(list) + 1 ELSE Min(I)
  <2>1. k = IF (IF I # {} THEN Min(I) ELSE 0) = 0 THEN Len(list) + 1
            ELSE (IF I # {} THEN Min(I) ELSE 0)
    BY DEF Place, SelectInSeq
  <2>2. I # {} => Min(I) \in I
    <3>1. I \in SUBSET Nat
      OBVIOUS
    <3> HIDE DEF I
    <3> QED BY <3>1, MinExists
  <2> QED BY <2>1, <2>2
<1> HIDE DEF k
<1>3. CASE I = {}
  <2>1. k = Len(list) + 1
    BY <1>2, <1>3
  <2>2. \A j \in 1 .. Len(list) : ~ (list[j].addr > start)
    BY <1>3
  <2> QED BY <1>1, <2>1, <2>2, BlockInt DEF k
<1>4. CASE I # {}
  <2>1. k \in I /\ \A y \in I : k <= y
    <3>1. I \in SUBSET Nat
      OBVIOUS
    <3> HIDE DEF I
    <3> QED BY <1>2, <1>4, <3>1, MinExists
  <2>2. k \in 1 .. Len(list) /\ list[k].addr > start
    BY <2>1
  <2>3. ASSUME NEW j \in 1 .. k - 1 PROVE list[j].addr <= start
    <3>1. j \notin I /\ j \in 1 .. Len(list)
      BY <2>1, <2>2
    <3>2. list[j] \in Block /\ ~ (list[j].addr > start)
      BY <1>1, <3>1
    <3> QED BY <3>2, BlockInt
  <2> QED BY <2>2, <2>3 DEF k
<1> QED BY <1>3, <1>4

(* A sequence with one entry inserted.                                     *)
LEMMA Inserting ==
  ASSUME NEW S, NEW s \in Seq(S), NEW k \in 1 .. Len(s) + 1, NEW v \in S
  PROVE  /\ InsertAt(s, k, v) \in Seq(S) /\ Len(InsertAt(s, k, v)) = Len(s) + 1
         /\ \A i \in 1 .. k - 1 : InsertAt(s, k, v)[i] = s[i]
         /\ InsertAt(s, k, v)[k] = v
         /\ \A i \in k + 1 .. Len(s) + 1 : InsertAt(s, k, v)[i] = s[i - 1]
<1> DEFINE a == SubSeq(s, 1, k - 1)
           c == SubSeq(s, k, Len(s))
<1>1. a \in Seq(S) /\ Len(a) = k - 1 /\ \A i \in 1 .. k - 1 : a[i] = s[i]
  OBVIOUS
<1>2. /\ c \in Seq(S) /\ Len(c) = Len(s) + 1 - k
      /\ \A i \in 1 .. Len(s) + 1 - k : c[i] = s[k + i - 1]
  <2>1. CASE k = Len(s) + 1
    BY <2>1
  <2>2. CASE k <= Len(s)
    BY <2>2
  <2> QED BY <2>1, <2>2
<1> HIDE DEF a, c
<1>3. /\ a \o <<v>> \in Seq(S) /\ Len(a \o <<v>>) = k
      /\ \A i \in 1 .. k - 1 : (a \o <<v>>)[i] = s[i]
      /\ (a \o <<v>>)[k] = v
  BY <1>1
<1>4. InsertAt(s, k, v) = (a \o <<v>>) \o c
  BY DEF InsertAt, a, c
<1> DEFINE b == a \o <<v>>
<1>b. b \in Seq(S) /\ Len(b) = k
  BY <1>3
<1> HIDE DEF b
<1>5. /\ b \o c \in Seq(S) /\ Len(b \o c) = Len(s) + 1
      /\ \A i \in 1 .. k : (b \o c)[i] = b[i]
      /\ \A i \in k + 1 .. Len(s) + 1 : (b \o c)[i] = c[i - k]
  BY <1>2, <1>b
<1>6. ASSUME NEW i \in k + 1 .. Len(s) + 1 PROVE c[i - k] = s[i - 1]
  <2>1. i - k \in 1 .. Len(s) + 1 - k /\ k + (i - k) - 1 = i - 1
    OBVIOUS
  <2> QED BY <1>2, <2>1
<1> QED BY <1>3, <1>4, <1>5, <1>6 DEF b

(* add_mem adds the addresses of the range, wherever it lies, and keeps    *)
(* the list in shape.                                                      *)
LEMMA AddMem ==
  ASSUME NEW list, Good(list), NEW r \in Block
  PROVE  /\ Good(add_mem(list, r.addr, r.size))
         /\ Cells(add_mem(list, r.addr, r.size)) = Cells(list) \cup Extent(r)
<1> DEFINE k == Place(list, r.addr)
           v == Entry(r.addr, r.size)
           s == InsertAt(list, k, v)
           n == Len(list)
<1>1. add_mem(list, r.addr, r.size) = FoldLeft(Absorb, <<>>, s)
  BY DEF add_mem, Place
<1>2. v \in Block /\ v.addr = r.addr /\ v.size = r.size
  BY DEF Entry, Block, Span
<1>3. list \in Seq(Block) /\ n \in Nat /\ r.addr \in Int
  BY BlockInt DEF Good
<1>4. /\ k \in 1 .. n + 1
      /\ \A j \in 1 .. k - 1 : list[j].addr <= r.addr
      /\ k <= n => list[k].addr > r.addr
  BY <1>3, Placed
<1> HIDE DEF k, v
<1>5. /\ s \in Seq(Block) /\ Len(s) = n + 1 /\ s[k] = v
      /\ \A i \in 1 .. k - 1 : s[i] = list[i]
      /\ \A i \in k + 1 .. n + 1 : s[i] = list[i - 1]
  BY <1>2, <1>3, <1>4, Inserting
<1> HIDE DEF s
<1>6. ASSUME NEW i \in DOMAIN s, NEW j \in DOMAIN s, i < j
      PROVE  s[i].addr <= s[j].addr
  <2>1. \A p, q \in 1 .. n : p < q => list[p].addr <= list[q].addr
    <3> SUFFICES ASSUME NEW p \in 1 .. n, NEW q \in 1 .. n, p < q
                 PROVE list[p].addr <= list[q].addr
      OBVIOUS
    <3>1. list[p] \in Block /\ list[q] \in Block /\ list[p].addr + list[p].size < list[q].addr
      BY <1>3 DEF Good, Apart
    <3> QED BY <3>1, BlockInt
  <2>2. \A q \in k .. n : r.addr <= list[q].addr
    <3> SUFFICES ASSUME NEW q \in k .. n PROVE r.addr <= list[q].addr
      OBVIOUS
    <3>1. list[k] \in Block /\ list[q] \in Block /\ list[k].addr > r.addr /\ (k = q \/ list[k].addr <= list[q].addr)
      BY <1>3, <1>4, <2>1
    <3> QED BY <3>1, <1>3, BlockInt
  <2>3. i \in 1 .. n + 1 /\ j \in 1 .. n + 1
    BY <1>5
  <2>4. CASE j < k
    BY <2>1, <2>3, <2>4, <1>4, <1>5, <1>6
  <2>5. CASE j = k
    BY <2>3, <2>5, <1>2, <1>4, <1>5, <1>6
  <2>6. CASE j > k /\ i < k
    <3>1. s[i] = list[i] /\ s[j] = list[j - 1] /\ list[i].addr <= r.addr /\ r.addr <= list[j - 1].addr
      BY <2>2, <2>3, <2>6, <1>4, <1>5
    <3>2. list[i] \in Block /\ list[j - 1] \in Block
      BY <2>3, <2>6, <1>3, <1>4
    <3> QED BY <3>1, <3>2, <1>3, BlockInt
  <2>7. CASE j > k /\ i = k
    <3>1. j - 1 \in k .. n /\ s[j] = list[j - 1]
      BY <2>3, <2>7, <1>3, <1>4, <1>5
    <3> QED BY <2>2, <2>7, <3>1, <1>2, <1>5
  <2>8. CASE j > k /\ i > k
    BY <2>1, <2>3, <2>8, <1>3, <1>4, <1>5, <1>6
  <2> QED BY <2>3, <2>4, <2>5, <2>6, <2>7, <2>8, <1>4
<1>7. Cells(s) = Cells(list) \cup Extent(r)
  <2>1. DOMAIN s = 1 .. n + 1 /\ DOMAIN list = 1 .. n
    BY <1>3, <1>5
  <2>2. Extent(s[k]) = Extent(r)
    BY <1>2, <1>5 DEF Extent
  <2>3. \A i \in 1 .. n + 1 : i # k => \E j \in 1 .. n : s[i] = list[j]
    <3> SUFFICES ASSUME NEW i \in 1 .. n + 1, i # k PROVE \E j \in 1 .. n : s[i] = list[j]
      OBVIOUS
    <3>1. n \in Nat /\ k \in 1 .. n + 1
      BY <1>3, <1>4
    <3>2. CASE i < k
      <4>1. i \in 1 .. k - 1 /\ i \in 1 .. n
        BY <3>1, <3>2
      <4> QED BY <1>5, <4>1
    <3>3. CASE i > k
      <4>1. i \in k + 1 .. n + 1 /\ i - 1 \in 1 .. n
        BY <3>1, <3>3
      <4> QED BY <1>5, <4>1
    <3> QED BY <3>1, <3>2, <3>3
  <2>4. \A j \in 1 .. n : \E i \in 1 .. n + 1 : s[i] = list[j]
    <3> SUFFICES ASSUME NEW j \in 1 .. n PROVE \E i \in 1 .. n + 1 : s[i] = list[j]
      OBVIOUS
    <3>1. CASE j < k
      BY <1>3, <1>4, <1>5, <3>1
    <3>2. CASE j >= k
      <4>1. j + 1 \in k + 1 .. n + 1 /\ j + 1 \in 1 .. n + 1 /\ (j + 1) - 1 = j
        BY <1>3, <1>4, <3>2
      <4> QED BY <1>5, <4>1
    <3> QED BY <3>1, <3>2, <1>4
  <2> QED BY <1>4, <2>1, <2>2, <2>3, <2>4 DEF Cells
<1> QED BY <1>1, <1>5, <1>6, <1>7, Merged

(* Two lists in shape, one behind the other with a gap, are a list in      *)
(* shape.                                                                  *)
LEMMA Joined ==
  ASSUME NEW l, NEW m, Good(l), Good(m),
         \A i \in DOMAIN l, j \in DOMAIN m : l[i].addr + l[i].size < m[j].addr
  PROVE  Good(l \o m) /\ Cells(l \o m) = Cells(l) \cup Cells(m)
<1>1. /\ l \in Seq(Block) /\ m \in Seq(Block) /\ l \o m \in Seq(Block)
      /\ Len(l \o m) = Len(l) + Len(m)
      /\ \A i \in 1 .. Len(l) : (l \o m)[i] = l[i]
      /\ \A i \in Len(l) + 1 .. Len(l) + Len(m) : (l \o m)[i] = m[i - Len(l)]
  BY DEF Good
<1>2. Apart(l \o m)
  <2> SUFFICES ASSUME NEW i \in 1 .. Len(l) + Len(m), NEW j \in 1 .. Len(l) + Len(m), i < j
               PROVE  (l \o m)[i].addr + (l \o m)[i].size < (l \o m)[j].addr
    BY <1>1 DEF Apart
  <2>1. CASE j <= Len(l)
    BY <1>1, <2>1 DEF Good, Apart
  <2>2. CASE i > Len(l)
    BY <1>1, <2>2 DEF Good, Apart
  <2>3. CASE i <= Len(l) /\ j > Len(l)
    BY <1>1, <2>3
  <2> QED BY <2>1, <2>2, <2>3, <1>1
<1>3. Cells(l \o m) = Cells(l) \cup Cells(m)
  <2>1. DOMAIN l = 1 .. Len(l) /\ DOMAIN m = 1 .. Len(m) /\ DOMAIN (l \o m) = 1 .. Len(l) + Len(m)
    BY <1>1
  <2>2. \A i \in DOMAIN (l \o m) : (\E j \in DOMAIN l : (l \o m)[i] = l[j])
                                   \/ \E j \in DOMAIN m : (l \o m)[i] = m[j]
    BY <1>1, <2>1
  <2>3. \A j \in DOMAIN l : \E i \in DOMAIN (l \o m) : (l \o m)[i] = l[j]
    BY <1>1, <2>1
  <2>4. \A j \in DOMAIN m : \E i \in DOMAIN (l \o m) : (l \o m)[i] = m[j]
    <3> SUFFICES ASSUME NEW j \in DOMAIN m PROVE \E i \in DOMAIN (l \o m) : (l \o m)[i] = m[j]
      OBVIOUS
    <3>1. j + Len(l) \in Len(l) + 1 .. Len(l) + Len(m) /\ (j + Len(l)) - Len(l) = j
      BY <1>1, <2>1
    <3> QED BY <1>1, <2>1, <3>1
  <2> QED BY <2>2, <2>3, <2>4 DEF Cells
<1> QED BY <1>1, <1>2, <1>3 DEF Good

(* Putting one entry, or none, next to nothing.                            *)
LEMMA ConcatEmpty ==
  \A v : <<>> \o <<v>> = <<v>> /\ <<v>> \o <<>> = <<v>> /\ <<>> \o <<>> = <<>>
OBVIOUS

(* An entry of two lists put together is an entry of one of them.          *)
LEMMA ConcatEntry ==
  ASSUME NEW S, NEW l \in Seq(S), NEW m \in Seq(S), NEW i \in DOMAIN (l \o m)
  PROVE  (\E k \in DOMAIN l : (l \o m)[i] = l[k]) \/ (\E k \in DOMAIN m : (l \o m)[i] = m[k])
<1>1. i \in 1 .. Len(l) + Len(m)
  OBVIOUS
<1>2. CASE i <= Len(l)
  <2>1. i \in DOMAIN l /\ (l \o m)[i] = l[i]
    BY <1>1, <1>2
  <2> QED BY <2>1
<1>3. CASE i > Len(l)
  <2>1. i - Len(l) \in DOMAIN m /\ (l \o m)[i] = m[i - Len(l)]
    BY <1>1, <1>3
  <2> QED BY <2>1
<1> QED BY <1>1, <1>2, <1>3

(* A list of one range is in shape.                                        *)
LEMMA OneEntry ==
  ASSUME NEW v \in Block
  PROVE  Good(<<v>>) /\ Cells(<<v>>) = Extent(v)
<1>1. <<v>> \in Seq(Block) /\ DOMAIN <<v>> = {1} /\ <<v>>[1] = v
  OBVIOUS
<1> QED BY <1>1 DEF Good, Apart, Cells

(* What alloc_ram leaves of an entry lies in it, is in shape and is the    *)
(* entry without the addresses taken.                                      *)
LEMMA RemainsRight ==
  ASSUME NEW r \in Block, NEW addr \in Int, NEW size \in Nat \ {0}
  PROVE  LET m == Remains(r, addr, addr + size)
         IN /\ Good(m)
            /\ \A i \in DOMAIN m : /\ r.addr <= m[i].addr
                                   /\ m[i].addr + m[i].size <= r.addr + r.size
            /\ Cells(m) = Extent(r) \ (addr .. addr + size - 1)
<1> DEFINE end == addr + size
           re == r.addr + r.size
           touch == \/ addr <= r.addr /\ end > r.addr
                    \/ addr >= r.addr /\ addr < re
                    \/ end >= r.addr /\ end < re
           m == Remains(r, addr, end)
           left == Entry(r.addr, addr - r.addr)
           right == Entry(end, re - end)
<1> USE TopNat
<1>1. /\ r.addr \in Int /\ r.size \in Int /\ end \in Int /\ re \in Int /\ r \in Span
      /\ 0 <= r.addr /\ 1 <= r.size /\ re <= Top + 1 /\ addr < end
  BY BlockInt, BlockSpan
<1>a. touch => m = (IF addr <= r.addr THEN <<>> ELSE <<left>>)
                   \o (IF end >= re THEN <<>> ELSE <<right>>)
  BY <1>1 DEF Remains
<1>2. CASE ~ touch
  <2>1. m = <<r>>
    BY <1>2 DEF Remains
  <2>2. \A x : x \in Extent(r) => x \notin addr .. end - 1
    BY <1>1, <1>2, InExtent
  <2>3. Good(m) /\ Cells(m) = Extent(r) \ (addr .. end - 1)
    BY <2>1, <2>2, OneEntry
  <2> QED BY <1>1, <2>1, <2>3
<1>3. CASE touch /\ addr <= r.addr /\ end >= re
  <2>1. m = <<>>
    BY <1>a, <1>1, <1>3, ConcatEmpty
  <2>2. Good(<<>>) /\ Cells(<<>>) = {}
    BY DEF Good, Apart, Cells
  <2>3. \A x : x \in Extent(r) => x \in addr .. end - 1
    BY <1>1, <1>3, InExtent
  <2> QED BY <2>1, <2>2, <2>3
<1>4. CASE touch /\ addr <= r.addr /\ end < re
  <2>1. m = <<right>>
    <3> HIDE DEF m, left, right
    <3> QED BY <1>a, <1>1, <1>4, ConcatEmpty
  <2>2. right \in Block /\ right.addr = end /\ right.size = re - end /\ end >= r.addr
    BY <1>1, <1>4 DEF Entry, Block, Span
  <2>3. \A x : x \in Extent(right) <=> x \in Extent(r) /\ x \notin addr .. end - 1
    BY <1>1, <1>4, <2>2, InExtent, BlockSpan
  <2> HIDE DEF right
  <2>4. Good(m) /\ Cells(m) = Extent(r) \ (addr .. end - 1)
    BY <2>1, <2>2, <2>3, OneEntry
  <2> QED BY <1>1, <1>4, <2>1, <2>2, <2>4
<1>5. CASE touch /\ addr > r.addr /\ end >= re
  <2>1. m = <<left>>
    <3> HIDE DEF m, left, right
    <3> QED BY <1>a, <1>1, <1>5, ConcatEmpty
  <2>2. left \in Block /\ left.addr = r.addr /\ left.size = addr - r.addr /\ addr < re
    BY <1>1, <1>5 DEF Entry, Block, Span
  <2>3. \A x : x \in Extent(left) <=> x \in Extent(r) /\ x \notin addr .. end - 1
    BY <1>1, <1>5, <2>2, InExtent, BlockSpan
  <2> HIDE DEF left
  <2>4. Good(m) /\ Cells(m) = Extent(r) \ (addr .. end - 1)
    BY <2>1, <2>2, <2>3, OneEntry
  <2> QED BY <1>1, <1>5, <2>1, <2>2, <2>4
<1>6. CASE touch /\ addr > r.addr /\ end < re
  <2>1. m = <<left>> \o <<right>>
    <3>1. ~ (addr <= r.addr) /\ ~ (end >= re)
      BY <1>1, <1>6
    <3> HIDE DEF m, left, right, end, re
    <3> QED BY <1>a, <1>6, <3>1
  <2>2. right \in Block /\ right.addr = end /\ right.size = re - end
    BY <1>1, <1>6 DEF Entry, Block, Span
  <2>3. left \in Block /\ left.addr = r.addr /\ left.size = addr - r.addr
    BY <1>1, <1>6 DEF Entry, Block, Span
  <2> HIDE DEF left, right, m
  <2>4. ASSUME NEW x
        PROVE  x \in Extent(left) \cup Extent(right) <=> x \in Extent(r) /\ x \notin addr .. end - 1
    <3>1. /\ x \in Extent(left) <=> x \in Int /\ r.addr <= x /\ x < addr
          /\ x \in Extent(right) <=> x \in Int /\ end <= x /\ x < re
          /\ x \in Extent(r) <=> x \in Int /\ r.addr <= x /\ x < re
      BY <1>1, <2>2, <2>3, InExtent, BlockSpan
    <3> QED BY <3>1, <1>1, <1>6
  <2>5. left.addr + left.size < right.addr
    BY <1>1, <2>2, <2>3
  <2>6. /\ DOMAIN <<left>> = {1} /\ DOMAIN <<right>> = {1}
        /\ <<left>>[1] = left /\ <<right>>[1] = right
    OBVIOUS
  <2>7. Good(m) /\ Cells(m) = Extent(left) \cup Extent(right)
    <3> DEFINE a == <<left>>
               b == <<right>>
    <3>1. /\ Good(a) /\ Cells(a) = Extent(left)
          /\ Good(b) /\ Cells(b) = Extent(right)
      BY <2>2, <2>3, OneEntry
    <3>2. \A i \in DOMAIN a, j \in DOMAIN b : a[i].addr + a[i].size < b[j].addr
      BY <2>5, <2>6
    <3>3. m = a \o b
      BY <2>1
    <3> HIDE DEF a, b
    <3> QED BY <3>1, <3>2, <3>3, Joined
  <2>8. \A i \in DOMAIN m : m[i] = left \/ m[i] = right
    BY <2>1, <2>6, <2>2, <2>3, ConcatEntry
  <2>9. \A i \in DOMAIN m : r.addr <= m[i].addr /\ m[i].addr + m[i].size <= re
    BY <1>1, <1>6, <2>2, <2>3, <2>8
  <2>10. Cells(m) = Extent(r) \ (addr .. end - 1)
    BY <2>4, <2>7
  <2> QED BY <2>7, <2>9, <2>10 DEF m
<1> QED BY <1>1, <1>2, <1>3, <1>4, <1>5, <1>6

(* alloc_ram takes exactly the addresses asked for out of the list, and    *)
(* keeps it in shape.                                                      *)
LEMMA TakenRight ==
  ASSUME NEW s, Good(s), NEW addr \in Int, NEW size \in Nat \ {0}
  PROVE  /\ Good(Taken(s, addr, size))
         /\ Cells(Taken(s, addr, size)) = Cells(s) \ (addr .. addr + size - 1)
<1>0. s \in Seq(Block) /\ s \in Seq(Span) /\ Len(s) \in Nat /\ DOMAIN s = 1 .. Len(s)
  BY BlockSpan DEF Good
<1>1. PICK f : /\ f[0] = <<>>
               /\ \A n \in 1 .. Len(s) : f[n] = Remaining(f[n - 1], s[n], addr, size)
               /\ Taken(s, addr, size) = f[Len(s)]
  BY <1>0, TakenRounds
<1> DEFINE hole == addr .. addr + size - 1
           Inv(n) == /\ Good(f[n])
                     /\ \A i \in DOMAIN f[n], j \in n + 1 .. Len(s) :
                          f[n][i].addr + f[n][i].size < s[j].addr
                     /\ Cells(f[n]) = Upto(s, n) \ hole
           T == {n \in Nat : n <= Len(s) => Inv(n)}
<1>2. 0 \in T
  <2>1. Good(<<>>) /\ Cells(<<>>) = {} /\ DOMAIN <<>> = {}
    BY DEF Good, Apart, Cells
  <2> QED BY <1>1, <2>1, UptoNext
<1>3. ASSUME NEW n \in Nat, n \in T PROVE n + 1 \in T
  <2> SUFFICES ASSUME n + 1 <= Len(s) PROVE Inv(n + 1)
    OBVIOUS
  <2> DEFINE m == Remains(s[n + 1], addr, addr + size)
             r == s[n + 1]
  <2>1. n <= Len(s) /\ n + 1 \in 1 .. Len(s) /\ r \in Block
    BY <1>0
  <2>2. Inv(n)
    BY <1>3, <2>1
  <2>3. f[n + 1] = f[n] \o m
    <3>1. (n + 1) - 1 = n
      OBVIOUS
    <3> QED BY <1>1, <2>1, <3>1 DEF Remaining
  <2>4. /\ Good(m)
        /\ \A i \in DOMAIN m : r.addr <= m[i].addr /\ m[i].addr + m[i].size <= r.addr + r.size
        /\ Cells(m) = Extent(r) \ hole
    BY <2>1, RemainsRight
  <2> HIDE DEF m, r, hole
  <2>5. \A i \in DOMAIN f[n] : f[n][i] \in Block /\ f[n][i].addr + f[n][i].size < r.addr
    BY <2>1, <2>2 DEF Good, r
  <2>6. \A i \in DOMAIN m : m[i] \in Block
    BY <2>4 DEF Good
  <2>7. \A i \in DOMAIN f[n], j \in DOMAIN m : f[n][i].addr + f[n][i].size < m[j].addr
    BY <2>1, <2>4, <2>5, <2>6, BlockInt
  <2>8. Good(f[n + 1]) /\ Cells(f[n + 1]) = Cells(f[n]) \cup Cells(m)
    BY <2>2, <2>3, <2>4, <2>7, Joined
  <2>9. ASSUME NEW i \in DOMAIN f[n + 1], NEW j \in n + 2 .. Len(s)
        PROVE  f[n + 1][i].addr + f[n + 1][i].size < s[j].addr
    <3>1. /\ \A k \in DOMAIN f[n] : f[n][k].addr + f[n][k].size < s[j].addr
          /\ r.addr + r.size < s[j].addr /\ s[j] \in Block
      <4>1. j \in n + 1 .. Len(s) /\ j \in DOMAIN s /\ n + 1 < j /\ n + 1 \in DOMAIN s
        BY <1>0
      <4> QED BY <1>0, <2>2, <4>1 DEF Good, Apart, r
    <3>2. \A k \in DOMAIN m : m[k].addr + m[k].size < s[j].addr
      BY <2>1, <2>4, <2>6, <3>1, BlockInt
    <3>3. (\E k \in DOMAIN f[n] : f[n + 1][i] = f[n][k]) \/ (\E k \in DOMAIN m : f[n + 1][i] = m[k])
      <4>1. f[n] \in Seq(Block) /\ m \in Seq(Block)
        BY <2>2, <2>4 DEF Good
      <4> HIDE DEF Inv
      <4>2. i \in DOMAIN (f[n] \o m)
        BY <2>3
      <4> DEFINE fn == f[n]
      <4> HIDE DEF fn
      <4>3. (\E k \in DOMAIN fn : (fn \o m)[i] = fn[k]) \/ (\E k \in DOMAIN m : (fn \o m)[i] = m[k])
        <5>1. fn \in Seq(Block) /\ m \in Seq(Block) /\ i \in DOMAIN (fn \o m)
          BY <4>1, <4>2 DEF fn
        <5> QED BY ONLY <5>1, ConcatEntry
      <4> QED BY <2>3, <4>3 DEF fn
    <3> QED BY <3>1, <3>2, <3>3
  <2>10. Upto(s, n + 1) = Upto(s, n) \cup Extent(r)
    BY UptoNext DEF r
  <2>11. Cells(f[n + 1]) = Upto(s, n + 1) \ hole
    BY <2>2, <2>4, <2>8, <2>10
  <2>12. (n + 1) + 1 = n + 2
    OBVIOUS
  <2> QED BY <2>8, <2>9, <2>11, <2>12
<1>4. Nat \subseteq T
  <2> HIDE DEF T
  <2> QED BY <1>2, <1>3, NatSet
<1>5. Inv(Len(s))
  <2>1. Len(s) \in Nat /\ Len(s) <= Len(s)
    BY <1>0
  <2> HIDE DEF Inv
  <2> QED BY <1>4, <2>1
<1> QED BY <1>0, <1>1, <1>5, UptoAll

-----------------------------------------------------------------------------
(* Searching the list.                                                     *)

(* ROUND gives the least multiple that is not below.                       *)
LEMMA RoundUp ==
  ASSUME NEW x \in Int, NEW a \in Nat \ {0}
  PROVE  /\ ROUND(x, a) \in Int /\ x <= ROUND(x, a)
         /\ \A y \in Int : x <= y /\ y % a = 0 => ROUND(x, a) <= y
<1> DEFINE k == (x + a - 1) \div a
<1>1. k \in Int /\ a * k <= x + a - 1 /\ x + a - 1 < a * k + a /\ k * a = a * k /\ a * k \in Int
  OBVIOUS
<1>2. ROUND(x, a) = a * k
  BY <1>1 DEF ROUND
<1> HIDE DEF k
<1>3. ASSUME NEW y \in Int, x <= y, y % a = 0 PROVE a * k <= y
  <2> DEFINE m == y \div a
  <2>1. m \in Int /\ y = a * m + (y % a)
    OBVIOUS
  <2> HIDE DEF m
  <2>2. y = a * m
    BY <1>3, <2>1
  <2>3. a * k < a * m + a
    BY <1>1, <1>3, <2>1, <2>2
  <2>4. k <= m
    BY <1>1, <2>1, <2>3
  <2> QED BY <1>1, <2>1, <2>2, <2>4
<1>4. x <= a * k
  BY <1>1
<1> QED BY <1>1, <1>2, <1>3, <1>4

(* TRUNC does not go up.                                                   *)
LEMMA RoundDown ==
  ASSUME NEW x \in Int, NEW a \in Nat \ {0}
  PROVE  TRUNC(x, a) \in Int /\ TRUNC(x, a) <= x
<1> DEFINE k == x \div a
<1>1. k \in Int /\ a * k <= x /\ k * a = a * k /\ a * k \in Int
  OBVIOUS
<1> QED BY <1>1 DEF TRUNC

(* The entries of avoid_list.                                              *)
Fence == {a \in Zone : 0 <= a.start /\ a.start < a.end /\ a.start <= Top /\ a.end <= Top + 1}

(* The start and the end of an avoided range.                              *)
LEMMA FenceInt ==
  \A a \in Fence : /\ a.start \in Int /\ a.end \in Int /\ 0 <= a.start /\ a.start < a.end
                   /\ a.start <= Top /\ a.end <= Top + 1
BY DEF Fence, Zone

(* The candidate found so far: nothing, or a part of the entry.            *)
PartOf(c, q) ==
  c \in Gap /\ (c = Nowhere \/ (q.addr <= c.s /\ c.s < c.e /\ c.e <= q.addr + q.size))

(* fix_size keeps to the candidate, leaves the avoided range and changes   *)
(* nothing that does not meet it.                                          *)
LEMMA FixRight ==
  ASSUME NEW q \in Block, NEW c, PartOf(c, q), NEW a \in Fence
  PROVE  /\ PartOf(fix_size(c, a), q)
         /\ fix_size(c, a).s .. fix_size(c, a).e - 1 \subseteq c.s .. c.e - 1
         /\ (fix_size(c, a).s .. fix_size(c, a).e - 1) \cap Avoided(a) = {}
         /\ (c.s < c.e /\ Avoided(a) \cap (c.s .. c.e - 1) = {}) => fix_size(c, a) = c
<1> DEFINE d == fix_size(c, a)
<1>1. /\ q.addr \in Int /\ q.size \in Int /\ 0 <= q.addr
      /\ a.start \in Int /\ a.end \in Int /\ 0 <= a.start /\ a.start < a.end
      /\ c.s \in Int /\ c.e \in Int /\ c \in Gap
      /\ (c.s = 0 /\ c.e = 0) \/ (q.addr <= c.s /\ c.s < c.e /\ c.e <= q.addr + q.size)
  BY BlockInt, FenceInt DEF PartOf, Gap, Nowhere
<1>2. Nowhere \in Gap /\ Nowhere.s = 0 /\ Nowhere.e = 0
  BY DEF Nowhere, Gap
<1>3. CASE c.s >= a.end \/ c.e <= a.start
  <2>1. d = c
    BY <1>3 DEF fix_size
  <2> HIDE DEF d
  <2> QED BY <1>1, <1>3, <2>1 DEF Avoided, d
<1>4. CASE c.s < a.end /\ c.e > a.start /\ c.s >= a.start /\ c.e <= a.end
  <2>1. d = Nowhere
    BY <1>1, <1>4 DEF fix_size
  <2>2. c.s < c.e => c.s \in Avoided(a) \cap (c.s .. c.e - 1)
    BY <1>1, <1>4 DEF Avoided
  <2> HIDE DEF d
  <2>3. d.s .. d.e - 1 = {}
    BY <2>1, <1>2
  <2>4. PartOf(d, q) /\ ~ (c.s < c.e /\ Avoided(a) \cap (c.s .. c.e - 1) = {})
    <3>1. PartOf(Nowhere, q)
      BY DEF PartOf, Nowhere, Gap
    <3> QED BY <2>1, <2>2, <3>1
  <2> QED BY <2>3, <2>4 DEF d
<1>5. ASSUME c.s < a.end, c.e > a.end, d = [c EXCEPT !.s = a.end]
      PROVE  /\ PartOf(d, q) /\ d.s .. d.e - 1 \subseteq c.s .. c.e - 1
             /\ (d.s .. d.e - 1) \cap Avoided(a) = {}
             /\ Avoided(a) \cap (c.s .. c.e - 1) # {}
  <2> HIDE DEF d
  <2>1. d \in Gap /\ d.s = a.end /\ d.e = c.e
    BY <1>1, <1>5 DEF Gap
  <2>2. a.end - 1 \in Avoided(a) \cap (c.s .. c.e - 1)
    BY <1>1, <1>5 DEF Avoided
  <2> QED BY <1>1, <1>5, <2>1, <2>2 DEF PartOf, Avoided
<1>6. ASSUME c.s < a.start, c.e > a.start, d = [c EXCEPT !.e = a.start]
      PROVE  /\ PartOf(d, q) /\ d.s .. d.e - 1 \subseteq c.s .. c.e - 1
             /\ (d.s .. d.e - 1) \cap Avoided(a) = {}
             /\ Avoided(a) \cap (c.s .. c.e - 1) # {}
  <2> HIDE DEF d
  <2>1. d \in Gap /\ d.s = c.s /\ d.e = a.start
    BY <1>1, <1>6 DEF Gap
  <2>2. a.start \in Avoided(a) \cap (c.s .. c.e - 1)
    BY <1>1, <1>6 DEF Avoided
  <2> QED BY <1>1, <1>6, <2>1, <2>2 DEF PartOf, Avoided
<1>7. CASE c.s < a.end /\ c.e > a.start /\ c.s >= a.start /\ c.e > a.end
  <2>1. d = [c EXCEPT !.s = a.end]
    BY <1>1, <1>7 DEF fix_size
  <2> QED BY <1>5, <1>7, <2>1
<1>8. CASE c.s < a.end /\ c.e > a.start /\ c.s < a.start /\ c.e < a.end
  <2>1. d = [c EXCEPT !.e = a.start]
    BY <1>1, <1>8 DEF fix_size
  <2> QED BY <1>6, <1>8, <2>1
<1>9. CASE c.s < a.end /\ c.e > a.start /\ c.s < a.start /\ c.e >= a.end
  <2>1. d = IF a.start - c.s > c.e - a.end THEN [c EXCEPT !.e = a.start] ELSE [c EXCEPT !.s = a.end]
    BY <1>1, <1>9 DEF fix_size
  <2>2. ~ (a.start - c.s > c.e - a.end) => c.e > a.end
    BY <1>1, <1>9
  <2> HIDE DEF d
  <2> QED BY <1>5, <1>6, <1>9, <2>1, <2>2 DEF d
<1> QED BY <1>1, <1>3, <1>4, <1>7, <1>8, <1>9

(* Avoided ranges are ranges.                                              *)
LEMMA FenceZone == Seq(Fence) \subseteq Seq(Zone)
BY DEF Fence

(* What is left of an entry after all of avoid_list: nothing, or a part of *)
(* it that no avoided range meets; all of it when none met it.             *)
LEMMA CandidateRight ==
  ASSUME NEW q \in Block, NEW s \in Seq(Fence)
  PROVE  /\ PartOf(Candidate(q, s), q)
         /\ \A k \in DOMAIN s :
              (Candidate(q, s).s .. Candidate(q, s).e - 1) \cap Avoided(s[k]) = {}
         /\ (\A k \in DOMAIN s : Avoided(s[k]) \cap Extent(q) = {}) =>
              Candidate(q, s).s = q.addr /\ Candidate(q, s).e = q.addr + q.size
<1> DEFINE b == [s |-> q.addr, e |-> q.addr + q.size]
           Clear == \A k \in DOMAIN s : Avoided(s[k]) \cap Extent(q) = {}
<1>0. /\ q \in Span /\ s \in Seq(Zone) /\ Len(s) \in Nat /\ DOMAIN s = 1 .. Len(s)
      /\ q.addr \in Int /\ q.size \in Int /\ 1 <= q.size
  BY BlockSpan, BlockInt, FenceZone
<1>1. PICK f : /\ f[0] = b
               /\ \A n \in 1 .. Len(s) : f[n] = fix_size(f[n - 1], s[n])
               /\ Candidate(q, s) = f[Len(s)]
  BY <1>0, CandidateRounds
<1>b. b \in Gap /\ b.s = q.addr /\ b.e = q.addr + q.size /\ PartOf(b, q)
  BY <1>0 DEF Gap, PartOf
<1> HIDE DEF b
<1> DEFINE Inv(n) == /\ PartOf(f[n], q)
                     /\ \A k \in 1 .. n : (f[n].s .. f[n].e - 1) \cap Avoided(s[k]) = {}
                     /\ Clear => f[n] = b
           T == {n \in Nat : n <= Len(s) => Inv(n)}
<1>2. 0 \in T
  <2>1. 1 .. 0 = {}
    OBVIOUS
  <2> QED BY <1>1, <1>b, <2>1
<1>3. ASSUME NEW n \in Nat, n \in T PROVE n + 1 \in T
  <2> SUFFICES ASSUME n + 1 <= Len(s) PROVE Inv(n + 1)
    OBVIOUS
  <2>1. n <= Len(s) /\ n + 1 \in 1 .. Len(s) /\ s[n + 1] \in Fence /\ (n + 1) - 1 = n
    BY <1>0
  <2>2. Inv(n)
    BY <1>3, <2>1
  <2> HIDE DEF T
  <2>3. f[n + 1] = fix_size(f[n], s[n + 1])
    BY <1>1, <2>1
  <2>4. /\ PartOf(f[n + 1], q)
        /\ f[n + 1].s .. f[n + 1].e - 1 \subseteq f[n].s .. f[n].e - 1
        /\ (f[n + 1].s .. f[n + 1].e - 1) \cap Avoided(s[n + 1]) = {}
        /\ (f[n].s < f[n].e /\ Avoided(s[n + 1]) \cap (f[n].s .. f[n].e - 1) = {}) => f[n + 1] = f[n]
    BY <2>1, <2>2, <2>3, FixRight
  <2>5. \A k \in 1 .. n + 1 : k \in 1 .. n \/ k = n + 1
    OBVIOUS
  <2>6. ASSUME Clear PROVE f[n + 1] = b
    <3>1. f[n] = b /\ Avoided(s[n + 1]) \cap Extent(q) = {}
      BY <1>0, <2>1, <2>2, <2>6
    <3>2. f[n].s < f[n].e /\ f[n].s .. f[n].e - 1 = Extent(q)
      BY <1>0, <1>b, <3>1 DEF Extent
    <3> QED BY <2>4, <3>1, <3>2
  <2>7. \A k \in 1 .. n + 1 : (f[n + 1].s .. f[n + 1].e - 1) \cap Avoided(s[k]) = {}
    BY <2>2, <2>4, <2>5
  <2> QED BY <2>4, <2>6, <2>7
<1>4. Nat \subseteq T
  <2> HIDE DEF T
  <2> QED BY <1>2, <1>3, NatSet
<1>5. Inv(Len(s))
  <2>1. Len(s) \in Nat /\ Len(s) <= Len(s)
    BY <1>0
  <2> HIDE DEF Inv
  <2> QED BY <1>4, <2>1
<1> QED BY <1>0, <1>1, <1>5, <1>b

(* A place for size bytes: in one free range and in no avoided range.      *)
Room(list, avoid, addr, size) ==
  /\ addr \in Int
  /\ \E i \in DOMAIN list : /\ list[i].addr <= addr
                            /\ addr + size <= list[i].addr + list[i].size
  /\ \A k \in DOMAIN avoid : Avoided(avoid[k]) \cap (addr .. addr + size - 1) = {}

(* What fits into a candidate is room.                                     *)
LEMMA RoomInCandidate ==
  ASSUME NEW list, Good(list), NEW avoid \in Seq(Fence), NEW size \in Nat \ {0},
         NEW i \in DOMAIN list, NEW addr \in Int,
         Candidate(list[i], avoid).s <= addr, addr + size <= Candidate(list[i], avoid).e
  PROVE  Room(list, avoid, addr, size)
<1> DEFINE q == list[i]
           c == Candidate(q, avoid)
<1>1. q \in Block
  BY DEF Good
<1>2. /\ PartOf(c, q)
      /\ \A k \in DOMAIN avoid : (c.s .. c.e - 1) \cap Avoided(avoid[k]) = {}
  BY <1>1, CandidateRight
<1> HIDE DEF c, q
<1>3. c.s \in Int /\ c.e \in Int /\ c.s <= addr /\ addr + size <= c.e
  BY <1>2 DEF PartOf, Gap, c, q
<1>4. q.addr <= c.s /\ c.e <= q.addr + q.size /\ q.addr \in Int /\ q.size \in Int
  BY <1>1, <1>2, <1>3, BlockInt DEF PartOf, Nowhere
<1>5. addr .. addr + size - 1 \subseteq c.s .. c.e - 1
  BY <1>3
<1> QED BY <1>2, <1>3, <1>4, <1>5 DEF Room, q

(* What find_ram finds is room, and it finds some when there is an entry   *)
(* that no avoided range meets and that holds the request.                 *)
LEMMA FindRam ==
  ASSUME NEW list, Good(list), NEW avoid \in Seq(Fence),
         NEW size \in Nat \ {0}, NEW align \in Nat \ {0}
  PROVE  LET addr == find_ram(list, avoid, size, align)
         IN /\ addr # NULL_PADDR => Room(list, avoid, addr, size)
            /\ addr = NULL_PADDR =>
                 ~ \E i \in DOMAIN list :
                     /\ \A k \in DOMAIN avoid : Avoided(avoid[k]) \cap Extent(list[i]) = {}
                     /\ \E a \in Extent(list[i]) :
                          a % align = 0 /\ a + size <= list[i].addr + list[i].size
<1> DEFINE C(r) == Candidate(r, avoid)
           Addr(r) == ROUND(C(r).s, align)
           I == {i \in 1 .. Len(list) : Addr(list[i]) < C(list[i]).e /\ size <= C(list[i]).e - Addr(list[i])}
           addr == find_ram(list, avoid, size, align)
<1>1. list \in Seq(Block) /\ DOMAIN list = 1 .. Len(list)
  BY DEF Good
<1>2. addr = IF (IF I # {} THEN Min(I) ELSE 0) = 0 THEN NULL_PADDR
             ELSE Addr(list[IF I # {} THEN Min(I) ELSE 0])
  BY DEF find_ram, SelectInSeq
<1>3. ASSUME NEW r \in Block
      PROVE  /\ PartOf(C(r), r) /\ C(r).s \in Int /\ C(r).e \in Int /\ 0 <= C(r).s
             /\ Addr(r) \in Int /\ C(r).s <= Addr(r) /\ Addr(r) # NULL_PADDR
  <2>1. PartOf(C(r), r)
    BY CandidateRight
  <2>2. C(r).s \in Int /\ C(r).e \in Int /\ 0 <= C(r).s
    BY <2>1, BlockInt DEF PartOf, Gap, Nowhere
  <2> QED BY <2>1, <2>2, RoundUp DEF NULL_PADDR
<1> HIDE DEF addr
<1>4. CASE I = {}
  <2>1. addr = NULL_PADDR
    BY <1>2, <1>4
  <2>2. ASSUME NEW i \in DOMAIN list,
               \A k \in DOMAIN avoid : Avoided(avoid[k]) \cap Extent(list[i]) = {},
               NEW a \in Extent(list[i]), a % align = 0, a + size <= list[i].addr + list[i].size
        PROVE  FALSE
    <3> DEFINE q == list[i]
    <3>1. q \in Block /\ q.addr \in Int /\ q.size \in Int
      BY <1>1, BlockInt
    <3>2. C(q).s = q.addr /\ C(q).e = q.addr + q.size
      BY <2>2, <3>1, CandidateRight
    <3>3. a \in Int /\ q.addr <= a
      BY <3>1 DEF Extent
    <3>4. Addr(q) \in Int /\ Addr(q) <= a
      BY <2>2, <3>1, <3>2, <3>3, RoundUp
    <3> HIDE DEF q, Addr, C
    <3>5. Addr(q) < C(q).e /\ size <= C(q).e - Addr(q)
      BY <2>2, <3>1, <3>2, <3>3, <3>4 DEF q
    <3>6. i \in I
      BY <1>1, <3>5 DEF q
    <3> QED BY <1>4, <3>6
  <2> QED BY <2>1, <2>2 DEF addr
<1>5. CASE I # {}
  <2>1. PICK i \in I : addr = Addr(list[i])
    <3>1. I \in SUBSET Nat /\ 0 \notin I
      OBVIOUS
    <3> HIDE DEF I, Addr
    <3>2. Min(I) \in I
      BY <1>5, <3>1, MinExists
    <3> QED BY <1>2, <1>5, <3>1, <3>2
  <2>2. list[i] \in Block /\ i \in DOMAIN list
    BY <1>1
  <2>3. addr \in Int /\ addr # NULL_PADDR /\ C(list[i]).s <= addr /\ addr + size <= C(list[i]).e
    BY <1>3, <2>1, <2>2
  <2>4. Room(list, avoid, addr, size)
    BY <2>2, <2>3, RoomInCandidate
  <2> QED BY <2>3, <2>4 DEF addr
<1> QED BY <1>4, <1>5

(* What find_top_ram_aligned finds is room.                                *)
LEMMA FindTop ==
  ASSUME NEW list, Good(list), NEW avoid \in Seq(Fence),
         NEW asked \in Nat \ {0}, NEW align \in Nat \ {0},
         find_top_ram_aligned(list, avoid, asked, align) # NULL_PADDR
  PROVE  Room(list, avoid, find_top_ram_aligned(list, avoid, asked, align), asked)
<1> DEFINE C(i) == Candidate(list[i], avoid)
           size == ROUND(asked, Page)
           At(i) == TRUNC(C(i).e - size, align)
           J == {j \in DOMAIN list : C(j).e - C(j).s >= size /\ At(j) >= C(j).s}
           tops == {0} \cup {At(i) : i \in J}
           top == CHOOSE t \in tops : \A u \in tops : u <= t
           addr == find_top_ram_aligned(list, avoid, asked, align)
<1>1. addr = IF top = 0 THEN NULL_PADDR ELSE top
  BY DEF find_top_ram_aligned
<1>2. Page \in Nat \ {0}
  BY StartupRamAssumption DEF StartupRamAssumption
<1>3. size \in Int /\ asked <= size
  <2>1. asked \in Int
    OBVIOUS
  <2> QED BY ONLY <1>2, <2>1, RoundUp
<1> HIDE DEF size
<1>4. ASSUME NEW i \in DOMAIN list
      PROVE  /\ C(i).s \in Int /\ C(i).e \in Int /\ 0 <= C(i).s /\ C(i).e <= Top + 1
             /\ At(i) \in Int /\ At(i) <= C(i).e - size
  <2>1. list[i] \in Block
    BY DEF Good
  <2>2. PartOf(C(i), list[i])
    BY <2>1, CandidateRight
  <2>3. C(i).s \in Int /\ C(i).e \in Int /\ 0 <= C(i).s /\ C(i).e <= Top + 1
    BY <2>1, <2>2, TopNat, BlockInt DEF PartOf, Gap, Nowhere
  <2>4. C(i).e - size \in Int
    BY <1>3, <2>3
  <2>5. At(i) \in Int /\ At(i) <= C(i).e - size
    <3> HIDE DEF C
    <3> QED BY ONLY <2>4, RoundDown, align \in Nat \ {0}
  <2> QED BY <2>3, <2>5
<1> HIDE DEF C, At
<1>5. tops \in SUBSET (0 .. Top + 1)
  <2> SUFFICES ASSUME NEW i \in J PROVE At(i) \in 0 .. Top + 1
    BY TopNat
  <2> QED BY <1>3, <1>4, TopNat
<1>6. top \in tops
  <2>1. Top + 1 \in Nat /\ tops # {}
    BY TopNat
  <2> HIDE DEF tops
  <2> QED BY <1>5, <2>1, MaxExists
<1> HIDE DEF top, addr
<1>7. PICK i \in J : addr = At(i)
  BY <1>1, <1>6 DEF addr
<1>8. /\ i \in DOMAIN list /\ addr \in Int
      /\ Candidate(list[i], avoid).s <= addr /\ addr + asked <= Candidate(list[i], avoid).e
  BY <1>3, <1>4, <1>7 DEF C
<1> QED BY <1>8, RoomInCandidate DEF addr

-----------------------------------------------------------------------------
(* The invariant.                                                          *)

(* The addresses that avoid_list keeps.                                    *)
Kept(avoid) == UNION {Avoided(avoid[k]) : k \in DOMAIN avoid}

Told == {z \in Zone : 0 <= z.start /\ z.start <= z.end /\ z.end <= Top}

(* The free list is in shape and lies in RAM that was added.               *)
ListInv == Good(ram_list) /\ Cells(ram_list) \subseteq Cells(ram)

(* Each region is added once.                                              *)
AddedInv ==
  /\ ram \in Seq(Regions)
  /\ \A i, j \in DOMAIN ram : i # j => ram[i] # ram[j]

(* avoid_list covers startup itself, the compressed image and the          *)
(* workspaces behind the image.                                            *)
AvoidInv ==
  /\ avoid_list \in Seq(Fence) /\ avoid_list # <<>>
  /\ ram_paddr .. ram_paddr + startup_size - 1 \subseteq Kept(avoid_list)
  /\ Avoided(Stored) \subseteq Kept(avoid_list)
  /\ Early .. ws_early_next - 1 \subseteq Kept(avoid_list)

(* The workspaces behind the image stay within EarlyRoom.                  *)
EarlyInv ==
  /\ ws_early_next \in Early + 3 .. Top + 1
  /\ \E n \in WsSizes \cup {0} : ws_early_next <= Early + 3 + grants * n

CountInv ==
  /\ temp_syspage \in {NULL_PADDR} \cup (0 .. Top)
  /\ sysram_added \in BOOLEAN /\ crashed \in BOOLEAN
  /\ grants \in 0 .. MaxGrants + 1 /\ (temp_syspage = NULL_PADDR => grants <= MaxGrants)
  /\ late \in 0 .. MaxLate

(* What was handed out lies in RAM that was added or where startup was     *)
(* from the beginning; what of it is still free is kept by avoid_list; and *)
(* the RAM behind the image, once added, is never used up.                 *)
GrantInv ==
  /\ granted \subseteq 0 .. Top /\ twice = {}
  /\ granted \cap Cells(ram_list) \subseteq Kept(avoid_list)
  /\ granted \subseteq Cells(ram) \cup (ram_paddr .. ws_early_next - 1) \cup Avoided(Stored)
  /\ Early \in granted /\ ram_paddr .. Early - 1 \subseteq granted
  /\ Early \in Cells(ram) => Early \in Cells(ram_list)

RamInv == ListInv /\ AddedInv /\ AvoidInv /\ EarlyInv /\ CountInv /\ GrantInv

(* The constants.                                                          *)
LEMMA Constants ==
  /\ Top \in Nat /\ Page \in Nat \ {0} /\ TempSize \in Nat \ {0}
  /\ ram_paddr \in 0 .. Top /\ startup_size \in Nat \ {0} /\ ram_size \in Nat
  /\ ram_size > startup_size /\ Early \in Nat /\ Early + 2 <= Top
  /\ Early = ram_paddr + ram_size
  /\ Regions \subseteq Block /\ Reserved \subseteq Block
  /\ Stored \in Fence /\ MaxGrants \in Nat /\ MaxLate \in Nat
  /\ WsSizes \subseteq Nat \ {0}
  /\ \A ask \in Asks : ask.size \in Nat \ {0} /\ ask.align \in Nat \ {0}
<1> USE StartupRamAssumption DEF StartupRamAssumption
<1>1. Regions \subseteq Block /\ Reserved \subseteq Block
  BY DEF Block, Span, RamEntry
<1>2. Stored \in Fence
  BY DEF Fence, Zone
<1>3. Early \in Nat /\ Early = ram_paddr + ram_size
  BY DEF Early
<1> QED BY <1>1, <1>2, <1>3

(* The addresses that are avoided.                                         *)
LEMMA InKept ==
  \A avoid, x : x \in Kept(avoid) <=> \E k \in DOMAIN avoid : x \in Avoided(avoid[k])
BY DEF Kept

(* Room lies in the free list, outside what is avoided.                    *)
LEMMA RoomGives ==
  ASSUME NEW list, Good(list), NEW avoid, NEW size \in Nat \ {0}, NEW addr,
         Room(list, avoid, addr, size)
  PROVE  /\ addr \in 0 .. Top /\ addr + size <= Top + 1
         /\ addr .. addr + size - 1 \subseteq Cells(list)
         /\ (addr .. addr + size - 1) \cap Kept(avoid) = {}
<1>1. PICK i \in DOMAIN list : list[i].addr <= addr /\ addr + size <= list[i].addr + list[i].size
  BY DEF Room
<1>2. list \in Seq(Block) /\ list \in Seq(Span) /\ list[i] \in Block /\ addr \in Int
  BY BlockSpan DEF Good, Room
<1>3. addr \in 0 .. Top /\ addr + size <= Top + 1
  BY <1>1, <1>2, BlockInt, TopNat
<1>4. addr .. addr + size - 1 \subseteq Cells(list)
  <2>1. addr .. addr + size - 1 \subseteq Extent(list[i])
    BY <1>1, <1>2, BlockInt DEF Extent
  <2> QED BY <2>1 DEF Cells
<1>5. (addr .. addr + size - 1) \cap Kept(avoid) = {}
  BY InKept DEF Room
<1> QED BY <1>3, <1>4, <1>5

(* avoid_ram keeps one more range.                                         *)
LEMMA AvoidRam ==
  ASSUME NEW avoid \in Seq(Fence), avoid # <<>>, NEW start \in 0 .. Top,
         NEW size \in Nat \ {0}, start + size <= Top + 1
  PROVE  /\ avoid_ram(avoid, start, size) \in Seq(Fence)
         /\ avoid_ram(avoid, start, size) # <<>>
         /\ Kept(avoid_ram(avoid, start, size)) = Kept(avoid) \cup (start .. start + size - 1)
<1> DEFINE n == Len(avoid)
           z == Last(avoid)
           new == avoid_ram(avoid, start, size)
<1>1. n \in 1 .. Len(avoid) /\ z = avoid[n] /\ z \in Fence /\ DOMAIN avoid = 1 .. n /\ n \in Nat
  BY DEF Last
<1>2. /\ z.start \in Int /\ z.end \in Int /\ 0 <= z.start /\ z.start < z.end
      /\ z.start <= Top /\ z.end <= Top + 1
  BY <1>1, FenceInt
<1>3. CASE z.end = start
  <2> DEFINE v == [z EXCEPT !.end = z.end + size]
  <2>1. new = [avoid EXCEPT ![n] = v]
    BY <1>1, <1>3 DEF avoid_ram
  <2>2. v \in Fence /\ v.start = z.start /\ v.end = z.end + size
    BY <1>1, <1>2, <1>3, TopNat DEF Fence, Zone
  <2> HIDE DEF v, new
  <2>3. /\ new \in Seq(Fence) /\ Len(new) = n /\ new # <<>>
        /\ DOMAIN new = 1 .. n /\ new[n] = v /\ \A k \in 1 .. n : k # n => new[k] = avoid[k]
    BY <1>1, <2>1, <2>2, ExceptSeq
  <2>4. Avoided(v) = Avoided(z) \cup (start .. start + size - 1)
    BY <1>2, <1>3, <2>2 DEF Avoided
  <2>5. ASSUME NEW x PROVE x \in Kept(new) <=> x \in Kept(avoid) \cup (start .. start + size - 1)
    BY <1>1, <2>3, <2>4, InKept
  <2> QED BY <2>3, <2>5 DEF new
<1>4. CASE z.end # start
  <2> DEFINE v == [start |-> start, end |-> start + size]
  <2>1. new = Append(avoid, v)
    BY <1>4 DEF avoid_ram
  <2>2. v \in Fence /\ Avoided(v) = start .. start + size - 1
    BY TopNat DEF Fence, Zone, Avoided
  <2> HIDE DEF v, new
  <2>3. /\ new \in Seq(Fence) /\ Len(new) = n + 1 /\ new # <<>>
        /\ DOMAIN new = 1 .. n + 1 /\ new[n + 1] = v /\ \A k \in 1 .. n : new[k] = avoid[k]
    BY <1>1, <2>1, <2>2
  <2>4. 1 .. n + 1 = (1 .. n) \cup {n + 1}
    BY <1>1
  <2>5. ASSUME NEW x PROVE x \in Kept(new) <=> x \in Kept(avoid) \cup (start .. start + size - 1)
    BY <1>1, <2>2, <2>3, <2>4, InKept
  <2> QED BY <2>3, <2>5 DEF new
<1> QED BY <1>3, <1>4

(* The invariant holds when main() is called.                              *)
LEMMA RamInit ==
  ASSUME Init PROVE RamInv
<1> USE Constants
<1> DEFINE base == <<[start |-> Early, end |-> Early + 2],
                     [start |-> ram_paddr, end |-> ram_paddr + startup_size],
                     [start |-> Early + 2, end |-> Early + 3]>>
<1>1. Good(<<>>) /\ Cells(<<>>) = {}
  BY DEF Good, Apart, Cells
<1>2. base \in Seq(Fence) /\ base # <<>>
  <2>1. /\ [start |-> Early, end |-> Early + 2] \in Fence
        /\ [start |-> ram_paddr, end |-> ram_paddr + startup_size] \in Fence
        /\ [start |-> Early + 2, end |-> Early + 3] \in Fence
    BY DEF Fence, Zone
  <2> QED BY <2>1
<1>3. Kept(base) = (Early .. Early + 2) \cup (ram_paddr .. ram_paddr + startup_size - 1)
  <2>1. /\ DOMAIN base = {1, 2, 3} /\ base[1] = [start |-> Early, end |-> Early + 2]
        /\ base[2] = [start |-> ram_paddr, end |-> ram_paddr + startup_size]
        /\ base[3] = [start |-> Early + 2, end |-> Early + 3]
    OBVIOUS
  <2> HIDE DEF base
  <2>2. /\ Avoided(base[1]) = Early .. Early + 1
        /\ Avoided(base[2]) = ram_paddr .. ram_paddr + startup_size - 1
        /\ Avoided(base[3]) = Early + 2 .. Early + 2
    BY <2>1 DEF Avoided
  <2>3. Kept(base) = (Early .. Early + 1) \cup (ram_paddr .. ram_paddr + startup_size - 1) \cup (Early + 2 .. Early + 2)
    BY <2>1, <2>2 DEF Kept
  <2>4. (Early .. Early + 1) \cup (Early + 2 .. Early + 2) = Early .. Early + 2
    OBVIOUS
  <2> QED BY <2>3, <2>4
<1> HIDE DEF base
<1>4. /\ avoid_list \in Seq(Fence) /\ avoid_list # <<>>
      /\ Kept(avoid_list) = Kept(base) \cup Avoided(Stored)
  <2>1. /\ Stored.start \in 0 .. Top /\ Stored.end - Stored.start \in Nat \ {0}
        /\ Stored.start + (Stored.end - Stored.start) <= Top + 1
        /\ Stored.start + (Stored.end - Stored.start) = Stored.end
    BY FenceInt
  <2>2. avoid_list = avoid_ram(base, Stored.start, Stored.end - Stored.start)
    BY DEF Init, base
  <2>3. /\ avoid_list \in Seq(Fence) /\ avoid_list # <<>>
        /\ Kept(avoid_list) = Kept(base) \cup
             (Stored.start .. Stored.start + (Stored.end - Stored.start) - 1)
    BY ONLY <1>2, <2>1, <2>2, AvoidRam
  <2> QED BY <2>1, <2>3 DEF Avoided
<1>5. ListInv /\ AddedInv
  BY <1>1 DEF Init, ListInv, AddedInv
<1>6. AvoidInv
  <2>1. ws_early_next - 1 = Early + 2
    BY DEF Init
  <2> QED BY <1>3, <1>4, <2>1 DEF AvoidInv
<1>7. EarlyInv
  <2>1. ws_early_next = Early + 3 /\ grants = 0
    BY DEF Init
  <2>2. ws_early_next <= Early + 3 + grants * 0
    BY <2>1
  <2> QED BY <2>1, <2>2 DEF EarlyInv
<1>8. CountInv
  <2>1. sysram_added \in BOOLEAN /\ crashed \in BOOLEAN /\ temp_syspage = NULL_PADDR
    BY DEF Init
  <2>2. grants = 0 /\ late = 0
    BY DEF Init
  <2> QED BY <2>1, <2>2 DEF CountInv
<1>9. GrantInv
  <2>1. /\ granted = (ram_paddr .. Early + 2) \cup Avoided(Stored) /\ twice = {}
        /\ ram_list = <<>> /\ ram = <<>> /\ ws_early_next = Early + 3
    BY DEF Init
  <2>2. Avoided(Stored) \subseteq 0 .. Top
    BY FenceInt DEF Avoided
  <2>3. ram_paddr .. Early + 2 \subseteq 0 .. Top /\ Early \in ram_paddr .. Early + 2
    OBVIOUS
  <2>4. ws_early_next - 1 = Early + 2
    BY <2>1
  <2> QED BY <1>1, <2>1, <2>2, <2>3, <2>4 DEF GrantInv
<1> QED BY <1>5, <1>6, <1>7, <1>8, <1>9 DEF RamInv

(* A product grows with its factors.                                       *)
LEMMA Monotone ==
  ASSUME NEW a \in Nat, NEW b \in Nat, NEW n \in Nat, NEW m \in Nat, a <= b, n <= m
  PROVE  a * n \in Nat /\ b * m \in Nat /\ a * n <= b * m
<1>1. a * n \in Nat /\ a * m \in Nat /\ b * m \in Nat
  OBVIOUS
<1>2. a * n <= a * m
  OBVIOUS
<1>3. a * m <= b * m
  OBVIOUS
<1> QED BY <1>1, <1>2, <1>3

(* The bound on the early workspaces survives further allocations.         *)
LEMMA EarlyKept ==
  ASSUME EarlyInv, grants \in Nat, grants' \in Nat, grants <= grants',
         ws_early_next' = ws_early_next
  PROVE  EarlyInv'
<1> USE Constants
<1>1. PICK n \in WsSizes \cup {0} : ws_early_next <= Early + 3 + grants * n
  BY DEF EarlyInv
<1>2. n \in Nat /\ ws_early_next \in Int
  BY DEF EarlyInv
<1> DEFINE p == grants * n
           q == grants' * n
<1>3. p \in Nat /\ q \in Nat /\ p <= q
  <2>1. n <= n
    BY <1>2
  <2> QED BY ONLY <1>2, <2>1, grants \in Nat, grants' \in Nat, grants <= grants', Monotone
<1>4. ws_early_next <= Early + 3 + p
  BY <1>1
<1> HIDE DEF p, q
<1>5. ws_early_next' <= Early + 3 + q
  BY <1>2, <1>3, <1>4
<1> QED BY <1>5 DEF EarlyInv, q

(* An allocation is counted within the bounds.                             *)
LEMMA Counted ==
  ASSUME CountInv, NEW addr, NEW size, Grant(addr, size),
         Building \/ (Running /\ sysram_added /\ late < MaxLate),
         crashed' \in BOOLEAN, UNCHANGED <<temp_syspage, sysram_added>>
  PROVE  CountInv' /\ grants \in Nat /\ grants' \in Nat /\ grants <= grants'
<1> USE Constants
<1>1. /\ grants \in Nat /\ late \in Nat /\ grants <= MaxGrants + 1 /\ late <= MaxLate
      /\ temp_syspage = NULL_PADDR => grants <= MaxGrants
      /\ temp_syspage \in {NULL_PADDR} \cup (0 .. Top)
  BY DEF CountInv
<1>2. CASE sysram_added
  <2>1. grants' = grants /\ late' = late + 1 /\ late < MaxLate
    BY <1>2 DEF Grant, Building
  <2>2. grants' \in 0 .. MaxGrants + 1 /\ late' \in 0 .. MaxLate /\ grants <= grants'
    BY <1>1, <2>1
  <2>3. temp_syspage' = NULL_PADDR => grants' <= MaxGrants
    BY <1>1, <2>1
  <2> QED BY <1>1, <2>1, <2>2, <2>3 DEF CountInv
<1>3. CASE ~ sysram_added
  <2>1. grants' = grants + 1 /\ late' = late /\ grants < MaxGrants
    BY <1>3 DEF Grant, Building
  <2>2. grants' \in 0 .. MaxGrants + 1 /\ late' \in 0 .. MaxLate /\ grants <= grants' /\ grants' <= MaxGrants
    BY <1>1, <2>1
  <2> QED BY <1>1, <2>2 DEF CountInv
<1> QED BY <1>2, <1>3 DEF CountInv

(* Taking a range out of the list: what was handed out before stays apart, *)
(* and the RAM behind the image stays in the list.                         *)
LEMMA TakeKeeps ==
  ASSUME RamInv, NEW addr \in Int, NEW size \in Nat \ {0}, alloc_at(addr, size),
         UNCHANGED <<avoid_list, ws_early_next, temp_syspage, ram, sysram_added>>,
         Early \notin addr .. addr + size - 1, twice' = {},
         \/ granted' = granted
         \/ /\ granted' = granted \cup (addr .. addr + size - 1)
            /\ addr .. addr + size - 1 \subseteq Cells(ram)
            /\ addr .. addr + size - 1 \subseteq 0 .. Top
  PROVE  /\ Cells(ram_list)' = Cells(ram_list) \ (addr .. addr + size - 1)
         /\ ListInv' /\ AddedInv' /\ AvoidInv' /\ GrantInv'
<1> DEFINE hole == addr .. addr + size - 1
<1>1. Good(ram_list) /\ Good(ram_list)' /\ Cells(ram_list)' = Cells(ram_list) \ hole
  BY TakenRight DEF RamInv, ListInv, alloc_at
<1>2. /\ Cells(ram)' = Cells(ram) /\ Kept(avoid_list)' = Kept(avoid_list)
      /\ ws_early_next' = ws_early_next
  OBVIOUS
<1>3. ListInv' /\ AddedInv' /\ AvoidInv'
  BY <1>1, <1>2 DEF RamInv, ListInv, AddedInv, AvoidInv
<1> HIDE DEF hole
<1>4. GrantInv'
  BY <1>1, <1>2 DEF RamInv, GrantInv, hole
<1> QED BY <1>1, <1>3, <1>4 DEF hole

(* Room in the list is not handed out, and not the early workspace.        *)
LEMMA RoomIsFree ==
  ASSUME RamInv, NEW addr, NEW size \in Nat \ {0}, Room(ram_list, avoid_list, addr, size)
  PROVE  /\ addr \in 0 .. Top /\ addr + size <= Top + 1
         /\ addr .. addr + size - 1 \subseteq Cells(ram)
         /\ (addr .. addr + size - 1) \cap granted = {}
         /\ Early \notin addr .. addr + size - 1
<1> DEFINE block == addr .. addr + size - 1
<1>1. /\ addr \in 0 .. Top /\ addr + size <= Top + 1
      /\ block \subseteq Cells(ram_list) /\ block \cap Kept(avoid_list) = {}
  BY RoomGives DEF RamInv, ListInv
<1>2. Early \in Kept(avoid_list)
  <2>1. Early \in Early .. ws_early_next - 1
    BY Constants DEF RamInv, EarlyInv
  <2> QED BY <2>1 DEF RamInv, AvoidInv
<1> HIDE DEF block
<1>3. block \subseteq Cells(ram) /\ block \cap granted = {} /\ Early \notin block
  BY <1>1, <1>2 DEF RamInv, ListInv, GrantInv
<1> QED BY <1>1, <1>3 DEF block

(* Handing out room that a search has found keeps the invariant and takes  *)
(* it from the free addresses.                                             *)
LEMMA GrantRoom ==
  ASSUME RamInv, NEW addr, NEW size \in Nat \ {0}, Room(ram_list, avoid_list, addr, size),
         alloc_at(addr, size), Grant(addr, size),
         Building \/ (Running /\ sysram_added /\ late < MaxLate),
         UNCHANGED <<avoid_list, ws_early_next, temp_syspage, ram, sysram_added>>
  PROVE  RamInv' /\ Cells(ram_list)' = Cells(ram_list) \ (addr .. addr + size - 1)
<1> DEFINE block == addr .. addr + size - 1
<1>1. /\ addr \in 0 .. Top /\ addr + size <= Top + 1 /\ block \subseteq Cells(ram)
      /\ block \cap granted = {} /\ Early \notin block
  BY RoomIsFree
<1>2. addr \in Int /\ block \subseteq 0 .. Top
  BY <1>1, TopNat
<1>3. granted' = granted \cup block /\ twice' = {}
  <2>1. Extent(Entry(addr, size)) = block
    BY DEF Extent, Entry
  <2> HIDE DEF block
  <2> QED BY <1>1, <2>1 DEF Grant, RamInv, GrantInv
<1>4. /\ ListInv' /\ AddedInv' /\ AvoidInv' /\ GrantInv'
      /\ Cells(ram_list)' = Cells(ram_list) \ block
  BY <1>1, <1>2, <1>3, TakeKeeps
<1>5. crashed' \in BOOLEAN
  BY DEF alloc_at, Vanishes
<1>6. CountInv' /\ grants \in Nat /\ grants' \in Nat /\ grants <= grants'
  BY <1>5, Counted DEF RamInv
<1>7. EarlyInv'
  BY <1>6, EarlyKept DEF RamInv
<1> QED BY <1>4, <1>6, <1>7 DEF RamInv

-----------------------------------------------------------------------------
(* The operations: each keeps the invariant, and what it does to the set   *)
(* of free addresses.                                                      *)

(* Free addresses lie in memory.                                           *)
LEMMA CellsBound ==
  ASSUME NEW list, Good(list)
  PROVE  Cells(list) \subseteq 0 .. Top
<1>1. list \in Seq(Span) /\ \A i \in DOMAIN list : list[i] \in Block
  BY BlockSpan DEF Good
<1> QED BY <1>1, InCells, BlockInt, TopNat

(* Taking a range and handing out exactly this range is a step of FreeRam. *)
LEMMA TakeIsFreeStep ==
  ASSUME NEW addr \in 0 .. Top, NEW size \in Nat \ {0}, addr + size <= Top + 1,
         Cells(ram_list)' = Cells(ram_list) \ (addr .. addr + size - 1),
         granted' = granted \cup (addr .. addr + size - 1)
  PROVE  Free!Take
<1>1. addr + size - 1 \in 0 .. Top
  BY TopNat
<1> QED BY <1>1 DEF Free!Take, Free!Given

(* Handing out a range, or nothing.                                        *)
LEMMA HandOut ==
  ASSUME NEW addr \in 0 .. Top, NEW size \in Nat \ {0}, addr + size <= Top + 1,
         Grant(addr, size)
  PROVE  /\ granted' = granted \cup (addr .. addr + size - 1)
         /\ \E s, e \in 0 .. Top : Free!Given(s, e)
<1>1. granted' = granted \cup (addr .. addr + size - 1)
  BY DEF Grant, Extent, Entry
<1>2. addr + size - 1 \in 0 .. Top
  BY TopNat
<1> QED BY <1>1, <1>2 DEF Free!Given

LEMMA HandOutNone ==
  ASSUME granted' = granted
  PROVE  \E s, e \in 0 .. Top : Free!Given(s, e)
<1>1. 0 \in 0 .. Top /\ 1 \in 0 .. Top /\ 1 .. 0 = {}
  BY Constants
<1>2. granted' = granted \cup (1 .. 0)
  BY <1>1
<1> QED BY <1>1, <1>2 DEF Free!Given

(* alloc_ram without an address.                                           *)
LEMMA AllocRam ==
  ASSUME RamInv, NEW ask \in Asks, alloc_ram(ask)
  PROVE  RamInv' /\ Free!Take
<1> DEFINE addr == find_ram(ram_list, avoid_list, ask.size, ask.align)
<1>1. ask.size \in Nat \ {0} /\ ask.align \in Nat \ {0}
  BY Constants
<1>2. Room(ram_list, avoid_list, addr, ask.size)
  BY <1>1, FindRam DEF alloc_ram, RamInv, ListInv, AvoidInv
<1> HIDE DEF addr
<1>3. /\ alloc_at(addr, ask.size) /\ Grant(addr, ask.size)
      /\ Building \/ (Running /\ sysram_added /\ late < MaxLate)
      /\ UNCHANGED <<avoid_list, ws_early_next, temp_syspage, ram, sysram_added>>
  BY DEF alloc_ram, addr
<1>4. RamInv' /\ Cells(ram_list)' = Cells(ram_list) \ (addr .. addr + ask.size - 1)
  BY <1>1, <1>2, <1>3, GrantRoom
<1>5. addr \in 0 .. Top /\ addr + ask.size <= Top + 1
  BY <1>1, <1>2, RoomIsFree
<1>6. granted' = granted \cup (addr .. addr + ask.size - 1)
  BY <1>1, <1>3, <1>5, HandOut
<1> QED BY <1>1, <1>4, <1>5, <1>6, TakeIsFreeStep

(* reserve_ram, with room or crashing.                                     *)
LEMMA ReserveRam ==
  ASSUME RamInv, NEW ask \in Asks, reserve_ram(ask)
  PROVE  RamInv' /\ (Free!Take \/ UNCHANGED <<Cells(ram_list), granted>>)
<1> DEFINE addr == find_top_ram_aligned(ram_list, avoid_list, ask.size, ask.align)
<1>1. ask.size \in Nat \ {0} /\ ask.align \in Nat \ {0}
  BY Constants
<1>2. CASE addr = NULL_PADDR
  <2>1. /\ crashed' = TRUE
        /\ UNCHANGED <<ram_list, avoid_list, ws_early_next, temp_syspage, ram, sysram_added>>
        /\ UNCHANGED <<granted, twice, grants, late>>
    BY <1>2 DEF reserve_ram, GrantNone
  <2>2. ListInv' /\ AddedInv' /\ AvoidInv' /\ EarlyInv' /\ GrantInv'
    BY <2>1 DEF RamInv, ListInv, AddedInv, AvoidInv, EarlyInv, GrantInv
  <2>3. CountInv'
    BY <2>1 DEF RamInv, CountInv
  <2> QED BY <2>1, <2>2, <2>3 DEF RamInv
<1>3. CASE addr # NULL_PADDR
  <2>1. Room(ram_list, avoid_list, addr, ask.size)
    BY <1>1, <1>3, FindTop DEF RamInv, ListInv, AvoidInv
  <2>2. /\ alloc_at(addr, ask.size) /\ Grant(addr, ask.size) /\ Building
        /\ UNCHANGED <<avoid_list, ws_early_next, temp_syspage, ram, sysram_added>>
    BY <1>3 DEF reserve_ram
  <2> HIDE DEF addr
  <2>3. RamInv' /\ Cells(ram_list)' = Cells(ram_list) \ (addr .. addr + ask.size - 1)
    BY <1>1, <2>1, <2>2, GrantRoom
  <2>4. addr \in 0 .. Top /\ addr + ask.size <= Top + 1
    BY <1>1, <2>1, RoomIsFree
  <2>5. granted' = granted \cup (addr .. addr + ask.size - 1)
    BY <1>1, <2>2, <2>4, HandOut
  <2> QED BY <1>1, <2>3, <2>4, <2>5, TakeIsFreeStep
<1> QED BY <1>2, <1>3

(* alloc_ram of the image in main().                                       *)
LEMMA AllocImage ==
  ASSUME RamInv, alloc_image
  PROVE  RamInv' /\ Free!Take
<1> USE Constants
<1>1. /\ alloc_at(ram_paddr, ram_size) /\ UNCHANGED <<granted, twice, grants, late>>
      /\ UNCHANGED <<avoid_list, ws_early_next, temp_syspage, ram, sysram_added>>
  BY DEF alloc_image, GrantNone
<1>2. ram_paddr \in Int /\ ram_size \in Nat \ {0} /\ Early \notin ram_paddr .. ram_paddr + ram_size - 1
  OBVIOUS
<1>3. twice' = {} /\ granted' = granted
  BY <1>1 DEF RamInv, GrantInv
<1>4. /\ ListInv' /\ AddedInv' /\ AvoidInv' /\ GrantInv'
      /\ Cells(ram_list)' = Cells(ram_list) \ (ram_paddr .. ram_paddr + ram_size - 1)
  BY <1>1, <1>2, <1>3, TakeKeeps
<1>5. crashed' \in BOOLEAN
  BY <1>1 DEF alloc_at, Vanishes
<1>6. CountInv'
  BY <1>1, <1>5 DEF RamInv, CountInv
<1>7. EarlyInv'
  BY <1>1 DEF RamInv, EarlyInv
<1>8. granted' = granted \cup (ram_paddr .. ram_paddr + ram_size - 1)
  <2>1. ram_paddr .. ram_paddr + ram_size - 1 = ram_paddr .. Early - 1
    OBVIOUS
  <2> QED BY <1>1, <2>1 DEF RamInv, GrantInv
<1>9. ram_paddr \in 0 .. Top /\ ram_paddr + ram_size <= Top + 1
  OBVIOUS
<1>10. Free!Take
  BY <1>2, <1>4, <1>8, <1>9, TakeIsFreeStep
<1> QED BY <1>4, <1>6, <1>7, <1>10 DEF RamInv

(* alloc_ram at an address that the board reserves.                        *)
LEMMA AllocReserved ==
  ASSUME RamInv, NEW r \in Reserved, alloc_reserved(r)
  PROVE  RamInv' /\ Free!Take
<1> USE Constants
<1> DEFINE block == r.addr .. r.addr + r.size - 1
<1>1. /\ alloc_at(r.addr, r.size) /\ Grant(r.addr, r.size) /\ Building
      /\ UNCHANGED <<avoid_list, ws_early_next, temp_syspage, ram, sysram_added>>
      /\ Extent(r) \subseteq Cells(ram) /\ granted \cap Extent(r) = {}
  BY DEF alloc_reserved
<1>2. /\ r.addr \in 0 .. Top /\ r.addr \in Int /\ r.size \in Nat \ {0} /\ block \subseteq 0 .. Top
  BY BlockInt
<1>3. Extent(r) = block /\ Extent(Entry(r.addr, r.size)) = block
  BY DEF Extent, Entry
<1> HIDE DEF block
<1>4. /\ granted' = granted \cup block /\ twice' = {} /\ Early \notin block
      /\ block \subseteq Cells(ram)
  BY <1>1, <1>3 DEF Grant, RamInv, GrantInv
<1>5. /\ ListInv' /\ AddedInv' /\ AvoidInv' /\ GrantInv'
      /\ Cells(ram_list)' = Cells(ram_list) \ block
  BY <1>1, <1>2, <1>4, TakeKeeps DEF block
<1>6. crashed' \in BOOLEAN
  BY <1>1 DEF alloc_at, Vanishes
<1>7. CountInv' /\ grants \in Nat /\ grants' \in Nat /\ grants <= grants'
  BY <1>1, <1>6, Counted DEF RamInv
<1>8. EarlyInv'
  BY <1>1, <1>7, EarlyKept DEF RamInv
<1>9. Free!Take
  <2>1. r.addr + r.size <= Top + 1
    BY StartupRamAssumption DEF StartupRamAssumption
  <2> QED BY <1>2, <1>4, <1>5, <2>1, TakeIsFreeStep DEF block
<1> QED BY <1>5, <1>7, <1>8, <1>9 DEF RamInv

(* The addresses of a list with one more range.                            *)
LEMMA CellsAppend ==
  ASSUME NEW S, NEW l \in Seq(S), NEW v \in S
  PROVE  Cells(Append(l, v)) = Cells(l) \cup Extent(v)
<1>1. /\ DOMAIN Append(l, v) = (1 .. Len(l)) \cup {Len(l) + 1} /\ DOMAIN l = 1 .. Len(l)
      /\ \A i \in 1 .. Len(l) : Append(l, v)[i] = l[i]
      /\ Append(l, v)[Len(l) + 1] = v
  OBVIOUS
<1> QED BY <1>1 DEF Cells

(* A region that is added: what of it was handed out before, startup and   *)
(* its workspaces, is kept by avoid_list.                                  *)
LEMMA RegionAdded ==
  ASSUME RamInv, NEW r \in Regions, add_ram(r), NEW list,
         list = Taken(add_mem(ram_list, r.addr, r.size), ram_paddr + startup_size, ram_size - startup_size)
  PROVE  /\ Good(list) /\ Cells(list) = (Cells(ram_list) \cup Extent(r)) \ Image
         /\ Cells(ram)' = Cells(ram) \cup Extent(r)
         /\ AddedInv'
         /\ granted \cap Cells(list) \subseteq Kept(avoid_list)
         /\ Early \in Cells(ram)' => Early \in Cells(list)
<1> USE Constants
<1> DEFINE added == add_mem(ram_list, r.addr, r.size)
           a == ram_paddr + startup_size
           n == ram_size - startup_size
<1>1. Good(added) /\ Cells(added) = Cells(ram_list) \cup Extent(r)
  BY AddMem DEF RamInv, ListInv
<1>2. a \in Int /\ n \in Nat \ {0} /\ a .. a + n - 1 = Image
  BY DEF Image
<1>3. Good(list) /\ Cells(list) = (Cells(ram_list) \cup Extent(r)) \ Image
  <2> HIDE DEF added, a, n
  <2>1. Good(Taken(added, a, n)) /\ Cells(Taken(added, a, n)) = Cells(added) \ (a .. a + n - 1)
    BY <1>1, <1>2, TakenRight
  <2>2. list = Taken(added, a, n)
    BY DEF added, a, n
  <2> QED BY <1>1, <1>2, <2>1, <2>2
<1>4. ram' = Append(ram, r) /\ ram \in Seq(Regions) /\ \A i \in DOMAIN ram : ram[i] # r /\ ram[i] \in Regions
  BY DEF add_ram, ToSet, RamInv, AddedInv
<1>5. Cells(ram)' = Cells(ram) \cup Extent(r)
  BY <1>4, CellsAppend
<1>6. AddedInv'
  <2>1. /\ ram' \in Seq(Regions) /\ DOMAIN ram' = 1 .. Len(ram) + 1 /\ DOMAIN ram = 1 .. Len(ram)
        /\ \A i \in 1 .. Len(ram) : ram'[i] = ram[i]
        /\ ram'[Len(ram) + 1] = r /\ Len(ram) \in Nat
    BY <1>4
  <2>2. \A i \in 1 .. Len(ram) + 1 : i \in 1 .. Len(ram) \/ i = Len(ram) + 1
    BY <2>1
  <2> QED BY <1>4, <2>1, <2>2 DEF RamInv, AddedInv
<1>7. Extent(r) \cap Cells(ram) = {}
  <2>1. \A i \in DOMAIN ram : Extent(r) \cap Extent(ram[i]) = {}
    BY <1>4, StartupRamAssumption DEF StartupRamAssumption
  <2> QED BY <2>1 DEF Cells
<1>8. ASSUME NEW x \in granted \cap Cells(list) PROVE x \in Kept(avoid_list)
  <2>1. CASE x \in Cells(ram_list)
    BY <2>1 DEF RamInv, GrantInv
  <2>2. CASE x \notin Cells(ram_list)
    <3>1. x \in Extent(r) /\ x \notin Image /\ x \notin Cells(ram)
      BY <1>3, <1>7, <1>8, <2>2
    <3>2. x \in ram_paddr .. ws_early_next - 1 \/ x \in Avoided(Stored)
      BY <1>8, <3>1 DEF RamInv, GrantInv
    <3>3. CASE x \in Avoided(Stored)
      BY <3>3 DEF RamInv, AvoidInv
    <3>4. CASE x \in ram_paddr .. ws_early_next - 1
      <4>1. x \in ram_paddr .. ram_paddr + startup_size - 1 \/ x \in Early .. ws_early_next - 1
        BY <3>1, <3>4 DEF Image, RamInv, EarlyInv
      <4> QED BY <4>1 DEF RamInv, AvoidInv
    <3> QED BY <3>2, <3>3, <3>4
  <2> QED BY <2>1, <2>2
<1>9. Early \in Cells(ram)' => Early \in Cells(list)
  <2>1. Early \notin Image
    BY DEF Image
  <2> QED BY <1>3, <1>5, <2>1 DEF RamInv, GrantInv
<1> QED BY <1>3, <1>5, <1>6, <1>8, <1>9

(* add_ram, with the temporary system page when there is room for the first*)
(* time.                                                                   *)
LEMMA AddRam ==
  ASSUME RamInv, NEW r \in Regions, add_ram(r)
  PROVE  RamInv' /\ Free!Add
<1> USE Constants
<1> DEFINE list == Taken(add_mem(ram_list, r.addr, r.size), ram_paddr + startup_size, ram_size - startup_size)
           temp == find_ram(list, avoid_list, TempSize, Page)
           block == temp .. temp + TempSize - 1
<1>1. /\ Good(list) /\ Cells(list) = (Cells(ram_list) \cup Extent(r)) \ Image
      /\ Cells(ram)' = Cells(ram) \cup Extent(r) /\ AddedInv'
      /\ granted \cap Cells(list) \subseteq Kept(avoid_list)
      /\ Early \in Cells(ram)' => Early \in Cells(list)
  BY RegionAdded
<1>2. ram_list' = list /\ UNCHANGED <<ws_early_next, sysram_added, crashed>>
  BY DEF add_ram
<1>t. (temp_syspage = NULL_PADDR /\ temp # NULL_PADDR) =>
         /\ temp_syspage' = temp
         /\ avoid_list' = avoid_ram(avoid_list, temp, TempSize)
         /\ Grant(temp, TempSize)
  BY DEF add_ram
<1>u. ~ (temp_syspage = NULL_PADDR /\ temp # NULL_PADDR) =>
         UNCHANGED <<temp_syspage, avoid_list>> /\ UNCHANGED <<granted, twice, grants, late>>
  BY DEF add_ram, GrantNone
<1>f. temp # NULL_PADDR => Room(list, avoid_list, temp, TempSize)
  <2> HIDE DEF list
  <2> QED BY <1>1, FindRam DEF RamInv, AvoidInv
<1>3. Free!Add
  <2>1. \E s, e \in 0 .. Top : Free!Given(s, e)
    <3> HIDE DEF list, temp
    <3>1. CASE temp_syspage = NULL_PADDR /\ temp # NULL_PADDR
      <4>1. temp \in 0 .. Top /\ temp + TempSize <= Top + 1
        BY <1>1, <1>f, <3>1, RoomGives
      <4> QED BY <1>t, <3>1, <4>1, HandOut
    <3> QED BY <1>u, <3>1, HandOutNone
  <2> QED BY <1>1, <1>2, <2>1 DEF Free!Add
<1> HIDE DEF list, temp
<1>4. ListInv'
  <2>1. Cells(list) \subseteq Cells(ram)'
    BY <1>1 DEF RamInv, ListInv
  <2> QED BY <1>1, <1>2, <2>1 DEF ListInv
<1>5. CASE ~ (temp_syspage = NULL_PADDR /\ temp # NULL_PADDR)
  <2>1. /\ UNCHANGED <<temp_syspage, avoid_list, ws_early_next, sysram_added, crashed>>
        /\ UNCHANGED <<granted, twice, grants, late>>
    BY <1>2, <1>5, <1>u
  <2>2. AvoidInv' /\ EarlyInv'
    BY <2>1 DEF RamInv, AvoidInv, EarlyInv
  <2>3. CountInv'
    BY <2>1 DEF RamInv, CountInv
  <2>4. GrantInv'
    BY <1>1, <1>2, <2>1 DEF RamInv, GrantInv
  <2> QED BY <1>1, <1>3, <1>4, <2>2, <2>3, <2>4 DEF RamInv
<1>6. CASE temp_syspage = NULL_PADDR /\ temp # NULL_PADDR
  <2>1. /\ temp_syspage' = temp /\ avoid_list' = avoid_ram(avoid_list, temp, TempSize)
        /\ Grant(temp, TempSize)
    BY <1>6, <1>t
  <2>2. /\ temp \in 0 .. Top /\ temp + TempSize <= Top + 1
        /\ block \subseteq Cells(list) /\ block \cap Kept(avoid_list) = {}
    BY <1>1, <1>6, <1>f, RoomGives
  <2>3. /\ avoid_list' \in Seq(Fence) /\ avoid_list' # <<>>
        /\ Kept(avoid_list)' = Kept(avoid_list) \cup block
    BY <2>1, <2>2, AvoidRam DEF RamInv, AvoidInv
  <2>4. AvoidInv'
    BY <1>2, <2>3 DEF RamInv, AvoidInv
  <2>5. Extent(Entry(temp, TempSize)) = block /\ block \subseteq 0 .. Top
    BY <2>2 DEF Extent, Entry
  <2> HIDE DEF block
  <2>6. block \cap granted = {}
    BY <1>1, <2>2
  <2>7. granted' = granted \cup block /\ twice' = {}
    BY <2>1, <2>5, <2>6 DEF Grant, RamInv, GrantInv
  <2>8. block \subseteq Cells(ram)'
    BY <1>2, <1>4, <2>2 DEF ListInv
  <2>9. GrantInv'
    BY <1>1, <1>2, <2>3, <2>5, <2>7, <2>8 DEF RamInv, GrantInv
  <2>10. /\ grants \in Nat /\ grants <= MaxGrants /\ late \in 0 .. MaxLate
         /\ sysram_added \in BOOLEAN /\ crashed \in BOOLEAN
    BY <1>6 DEF RamInv, CountInv
  <2>11. sysram_added = FALSE
    BY <2>10 DEF add_ram
  <2>12. grants' = grants + 1 /\ late' = late
    BY <2>1, <2>11 DEF Grant
  <2>13. CountInv'
    <3>1. temp_syspage' # NULL_PADDR /\ temp_syspage' \in 0 .. Top
      BY <1>6, <2>1, <2>2
    <3>2. grants' \in 0 .. MaxGrants + 1 /\ late' \in 0 .. MaxLate
      BY <2>10, <2>12
    <3> QED BY <1>2, <2>10, <3>1, <3>2 DEF CountInv
  <2>14. EarlyInv'
    <3>1. grants' \in Nat /\ grants <= grants'
      BY <2>10, <2>12
    <3> QED BY <1>2, <2>10, <3>1, EarlyKept DEF RamInv
  <2> QED BY <1>1, <1>3, <1>4, <2>4, <2>9, <2>13, <2>14 DEF RamInv
<1> QED BY <1>5, <1>6

(* add_sysram leaves the lists alone.                                      *)
LEMMA AddSysram ==
  ASSUME RamInv, add_sysram
  PROVE  RamInv' /\ UNCHANGED <<Cells(ram_list), granted>>
<1>1. /\ UNCHANGED <<ram_list, avoid_list, ws_early_next, temp_syspage, ram, crashed>>
      /\ UNCHANGED <<granted, twice, grants, late>> /\ sysram_added' = TRUE
  BY DEF add_sysram, GrantNone
<1>2. ListInv' /\ AddedInv' /\ AvoidInv' /\ EarlyInv' /\ GrantInv'
  BY <1>1 DEF RamInv, ListInv, AddedInv, AvoidInv, EarlyInv, GrantInv
<1>3. CountInv'
  BY <1>1 DEF RamInv, CountInv
<1> QED BY <1>1, <1>2, <1>3 DEF RamInv

(* A workspace in the list stays there, and is avoided from then on.       *)
LEMMA WsInList ==
  ASSUME RamInv, NEW n \in WsSizes, ws_alloc(n), ram_list # <<>>
  PROVE  RamInv'
<1> USE Constants
<1> DEFINE addr == find_ram(ram_list, avoid_list, n, 1)
           block == addr .. addr + n - 1
<1>1. /\ Building /\ addr # NULL_PADDR /\ ws_early_next' = ws_early_next
      /\ avoid_list' = avoid_ram(avoid_list, addr, n) /\ Grant(addr, n)
      /\ UNCHANGED <<ram_list, temp_syspage, ram, sysram, sysram_added, crashed>>
  BY DEF ws_alloc
<1>2. n \in Nat \ {0} /\ 1 \in Nat \ {0}
  OBVIOUS
<1>3. Room(ram_list, avoid_list, addr, n)
  BY ONLY RamInv, <1>1, <1>2, FindRam DEF RamInv, ListInv, AvoidInv
<1> HIDE DEF addr
<1>4. /\ addr \in 0 .. Top /\ addr + n <= Top + 1
      /\ block \subseteq Cells(ram) /\ block \cap granted = {} /\ Early \notin block
  BY <1>2, <1>3, RoomIsFree
<1>5. /\ avoid_list' \in Seq(Fence) /\ avoid_list' # <<>>
      /\ Kept(avoid_list)' = Kept(avoid_list) \cup block
  BY <1>1, <1>2, <1>4, AvoidRam DEF RamInv, AvoidInv
<1>6. ListInv' /\ AddedInv'
  BY <1>1 DEF RamInv, ListInv, AddedInv
<1>7. AvoidInv'
  BY <1>1, <1>5 DEF RamInv, AvoidInv
<1>8. Extent(Entry(addr, n)) = block /\ block \subseteq 0 .. Top
  BY <1>4 DEF Extent, Entry
<1> HIDE DEF block
<1>9. granted' = granted \cup block /\ twice' = {}
  BY <1>1, <1>4, <1>8 DEF Grant, RamInv, GrantInv
<1>10. GrantInv'
  BY <1>1, <1>4, <1>5, <1>8, <1>9 DEF RamInv, GrantInv
<1>11. crashed' \in BOOLEAN
  BY <1>1 DEF RamInv, CountInv
<1>12. CountInv' /\ grants \in Nat /\ grants' \in Nat /\ grants <= grants'
  BY <1>1, <1>11, Counted DEF RamInv
<1>13. EarlyInv'
  BY <1>1, <1>12, EarlyKept DEF RamInv
<1> QED BY <1>6, <1>7, <1>10, <1>12, <1>13 DEF RamInv

(* A workspace behind the image, when the list is empty: no region that    *)
(* was added holds the RAM behind the image, so nobody else has it.        *)
LEMMA WsBehindImage ==
  ASSUME RamInv, NEW n \in WsSizes, ws_alloc(n), ram_list = <<>>
  PROVE  RamInv'
<1> USE Constants
<1> DEFINE addr == ws_early_next
           block == addr .. addr + n - 1
<1>1. /\ Building /\ addr + n <= Top + 1 /\ ws_early_next' = addr + n
      /\ avoid_list' = avoid_ram(avoid_list, addr, n) /\ Grant(addr, n)
      /\ UNCHANGED <<ram_list, temp_syspage, ram, sysram, sysram_added, crashed>>
  BY DEF ws_alloc
<1>2. /\ n \in Nat \ {0} /\ addr \in Early + 3 .. Top + 1 /\ addr \in 0 .. Top
      /\ addr \in Int /\ block \subseteq 0 .. Top
  BY <1>1 DEF RamInv, EarlyInv
<1>3. /\ avoid_list' \in Seq(Fence) /\ avoid_list' # <<>>
      /\ Kept(avoid_list)' = Kept(avoid_list) \cup block
  BY <1>1, <1>2, AvoidRam DEF RamInv, AvoidInv
<1>4. ListInv' /\ AddedInv'
  BY <1>1 DEF RamInv, ListInv, AddedInv
<1>5. AvoidInv'
  <2>1. Early .. ws_early_next' - 1 \subseteq (Early .. ws_early_next - 1) \cup block
    BY <1>1, <1>2
  <2> HIDE DEF block, addr
  <2> QED BY <1>3, <2>1 DEF RamInv, AvoidInv
<1>6. crashed' \in BOOLEAN
  BY <1>1 DEF RamInv, CountInv
<1>7. CountInv' /\ grants \in Nat /\ grants' \in Nat
  BY <1>1, <1>6, Counted DEF RamInv
<1>8. grants' = grants + 1 /\ grants + 1 <= MaxGrants
  BY <1>1, <1>7 DEF Building, Grant
<1>9. PICK m \in WsSizes : addr + n <= Early + 3 + (grants + 1) * m
  <2>1. PICK k \in WsSizes \cup {0} : ws_early_next <= Early + 3 + grants * k
    BY DEF RamInv, EarlyInv
  <2> DEFINE m == IF k <= n THEN n ELSE k
  <2>2. k \in Nat /\ m \in WsSizes /\ m \in Nat /\ k <= m /\ n <= m
    BY <1>2
  <2> DEFINE p == grants * k
             q == grants * m
  <2> HIDE DEF m
  <2>3. p \in Nat /\ q \in Nat /\ p <= q
    <3>1. grants <= grants
      BY <1>7
    <3> QED BY ONLY <1>7, <2>2, <3>1, Monotone
  <2>4. (grants + 1) * m = q + m
    BY <1>7, <2>2
  <2>5. ws_early_next <= Early + 3 + p
    BY <2>1
  <2> HIDE DEF p, q
  <2>6. addr + n <= Early + 3 + (q + m)
    BY <1>2, <2>2, <2>3, <2>5
  <2> QED BY <2>2, <2>4, <2>6
<1>10. EarlyInv'
  <2>1. ws_early_next' <= Early + 3 + grants' * m
    BY <1>1, <1>8, <1>9
  <2>2. ws_early_next' \in Early + 3 .. Top + 1
    BY <1>1, <1>2
  <2> QED BY <2>1, <2>2 DEF EarlyInv
<1>11. block \subseteq EarlyRoom
  <2> DEFINE p == (grants + 1) * m
             q == MaxGrants * m
  <2>1. p \in Nat /\ q \in Nat /\ p <= q
    <3>1. m \in Nat /\ m <= m /\ grants + 1 \in Nat
      BY <1>7
    <3> QED BY ONLY <1>8, <3>1, Monotone, Constants
  <2>2. addr + n <= Early + 3 + p
    BY <1>9
  <2> HIDE DEF p, q
  <2>3. block \subseteq Early .. Early + 2 + q
    BY <1>2, <2>1, <2>2
  <2> QED BY <2>3 DEF EarlyRoom, q
<1>12. block \cap granted = {}
  <2>1. Early \notin Cells(ram)
    <3>1. Cells(ram_list) = {}
      BY DEF Cells
    <3> QED BY <3>1 DEF RamInv, GrantInv
  <2>2. block \cap Cells(ram) = {}
    <3>1. \A i \in DOMAIN ram : Early \notin Extent(ram[i]) /\ ram[i] \in Regions
      BY <2>1 DEF Cells, RamInv, AddedInv
    <3>2. \A i \in DOMAIN ram : Extent(ram[i]) \cap EarlyRoom = {}
      BY <3>1, StartupRamAssumption DEF StartupRamAssumption
    <3> HIDE DEF block
    <3> QED BY <1>11, <3>2 DEF Cells
  <2>3. block \cap Avoided(Stored) = {}
    BY <1>11, StartupRamAssumption DEF StartupRamAssumption
  <2>4. block \cap (ram_paddr .. ws_early_next - 1) = {}
    BY <1>2
  <2> HIDE DEF block, addr
  <2> QED BY <2>2, <2>3, <2>4 DEF RamInv, GrantInv
<1>13. Extent(Entry(addr, n)) = block
  BY DEF Extent, Entry
<1>14. ram_paddr .. ws_early_next' - 1 = (ram_paddr .. ws_early_next - 1) \cup block
  BY <1>1, <1>2
<1> HIDE DEF block, addr
<1>15. granted' = granted \cup block /\ twice' = {}
  BY <1>1, <1>12, <1>13 DEF Grant, RamInv, GrantInv
<1>16. GrantInv'
  BY <1>1, <1>2, <1>3, <1>14, <1>15 DEF RamInv, GrantInv
<1> QED BY <1>4, <1>5, <1>7, <1>10, <1>16 DEF RamInv

(* ws_alloc hands out a range and takes nothing from the free addresses.   *)
LEMMA WsAlloc ==
  ASSUME RamInv, NEW n \in WsSizes, ws_alloc(n)
  PROVE  RamInv' /\ Free!Lend
<1> DEFINE addr == IF ram_list = <<>> THEN ws_early_next
                   ELSE find_ram(ram_list, avoid_list, n, 1)
<1>1. /\ addr # NULL_PADDR /\ addr + n <= Top + 1 /\ Grant(addr, n)
      /\ ram_list' = ram_list
  BY DEF ws_alloc
<1>2. n \in Nat \ {0}
  BY Constants
<1>3. addr \in 0 .. Top
  <2>1. CASE ram_list = <<>>
    BY <1>1, <1>2, <2>1, Constants DEF RamInv, EarlyInv
  <2>2. CASE ram_list # <<>>
    <3>1. Room(ram_list, avoid_list, addr, n)
      BY <1>1, <1>2, <2>2, FindRam DEF RamInv, ListInv, AvoidInv
    <3> QED BY <1>2, <3>1, RoomIsFree
  <2> QED BY <2>1, <2>2
<1> HIDE DEF addr
<1>4. \E s, e \in 0 .. Top : Free!Given(s, e)
  BY <1>1, <1>2, <1>3, HandOut
<1> QED BY <1>1, <1>4, WsInList, WsBehindImage DEF Free!Lend

(* Every step keeps RamInv and is a step of the set of free addresses.     *)
LEMMA RamNext ==
  ASSUME RamInv, [Next]_vars
  PROVE  RamInv' /\ [Free!Lend \/ Free!Add \/ Free!Take]_<<Cells(ram_list), granted>>
<1>1. ASSUME NEW r \in Regions, add_ram(r) PROVE RamInv' /\ Free!Add
  BY <1>1, AddRam
<1>2. ASSUME NEW ask \in Asks, alloc_ram(ask) PROVE RamInv' /\ Free!Take
  BY <1>2, AllocRam
<1>3. ASSUME NEW ask \in Asks, reserve_ram(ask)
      PROVE  RamInv' /\ (Free!Take \/ UNCHANGED <<Cells(ram_list), granted>>)
  BY <1>3, ReserveRam
<1>4. CASE alloc_image
  BY <1>4, AllocImage
<1>5. ASSUME NEW r \in Reserved, alloc_reserved(r) PROVE RamInv' /\ Free!Take
  BY <1>5, AllocReserved
<1>6. ASSUME NEW n \in WsSizes, ws_alloc(n)
      PROVE  RamInv' /\ Free!Lend
  BY <1>6, WsAlloc
<1>7. CASE add_sysram
  BY <1>7, AddSysram
<1>8. CASE UNCHANGED vars
  <2>1. ListInv' /\ AddedInv' /\ AvoidInv' /\ EarlyInv'
    BY <1>8 DEF vars, RamInv, ListInv, AddedInv, AvoidInv, EarlyInv
  <2>2. CountInv' /\ GrantInv'
    BY <1>8 DEF vars, RamInv, CountInv, GrantInv
  <2> QED BY <1>8, <2>1, <2>2 DEF vars, RamInv
<1> QED BY <1>1, <1>2, <1>3, <1>4, <1>5, <1>6, <1>7, <1>8 DEF Next

-----------------------------------------------------------------------------
(* The ranges the kernel is told of.                                       *)

Tell(l) == UNION {Covered(l[i]) : i \in DOMAIN l}

Once(l) == \A i, j \in DOMAIN l : i # j => Covered(l[i]) \cap Covered(l[j]) = {}

Sound(l) == l \in Seq(Told) /\ Once(l)

(* The start and the end of a range that is told.                          *)
LEMMA ToldInt ==
  \A z \in Told : z \in Zone /\ z.start \in Int /\ z.end \in Int
                  /\ 0 <= z.start /\ z.start <= z.end /\ z.end <= Top
BY DEF Told, Zone

(* Ranges that are told are ranges.                                        *)
LEMMA ToldZone == Seq(Told) \subseteq Seq(Zone)
<1>1. Told \subseteq Zone
  BY DEF Told
<1> QED BY <1>1

(* The addresses that are told.                                            *)
LEMMA InTell ==
  \A l, x : x \in Tell(l) <=> \E i \in DOMAIN l : x \in Covered(l[i])
BY DEF Tell

(* Nothing is told by an empty list.                                       *)
LEMMA NoneTold == Sound(<<>>) /\ Tell(<<>>) = {}
BY DEF Sound, Once, Tell

(* A range of its own can be told too.                                     *)
LEMMA AppendTold ==
  ASSUME NEW l, Sound(l), NEW z \in Told, Covered(z) \cap Tell(l) = {}
  PROVE  Sound(Append(l, z)) /\ Tell(Append(l, z)) = Tell(l) \cup Covered(z)
<1> DEFINE n == Len(l)
           a == Append(l, z)
<1>1. l \in Seq(Told) /\ n \in Nat /\ DOMAIN l = 1 .. n
  BY DEF Sound
<1>2. /\ a \in Seq(Told) /\ DOMAIN a = 1 .. n + 1
      /\ a[n + 1] = z /\ \A i \in 1 .. n : a[i] = l[i]
  BY <1>1
<1>3. 1 .. n + 1 = (1 .. n) \cup {n + 1} /\ n + 1 \notin 1 .. n
  BY <1>1
<1> HIDE DEF a, n
<1>4. ASSUME NEW x PROVE x \in Tell(a) <=> x \in Tell(l) \cup Covered(z)
  BY <1>1, <1>2, <1>3, InTell
<1>5. Once(a)
  <2>1. \A i \in DOMAIN l : Covered(l[i]) \cap Covered(z) = {}
    BY InTell
  <2> QED BY <1>1, <1>2, <1>3, <2>1 DEF Sound, Once
<1> QED BY <1>2, <1>4, <1>5 DEF Sound, a

(* Two lists that tell different addresses can be told one after the other.*)
LEMMA JoinTold ==
  ASSUME NEW l, NEW m, Sound(l), Sound(m), Tell(l) \cap Tell(m) = {}
  PROVE  Sound(l \o m) /\ Tell(l \o m) = Tell(l) \cup Tell(m)
<1> DEFINE a == l \o m
           n == Len(l)
           k == Len(m)
<1>1. l \in Seq(Told) /\ m \in Seq(Told) /\ n \in Nat /\ k \in Nat
      /\ DOMAIN l = 1 .. n /\ DOMAIN m = 1 .. k
  BY DEF Sound
<1>2. /\ a \in Seq(Told) /\ DOMAIN a = 1 .. n + k
      /\ \A i \in 1 .. n : a[i] = l[i]
      /\ \A i \in n + 1 .. n + k : i - n \in 1 .. k /\ a[i] = m[i - n]
  BY <1>1
<1> HIDE DEF a, n, k
<1>3. /\ \A i \in 1 .. n + k : i \in 1 .. n \/ i \in n + 1 .. n + k
      /\ \A i \in 1 .. n : i \in 1 .. n + k
      /\ \A j \in 1 .. k : j + n \in n + 1 .. n + k /\ j + n \in 1 .. n + k /\ (j + n) - n = j
      /\ \A i, j \in n + 1 .. n + k : i # j => i - n # j - n
  BY <1>1
<1>4. ASSUME NEW x PROVE x \in Tell(a) <=> x \in Tell(l) \cup Tell(m)
  <2>1. ASSUME x \in Tell(a) PROVE x \in Tell(l) \cup Tell(m)
    BY <1>1, <1>2, <1>3, <2>1, InTell
  <2>2. ASSUME x \in Tell(l) PROVE x \in Tell(a)
    BY <1>1, <1>2, <1>3, <2>2, InTell
  <2>3. ASSUME x \in Tell(m) PROVE x \in Tell(a)
    <3>1. PICK j \in 1 .. k : x \in Covered(m[j])
      BY <1>1, <2>3, InTell
    <3>2. j + n \in DOMAIN a /\ a[j + n] = m[j]
      BY <1>2, <1>3
    <3> QED BY <3>1, <3>2, InTell
  <2> QED BY <2>1, <2>2, <2>3
<1>5. Once(a)
  <2> SUFFICES ASSUME NEW i \in 1 .. n + k, NEW j \in 1 .. n + k, i # j
               PROVE  Covered(a[i]) \cap Covered(a[j]) = {}
    BY <1>2 DEF Once
  <2>1. /\ \A h \in 1 .. n : Covered(l[h]) \subseteq Tell(l)
        /\ \A h \in 1 .. k : Covered(m[h]) \subseteq Tell(m)
    BY <1>1, InTell
  <2>2. CASE i \in 1 .. n /\ j \in 1 .. n
    BY <1>1, <1>2, <2>2 DEF Sound, Once
  <2>3. CASE i \in n + 1 .. n + k /\ j \in n + 1 .. n + k
    <3>1. i - n \in DOMAIN m /\ j - n \in DOMAIN m /\ i - n # j - n
      BY <1>1, <1>2, <1>3, <2>3
    <3> QED BY <1>2, <2>3, <3>1 DEF Sound, Once
  <2>4. CASE i \in 1 .. n /\ j \in n + 1 .. n + k
    BY <1>2, <2>1, <2>4
  <2>5. CASE j \in 1 .. n /\ i \in n + 1 .. n + k
    BY <1>2, <2>1, <2>5
  <2> QED BY <1>3, <2>2, <2>3, <2>4, <2>5
<1> QED BY <1>2, <1>4, <1>5 DEF Sound, a

(* A round of as_add_containing tells the part of the range that lies in   *)
(* one region.                                                             *)
LEMMA PieceRight ==
  ASSUME NEW l, Sound(l), NEW c \in Block, NEW q \in Block,
         Extent(c) \cap Extent(q) \cap Tell(l) = {}
  PROVE  Sound(Piece(l, c, q)) /\ Tell(Piece(l, c, q)) = Tell(l) \cup (Extent(c) \cap Extent(q))
<1> DEFINE s == IF c.addr > q.addr THEN c.addr ELSE q.addr
           e == IF c.addr + c.size < q.addr + q.size THEN c.addr + c.size - 1
                ELSE q.addr + q.size - 1
           z == [start |-> s, end |-> e]
<1>1. CASE Extent(c) \cap Extent(q) = {}
  <2>1. Piece(l, c, q) = l
    BY <1>1 DEF Piece
  <2> QED BY <1>1, <2>1
<1>2. CASE Extent(c) \cap Extent(q) # {}
  <2>1. /\ c.addr \in Int /\ c.size \in Int /\ 0 <= c.addr /\ c.addr + c.size <= Top + 1
        /\ q.addr \in Int /\ q.size \in Int /\ 0 <= q.addr /\ q.addr + q.size <= Top + 1
    BY BlockInt
  <2>2. /\ \A x : x \in Extent(c) <=> x \in Int /\ c.addr <= x /\ x < c.addr + c.size
        /\ \A x : x \in Extent(q) <=> x \in Int /\ q.addr <= x /\ x < q.addr + q.size
    BY InExtent, BlockSpan
  <2>3. s \in Int /\ e \in Int /\ 0 <= s /\ e <= Top
    BY <2>1, TopNat
  <2>4. \A x \in Int : x \in Extent(c) \cap Extent(q) <=> s <= x /\ x <= e
    BY <2>1, <2>2
  <2>5. Piece(l, c, q) = Append(l, z)
    BY <1>2 DEF Piece
  <2> HIDE DEF s, e
  <2>6. PICK x \in Int : x \in Extent(c) \cap Extent(q)
    BY <1>2, <2>2
  <2>7. s <= x /\ x <= e /\ s <= e
    BY <2>3, <2>4, <2>6
  <2>8. z \in Told /\ z.start = s /\ z.end = e
    BY <2>3, <2>7 DEF Told, Zone
  <2> HIDE DEF z
  <2>9. Covered(z) = Extent(c) \cap Extent(q)
    <3>1. \A y : y \in Covered(z) <=> y \in Int /\ s <= y /\ y <= e
      BY <2>3, <2>8 DEF Covered
    <3>2. Extent(c) \subseteq Int
      BY <2>2
    <3> QED BY <2>4, <3>1, <3>2
  <2> QED BY <2>5, <2>8, <2>9, AppendTold
<1> QED BY <1>1, <1>2

(* as_add_containing makes a list of asinfo entries.                       *)
LEMMA ContainingZone ==
  ASSUME NEW q \in Span, NEW list \in Seq(Zone), ram \in Seq(Span)
  PROVE  as_add_containing(list, q) \in Seq(Zone)
<1>1. PICK f : /\ f[0] = list
               /\ \A n \in 1 .. Len(ram) : f[n] = Piece(f[n - 1], ram[n], q)
               /\ as_add_containing(list, q) = f[Len(ram)]
  BY PieceRounds
<1> DEFINE T == {n \in Nat : n <= Len(ram) => f[n] \in Seq(Zone)}
<1>2. 0 \in T
  BY <1>1
<1>3. ASSUME NEW n \in Nat, n \in T PROVE n + 1 \in T
  <2> SUFFICES ASSUME n + 1 <= Len(ram) PROVE f[n + 1] \in Seq(Zone)
    OBVIOUS
  <2>1. n + 1 \in 1 .. Len(ram) /\ (n + 1) - 1 = n /\ f[n] \in Seq(Zone) /\ ram[n + 1] \in Span
    BY <1>3
  <2>2. f[n + 1] = Piece(f[n], ram[n + 1], q)
    BY <1>1, <2>1
  <2> QED BY <2>1, <2>2, PieceZone
<1>4. Nat \subseteq T
  <2> HIDE DEF T
  <2> QED BY <1>2, <1>3, NatSet
<1>5. Len(ram) \in Nat /\ Len(ram) <= Len(ram)
  OBVIOUS
<1> QED BY <1>1, <1>4, <1>5

(* The regions that were added do not overlap.                             *)
LEMMA AddedApart ==
  ASSUME AddedInv
  PROVE  /\ ram \in Seq(Block) /\ ram \in Seq(Span)
         /\ \A i, j \in DOMAIN ram : i # j => Extent(ram[i]) \cap Extent(ram[j]) = {}
<1>1. ram \in Seq(Regions) /\ \A i, j \in DOMAIN ram : i # j => ram[i] # ram[j]
  BY DEF AddedInv
<1>2. ram \in Seq(Block) /\ \A i \in DOMAIN ram : ram[i] \in Regions
  BY <1>1, Constants
<1>3. ram \in Seq(Span)
  BY <1>2, BlockSpan
<1> QED BY <1>1, <1>2, <1>3, StartupRamAssumption DEF StartupRamAssumption

(* as_add_containing tells the part of the range that is RAM.              *)
LEMMA ContainingRight ==
  ASSUME AddedInv, NEW list, Sound(list), NEW q \in Block, Tell(list) \cap Extent(q) = {}
  PROVE  /\ Sound(as_add_containing(list, q))
         /\ Tell(as_add_containing(list, q)) = Tell(list) \cup (Cells(ram) \cap Extent(q))
<1>1. PICK f : /\ f[0] = list
               /\ \A n \in 1 .. Len(ram) : f[n] = Piece(f[n - 1], ram[n], q)
               /\ as_add_containing(list, q) = f[Len(ram)]
  BY PieceRounds, AddedApart, ToldZone, BlockSpan DEF Sound
<1> DEFINE Inv(n) == Sound(f[n]) /\ Tell(f[n]) = Tell(list) \cup (Upto(ram, n) \cap Extent(q))
           T == {n \in Nat : n <= Len(ram) => Inv(n)}
<1>2. 0 \in T
  BY <1>1, UptoNext
<1>3. ASSUME NEW n \in Nat, n \in T PROVE n + 1 \in T
  <2> SUFFICES ASSUME n + 1 <= Len(ram) PROVE Inv(n + 1)
    OBVIOUS
  <2>1. n + 1 \in 1 .. Len(ram) /\ (n + 1) - 1 = n /\ ram[n + 1] \in Block /\ n <= Len(ram)
    BY AddedApart
  <2>2. Inv(n)
    BY <1>3, <2>1
  <2>3. f[n + 1] = Piece(f[n], ram[n + 1], q)
    BY <1>1, <2>1
  <2>4. Upto(ram, n) \cap Extent(ram[n + 1]) = {}
    <3>1. \A i \in 1 .. n : i \in DOMAIN ram /\ i # n + 1
      BY <2>1
    <3>2. n + 1 \in DOMAIN ram
      BY <2>1
    <3>3. \A i \in 1 .. n : Extent(ram[i]) \cap Extent(ram[n + 1]) = {}
      BY <3>1, <3>2, AddedApart
    <3> QED BY <3>3 DEF Upto
  <2>5. Upto(ram, n + 1) = Upto(ram, n) \cup Extent(ram[n + 1])
    BY UptoNext
  <2> HIDE DEF T
  <2>6. /\ Sound(f[n + 1])
        /\ Tell(f[n + 1]) = Tell(f[n]) \cup (Extent(ram[n + 1]) \cap Extent(q))
    <3>1. Extent(ram[n + 1]) \cap Extent(q) \cap Tell(f[n]) = {}
      BY <2>2, <2>4
    <3>2. Sound(f[n])
      BY <2>2
    <3> QED BY ONLY <2>1, <2>3, <3>1, <3>2, PieceRight
  <2> QED BY <2>2, <2>5, <2>6
<1>4. Nat \subseteq T
  <2> HIDE DEF T
  <2> QED BY <1>2, <1>3, NatSet
<1>5. Inv(Len(ram))
  <2>1. Len(ram) \in Nat /\ Len(ram) <= Len(ram)
    BY AddedApart
  <2> HIDE DEF Inv
  <2> QED BY <1>4, <2>1
<1>6. Upto(ram, Len(ram)) = Cells(ram)
  BY AddedApart, UptoAll
<1> QED BY <1>1, <1>5, <1>6

(* add_sysram's loop over ram_list, round by round.                        *)
LEMMA SysramRounds ==
  ASSUME NEW s \in Seq(Span), ram \in Seq(Span)
  PROVE  \E f : /\ f[0] = <<>>
                /\ \A n \in 1 .. Len(s) : f[n] = as_add_containing(f[n - 1], s[n])
                /\ FoldLeft(as_add_containing, <<>>, s) = f[Len(s)]
<1> DEFINE F == [l \in Seq(Zone) |-> [r \in Span |-> as_add_containing(l, r)]]
           Eq(g) == g = [t \in SUBSET DOMAIN s |->
                           IF t = {} THEN <<>> ELSE as_add_containing(g[t \ {Max(t)}], s[Max(t)])]
           iter == CHOOSE g : Eq(g)
           f == [n \in 0 .. Len(s) |-> iter[1 .. n]]
<1>1. FoldLeft(as_add_containing, <<>>, s) = iter[DOMAIN s]
  BY DEF FoldLeft, MapThenFoldSet
<1>2. Eq(iter)
  <2>1. F \in [Seq(Zone) -> [Span -> Seq(Zone)]]
    BY ContainingZone
  <2>2. PICK g \in [SUBSET DOMAIN s -> Seq(Zone)] : IsIterator(g, F, <<>>, s)
    <3> HIDE DEF F
    <3>1. <<>> \in Seq(Zone)
      OBVIOUS
    <3> QED BY <2>1, <3>1, FoldExists
  <2>3. ASSUME NEW t \in SUBSET DOMAIN s, t # {}
        PROVE  F[g[t \ {Max(t)}]][s[Max(t)]] = as_add_containing(g[t \ {Max(t)}], s[Max(t)])
    <3>1. Max(t) \in t
      <4>1. Len(s) \in Nat /\ t \in SUBSET (0 .. Len(s))
        OBVIOUS
      <4> QED BY ONLY <4>1, <2>3, MaxExists
    <3>2. g[t \ {Max(t)}] \in Seq(Zone) /\ s[Max(t)] \in Span
      BY <3>1
    <3> QED BY <3>2
  <2>4. Eq(g)
    <3> HIDE DEF F
    <3> QED BY <2>2, <2>3 DEF IsIterator
  <2> HIDE DEF Eq
  <2> QED BY <2>4
<1>3. DOMAIN s = 1 .. Len(s) /\ Len(s) \in Nat
  OBVIOUS
<1> HIDE DEF iter
<1>4. f[0] = <<>>
  <2>1. 1 .. 0 = {} /\ {} \in SUBSET DOMAIN s
    OBVIOUS
  <2>2. iter[{}] = <<>>
    BY <1>2, <2>1
  <2> QED BY <2>1, <2>2, <1>3
<1>5. ASSUME NEW n \in 1 .. Len(s)
      PROVE  f[n] = as_add_containing(f[n - 1], s[n])
  <2>1. 1 .. n \in SUBSET DOMAIN s /\ n \in 0 .. Len(s) /\ n - 1 \in 0 .. Len(s)
    OBVIOUS
  <2>2. Max(1 .. n) = n /\ (1 .. n) \ {n} = 1 .. n - 1 /\ 1 .. n # {}
    BY MaxInterval
  <2>3. iter[1 .. n] = as_add_containing(iter[(1 .. n) \ {Max(1 .. n)}], s[Max(1 .. n)])
    BY <1>2, <2>1, <2>2
  <2> QED BY <2>1, <2>2, <2>3
<1>6. FoldLeft(as_add_containing, <<>>, s) = f[Len(s)]
  BY <1>1, <1>3
<1> QED BY <1>4, <1>5, <1>6

(* add_sysram tells exactly the free ranges.                               *)
LEMMA SysramTold ==
  ASSUME ListInv, AddedInv
  PROVE  LET told == FoldLeft(as_add_containing, <<>>, ram_list)
         IN Sound(told) /\ Tell(told) = Cells(ram_list)
<1> DEFINE s == ram_list
           told == FoldLeft(as_add_containing, <<>>, s)
<1>1. Good(s) /\ Cells(s) \subseteq Cells(ram) /\ s \in Seq(Block) /\ s \in Seq(Span)
  BY BlockSpan DEF ListInv, Good
<1>2. PICK f : /\ f[0] = <<>>
               /\ \A n \in 1 .. Len(s) : f[n] = as_add_containing(f[n - 1], s[n])
               /\ told = f[Len(s)]
  BY <1>1, AddedApart, SysramRounds
<1> HIDE DEF told
<1> DEFINE Inv(n) == Sound(f[n]) /\ Tell(f[n]) = Upto(s, n) \cap Cells(ram)
           T == {n \in Nat : n <= Len(s) => Inv(n)}
<1>3. 0 \in T
  BY <1>2, UptoNext, NoneTold
<1>4. ASSUME NEW n \in Nat, n \in T PROVE n + 1 \in T
  <2> SUFFICES ASSUME n + 1 <= Len(s) PROVE Inv(n + 1)
    OBVIOUS
  <2>1. n + 1 \in 1 .. Len(s) /\ (n + 1) - 1 = n /\ s[n + 1] \in Block /\ n <= Len(s)
    BY <1>1
  <2>2. Inv(n)
    BY <1>4, <2>1
  <2>3. f[n + 1] = as_add_containing(f[n], s[n + 1])
    BY <1>2, <2>1
  <2>4. Upto(s, n) \cap Extent(s[n + 1]) = {}
    <3> SUFFICES ASSUME NEW i \in 1 .. n PROVE Extent(s[i]) \cap Extent(s[n + 1]) = {}
      BY DEF Upto
    <3>1. /\ i \in DOMAIN s /\ n + 1 \in DOMAIN s /\ i < n + 1
          /\ s[i] \in Block /\ s[i] \in Span /\ s[n + 1] \in Span
      BY <1>1, <2>1, BlockSpan
    <3>2. s[i].addr + s[i].size < s[n + 1].addr
      BY <1>1, <3>1 DEF Good, Apart
    <3> QED BY <2>1, <3>1, <3>2, BlockInt, InExtent
  <2>5. Upto(s, n + 1) = Upto(s, n) \cup Extent(s[n + 1])
    BY UptoNext
  <2> HIDE DEF T
  <2>6. /\ Sound(f[n + 1])
        /\ Tell(f[n + 1]) = Tell(f[n]) \cup (Cells(ram) \cap Extent(s[n + 1]))
    <3>1. Tell(f[n]) \cap Extent(s[n + 1]) = {}
      BY <2>2, <2>4
    <3>2. Sound(f[n])
      BY <2>2
    <3> HIDE DEF s
    <3> QED BY <2>1, <2>3, <3>1, <3>2, ContainingRight
  <2> QED BY <2>2, <2>5, <2>6
<1>5. Nat \subseteq T
  <2> HIDE DEF T
  <2> QED BY <1>3, <1>4, NatSet
<1>6. Inv(Len(s))
  <2>1. Len(s) \in Nat /\ Len(s) <= Len(s)
    BY <1>1
  <2> HIDE DEF Inv
  <2> QED BY <1>5, <2>1
<1>7. Upto(s, Len(s)) = Cells(s)
  BY <1>1, UptoAll
<1> QED BY <1>1, <1>2, <1>6, <1>7 DEF told

(* What alloc_ram leaves of a "sysram" entry in its place, and behind the  *)
(* hole.                                                                   *)
Fore(told, addr, end) ==
  IF ~ Meets(told, addr, end) THEN told
  ELSE IF addr <= told.start THEN [told EXCEPT !.start = end + 1]
  ELSE [told EXCEPT !.end = addr - 1]

Fores(addr, end) == [i \in DOMAIN sysram |-> Fore(sysram[i], addr, end)]

Split(told, addr, end) == Meets(told, addr, end) /\ addr > told.start /\ end < told.end

Behind(l, told, addr, end) ==
  IF Meets(told, addr, end) /\ addr > told.start /\ end < told.end
  THEN Append(l, [start |-> end + 1, end |-> told.end]) ELSE l

Rear(told, addr, end) == IF Split(told, addr, end) THEN end + 1 .. told.end ELSE {}

(* A round of the cut makes a list of asinfo entries.                      *)
LEMMA BehindZone ==
  ASSUME NEW addr \in Int, NEW end \in Int, NEW l \in Seq(Zone), NEW told \in Zone
  PROVE  Behind(l, told, addr, end) \in Seq(Zone)
<1>1. [start |-> end + 1, end |-> told.end] \in Zone
  BY DEF Zone
<1> QED BY <1>1 DEF Behind

(* alloc_ram's cut of the "sysram" entries, round by round.                *)
LEMMA CutRounds ==
  ASSUME NEW addr \in Int, NEW end \in Int, sysram \in Seq(Zone)
  PROVE  \E f : /\ f[0] = <<>>
                /\ \A n \in 1 .. Len(sysram) : f[n] = Behind(f[n - 1], sysram[n], addr, end)
                /\ SysramCut(addr, end) = Fores(addr, end) \o f[Len(sysram)]
<1> DEFINE F == [l \in Seq(Zone) |-> [r \in Zone |-> Behind(l, r, addr, end)]]
           Eq(g) == g = [t \in SUBSET DOMAIN sysram |->
                           IF t = {} THEN <<>> ELSE Behind(g[t \ {Max(t)}], sysram[Max(t)], addr, end)]
           iter == CHOOSE g : Eq(g)
           f == [n \in 0 .. Len(sysram) |-> iter[1 .. n]]
<1>1. SysramCut(addr, end) = Fores(addr, end) \o iter[DOMAIN sysram]
  BY DEF SysramCut, Fores, Fore, Behind, FoldLeft, MapThenFoldSet
<1>2. Eq(iter)
  <2>1. F \in [Seq(Zone) -> [Zone -> Seq(Zone)]]
    BY BehindZone
  <2>2. PICK g \in [SUBSET DOMAIN sysram -> Seq(Zone)] : IsIterator(g, F, <<>>, sysram)
    <3> HIDE DEF F
    <3>1. <<>> \in Seq(Zone)
      OBVIOUS
    <3> QED BY <2>1, <3>1, FoldExists
  <2>3. ASSUME NEW t \in SUBSET DOMAIN sysram, t # {}
        PROVE  F[g[t \ {Max(t)}]][sysram[Max(t)]] = Behind(g[t \ {Max(t)}], sysram[Max(t)], addr, end)
    <3>1. Max(t) \in t
      <4>1. Len(sysram) \in Nat /\ t \in SUBSET (0 .. Len(sysram))
        OBVIOUS
      <4> QED BY ONLY <4>1, <2>3, MaxExists
    <3>2. g[t \ {Max(t)}] \in Seq(Zone) /\ sysram[Max(t)] \in Zone
      BY <3>1
    <3> QED BY <3>2
  <2>4. Eq(g)
    <3> HIDE DEF F
    <3> QED BY <2>2, <2>3 DEF IsIterator
  <2> HIDE DEF Eq
  <2> QED BY <2>4
<1>3. DOMAIN sysram = 1 .. Len(sysram) /\ Len(sysram) \in Nat
  OBVIOUS
<1> HIDE DEF iter
<1>4. f[0] = <<>>
  <2>1. 1 .. 0 = {} /\ {} \in SUBSET DOMAIN sysram
    OBVIOUS
  <2>2. iter[{}] = <<>>
    BY <1>2, <2>1
  <2> QED BY <2>1, <2>2, <1>3
<1>5. ASSUME NEW n \in 1 .. Len(sysram)
      PROVE  f[n] = Behind(f[n - 1], sysram[n], addr, end)
  <2>1. 1 .. n \in SUBSET DOMAIN sysram /\ n \in 0 .. Len(sysram) /\ n - 1 \in 0 .. Len(sysram)
    OBVIOUS
  <2>2. Max(1 .. n) = n /\ (1 .. n) \ {n} = 1 .. n - 1 /\ 1 .. n # {}
    BY MaxInterval
  <2>3. iter[1 .. n] = Behind(iter[(1 .. n) \ {Max(1 .. n)}], sysram[Max(1 .. n)], addr, end)
    BY <1>2, <2>1, <2>2
  <2> QED BY <2>1, <2>2, <2>3
<1>6. SysramCut(addr, end) = Fores(addr, end) \o f[Len(sysram)]
  BY <1>1, <1>3
<1> QED BY <1>4, <1>5, <1>6

(* The two pieces are the entry without the hole.                          *)
LEMMA CutEntry ==
  ASSUME NEW told \in Told, NEW addr \in Int, NEW end \in Int, addr <= end,
         ~ (Meets(told, addr, end) /\ addr <= told.start /\ end >= told.end)
  PROVE  /\ Fore(told, addr, end) \in Told
         /\ Covered(Fore(told, addr, end)) \cup Rear(told, addr, end) = Covered(told) \ (addr .. end)
         /\ Covered(Fore(told, addr, end)) \cap Rear(told, addr, end) = {}
         /\ Split(told, addr, end) => /\ [start |-> end + 1, end |-> told.end] \in Told
                                    /\ Covered([start |-> end + 1, end |-> told.end]) = Rear(told, addr, end)
<1>1. /\ told \in Zone /\ told.start \in Int /\ told.end \in Int
      /\ 0 <= told.start /\ told.start <= told.end /\ told.end <= Top
  BY ToldInt
<1>2. CASE ~ Meets(told, addr, end)
  <2>1. Fore(told, addr, end) = told /\ ~ Split(told, addr, end) /\ Rear(told, addr, end) = {}
    BY <1>2 DEF Fore, Split, Rear
  <2>2. (told.start .. told.end) \cap (addr .. end) = {}
    BY <1>1, <1>2 DEF Meets
  <2> QED BY <2>1, <2>2 DEF Covered
<1>3. CASE Meets(told, addr, end) /\ addr <= told.start
  <2> DEFINE v == [told EXCEPT !.start = end + 1]
  <2>1. Fore(told, addr, end) = v /\ ~ Split(told, addr, end) /\ Rear(told, addr, end) = {}
    BY <1>1, <1>3 DEF Fore, Split, Rear
  <2>2. end < told.end /\ told.start <= end
    BY <1>1, <1>3 DEF Meets
  <2>3. v \in Zone /\ v.start = end + 1 /\ v.end = told.end
    BY <1>1 DEF Zone
  <2> HIDE DEF v
  <2>4. v \in Told
    BY <1>1, <2>2, <2>3 DEF Told
  <2>5. end + 1 .. told.end = (told.start .. told.end) \ (addr .. end)
    BY <1>1, <1>3, <2>2
  <2> QED BY <2>1, <2>3, <2>4, <2>5 DEF Covered
<1>4. CASE Meets(told, addr, end) /\ addr > told.start
  <2> DEFINE v == [told EXCEPT !.end = addr - 1]
             w == [start |-> end + 1, end |-> told.end]
  <2>1. Fore(told, addr, end) = v /\ (Split(told, addr, end) <=> end < told.end)
    BY <1>1, <1>4 DEF Fore, Split
  <2>2. addr <= told.end
    BY <1>1, <1>4 DEF Meets
  <2>3. v \in Zone /\ v.start = told.start /\ v.end = addr - 1
    BY <1>1 DEF Zone
  <2> HIDE DEF v
  <2>4. v \in Told
    BY <1>1, <1>4, <2>2, <2>3, TopNat DEF Told
  <2>5. CASE end < told.end
    <3>1. Rear(told, addr, end) = end + 1 .. told.end
      BY <2>1, <2>5 DEF Rear
    <3>2. w \in Told /\ Covered(w) = end + 1 .. told.end
      BY <1>1, <1>4, <2>5 DEF Told, Zone, Covered
    <3>3. /\ (told.start .. addr - 1) \cup (end + 1 .. told.end) = (told.start .. told.end) \ (addr .. end)
          /\ (told.start .. addr - 1) \cap (end + 1 .. told.end) = {}
      BY <1>1, <1>4, <2>2, <2>5
    <3> QED BY <2>1, <2>3, <2>4, <3>1, <3>2, <3>3 DEF Covered
  <2>6. CASE ~ (end < told.end)
    <3>1. Rear(told, addr, end) = {}
      BY <2>1, <2>6 DEF Rear
    <3>2. told.start .. addr - 1 = (told.start .. told.end) \ (addr .. end)
      BY <1>1, <1>4, <2>2, <2>6
    <3> QED BY <2>1, <2>3, <2>4, <2>6, <3>1, <3>2 DEF Covered
  <2> QED BY <2>5, <2>6
<1> QED BY <1>1, <1>2, <1>3, <1>4

(* When no entry vanishes the kernel is told what it was told before,      *)
(* without the addresses that were allocated.                              *)
LEMMA CutRight ==
  ASSUME Sound(sysram), NEW addr \in Int, NEW end \in Int, addr <= end, ~ Vanishes(addr, end)
  PROVE  /\ Sound(SysramCut(addr, end))
         /\ Tell(SysramCut(addr, end)) = Tell(sysram) \ (addr .. end)
<1> DEFINE hole == addr .. end
           N == Len(sysram)
           F(i) == Fore(sysram[i], addr, end)
           R(i) == Rear(sysram[i], addr, end)
           fores == Fores(addr, end)
<1>1. sysram \in Seq(Told) /\ sysram \in Seq(Zone) /\ N \in Nat /\ DOMAIN sysram = 1 .. N
  BY ToldZone DEF Sound
<1>2. ASSUME NEW i \in 1 .. N
      PROVE  /\ F(i) \in Told /\ Covered(F(i)) \cup R(i) = Covered(sysram[i]) \ hole
             /\ Covered(F(i)) \cap R(i) = {}
             /\ Split(sysram[i], addr, end) =>
                  /\ [start |-> end + 1, end |-> sysram[i].end] \in Told
                  /\ Covered([start |-> end + 1, end |-> sysram[i].end]) = R(i)
  <2>1. sysram[i] \in Told
    BY <1>1
  <2>2. ~ (Meets(sysram[i], addr, end) /\ addr <= sysram[i].start /\ end >= sysram[i].end)
    BY <1>1 DEF Vanishes
  <2> QED BY <2>1, <2>2, CutEntry
<1>3. \A i, j \in 1 .. N : i # j => Covered(sysram[i]) \cap Covered(sysram[j]) = {}
  BY <1>1 DEF Sound, Once
<1> HIDE DEF F, R, hole
<1>4. Sound(fores) /\ DOMAIN fores = 1 .. N /\ \A i \in 1 .. N : fores[i] = F(i)
  <2>1. DOMAIN fores = 1 .. N /\ \A i \in 1 .. N : fores[i] = F(i)
    BY <1>1 DEF Fores, F
  <2>2. fores \in Seq(Told)
    <3>1. fores \in [1 .. N -> Told]
      BY <1>1, <1>2 DEF Fores, F
    <3> HIDE DEF N
    <3> QED BY <1>1, <3>1
  <2> HIDE DEF fores
  <2>3. Once(fores)
    <3>1. \A i \in 1 .. N : Covered(fores[i]) \subseteq Covered(sysram[i])
      BY <1>2, <2>1
    <3> QED BY <1>3, <2>1, <3>1 DEF Once
  <2> QED BY <2>1, <2>2, <2>3 DEF Sound
<1> HIDE DEF fores
<1>5. PICK f : /\ f[0] = <<>>
               /\ \A n \in 1 .. N : f[n] = Behind(f[n - 1], sysram[n], addr, end)
               /\ SysramCut(addr, end) = fores \o f[N]
  BY <1>1, CutRounds DEF fores
<1> DEFINE Rears(n) == UNION {R(i) : i \in 1 .. n}
           Inv(n) == Sound(f[n]) /\ Tell(f[n]) = Rears(n)
           T == {n \in Nat : n <= N => Inv(n)}
<1>6. 0 \in T
  <2>1. Rears(0) = {}
    <3>1. 1 .. 0 = {}
      OBVIOUS
    <3> QED BY <3>1
  <2> QED BY <1>5, <2>1, NoneTold
<1>7. ASSUME NEW n \in Nat, n \in T PROVE n + 1 \in T
  <2> SUFFICES ASSUME n + 1 <= N PROVE Inv(n + 1)
    OBVIOUS
  <2> DEFINE told == sysram[n + 1]
             z == [start |-> end + 1, end |-> told.end]
  <2>1. n + 1 \in 1 .. N /\ (n + 1) - 1 = n /\ n <= N
    BY <1>1
  <2>2. Sound(f[n]) /\ Tell(f[n]) = Rears(n)
    BY <1>7, <2>1
  <2>3. f[n + 1] = Behind(f[n], told, addr, end)
    BY <1>5, <2>1
  <2>4. Rears(n + 1) = Rears(n) \cup R(n + 1)
    <3>1. 1 .. n + 1 = (1 .. n) \cup {n + 1}
      OBVIOUS
    <3> QED BY <3>1
  <2> HIDE DEF T
  <2>5. CASE Split(told, addr, end)
    <3>1. z \in Told /\ Covered(z) = R(n + 1)
      BY <1>2, <2>1, <2>5
    <3>2. f[n + 1] = Append(f[n], z)
      BY <2>3, <2>5 DEF Behind, Split
    <3>3. R(n + 1) \cap Rears(n) = {}
      <4> SUFFICES ASSUME NEW i \in 1 .. n PROVE R(n + 1) \cap R(i) = {}
        OBVIOUS
      <4>1. i \in 1 .. N /\ i # n + 1
        BY <2>1
      <4> QED BY <1>2, <1>3, <2>1, <4>1
    <3> HIDE DEF z
    <3>4. Covered(z) \cap Tell(f[n]) = {}
      BY <2>2, <3>1, <3>3
    <3> QED BY <2>2, <2>4, <3>1, <3>2, <3>4, AppendTold
  <2>6. CASE ~ Split(told, addr, end)
    <3>1. f[n + 1] = f[n]
      BY <2>3, <2>6 DEF Behind, Split
    <3>2. R(n + 1) = {}
      BY <2>6 DEF R, Rear
    <3> QED BY <2>2, <2>4, <3>1, <3>2
  <2> QED BY <2>5, <2>6
<1>8. Nat \subseteq T
  <2> HIDE DEF T
  <2> QED BY <1>6, <1>7, NatSet
<1>9. Sound(f[N]) /\ Tell(f[N]) = Rears(N)
  <2>1. N \in Nat /\ N <= N
    BY <1>1
  <2>2. N \in T
    BY <1>8, <2>1
  <2> QED BY <2>1, <2>2
<1> HIDE DEF T, Inv
<1>10. Tell(fores) \cap Rears(N) = {}
  <2> SUFFICES ASSUME NEW i \in 1 .. N, NEW j \in 1 .. N PROVE Covered(F(i)) \cap R(j) = {}
    BY <1>4, InTell
  <2> QED BY <1>2, <1>3
<1>11. Tell(fores) \cup Rears(N) = Tell(sysram) \ hole
  <2>1. ASSUME NEW x
        PROVE  x \in Tell(fores) \cup Rears(N) <=> \E i \in 1 .. N : x \in Covered(F(i)) \cup R(i)
    BY <1>4, InTell
  <2>2. ASSUME NEW x
        PROVE  x \in Tell(sysram) \ hole <=> \E i \in 1 .. N : x \in Covered(sysram[i]) \ hole
    BY <1>1, InTell
  <2> QED BY <1>2, <2>1, <2>2
<1> HIDE DEF Rears, N
<1> QED BY <1>4, <1>5, <1>9, <1>10, <1>11, JoinTold DEF hole

(* The kernel is told of the free ranges, each address once.               *)
SysInv ==
  /\ sysram \in Seq(Told)
  /\ sysram_added /\ ~ crashed => Once(sysram) /\ Tell(sysram) = Cells(ram_list)

(* An allocation cuts sysram exactly as it cuts ram_list, or crashes.      *)
LEMMA AllocSys ==
  ASSUME RamInv, SysInv, ~ crashed, NEW addr \in Int, NEW size \in Nat \ {0},
         alloc_at(addr, size), sysram_added' = sysram_added
  PROVE  SysInv'
<1> DEFINE end == addr + size - 1
<1>1. /\ ram_list' = Taken(ram_list, addr, size)
      /\ crashed' = (sysram_added /\ Vanishes(addr, end))
      /\ sysram' = IF sysram_added /\ ~ crashed' THEN SysramCut(addr, end) ELSE sysram
  BY DEF alloc_at
<1>2. Cells(ram_list)' = Cells(ram_list) \ (addr .. end)
  <2>1. Cells(Taken(ram_list, addr, size)) = Cells(ram_list) \ (addr .. end)
    BY TakenRight DEF RamInv, ListInv
  <2> QED BY <1>1, <2>1
<1>3. end \in Int /\ addr <= end
  OBVIOUS
<1> HIDE DEF end
<1>4. CASE sysram_added /\ ~ crashed'
  <2>1. Sound(sysram) /\ Tell(sysram) = Cells(ram_list)
    BY <1>4 DEF SysInv, Sound
  <2>2. ~ Vanishes(addr, end) /\ sysram' = SysramCut(addr, end)
    BY <1>1, <1>4
  <2>3. Sound(SysramCut(addr, end)) /\ Tell(SysramCut(addr, end)) = Tell(sysram) \ (addr .. end)
    BY <1>3, <2>1, <2>2, CutRight
  <2>4. Sound(sysram)' /\ Tell(sysram)' = Cells(ram_list)'
    BY <1>2, <2>1, <2>2, <2>3
  <2> QED BY <2>4 DEF SysInv, Sound
<1>5. CASE ~ (sysram_added /\ ~ crashed')
  BY <1>1, <1>5 DEF SysInv
<1> QED BY <1>4, <1>5

(* Every step keeps SysInv.                                                *)
LEMMA SysNext ==
  ASSUME RamInv, SysInv, [Next]_vars
  PROVE  SysInv'
<1>1. ASSUME ~ sysram_added, UNCHANGED <<sysram, sysram_added>> PROVE SysInv'
  BY <1>1 DEF SysInv
<1>2. ASSUME NEW r \in Regions, add_ram(r) PROVE SysInv'
  BY <1>1, <1>2 DEF add_ram
<1>3. ASSUME NEW ask \in Asks, alloc_ram(ask) PROVE SysInv'
  <2> DEFINE addr == find_ram(ram_list, avoid_list, ask.size, ask.align)
  <2>1. /\ ~ crashed /\ addr # NULL_PADDR /\ alloc_at(addr, ask.size)
        /\ sysram_added' = sysram_added
    BY <1>3 DEF alloc_ram, Building, Running
  <2>2. ask.size \in Nat \ {0} /\ ask.align \in Nat \ {0}
    BY Constants
  <2>3. Room(ram_list, avoid_list, addr, ask.size)
    BY <2>1, <2>2, FindRam DEF RamInv, ListInv, AvoidInv
  <2> HIDE DEF addr
  <2>4. addr \in Int
    BY <2>3 DEF Room
  <2> QED BY <2>1, <2>2, <2>4, AllocSys
<1>4. ASSUME NEW ask \in Asks, reserve_ram(ask) PROVE SysInv'
  BY <1>1, <1>4 DEF reserve_ram, alloc_at, Building
<1>5. ASSUME alloc_image PROVE SysInv'
  BY <1>1, <1>5 DEF alloc_image, alloc_at
<1>6. ASSUME NEW r \in Reserved, alloc_reserved(r) PROVE SysInv'
  BY <1>1, <1>6 DEF alloc_reserved, alloc_at, Building
<1>7. ASSUME NEW n \in WsSizes, ws_alloc(n) PROVE SysInv'
  BY <1>1, <1>7 DEF ws_alloc, Building
<1>8. ASSUME add_sysram PROVE SysInv'
  <2>1. Sound(sysram)' /\ Tell(sysram)' = Cells(ram_list)'
    BY <1>8, SysramTold DEF add_sysram, RamInv
  <2> QED BY <2>1 DEF SysInv, Sound
<1>9. ASSUME UNCHANGED vars PROVE SysInv'
  BY <1>9 DEF vars, SysInv
<1> QED BY <1>2, <1>3, <1>4, <1>5, <1>6, <1>7, <1>8, <1>9 DEF Next

-----------------------------------------------------------------------------
(* The theorems.                                                           *)

(* RamInv holds in every state of startup: the free list keeps its shape   *)
(* and lies in RAM that was added, avoid_list covers startup's own memory, *)
(* and what was handed out is neither free nor handed out again.           *)
THEOREM RamInvariant == Spec => []RamInv
<1>1. Init => RamInv
  BY RamInit
<1>2. RamInv /\ [Next]_vars => RamInv'
  BY RamNext
<1> QED BY <1>1, <1>2, PTL DEF Spec

(* No memory is handed out twice, and what was handed out and is still in  *)
(* ram_list is workspace that avoid_list covers.                           *)
THEOREM GrantsStayApart == Spec => []GrantsApart
<1>1. RamInv => GrantsApart
  BY InKept DEF RamInv, GrantInv, GrantsApart
<1> QED BY <1>1, RamInvariant, PTL

(* A request for RAM fails only for want of room.                          *)
THEOREM RequestsAreMet == Spec => []NoFalseFailure
<1>1. RamInv => NoFalseFailure
  <2> SUFFICES ASSUME RamInv, NEW ask \in Asks,
                      find_ram(ram_list, avoid_list, ask.size, ask.align) = NULL_PADDR
               PROVE  ~ \E i \in DOMAIN ram_list :
                          /\ \A k \in DOMAIN avoid_list : Avoided(avoid_list[k]) \cap Extent(ram_list[i]) = {}
                          /\ \E a \in Extent(ram_list[i]) :
                               a % ask.align = 0 /\ a + ask.size <= ram_list[i].addr + ram_list[i].size
    BY DEF NoFalseFailure
  <2>1. ask.size \in Nat \ {0} /\ ask.align \in Nat \ {0}
    BY Constants
  <2>2. Good(ram_list) /\ avoid_list \in Seq(Fence)
    BY DEF RamInv, ListInv, AvoidInv
  <2> QED BY ONLY <2>1, <2>2, FindRam,
             find_ram(ram_list, avoid_list, ask.size, ask.align) = NULL_PADDR
<1> QED BY <1>1, RamInvariant, PTL

(* The lists of ranges implement a set of free addresses: add_ram adds a   *)
(* region without the image, an allocation takes one contiguous range and  *)
(* hands out exactly this range, and a workspace is handed out of what     *)
(* stays free.                                                             *)
THEOREM ImplementsFreeRam == Spec => FreeSpec
<1>1. Init => Free!FreeInit
  <2> SUFFICES ASSUME Init PROVE Free!FreeInit
    OBVIOUS
  <2>1. granted \subseteq 0 .. Top
    BY RamInit DEF RamInv, GrantInv
  <2>2. Image \subseteq granted
    <3>1. Image \subseteq ram_paddr .. Early - 1
      BY Constants DEF Image
    <3> QED BY <3>1, RamInit DEF RamInv, GrantInv
  <2> QED BY <2>1, <2>2 DEF Init, Free!FreeInit, Cells
<1>2. RamInv /\ [Next]_vars => [Free!Lend \/ Free!Add \/ Free!Take]_<<Cells(ram_list), granted>>
  BY RamNext
<1> QED BY <1>1, <1>2, RamInvariant, PTL DEF Spec, FreeSpec, Free!FreeSpec

(* SysInv holds in every state: sysram holds ranges, and while startup     *)
(* runs they are the free ranges, each told once.                          *)
THEOREM SysInvariant == Spec => []SysInv
<1>1. Init => SysInv
  BY DEF Init, SysInv
<1>2. RamInv /\ SysInv /\ [Next]_vars => SysInv'
  BY SysNext
<1> QED BY <1>1, <1>2, RamInvariant, PTL DEF Spec

(* What the kernel is told of is what is free, whatever was allocated      *)
(* before and after add_sysram, and no address is told twice.              *)
THEOREM SysramStaysFree == Spec => []SysramIsFree
<1>1. SysInv => SysramIsFree
  BY DEF SysInv, SysramIsFree, Once, Tell
<1> QED BY <1>1, SysInvariant, PTL

(* The lists keep their types, and ram_list its ascending order with a gap *)
(* between entries.                                                        *)
THEOREM TypeCorrect == Spec => []TypeOK
<1>1. RamInv /\ SysInv => TypeOK
  <2> SUFFICES ASSUME RamInv, SysInv PROVE TypeOK
    OBVIOUS
  <2>1. ram_list \in Seq(RamEntry)
    <3>1. Block \subseteq RamEntry
      BY TopNat DEF Block, Span, RamEntry
    <3> QED BY <3>1 DEF RamInv, ListInv, Good
  <2>2. \A i \in 1 .. Len(ram_list) - 1 :
          ram_list[i].addr + ram_list[i].size < ram_list[i + 1].addr
    <3> SUFFICES ASSUME NEW i \in 1 .. Len(ram_list) - 1
                 PROVE  ram_list[i].addr + ram_list[i].size < ram_list[i + 1].addr
      OBVIOUS
    <3>1. i \in DOMAIN ram_list /\ i + 1 \in DOMAIN ram_list /\ i < i + 1
      BY <2>1
    <3> QED BY <3>1 DEF RamInv, ListInv, Good, Apart
  <2>3. avoid_list \in Seq([start : 0 .. Top, end : 0 .. Top + 1])
    <3> DEFINE S == [start : 0 .. Top, end : 0 .. Top + 1]
    <3>1. Fence \subseteq S
      BY TopNat DEF Fence, Zone
    <3> HIDE DEF S
    <3>2. avoid_list \in Seq(S)
      BY <3>1 DEF RamInv, AvoidInv
    <3> QED BY <3>2 DEF S
  <2>4. sysram \in Seq([start : 0 .. Top, end : 0 .. Top])
    <3> DEFINE S == [start : 0 .. Top, end : 0 .. Top]
    <3>1. Told \subseteq S
      BY TopNat DEF Told, Zone
    <3> HIDE DEF S
    <3>2. sysram \in Seq(S)
      BY <3>1 DEF SysInv
    <3> QED BY <3>2 DEF S
  <2>5. ws_early_next \in 0 .. Top + 1
    BY Constants DEF RamInv, EarlyInv
  <2>6. ram \in Seq(Regions) /\ granted \subseteq 0 .. Top /\ twice \subseteq granted
    BY DEF RamInv, AddedInv, GrantInv
  <2>7. /\ temp_syspage \in {NULL_PADDR} \cup (0 .. Top)
        /\ sysram_added \in BOOLEAN /\ crashed \in BOOLEAN
        /\ grants \in 0 .. MaxGrants + 1 /\ late \in 0 .. MaxLate
    BY DEF RamInv, CountInv
  <2> QED BY <2>1, <2>2, <2>3, <2>4, <2>5, <2>6, <2>7 DEF TypeOK
<1> QED BY <1>1, RamInvariant, SysInvariant, PTL
=============================================================================
