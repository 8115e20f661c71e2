--------------------------- MODULE MpcConfigProofs ---------------------------
(***************************************************************************)
(* The configuration of an MPC object, for every horizon, step, capacity   *)
(* and model: what holds of an object under construction, what the first   *)
(* init() that completes fixes for all later ones, and where the assembly  *)
(* writes.                                                                 *)
(***************************************************************************)
EXTENDS MpcConfig, TLAPS, FiniteSetTheorems, SequenceTheorems, WellFoundedInduction

\* A configured solver is one the assembly can be asked for.
SolverInv ==
  Ready => /\ solver.model \in Models
           /\ solver.Np \in Nat \ {0} /\ solver.Nc \in Nat \ {0}
           /\ solver.K \in Nat /\ solver.cbf \in BOOLEAN
           /\ solver.model.obs /\ solver.K > 0 =>
                solver.model.px < solver.model.n /\ solver.model.py < solver.model.n

\* What the first completed init() fixes for all later ones: the weights, hence the
\* dimensions of the models it accepts, and the members behind solver and buffers.  A
\* model on record that could be configured is the solver's.
BuiltInv ==
  /\ initialized => Q \in Nat \ {0} /\ R \in Nat \ {0}
  /\ initialized /\ ~assigned =>
       /\ 0 < Nc /\ Nc <= Np /\ dt[1] > 0
       /\ Ready => /\ solver = Configured(solver.model)
                   /\ Q = solver.model.n /\ R = solver.model.m
                   /\ OthersFit /\ buffers.n_ineq = Bounds(solver.model)
       /\ WeightsFit(model) /\ MappingFits(model) => Ready /\ solver.model = model

\* A checked goal has the dimensions of the weights, which outlast the models.
GoalInv ==
  ~assigned => /\ goal_x.checked => initialized /\ Fits(goal_x, Np + 1, Q)
               /\ goal_u.checked => initialized /\ Fits(goal_u, Nc, R)

\* The rows whose barrier has a node before it.
Coupleable(p) == IF p.barrier THEN p.k .. p.np * p.k - 1 ELSE {}

\* The gradients in the QP are those of the rows coupled last, which are among the
\* rows every assembly writes.
CouplingInv ==
  Ready => /\ pattern = Written(Problem(solver), {})
           /\ coupled \subseteq (IF Problem(solver).k > 0 THEN Coupleable(Problem(solver)) ELSE {})
           /\ gradient = Gradients(Problem(solver), coupled)

IInv == TypeOK /\ HorizonConsistent /\ SolverInv /\ BuiltInv /\ GoalInv /\ CouplingInv

-----------------------------------------------------------------------------
(* Numbers.                                                                *)

\* A nonempty set of naturals has a least element.
LEMMA LeastExists ==
  ASSUME NEW S \in SUBSET Nat, S # {} PROVE \E x \in S : \A y \in S : x <= y
<1> DEFINE Less == OpToRel(<, Nat)
<1>1. \A x, y \in Nat : <<x, y>> \in Less <=> x < y
  BY DEF OpToRel
<1>2. IsWellFoundedOn(Less, Nat)
  BY NatLessThanWellFounded
<1> HIDE DEF Less
<1>3. PICK x \in S : \A y \in S : ~(<<y, x>> \in Less)
  BY <1>2, WFMin
<1>4. ASSUME NEW y \in S PROVE x <= y
  <2>1. x \in Nat /\ y \in Nat
    OBVIOUS
  <2>2. ~(y < x)
    BY <1>1, <1>3, <2>1
  <2> QED BY <2>1, <2>2
<1> QED BY <1>4

LEMMA TimesLeq ==
  ASSUME NEW c \in Nat, NEW a \in Int, NEW b \in Int, a <= b PROVE c * a <= c * b
<1>1. PICK d \in Nat : b = a + d
  <2>1. b - a \in Nat /\ b = a + (b - a)
    OBVIOUS
  <2> QED BY <2>1
<1>2. c * (a + d) = c * a + c * d /\ c * d \in Nat /\ c * a \in Int
  OBVIOUS
<1> QED BY <1>1, <1>2

\* Places in consecutive blocks of c: the place r of block i is below block k, and is
\* no other place of another block.
LEMMA Within ==
  ASSUME NEW c \in Nat \ {0}, NEW i \in Nat, NEW k \in Nat, i < k, NEW r \in 0 .. c - 1
  PROVE  c * i \in Nat /\ c * k \in Nat /\ c * i + r < c * k /\ c * i + c <= c * k
<1>1. c * (i + 1) <= c * k
  BY TimesLeq
<1>2. c * (i + 1) = c * i + c /\ c * i \in Nat /\ c * k \in Nat
  OBVIOUS
<1> QED BY <1>1, <1>2

LEMMA OnePlace ==
  ASSUME NEW c \in Nat \ {0}, NEW i \in Nat, NEW j \in Nat,
         NEW r \in 0 .. c - 1, NEW s \in 0 .. c - 1, c * i + r = c * j + s
  PROVE  i = j /\ r = s
<1>1. ~(i < j)
  <2> SUFFICES ASSUME i < j PROVE FALSE
    OBVIOUS
  <2>1. c * i \in Nat /\ c * j \in Nat /\ c * i + r < c * j
    BY Within
  <2> QED BY <2>1
<1>2. ~(j < i)
  <2> SUFFICES ASSUME j < i PROVE FALSE
    OBVIOUS
  <2>1. c * j \in Nat /\ c * i \in Nat /\ c * j + s < c * i
    BY Within
  <2> QED BY <2>1
<1>3. i = j
  BY <1>1, <1>2
<1>4. c * i = c * j /\ c * i \in Nat
  BY <1>3
<1> QED BY <1>3, <1>4

\* The block a number is in.
LEMMA Quotient ==
  ASSUME NEW d \in Nat \ {0}, NEW k \in Nat, NEW a \in Nat, a < d * k
  PROVE  a \div d \in 0 .. k - 1 /\ a % d \in 0 .. d - 1 /\ a = (d * (a \div d)) + (a % d)
<1> DEFINE q == a \div d
           r == a % d
<1>1. r \in 0 .. d - 1 /\ q \in Int /\ a = d * q + r
  OBVIOUS
<1> HIDE DEF q, r
<1>2. 0 <= q
  <2> SUFFICES ASSUME q + 1 <= 0 PROVE FALSE
    BY <1>1
  <2>1. d * (q + 1) <= d * 0
    BY <1>1, TimesLeq
  <2>2. d * (q + 1) = d * q + d /\ d * 0 = 0 /\ d * q \in Int
    BY <1>1
  <2> QED BY <1>1, <2>1, <2>2
<1>3. q < k
  <2> SUFFICES ASSUME k <= q PROVE FALSE
    BY <1>1
  <2>1. d * k <= d * q
    BY <1>1, TimesLeq
  <2>2. d * k \in Nat /\ d * q \in Int
    BY <1>1
  <2> QED BY <1>1, <2>1, <2>2
<1>4. q \in 0 .. k - 1
  BY <1>1, <1>2, <1>3
<1> QED BY <1>1, <1>4 DEF q, r

LEMMA IntervalSize ==
  ASSUME NEW a \in Int, NEW len \in Nat
  PROVE  IsFiniteSet(a .. a + len - 1) /\ Cardinality(a .. a + len - 1) = len
<1>1. PICK e \in Int : e = a + len - 1
  OBVIOUS
<1>2. IsFiniteSet(a .. e) /\ Cardinality(a .. e) = IF a > e THEN 0 ELSE e - a + 1
  BY FS_Interval
<1>3. len = IF a > e THEN 0 ELSE e - a + 1
  BY <1>1
<1> QED BY <1>1, <1>2, <1>3

-----------------------------------------------------------------------------
(* The running sum.                                                        *)

LEMMA SumsExist ==
  ASSUME NEW s \in Seq(Nat), NEW len \in 0 .. Len(s)
  PROVE  \E f \in [0 .. len -> Nat] :
           \A b \in 0 .. len : f[b] = IF b = 0 THEN 0 ELSE f[b - 1] + s[b]
<1> DEFINE Ok(k) == \E f \in [0 .. k -> Nat] :
                      \A b \in 0 .. k : f[b] = IF b = 0 THEN 0 ELSE f[b - 1] + s[b]
           Bad == {k \in 0 .. Len(s) : ~Ok(k)}
<1>1. Len(s) \in Nat /\ \A b \in 1 .. Len(s) : s[b] \in Nat
  BY ElementOfSeq, LenProperties
<1>2. SUFFICES ASSUME Bad # {} PROVE FALSE
  OBVIOUS
<1>3. PICK k \in Bad : \A j \in Bad : k <= j
  <2>1. Bad \in SUBSET Nat
    BY <1>1
  <2> HIDE DEF Bad
  <2> QED BY <1>2, <2>1, LeastExists
<1>4. k \in Nat /\ k <= Len(s) /\ ~Ok(k)
  BY <1>1
<1>5. Ok(0)
  <2> DEFINE f == [b \in 0 .. 0 |-> 0]
  <2>1. f \in [0 .. 0 -> Nat] /\ \A b \in 0 .. 0 : b = 0 /\ f[b] = 0
    OBVIOUS
  <2> HIDE DEF f
  <2> QED BY <2>1
<1>6. k # 0
  <2> HIDE DEF Ok
  <2> QED BY <1>4, <1>5
<1>7. Ok(k - 1)
  <2>1. k - 1 \in 0 .. Len(s) /\ ~(k <= k - 1)
    BY <1>1, <1>4, <1>6
  <2> HIDE DEF Ok
  <2> QED BY <1>3, <2>1
<1>8. PICK f \in [0 .. k - 1 -> Nat] :
        \A b \in 0 .. k - 1 : f[b] = IF b = 0 THEN 0 ELSE f[b - 1] + s[b]
  BY <1>7
<1> DEFINE g == [b \in 0 .. k |-> IF b = k THEN f[k - 1] + s[k] ELSE f[b]]
<1>9. f[k - 1] \in Nat /\ s[k] \in Nat
  BY <1>1, <1>4, <1>6, <1>8
<1>10. g \in [0 .. k -> Nat]
  BY <1>4, <1>6, <1>8, <1>9
<1>11. ASSUME NEW b \in 0 .. k PROVE g[b] = IF b = 0 THEN 0 ELSE g[b - 1] + s[b]
  <2>1. CASE b = k
    <3>1. g[b] = f[k - 1] + s[k] /\ g[b - 1] = f[k - 1]
      BY <1>4, <1>6, <2>1
    <3> QED BY <1>6, <2>1, <3>1
  <2>2. CASE b # k
    <3>1. b \in 0 .. k - 1 /\ g[b] = f[b] /\ (b # 0 => g[b - 1] = f[b - 1])
      BY <1>4, <2>2
    <3> HIDE DEF g
    <3> QED BY <1>8, <3>1
  <2> QED BY <2>1, <2>2
<1> HIDE DEF g
<1>12. Ok(k)
  BY <1>10, <1>11
<1> QED BY <1>4, <1>12

\* Each block ends as many rows after the one before it as it has.
LEMMA EndsAre ==
  ASSUME NEW p, BlockSizes(p) \in Seq(Nat)
  PROVE  /\ End(p, 0) = 0
         /\ \A b \in 0 .. Len(BlockSizes(p)) : End(p, b) \in Nat
         /\ \A b \in 1 .. Len(BlockSizes(p)) : End(p, b) = End(p, b - 1) + BlockSizes(p)[b]
<1> DEFINE s == BlockSizes(p)
           D == 0 .. Len(s)
           F(g) == g = [b \in D |-> IF b = 0 THEN 0 ELSE g[b - 1] + s[b]]
<1>1. Len(s) \in Nat
  BY LenProperties
<1>2. Ends(p) = CHOOSE g : F(g)
  BY DEF Ends
<1> HIDE DEF s
<1>3. PICK f \in [D -> Nat] : \A b \in D : f[b] = IF b = 0 THEN 0 ELSE f[b - 1] + s[b]
  <2>1. Len(s) \in 0 .. Len(s)
    BY <1>1
  <2> QED BY <2>1, SumsExist DEF s
<1>4. F(f)
  BY <1>3
<1>5. F(Ends(p))
  BY <1>2, <1>4
<1>6. \A b \in D : End(p, b) = IF b = 0 THEN 0 ELSE End(p, b - 1) + s[b]
  BY <1>5 DEF End
<1>7. \A b \in 1 .. Len(s) : s[b] \in Nat
  BY ElementOfSeq DEF s
<1>8. \A b \in D : End(p, b) \in Nat
  <2> DEFINE Bad == {b \in D : End(p, b) \notin Nat}
  <2> SUFFICES ASSUME Bad # {} PROVE FALSE
    OBVIOUS
  <2>1. PICK b \in Bad : \A c \in Bad : b <= c
    <3>1. Bad \in SUBSET Nat
      BY <1>1
    <3> HIDE DEF Bad
    <3> QED BY <3>1, LeastExists
  <2>2. b \in D /\ b # 0
    BY <1>6
  <2>3. b - 1 \in D /\ b \in 1 .. Len(s) /\ ~(b <= b - 1)
    BY <1>1, <2>2
  <2>4. End(p, b - 1) \in Nat
    BY <2>1, <2>3
  <2> QED BY <1>6, <1>7, <2>2, <2>3, <2>4
<1>9. 0 \in D /\ \A b \in 1 .. Len(s) : b \in D /\ b # 0
  BY <1>1
<1> QED BY <1>6, <1>8, <1>9 DEF s

LEMMA EndsGrow ==
  ASSUME NEW p, BlockSizes(p) \in Seq(Nat),
         NEW a \in 0 .. Len(BlockSizes(p)), NEW b \in 0 .. Len(BlockSizes(p)), a <= b
  PROVE  End(p, a) <= End(p, b)
<1> DEFINE L == Len(BlockSizes(p))
           Bad == {c \in a .. L : ~(End(p, a) <= End(p, c))}
<1>1. L \in Nat /\ \A c \in 1 .. L : BlockSizes(p)[c] \in Nat
  BY LenProperties, ElementOfSeq
<1>2. /\ \A c \in 0 .. L : End(p, c) \in Nat
      /\ \A c \in 1 .. L : End(p, c) = End(p, c - 1) + BlockSizes(p)[c]
  BY EndsAre
<1> HIDE DEF L
<1>3. Bad = {}
  <2> SUFFICES ASSUME Bad # {} PROVE FALSE
    OBVIOUS
  <2>1. PICK c \in Bad : \A d \in Bad : c <= d
    <3>1. Bad \in SUBSET Nat
      BY <1>1 DEF L
    <3> HIDE DEF Bad
    <3> QED BY <3>1, LeastExists
  <2>2. c \in Nat /\ a <= c /\ c <= L /\ ~(End(p, a) <= End(p, c)) /\ a \in Nat
    BY <1>1 DEF L
  <2>3. c # a
    BY <1>2, <2>2 DEF L
  <2>4. c - 1 \in a .. L /\ c - 1 \in 0 .. L /\ c \in 1 .. L /\ a \in 0 .. L /\ ~(c <= c - 1)
    BY <1>1, <2>2, <2>3 DEF L
  <2>5. End(p, a) <= End(p, c - 1)
    BY <2>1, <2>4
  <2>6. End(p, a) \in Nat /\ End(p, c - 1) \in Nat
    BY <1>2, <2>4
  <2>7. End(p, c) = End(p, c - 1) + BlockSizes(p)[c] /\ BlockSizes(p)[c] \in Nat
    BY <1>1, <1>2, <2>4
  <2> QED BY <2>2, <2>5, <2>6, <2>7
<1> QED BY <1>3 DEF L

\* The blocks part the inequality rows.
LEMMA RowsPart ==
  ASSUME NEW p, BlockSizes(p) \in Seq(Nat)
  PROVE  /\ \A r \in InequalityRows(p) : \E b \in 1 .. Len(BlockSizes(p)) : r \in RowsOf(p, b)
         /\ \A b \in 1 .. Len(BlockSizes(p)) : \A r \in RowsOf(p, b) : r \in InequalityRows(p)
         /\ \A b, c \in 1 .. Len(BlockSizes(p)) :
              \A r : r \in RowsOf(p, b) /\ r \in RowsOf(p, c) => b = c
<1> DEFINE L == Len(BlockSizes(p))
<1>1. L \in Nat /\ BlockSizes(p) \in Seq(Nat)
  BY LenProperties
<1>2. End(p, 0) = 0 /\ \A b \in 0 .. L : End(p, b) \in Nat
  BY EndsAre
<1>3. \A a, b \in 0 .. L : a <= b => End(p, a) <= End(p, b)
  BY EndsGrow
<1> HIDE DEF L
<1>4. ASSUME NEW r \in InequalityRows(p) PROVE \E b \in 1 .. L : r \in RowsOf(p, b)
  <2> DEFINE S == {b \in 0 .. L : r < End(p, b)}
  <2>1. r \in Nat /\ r < End(p, L) /\ L \in 0 .. L
    BY <1>1, <1>2 DEF InequalityRows, L
  <2>2. PICK b \in S : \A c \in S : b <= c
    <3>1. S \in SUBSET Nat /\ S # {}
      BY <1>1, <2>1
    <3> HIDE DEF S
    <3> QED BY <3>1, LeastExists
  <2>3. b \in 0 .. L /\ r < End(p, b) /\ b # 0
    BY <1>2, <2>1, <2>2
  <2>4. b - 1 \in 0 .. L /\ ~(b <= b - 1) /\ b \in 1 .. L
    BY <1>1, <2>3
  <2>5. ~(r < End(p, b - 1))
    BY <2>2, <2>4
  <2>6. r \in RowsOf(p, b)
    BY <1>2, <2>1, <2>3, <2>4, <2>5 DEF RowsOf
  <2> QED BY <2>4, <2>6
<1>5. ASSUME NEW b \in 1 .. L, NEW r \in RowsOf(p, b) PROVE r \in InequalityRows(p)
  <2>1. b - 1 \in 0 .. L /\ b \in 0 .. L /\ L \in 0 .. L /\ b <= L
    BY <1>1
  <2>2. End(p, b - 1) \in Nat /\ End(p, b) <= End(p, L) /\ End(p, b) \in Nat /\ End(p, L) \in Nat
    BY <1>2, <1>3, <2>1
  <2> QED BY <2>2 DEF RowsOf, InequalityRows, L
<1>6. ASSUME NEW b \in 1 .. L, NEW c \in 1 .. L, b < c, NEW r \in RowsOf(p, b), r \in RowsOf(p, c)
      PROVE  FALSE
  <2>1. b \in 0 .. L /\ c - 1 \in 0 .. L /\ b <= c - 1 /\ b - 1 \in 0 .. L /\ c \in 0 .. L
    BY <1>1, <1>6
  <2>2. End(p, b) <= End(p, c - 1) /\ End(p, b) \in Nat /\ End(p, c - 1) \in Nat
    BY <1>2, <1>3, <2>1
  <2>3. r < End(p, b) /\ End(p, c - 1) <= r /\ r \in Int
    BY <1>2, <1>6, <2>1 DEF RowsOf
  <2> QED BY <2>2, <2>3
<1>7. ASSUME NEW b \in 1 .. L, NEW c \in 1 .. L, NEW r, r \in RowsOf(p, b), r \in RowsOf(p, c)
      PROVE  b = c
  <2>1. b \in Int /\ c \in Int /\ (b < c \/ c < b \/ b = c)
    BY <1>1
  <2> QED BY <1>6, <1>7, <2>1
<1> QED BY <1>4, <1>5, <1>7 DEF L

-----------------------------------------------------------------------------
(* The blocks of the inequality rows.                                      *)

\* A problem the assembly can be asked for.
WellFormed(p) ==
  /\ p.n \in Nat \ {0} /\ p.m \in Nat \ {0}
  /\ p.np \in Nat \ {0} /\ p.nc \in Nat \ {0}
  /\ p.k \in Nat /\ p.barrier \in BOOLEAN
  /\ p.x \in Seq(0 .. p.n - 1) /\ p.u \in Seq(0 .. p.m - 1) /\ p.du \in Seq(0 .. p.m - 1)
  /\ p.k > 0 => p.pos \subseteq 0 .. p.n - 1

\* s is a with `count' blocks of one size behind it.
Lengthens(s, a, count, size) ==
  /\ s \in Seq(Nat) /\ Len(s) = Len(a) + count
  /\ \A i \in 1 .. Len(a) : s[i] = a[i]
  /\ \A j \in 1 .. count : s[Len(a) + j] = size

LEMMA Appended ==
  ASSUME NEW a \in Seq(Nat), NEW count \in Nat, NEW size \in Nat
  PROVE  Lengthens(a \o Repeat(count, size), a, count, size)
<1> DEFINE b == Repeat(count, size)
<1>1. b \in Seq(Nat) /\ Len(b) = count /\ \A i \in 1 .. count : b[i] = size
  <2>1. b \in [1 .. count -> Nat] /\ DOMAIN b = 1 .. count
    BY DEF Repeat
  <2>2. b \in Seq(Nat)
    BY <2>1, SeqDef
  <2>3. Len(b) = count
    BY <2>1, <2>2, LenProperties
  <2> QED BY <2>2, <2>3 DEF Repeat
<1> HIDE DEF b
<1>2. /\ a \o b \in Seq(Nat) /\ Len(a \o b) = Len(a) + Len(b)
      /\ \A i \in 1 .. Len(a) + Len(b) :
           (a \o b)[i] = IF i <= Len(a) THEN a[i] ELSE b[i - Len(a)]
  BY <1>1, ConcatProperties
<1>3. Len(a) \in Nat
  BY LenProperties
<1>4. ASSUME NEW i \in 1 .. Len(a) PROVE (a \o b)[i] = a[i]
  <2>1. i \in 1 .. Len(a) + Len(b) /\ i <= Len(a)
    BY <1>1, <1>3
  <2> QED BY <1>2, <2>1
<1>5. ASSUME NEW j \in 1 .. count PROVE (a \o b)[Len(a) + j] = size
  <2>1. PICK i \in Int : i = Len(a) + j
    BY <1>3
  <2>2. i \in 1 .. Len(a) + Len(b) /\ ~(i <= Len(a)) /\ i - Len(a) = j
    BY <1>1, <1>3, <2>1
  <2> QED BY <1>1, <1>2, <2>1, <2>2
<1> DEFINE s == a \o b
<1>6. s \in Seq(Nat) /\ Len(s) = Len(a) + count
  BY <1>1, <1>2
<1>7. (\A i \in 1 .. Len(a) : s[i] = a[i]) /\ (\A j \in 1 .. count : s[Len(a) + j] = size)
  BY <1>4, <1>5
<1> HIDE DEF s
<1>8. Lengthens(s, a, count, size)
  BY <1>6, <1>7 DEF Lengthens
<1> QED BY <1>8 DEF b, s

LastBlock(p) == 1 + Len(p.x) + Len(p.u) + Len(p.du) + (IF p.k > 0 THEN 2 ELSE 0)

LEMMA SizesAre ==
  ASSUME NEW p, WellFormed(p)
  PROVE  /\ BlockSizes(p) \in Seq(Nat) /\ Len(BlockSizes(p)) = LastBlock(p)
         /\ BlockSizes(p)[1] = Len(p.du)
         /\ \A j \in 1 .. Len(p.x) : BlockSizes(p)[XBlock(j)] = p.np + 1
         /\ \A j \in 1 .. Len(p.u) : BlockSizes(p)[UBlock(p, j)] = p.nc
         /\ \A j \in 1 .. Len(p.du) : BlockSizes(p)[RateBlock(p, j)] = p.nc - 1
         /\ p.k > 0 => /\ BlockSizes(p)[ObsBlock(p)] = p.np * p.k
                       /\ BlockSizes(p)[ObsBlock(p) + 1] = p.np * p.k
<1> DEFINE X == Len(p.x)
           U == Len(p.u)
           D == Len(p.du)
           s1 == <<D>>
           s2 == s1 \o Repeat(X, p.np + 1)
           s3 == s2 \o Repeat(U, p.nc)
           s4 == s3 \o Repeat(D, p.nc - 1)
           s5 == s4 \o Repeat(2, p.np * p.k)
<1>1. X \in Nat /\ U \in Nat /\ D \in Nat
  BY LenProperties DEF WellFormed
<1>2. p.np + 1 \in Nat /\ p.nc \in Nat /\ p.nc - 1 \in Nat /\ p.np * p.k \in Nat /\ p.k \in Nat
  <2>1. \A a, b \in Nat : a * b \in Nat
    OBVIOUS
  <2>2. p.np \in Nat /\ p.k \in Nat /\ p.nc \in Nat \ {0}
    BY DEF WellFormed
  <2>3. p.np * p.k \in Nat
    BY <2>1, <2>2
  <2> QED BY <2>2, <2>3
<1>3. s1 \in Seq(Nat) /\ Len(s1) = 1 /\ s1[1] = D
  BY <1>1
<1>4. BlockSizes(p) = IF p.k > 0 THEN s5 ELSE s4
  <2>1. s4 \o <<>> = s4
    <3> HIDE DEF s1
    <3>1. s2 \in Seq(Nat)
      BY <1>1, <1>2, <1>3, Appended DEF Lengthens
    <3> HIDE DEF s2
    <3>2. s3 \in Seq(Nat)
      BY <1>1, <1>2, <3>1, Appended DEF Lengthens
    <3> HIDE DEF s3
    <3>3. s4 \in Seq(Nat)
      BY <1>1, <1>2, <3>2, Appended DEF Lengthens
    <3> HIDE DEF s4
    <3> QED BY <3>3, ConcatEmptySeq
  <2> QED BY <2>1, Zenon DEF BlockSizes
<1> HIDE DEF s1, X, U, D
<1>5. /\ s2 \in Seq(Nat) /\ Len(s2) = 1 + X /\ s2[1] = D
      /\ \A j \in 1 .. X : s2[1 + j] = p.np + 1
  <2>1. Lengthens(s2, s1, X, p.np + 1)
    BY <1>1, <1>2, <1>3, Appended
  <2> HIDE DEF s2
  <2> QED BY <1>1, <1>3, <2>1 DEF Lengthens
<1> HIDE DEF s2
<1>6. /\ s3 \in Seq(Nat) /\ Len(s3) = 1 + X + U /\ s3[1] = D
      /\ \A j \in 1 .. X : s3[1 + j] = p.np + 1
      /\ \A j \in 1 .. U : s3[1 + X + j] = p.nc
  <2>1. Lengthens(s3, s2, U, p.nc)
    BY <1>1, <1>2, <1>5, Appended
  <2> HIDE DEF s3
  <2>2. 1 \in 1 .. Len(s2) /\ \A j \in 1 .. X : 1 + j \in 1 .. Len(s2)
    BY <1>1, <1>5
  <2> QED BY <1>1, <1>5, <2>1, <2>2 DEF Lengthens
<1> HIDE DEF s3
<1>7. /\ s4 \in Seq(Nat) /\ Len(s4) = 1 + X + U + D /\ s4[1] = D
      /\ \A j \in 1 .. X : s4[1 + j] = p.np + 1
      /\ \A j \in 1 .. U : s4[1 + X + j] = p.nc
      /\ \A j \in 1 .. D : s4[1 + X + U + j] = p.nc - 1
  <2>1. Lengthens(s4, s3, D, p.nc - 1)
    BY <1>1, <1>2, <1>6, Appended
  <2> HIDE DEF s4
  <2>2. /\ 1 \in 1 .. Len(s3) /\ \A j \in 1 .. X : 1 + j \in 1 .. Len(s3)
        /\ \A j \in 1 .. U : 1 + X + j \in 1 .. Len(s3)
    BY <1>1, <1>6
  <2> QED BY <1>1, <1>6, <2>1, <2>2 DEF Lengthens
<1> HIDE DEF s4
<1>8. /\ s5 \in Seq(Nat) /\ Len(s5) = 1 + X + U + D + 2 /\ s5[1] = D
      /\ \A j \in 1 .. X : s5[1 + j] = p.np + 1
      /\ \A j \in 1 .. U : s5[1 + X + j] = p.nc
      /\ \A j \in 1 .. D : s5[1 + X + U + j] = p.nc - 1
      /\ s5[2 + X + U + D] = p.np * p.k
      /\ s5[2 + X + U + D + 1] = p.np * p.k
  <2>1. Lengthens(s5, s4, 2, p.np * p.k)
    <3>1. 2 \in Nat
      OBVIOUS
    <3> QED BY <1>2, <1>7, <3>1, Appended
  <2> HIDE DEF s5
  <2>2. /\ 1 \in 1 .. Len(s4) /\ \A j \in 1 .. X : 1 + j \in 1 .. Len(s4)
        /\ \A j \in 1 .. U : 1 + X + j \in 1 .. Len(s4)
        /\ \A j \in 1 .. D : 1 + X + U + j \in 1 .. Len(s4)
    BY <1>1, <1>7
  <2>3. /\ Len(s4) + 1 = 2 + X + U + D /\ Len(s4) + 2 = 2 + X + U + D + 1
        /\ 1 \in 1 .. 2 /\ 2 \in 1 .. 2
    BY <1>1, <1>7
  <2>4. s5[2 + X + U + D] = p.np * p.k /\ s5[2 + X + U + D + 1] = p.np * p.k
    BY <2>1, <2>3 DEF Lengthens
  <2>5. Len(s5) = 1 + X + U + D + 2
    BY <1>1, <1>7, <2>1 DEF Lengthens
  <2> QED BY <1>7, <2>1, <2>2, <2>4, <2>5 DEF Lengthens
<1> HIDE DEF s5
<1>9. CASE p.k > 0
  <2>1. BlockSizes(p) = s5
    BY <1>4, <1>9
  <2>2. LastBlock(p) = 1 + X + U + D + 2
    BY <1>9 DEF LastBlock, X, U, D
  <2> QED BY <1>8, <2>1, <2>2 DEF X, U, D, XBlock, UBlock, RateBlock, ObsBlock
<1>10. CASE ~(p.k > 0)
  <2>1. BlockSizes(p) = s4
    BY <1>4, <1>10
  <2>2. LastBlock(p) = 1 + X + U + D
    <3>1. LastBlock(p) = 1 + X + U + D + 0
      BY <1>10, Zenon DEF LastBlock, X, U, D
    <3> QED BY <1>1, <3>1
  <2> QED BY <1>7, <1>10, <2>1, <2>2 DEF X, U, D, XBlock, UBlock, RateBlock, ObsBlock
<1> QED BY <1>9, <1>10

\* The place of a row in its block.
Place(p, b, r) == r - End(p, b - 1)

LEMMA Places ==
  ASSUME NEW p, WellFormed(p), NEW b \in 1 .. LastBlock(p)
  PROVE  /\ End(p, b - 1) \in Nat /\ BlockSizes(p)[b] \in Nat
         /\ End(p, b) = End(p, b - 1) + BlockSizes(p)[b]
         /\ \A r \in RowsOf(p, b) : /\ Place(p, b, r) \in 0 .. BlockSizes(p)[b] - 1
                                    /\ r = End(p, b - 1) + Place(p, b, r)
                                    /\ r \in Nat
         /\ \A s \in 0 .. BlockSizes(p)[b] - 1 : /\ End(p, b - 1) + s \in RowsOf(p, b)
                                                 /\ Place(p, b, End(p, b - 1) + s) = s
<1>1. BlockSizes(p) \in Seq(Nat) /\ Len(BlockSizes(p)) = LastBlock(p) /\ LastBlock(p) \in Nat
  BY SizesAre, LenProperties
<1>2. BlockSizes(p)[b] \in Nat /\ b - 1 \in 0 .. LastBlock(p) /\ b \in 0 .. LastBlock(p)
  BY <1>1, ElementOfSeq
<1>3. End(p, b - 1) \in Nat /\ End(p, b) = End(p, b - 1) + BlockSizes(p)[b]
  BY <1>1, <1>2, EndsAre
<1> QED BY <1>2, <1>3 DEF RowsOf, Place

\* The kinds of blocks.
LEMMA Kinds ==
  ASSUME NEW p, WellFormed(p)
  PROVE  /\ Len(p.x) \in Nat /\ Len(p.u) \in Nat /\ Len(p.du) \in Nat /\ LastBlock(p) \in Nat
         /\ 1 \in 1 .. LastBlock(p)
         /\ \A j \in 1 .. Len(p.x) : XBlock(j) \in 1 .. LastBlock(p) /\ XBlock(j) - 1 = j
         /\ \A j \in 1 .. Len(p.u) : UBlock(p, j) \in 1 .. LastBlock(p)
         /\ \A j \in 1 .. Len(p.du) : RateBlock(p, j) \in 1 .. LastBlock(p)
         /\ p.k > 0 => ObsBlock(p) \in 1 .. LastBlock(p) /\ ObsBlock(p) + 1 \in 1 .. LastBlock(p)
         /\ \A b \in 1 .. LastBlock(p) :
              \/ b = 1
              \/ \E j \in 1 .. Len(p.x) : b = XBlock(j)
              \/ \E j \in 1 .. Len(p.u) : b = UBlock(p, j)
              \/ \E j \in 1 .. Len(p.du) : b = RateBlock(p, j)
              \/ p.k > 0 /\ (b = ObsBlock(p) \/ b = ObsBlock(p) + 1)
<1> DEFINE X == Len(p.x)
           U == Len(p.u)
           D == Len(p.du)
           K == IF p.k > 0 THEN 2 ELSE 0
<1>1. X \in Nat /\ U \in Nat /\ D \in Nat
  BY LenProperties DEF WellFormed
<1>2. LastBlock(p) = 1 + X + U + D + K
  BY Zenon DEF LastBlock
<1>3. (p.k > 0 => K = 2) /\ (~(p.k > 0) => K = 0) /\ K \in Nat
  OBVIOUS
<1> HIDE DEF X, U, D, K
<1>4. LastBlock(p) \in Nat /\ 1 \in 1 .. LastBlock(p)
  BY <1>1, <1>2, <1>3
<1>5. ASSUME NEW j \in 1 .. X PROVE XBlock(j) \in 1 .. LastBlock(p) /\ XBlock(j) - 1 = j
  BY <1>1, <1>2, <1>3 DEF XBlock
<1>6. ASSUME NEW j \in 1 .. U PROVE UBlock(p, j) \in 1 .. LastBlock(p)
  BY <1>1, <1>2, <1>3 DEF UBlock, X
<1>7. ASSUME NEW j \in 1 .. D PROVE RateBlock(p, j) \in 1 .. LastBlock(p)
  <2>1. RateBlock(p, j) = 1 + X + U + j
    BY DEF RateBlock, X, U
  <2> QED BY <1>1, <1>2, <1>3, <2>1
<1>8. ObsBlock(p) = 2 + X + U + D
  BY DEF ObsBlock, X, U, D
<1>9. p.k > 0 => ObsBlock(p) \in 1 .. LastBlock(p) /\ ObsBlock(p) + 1 \in 1 .. LastBlock(p)
  BY <1>1, <1>2, <1>3, <1>8
<1>10. ASSUME NEW b \in 1 .. LastBlock(p)
       PROVE  \/ b = 1
              \/ \E j \in 1 .. X : b = XBlock(j)
              \/ \E j \in 1 .. U : b = UBlock(p, j)
              \/ \E j \in 1 .. D : b = RateBlock(p, j)
              \/ p.k > 0 /\ (b = ObsBlock(p) \/ b = ObsBlock(p) + 1)
  <2>1. b \in Nat /\ 1 <= b /\ b <= 1 + X + U + D + K
    BY <1>1, <1>2, <1>3
  <2>2. CASE b = 1
    BY <2>2
  <2>3. CASE 1 < b /\ b <= 1 + X
    <3>1. b - 1 \in 1 .. X /\ b = 1 + (b - 1)
      BY <1>1, <2>1, <2>3
    <3> QED BY <3>1 DEF XBlock
  <2>4. CASE 1 + X < b /\ b <= 1 + X + U
    <3>1. b - 1 - X \in 1 .. U /\ b = 1 + X + (b - 1 - X)
      BY <1>1, <2>1, <2>4
    <3> QED BY <3>1 DEF UBlock, X
  <2>5. CASE 1 + X + U < b /\ b <= 1 + X + U + D
    <3>1. b - 1 - X - U \in 1 .. D /\ b = 1 + X + U + (b - 1 - X - U)
      BY <1>1, <2>1, <2>5
    <3> QED BY <3>1 DEF RateBlock, X, U
  <2>6. CASE 1 + X + U + D < b
    <3>1. p.k > 0 /\ (b = 2 + X + U + D \/ b = 2 + X + U + D + 1)
      BY <1>1, <1>3, <2>1, <2>6
    <3> QED BY <1>8, <3>1
  <2> QED BY <1>1, <2>1, <2>2, <2>3, <2>4, <2>5, <2>6
<1> QED BY <1>1, <1>4, <1>5, <1>6, <1>7, <1>9, <1>10 DEF X, U, D

\* The columns of row r of block b.
SlotColumns(p, s) ==
  {p.n * (NodeOf(p, s) + 1) + i : i \in p.pos} \cup {WStart(p) + s} \cup
  (IF p.barrier /\ s >= p.k THEN {p.n * NodeOf(p, s) + i : i \in p.pos} ELSE {})

Spot(p, b, r, c) ==
  LET s == Place(p, b, r)
  IN  \/ b = 1 /\ c = UStart(p) + p.du[s + 1]
      \/ \E j \in 1 .. Len(p.x) : b = XBlock(j) /\ c = p.x[j] + p.n * s
      \/ \E j \in 1 .. Len(p.u) : b = UBlock(p, j) /\ c = UStart(p) + p.u[j] + p.m * s
      \/ \E j \in 1 .. Len(p.du) :
           /\ b = RateBlock(p, j)
           /\ \/ c = UStart(p) + p.du[j] + p.m * s
              \/ c = UStart(p) + p.du[j] + p.m * s + p.m
      \/ p.k > 0 /\ b = ObsBlock(p) /\ c \in SlotColumns(p, s)
      \/ p.k > 0 /\ b = ObsBlock(p) + 1 /\ c = WStart(p) + s

\* Every position written is one of the columns of its row,
LEMMA WrittenSpots ==
  ASSUME NEW p, WellFormed(p), NEW e \in Written(p, {})
  PROVE  \E b \in 1 .. LastBlock(p) : \E r \in RowsOf(p, b) : \E c :
           e = <<r, c>> /\ Spot(p, b, r, c)
<1> DEFINE Found == \E b \in 1 .. LastBlock(p) : \E r \in RowsOf(p, b) : \E c :
                      e = <<r, c>> /\ Spot(p, b, r, c)
           N == p.np * p.k
<1>1. /\ BlockSizes(p)[1] = Len(p.du)
      /\ p.k > 0 => BlockSizes(p)[ObsBlock(p)] = N /\ BlockSizes(p)[ObsBlock(p) + 1] = N
      /\ End(p, 0) = 0
  BY SizesAre, EndsAre
<1>2. /\ Len(p.du) \in Nat /\ DOMAIN p.x = 1 .. Len(p.x) /\ DOMAIN p.u = 1 .. Len(p.u)
      /\ DOMAIN p.du = 1 .. Len(p.du)
  BY LenProperties DEF WellFormed
<1> HIDE DEF N
<1>3. CASE e \in FirstRate(p)
  <2>1. PICK j \in 1 .. Len(p.du) : e = <<j - 1, UStart(p) + p.du[j]>>
    BY <1>2, <1>3 DEF FirstRate
  <2>2. PICK s \in Int : s = j - 1
    OBVIOUS
  <2>3. s \in 0 .. BlockSizes(p)[1] - 1 /\ s + 1 = j /\ 1 - 1 = 0 /\ 0 + s = s
    BY <1>1, <1>2, <2>2
  <2>4. 1 \in 1 .. LastBlock(p)
    BY Kinds
  <2>5. s \in RowsOf(p, 1) /\ Place(p, 1, s) = s
    BY <1>1, <2>3, <2>4, Places
  <2>6. Spot(p, 1, s, UStart(p) + p.du[j])
    BY <2>3, <2>5 DEF Spot
  <2> QED BY <2>1, <2>2, <2>4, <2>5, <2>6
<1>4. CASE e \in StateBounds(p)
  <2>1. PICK j \in 1 .. Len(p.x) : \E r \in RowsOf(p, XBlock(j)) :
          e = <<r, p.x[j] + p.n * (r - End(p, j))>>
    BY <1>2, <1>4 DEF StateBounds
  <2>2. PICK r \in RowsOf(p, XBlock(j)) : e = <<r, p.x[j] + p.n * (r - End(p, j))>>
    BY <2>1
  <2>3. XBlock(j) \in 1 .. LastBlock(p) /\ Place(p, XBlock(j), r) = r - End(p, j)
    BY Kinds DEF Place
  <2>4. Spot(p, XBlock(j), r, p.x[j] + p.n * (r - End(p, j)))
    BY <2>3 DEF Spot
  <2> QED BY <2>2, <2>3, <2>4
<1>5. CASE e \in ControlBounds(p)
  <2>1. PICK j \in 1 .. Len(p.u) : \E r \in RowsOf(p, UBlock(p, j)) :
          e = <<r, UStart(p) + p.u[j] + p.m * (r - End(p, UBlock(p, j) - 1))>>
    BY <1>2, <1>5 DEF ControlBounds
  <2>2. PICK r \in RowsOf(p, UBlock(p, j)) :
          e = <<r, UStart(p) + p.u[j] + p.m * (r - End(p, UBlock(p, j) - 1))>>
    BY <2>1
  <2>3. UBlock(p, j) \in 1 .. LastBlock(p)
    BY Kinds
  <2>4. Spot(p, UBlock(p, j), r, UStart(p) + p.u[j] + p.m * (r - End(p, UBlock(p, j) - 1)))
    BY DEF Spot, Place
  <2> QED BY <2>2, <2>3, <2>4
<1>6. CASE e \in RateBounds(p)
  <2>1. PICK j \in 1 .. Len(p.du) : \E r \in RowsOf(p, RateBlock(p, j)) :
          LET c == UStart(p) + p.du[j] + p.m * (r - End(p, RateBlock(p, j) - 1))
          IN  e = <<r, c>> \/ e = <<r, c + p.m>>
    BY <1>2, <1>6 DEF RateBounds
  <2>2. PICK r \in RowsOf(p, RateBlock(p, j)) :
          LET c == UStart(p) + p.du[j] + p.m * (r - End(p, RateBlock(p, j) - 1))
          IN  e = <<r, c>> \/ e = <<r, c + p.m>>
    BY <2>1
  <2> DEFINE c == UStart(p) + p.du[j] + p.m * (r - End(p, RateBlock(p, j) - 1))
  <2>3. RateBlock(p, j) \in 1 .. LastBlock(p)
    BY Kinds
  <2>4. Spot(p, RateBlock(p, j), r, c) /\ Spot(p, RateBlock(p, j), r, c + p.m)
    BY DEF Spot, Place
  <2> QED BY <2>2, <2>3, <2>4
<1>7. CASE p.k > 0 /\ e \in Distances(p) \cup Couplings(p, {})
  <2> DEFINE b == ObsBlock(p)
             first == End(p, b - 1)
  <2>1. PICK s \in 0 .. N - 1 : \E c \in SlotColumns(p, s) : e = <<first + s, c>>
    <3>1. CASE e \in Distances(p)
      <4>1. PICK s \in 0 .. N - 1 :
              e \in {<<first + s, p.n * (NodeOf(p, s) + 1) + i>> : i \in p.pos}
                      \cup {<<first + s, WStart(p) + s>>}
        BY <3>1 DEF Distances, N
      <4> QED BY <4>1 DEF SlotColumns
    <3>2. CASE e \in Couplings(p, {})
      <4>1. PICK s \in IF p.barrier THEN p.k .. N - 1 ELSE {} :
              e \in {<<first + s, p.n * NodeOf(p, s) + i>> : i \in p.pos}
        BY <3>2 DEF Couplings, N
      <4>2. p.barrier /\ s \in p.k .. N - 1
        BY <4>1
      <4>3. N \in Nat /\ p.k \in Nat
        <5>1. \A x, y \in Nat : x * y \in Nat
          OBVIOUS
        <5> QED BY <5>1 DEF WellFormed, N
      <4>4. s \in 0 .. N - 1 /\ s >= p.k
        BY <4>2, <4>3
      <4> QED BY <4>1, <4>2, <4>4 DEF SlotColumns
    <3> QED BY <1>7, <3>1, <3>2
  <2>2. PICK c \in SlotColumns(p, s) : e = <<first + s, c>>
    BY <2>1
  <2>3. b \in 1 .. LastBlock(p) /\ s \in 0 .. BlockSizes(p)[b] - 1
    BY <1>1, <1>7, Kinds
  <2>4. first + s \in RowsOf(p, b) /\ Place(p, b, first + s) = s
    BY <2>3, Places
  <2>5. Spot(p, b, first + s, c)
    BY <1>7, <2>4 DEF Spot
  <2> QED BY <2>2, <2>3, <2>4, <2>5
<1>8. CASE p.k > 0 /\ e \in Slacks(p)
  <2> DEFINE b == ObsBlock(p) + 1
             first == End(p, b - 1)
  <2>1. PICK s \in 0 .. N - 1 : e = <<End(p, ObsBlock(p)) + s, WStart(p) + s>>
    BY <1>8 DEF Slacks, N
  <2>2. b \in 1 .. LastBlock(p) /\ s \in 0 .. BlockSizes(p)[b] - 1 /\ b - 1 = ObsBlock(p)
    <3>1. ObsBlock(p) \in Nat
      BY <1>8, Kinds
    <3> QED BY <1>1, <1>8, <3>1, Kinds
  <2>3. first + s \in RowsOf(p, b) /\ Place(p, b, first + s) = s
    BY <2>2, Places
  <2>4. Spot(p, b, first + s, WStart(p) + s)
    BY <1>8, <2>3 DEF Spot
  <2>5. e = <<first + s, WStart(p) + s>>
    BY <2>1, <2>2
  <2> QED BY <2>2, <2>3, <2>4, <2>5
<1> QED BY <1>3, <1>4, <1>5, <1>6, <1>7, <1>8 DEF Written

\* and every column of a row is written.
LEMMA SpotsWritten ==
  ASSUME NEW p, WellFormed(p), NEW b \in 1 .. LastBlock(p), NEW r \in RowsOf(p, b),
         NEW c, Spot(p, b, r, c)
  PROVE  <<r, c>> \in Written(p, {})
<1> DEFINE s == Place(p, b, r)
           N == p.np * p.k
<1>1. /\ BlockSizes(p)[1] = Len(p.du)
      /\ p.k > 0 => BlockSizes(p)[ObsBlock(p)] = N /\ BlockSizes(p)[ObsBlock(p) + 1] = N
      /\ End(p, 0) = 0
  BY SizesAre, EndsAre
<1>2. /\ Len(p.du) \in Nat /\ DOMAIN p.x = 1 .. Len(p.x) /\ DOMAIN p.u = 1 .. Len(p.u)
      /\ DOMAIN p.du = 1 .. Len(p.du)
  BY LenProperties DEF WellFormed
<1>3. End(p, b - 1) \in Nat /\ s \in 0 .. BlockSizes(p)[b] - 1 /\ r = End(p, b - 1) + s
  BY Places
<1>4. s = r - End(p, b - 1)
  BY DEF Place
<1> HIDE DEF s, N
<1>5. CASE b = 1 /\ c = UStart(p) + p.du[s + 1]
  <2>1. PICK j \in Int : j = s + 1
    BY <1>3
  <2>2. j \in DOMAIN p.du /\ j - 1 = s /\ End(p, b - 1) = 0
    BY <1>1, <1>2, <1>3, <1>5, <2>1
  <2>3. r = j - 1 /\ c = UStart(p) + p.du[j]
    BY <1>3, <1>5, <2>1, <2>2
  <2>4. <<r, c>> \in FirstRate(p)
    BY <2>2, <2>3 DEF FirstRate
  <2> QED BY <2>4 DEF Written
<1>6. CASE \E j \in 1 .. Len(p.x) : b = XBlock(j) /\ c = p.x[j] + p.n * s
  <2>1. PICK j \in 1 .. Len(p.x) : b = XBlock(j) /\ c = p.x[j] + p.n * s
    BY <1>6
  <2>2. b - 1 = j
    BY <2>1, Kinds
  <2>3. <<r, c>> \in StateBounds(p)
    BY <1>2, <1>4, <2>1, <2>2 DEF StateBounds
  <2> QED BY <2>3 DEF Written
<1>7. CASE \E j \in 1 .. Len(p.u) : b = UBlock(p, j) /\ c = UStart(p) + p.u[j] + p.m * s
  <2>1. <<r, c>> \in ControlBounds(p)
    BY <1>2, <1>4, <1>7 DEF ControlBounds
  <2> QED BY <2>1 DEF Written
<1>8. CASE \E j \in 1 .. Len(p.du) :
             /\ b = RateBlock(p, j)
             /\ \/ c = UStart(p) + p.du[j] + p.m * s
                \/ c = UStart(p) + p.du[j] + p.m * s + p.m
  <2>1. <<r, c>> \in RateBounds(p)
    BY <1>2, <1>4, <1>8 DEF RateBounds
  <2> QED BY <2>1 DEF Written
<1>9. CASE p.k > 0 /\ b = ObsBlock(p) /\ c \in SlotColumns(p, s)
  <2>1. s \in 0 .. N - 1
    BY <1>1, <1>3, <1>9
  <2>2. CASE c \in {p.n * (NodeOf(p, s) + 1) + i : i \in p.pos} \cup {WStart(p) + s}
    <3>1. <<r, c>> \in {<<r, p.n * (NodeOf(p, s) + 1) + i>> : i \in p.pos}
                         \cup {<<r, WStart(p) + s>>}
      BY <2>2
    <3>2. <<r, c>> \in Distances(p)
      BY <1>3, <1>9, <2>1, <3>1 DEF Distances, N
    <3> QED BY <1>9, <3>2 DEF Written
  <2>3. CASE p.barrier /\ s >= p.k /\ c \in {p.n * NodeOf(p, s) + i : i \in p.pos}
    <3>1. <<r, c>> \in {<<r, p.n * NodeOf(p, s) + i>> : i \in p.pos}
      BY <2>3
    <3>2. s \in IF p.barrier THEN p.k .. N - 1 ELSE {}
      <4>1. N \in Nat /\ p.k \in Nat
        <5>1. \A x, y \in Nat : x * y \in Nat
          OBVIOUS
        <5> QED BY <5>1 DEF WellFormed, N
      <4> QED BY <2>1, <2>3, <4>1
    <3>3. <<r, c>> \in Couplings(p, {})
      BY <1>3, <1>9, <3>1, <3>2 DEF Couplings, N
    <3> QED BY <1>9, <3>3 DEF Written
  <2> QED BY <1>9, <2>2, <2>3 DEF SlotColumns
<1>10. CASE p.k > 0 /\ b = ObsBlock(p) + 1 /\ c = WStart(p) + s
  <2>1. s \in 0 .. N - 1 /\ b - 1 = ObsBlock(p)
    <3>1. ObsBlock(p) \in Nat
      BY <1>10, Kinds
    <3> QED BY <1>1, <1>3, <1>10, <3>1
  <2>2. <<r, c>> \in Slacks(p)
    BY <1>3, <1>10, <2>1 DEF Slacks, N
  <2> QED BY <1>10, <2>2 DEF Written
<1> QED BY <1>5, <1>6, <1>7, <1>8, <1>9, <1>10 DEF Spot, s

-----------------------------------------------------------------------------
(* The columns of the inequality rows.                                     *)

LEMMA RowIs ==
  ASSUME NEW p, WellFormed(p), NEW b \in 1 .. LastBlock(p), NEW r \in RowsOf(p, b), NEW c
  PROVE  c \in At(Written(p, {}), r) <=> Spot(p, b, r, c)
<1>1. ASSUME Spot(p, b, r, c) PROVE c \in At(Written(p, {}), r)
  <2>1. <<r, c>> \in Written(p, {})
    BY <1>1, SpotsWritten
  <2>2. <<r, c>>[1] = r /\ <<r, c>>[2] = c
    OBVIOUS
  <2> QED BY <2>1, <2>2, Zenon DEF At
<1>2. ASSUME c \in At(Written(p, {}), r) PROVE Spot(p, b, r, c)
  <2>1. PICK e \in Written(p, {}) : e[1] = r /\ e[2] = c
    BY <1>2 DEF At
  <2>2. PICK a \in 1 .. LastBlock(p) : \E q \in RowsOf(p, a) : \E d :
          e = <<q, d>> /\ Spot(p, a, q, d)
    BY WrittenSpots
  <2>3. PICK q \in RowsOf(p, a) : \E d : e = <<q, d>> /\ Spot(p, a, q, d)
    BY <2>2
  <2>4. PICK d : e = <<q, d>> /\ Spot(p, a, q, d)
    BY <2>3
  <2>5. q = r /\ d = c
    BY <2>1, <2>4
  <2>6. a = b
    BY <2>3, <2>5, SizesAre, RowsPart
  <2> QED BY <2>4, <2>5, <2>6
<1> QED BY <1>1, <1>2

LEMMA Starts ==
  ASSUME NEW p, WellFormed(p)
  PROVE  /\ UStart(p) = p.n * (p.np + 1) /\ WStart(p) = UStart(p) + p.m * p.nc
         /\ UStart(p) \in Nat /\ WStart(p) \in Nat /\ p.np * p.k \in Nat
         /\ p.m * p.nc \in Nat
<1>1. /\ \A x, y \in Nat : x * y \in Nat
      /\ \A x, y \in Nat : x * y = y * x
      /\ \A x, y \in Nat : (y + 1) * x = x * (y + 1)
  OBVIOUS
<1>2. p.n \in Nat /\ p.np \in Nat /\ p.m \in Nat /\ p.nc \in Nat /\ p.k \in Nat /\ p.np + 1 \in Nat
  BY DEF WellFormed
<1>3. UStart(p) = p.n * (p.np + 1)
  BY <1>1, <1>2 DEF UStart
<1>4. p.nc * p.m = p.m * p.nc /\ p.m * p.nc \in Nat /\ p.n * (p.np + 1) \in Nat /\ p.np * p.k \in Nat
  BY <1>1, <1>2
<1> QED BY <1>3, <1>4 DEF WStart

\* A place of a state in one of the np + 1 states, and of a control in one of the nc.
LEMMA StateColumn ==
  ASSUME NEW p, WellFormed(p), NEW node \in 0 .. p.np, NEW i \in 0 .. p.n - 1
  PROVE  p.n * node + i \in StateColumns(p)
<1>1. node \in Nat /\ p.np + 1 \in Nat /\ node < p.np + 1 /\ p.n \in Nat \ {0}
  BY DEF WellFormed
<1>2. p.n * node \in Nat /\ p.n * node + i < p.n * (p.np + 1)
  BY <1>1, Within
<1> QED BY <1>2, Starts DEF StateColumns

LEMMA ControlColumn ==
  ASSUME NEW p, WellFormed(p), NEW node \in 0 .. p.nc - 1, NEW i \in 0 .. p.m - 1
  PROVE  UStart(p) + i + p.m * node \in ControlColumns(p) /\ p.m * node \in Nat
<1>1. node \in Nat /\ p.nc \in Nat /\ node < p.nc /\ p.m \in Nat \ {0}
  BY DEF WellFormed
<1>2. p.m * node \in Nat /\ p.m * node + i < p.m * p.nc
  BY <1>1, Within
<1> QED BY <1>2, Starts DEF ControlColumns

LEMMA InColumns ==
  ASSUME NEW p, WellFormed(p)
  PROVE  /\ StateColumns(p) \subseteq Columns(p) /\ ControlColumns(p) \subseteq Columns(p)
         /\ \A s \in 0 .. p.np * p.k - 1 : WStart(p) + s \in Columns(p)
                                           /\ WStart(p) + s \notin StateColumns(p)
<1>1. UStart(p) \in Nat /\ WStart(p) \in Nat /\ p.np * p.k \in Nat /\ UStart(p) <= WStart(p)
  BY Starts
<1> QED BY <1>1 DEF StateColumns, ControlColumns, Columns

\* The columns of an obstacle row: states, and one slack of its own.
LEMMA SlotColumnsAre ==
  ASSUME NEW p, WellFormed(p), p.k > 0, NEW s \in 0 .. p.np * p.k - 1
  PROVE  /\ WStart(p) + s \in SlotColumns(p, s)
         /\ \A c \in SlotColumns(p, s) : c = WStart(p) + s \/ c \in StateColumns(p)
<1>1. WStart(p) + s \in SlotColumns(p, s)
  BY DEF SlotColumns
<1>2. /\ p.k \in Nat \ {0} /\ p.np \in Nat /\ p.n \in Nat \ {0} /\ p.pos \subseteq 0 .. p.n - 1
  BY DEF WellFormed
<1>3. s \in Nat /\ s < p.k * p.np
  <2>1. PICK N \in Nat : N = p.np * p.k
    BY Starts
  <2>2. p.k * p.np = N
    BY <1>2, <2>1
  <2>3. s \in 0 .. N - 1
    BY <2>1
  <2> QED BY <2>2, <2>3
<1>4. NodeOf(p, s) \in 0 .. p.np - 1
  BY <1>2, <1>3, Quotient DEF NodeOf
<1>5. NodeOf(p, s) \in 0 .. p.np /\ NodeOf(p, s) + 1 \in 0 .. p.np
  BY <1>2, <1>4
<1>6. ASSUME NEW i \in p.pos
      PROVE  /\ p.n * (NodeOf(p, s) + 1) + i \in StateColumns(p)
             /\ p.n * NodeOf(p, s) + i \in StateColumns(p)
  BY <1>2, <1>5, StateColumn
<1>7. ASSUME NEW c \in SlotColumns(p, s) PROVE c = WStart(p) + s \/ c \in StateColumns(p)
  BY <1>6, <1>7 DEF SlotColumns
<1> QED BY <1>1, <1>7

\* What the columns of a row can be.
Single(S, p)  == \E c \in Columns(p) : S = {c}
Pair(S, p)    == \E c, d \in ControlColumns(p) : c # d /\ S = {c, d}

LEMMA RowKinds ==
  ASSUME NEW p, WellFormed(p), NEW b \in 1 .. LastBlock(p), NEW r \in RowsOf(p, b)
  PROVE  \/ ~(p.k > 0 /\ b = ObsBlock(p)) /\ Single(At(Written(p, {}), r), p)
         \/ ~(p.k > 0 /\ b = ObsBlock(p)) /\ Pair(At(Written(p, {}), r), p)
         \/ /\ p.k > 0 /\ b = ObsBlock(p) /\ Place(p, b, r) \in 0 .. p.np * p.k - 1
            /\ At(Written(p, {}), r) = SlotColumns(p, Place(p, b, r))
<1> DEFINE s == Place(p, b, r)
           S == At(Written(p, {}), r)
           X == Len(p.x)
           U == Len(p.u)
           D == Len(p.du)
<1>1. \A c : c \in S <=> Spot(p, b, r, c)
  BY RowIs
<1>2. X \in Nat /\ U \in Nat /\ D \in Nat
  BY Kinds
<1>3. s \in 0 .. BlockSizes(p)[b] - 1 /\ s \in Int
  BY Places
<1>4. /\ p.np \in Nat /\ p.nc \in Nat /\ p.n \in Nat \ {0} /\ p.m \in Nat \ {0} /\ 0 < p.nc
      /\ \A j \in 1 .. X : p.x[j] \in 0 .. p.n - 1
      /\ \A j \in 1 .. U : p.u[j] \in 0 .. p.m - 1
      /\ \A j \in 1 .. D : p.du[j] \in 0 .. p.m - 1
  <2>1. p.x \in Seq(0 .. p.n - 1) /\ p.u \in Seq(0 .. p.m - 1) /\ p.du \in Seq(0 .. p.m - 1)
    BY DEF WellFormed
  <2>2. /\ \A j \in 1 .. X : p.x[j] \in 0 .. p.n - 1
        /\ \A j \in 1 .. U : p.u[j] \in 0 .. p.m - 1
        /\ \A j \in 1 .. D : p.du[j] \in 0 .. p.m - 1
    BY <2>1, ElementOfSeq, Zenon
  <2>3. p.np \in Nat /\ p.nc \in Nat /\ p.n \in Nat \ {0} /\ p.m \in Nat \ {0} /\ 0 < p.nc
    BY DEF WellFormed
  <2> QED BY <2>2, <2>3
<1>5. UStart(p) \in Nat
  BY Starts
<1>6. /\ \A j \in Int : XBlock(j) = 1 + j
      /\ \A j \in Int : UBlock(p, j) = 1 + X + j
      /\ \A j \in Int : RateBlock(p, j) = 1 + X + U + j
      /\ ObsBlock(p) = 2 + X + U + D
  BY Zenon DEF XBlock, UBlock, RateBlock, ObsBlock
<1> HIDE DEF S, s, X, U, D
<1>7. CASE b = 1
  <2> DEFINE c == UStart(p) + p.du[s + 1]
  <2>1. BlockSizes(p)[b] = D
    BY <1>7, SizesAre DEF D
  <2>2. s + 1 \in 1 .. D
    BY <1>2, <1>3, <2>1
  <2>3. c \in Columns(p)
    <3>1. p.du[s + 1] \in 0 .. p.m - 1 /\ 0 \in 0 .. p.nc - 1 /\ p.m * 0 = 0
      BY <1>4, <2>2
    <3>2. UStart(p) + p.du[s + 1] + p.m * 0 \in ControlColumns(p)
      BY <3>1, ControlColumn
    <3>3. c = UStart(p) + p.du[s + 1] + p.m * 0
      BY <1>5, <3>1
    <3> QED BY <3>2, <3>3, InColumns
  <2>4. \A d : Spot(p, b, r, d) <=> d = c
    <3>1. /\ \A j \in 1 .. X : b # XBlock(j)
          /\ \A j \in 1 .. U : b # UBlock(p, j)
          /\ \A j \in 1 .. D : b # RateBlock(p, j)
          /\ b # ObsBlock(p) /\ b # ObsBlock(p) + 1
      BY <1>2, <1>6, <1>7
    <3> QED BY <1>7, <3>1 DEF Spot, s, X, U, D
  <2>5. b # ObsBlock(p)
    BY <1>2, <1>6, <1>7
  <2> HIDE DEF c
  <2>6. S = {c}
    BY <1>1, <2>4
  <2> QED BY <2>3, <2>5, <2>6 DEF Single, S
<1>8. ASSUME NEW j \in 1 .. X, b = XBlock(j)
      PROVE  Single(S, p) /\ b # ObsBlock(p)
  <2> DEFINE c == p.x[j] + p.n * s
  <2>1. BlockSizes(p)[b] = p.np + 1
    BY <1>8, SizesAre DEF X
  <2>2. c \in Columns(p)
    <3>1. s \in 0 .. p.np /\ p.x[j] \in 0 .. p.n - 1
      BY <1>3, <1>4, <2>1
    <3>2. p.n * s + p.x[j] \in StateColumns(p)
      BY <3>1, StateColumn
    <3>3. p.n * s \in Int /\ p.x[j] \in Int
      BY <1>3, <1>4
    <3>4. c = p.n * s + p.x[j]
      BY <3>3
    <3> QED BY <3>2, <3>4, InColumns
  <2>3. /\ b # 1
        /\ \A i \in 1 .. X : b = XBlock(i) => i = j
        /\ \A i \in 1 .. U : b # UBlock(p, i)
        /\ \A i \in 1 .. D : b # RateBlock(p, i)
        /\ b # ObsBlock(p) /\ b # ObsBlock(p) + 1
    BY <1>2, <1>6, <1>8
  <2>4. \A d : Spot(p, b, r, d) <=> d = c
    BY <1>8, <2>3 DEF Spot, s, X, U, D
  <2> HIDE DEF c
  <2>5. S = {c}
    BY <1>1, <2>4
  <2> QED BY <2>2, <2>3, <2>5 DEF Single
<1>9. ASSUME NEW j \in 1 .. U, b = UBlock(p, j)
      PROVE  Single(S, p) /\ b # ObsBlock(p)
  <2> DEFINE c == UStart(p) + p.u[j] + p.m * s
  <2>1. BlockSizes(p)[b] = p.nc
    BY <1>9, SizesAre DEF U
  <2>2. c \in Columns(p)
    <3>1. s \in 0 .. p.nc - 1 /\ p.u[j] \in 0 .. p.m - 1
      BY <1>3, <1>4, <2>1
    <3>2. c \in ControlColumns(p)
      BY <3>1, ControlColumn
    <3> QED BY <3>2, InColumns
  <2>3. /\ b # 1
        /\ \A i \in 1 .. X : b # XBlock(i)
        /\ \A i \in 1 .. U : b = UBlock(p, i) => i = j
        /\ \A i \in 1 .. D : b # RateBlock(p, i)
        /\ b # ObsBlock(p) /\ b # ObsBlock(p) + 1
    BY <1>2, <1>6, <1>9
  <2>4. \A d : Spot(p, b, r, d) <=> d = c
    BY <1>9, <2>3 DEF Spot, s, X, U, D
  <2> HIDE DEF c
  <2>5. S = {c}
    BY <1>1, <2>4
  <2> QED BY <2>2, <2>3, <2>5 DEF Single
<1>10. ASSUME NEW j \in 1 .. D, b = RateBlock(p, j)
       PROVE  Pair(S, p) /\ b # ObsBlock(p)
  <2> DEFINE c == UStart(p) + p.du[j] + p.m * s
             c2 == c + p.m
  <2>1. BlockSizes(p)[b] = p.nc - 1
    BY <1>10, SizesAre DEF D
  <2>2. s \in 0 .. p.nc - 1 /\ s + 1 \in 0 .. p.nc - 1 /\ p.du[j] \in 0 .. p.m - 1
    BY <1>3, <1>4, <2>1
  <2>3. c \in ControlColumns(p)
    BY <2>2, ControlColumn
  <2>4. c2 \in ControlColumns(p)
    <3>1. UStart(p) + p.du[j] + p.m * (s + 1) \in ControlColumns(p)
      BY <2>2, ControlColumn
    <3>2. p.m * (s + 1) = p.m * s + p.m /\ p.m * s \in Int
      BY <1>3, <1>4
    <3>3. c2 = UStart(p) + p.du[j] + p.m * (s + 1)
      BY <1>4, <1>5, <2>2, <3>2
    <3> QED BY <3>1, <3>3
  <2>5. c # c2
    <3>1. c \in Int
      BY <2>3, Starts DEF ControlColumns
    <3> HIDE DEF c
    <3> QED BY <1>4, <3>1
  <2>6. /\ b # 1
        /\ \A i \in 1 .. X : b # XBlock(i)
        /\ \A i \in 1 .. U : b # UBlock(p, i)
        /\ \A i \in 1 .. D : b = RateBlock(p, i) => i = j
        /\ b # ObsBlock(p) /\ b # ObsBlock(p) + 1
    BY <1>2, <1>6, <1>10
  <2>7. \A d : Spot(p, b, r, d) <=> d = c \/ d = c2
    BY <1>10, <2>6 DEF Spot, s, X, U, D
  <2> HIDE DEF c, c2
  <2>8. S = {c, c2}
    BY <1>1, <2>7
  <2> QED BY <2>3, <2>4, <2>5, <2>6, <2>8 DEF Pair
<1>11. CASE p.k > 0 /\ b = ObsBlock(p)
  <2>1. BlockSizes(p)[b] = p.np * p.k
    BY <1>11, SizesAre
  <2>2. s \in 0 .. p.np * p.k - 1
    BY <1>3, <2>1
  <2>3. /\ b # 1
        /\ \A i \in 1 .. X : b # XBlock(i)
        /\ \A i \in 1 .. U : b # UBlock(p, i)
        /\ \A i \in 1 .. D : b # RateBlock(p, i)
        /\ b # ObsBlock(p) + 1
    BY <1>2, <1>6, <1>11
  <2>4. \A d : Spot(p, b, r, d) <=> d \in SlotColumns(p, s)
    BY <1>11, <2>3 DEF Spot, s, X, U, D
  <2>5. S = SlotColumns(p, s)
    BY <1>1, <2>4
  <2> QED BY <1>11, <2>2, <2>5 DEF S, s
<1>12. CASE p.k > 0 /\ b = ObsBlock(p) + 1
  <2> DEFINE c == WStart(p) + s
  <2>1. BlockSizes(p)[b] = p.np * p.k
    BY <1>12, SizesAre
  <2>2. c \in Columns(p)
    BY <1>3, <2>1, InColumns
  <2>3. /\ b # 1
        /\ \A i \in 1 .. X : b # XBlock(i)
        /\ \A i \in 1 .. U : b # UBlock(p, i)
        /\ \A i \in 1 .. D : b # RateBlock(p, i)
        /\ b # ObsBlock(p)
    BY <1>2, <1>6, <1>12
  <2>4. \A d : Spot(p, b, r, d) <=> d = c
    BY <1>12, <2>3 DEF Spot, s, X, U, D
  <2> HIDE DEF c
  <2>5. S = {c}
    BY <1>1, <2>4
  <2> QED BY <2>2, <2>3, <2>5 DEF Single, S
<1>13. \/ b = 1
       \/ \E j \in 1 .. X : b = XBlock(j)
       \/ \E j \in 1 .. U : b = UBlock(p, j)
       \/ \E j \in 1 .. D : b = RateBlock(p, j)
       \/ p.k > 0 /\ (b = ObsBlock(p) \/ b = ObsBlock(p) + 1)
  BY Kinds DEF X, U, D
<1> QED BY <1>7, <1>8, <1>9, <1>10, <1>11, <1>12, <1>13 DEF S

-----------------------------------------------------------------------------
(* The equality rows.                                                      *)

LEMMA BlockIs ==
  ASSUME NEW rows \in Nat, NEW row \in Int, NEW cols \in Nat, NEW col \in Int, NEW e
  PROVE  e \in Block(rows, row, cols, col) <=>
           \E r \in row .. row + rows - 1, c \in col .. col + cols - 1 : e = <<r, c>>
<1>1. ASSUME e \in Block(rows, row, cols, col)
      PROVE  \E r \in row .. row + rows - 1, c \in col .. col + cols - 1 : e = <<r, c>>
  <2>1. PICK i \in 0 .. rows - 1, j \in 0 .. cols - 1 : e = <<row + i, col + j>>
    BY <1>1 DEF Block
  <2>2. row + i \in row .. row + rows - 1 /\ col + j \in col .. col + cols - 1
    OBVIOUS
  <2> QED BY <2>1, <2>2
<1>2. ASSUME NEW r \in row .. row + rows - 1, NEW c \in col .. col + cols - 1, e = <<r, c>>
      PROVE  e \in Block(rows, row, cols, col)
  <2>1. PICK i \in 0 .. rows - 1 : r = row + i
    <3>1. r - row \in 0 .. rows - 1 /\ r = row + (r - row)
      OBVIOUS
    <3> QED BY <3>1
  <2>2. PICK j \in 0 .. cols - 1 : c = col + j
    <3>1. c - col \in 0 .. cols - 1 /\ c = col + (c - col)
      OBVIOUS
    <3> QED BY <3>1
  <2>3. e = <<row + i, col + j>>
    BY <1>2, <2>1, <2>2
  <2> QED BY <2>3 DEF Block
<1> QED BY <1>1, <1>2

\* The columns of the rows of state node + 1.
Before(p, node)  == p.n * node .. p.n * node + 2 * p.n - 1
Control(p, node) ==
  UStart(p) + p.m * ControlOf(p, node) .. UStart(p) + p.m * ControlOf(p, node) + p.m - 1
StateRows(p, node) == p.n * (node + 1) .. p.n * (node + 1) + p.n - 1

LEMMA NodeFacts ==
  ASSUME NEW p, WellFormed(p), NEW node \in 0 .. p.np - 1
  PROVE  /\ p.n * node \in Nat /\ p.n * (node + 1) = p.n * node + p.n
         /\ p.n * node + 2 * p.n <= UStart(p)
         /\ ControlOf(p, node) \in 0 .. p.nc - 1 /\ p.m * ControlOf(p, node) \in Nat
         /\ UStart(p) + p.m * ControlOf(p, node) + p.m <= WStart(p)
         /\ UStart(p) \in Nat /\ WStart(p) \in Nat
         /\ p.n \in Nat \ {0} /\ p.m \in Nat \ {0}
<1>1. /\ p.n \in Nat \ {0} /\ p.m \in Nat \ {0} /\ p.np \in Nat /\ p.nc \in Nat \ {0}
      /\ node \in Nat
  BY DEF WellFormed
<1>2. p.n * node \in Nat /\ p.n * (node + 1) = p.n * node + p.n
  BY <1>1
<1>3. p.n * (node + 1) + p.n <= p.n * (p.np + 1)
  <2>1. node + 1 \in Nat /\ p.np + 1 \in Nat /\ node + 1 < p.np + 1 /\ 0 \in 0 .. p.n - 1
    BY <1>1
  <2> QED BY <1>1, <2>1, Within
<1>4. UStart(p) = p.n * (p.np + 1) /\ UStart(p) \in Nat /\ WStart(p) \in Nat
      /\ WStart(p) = UStart(p) + p.m * p.nc /\ p.m * p.nc \in Nat
  BY Starts
<1>5. p.n * node + 2 * p.n <= UStart(p)
  <2>1. PICK a \in Nat : a = p.n * node
    BY <1>2
  <2>2. PICK z \in Nat : z = p.n
    BY <1>1
  <2>3. a + z + z <= UStart(p)
    BY <1>2, <1>3, <1>4, <2>1, <2>2
  <2>4. a + 2 * z <= UStart(p)
    BY <1>4, <2>3
  <2> QED BY <2>1, <2>2, <2>4
<1>6. ControlOf(p, node) \in 0 .. p.nc - 1
  BY <1>1 DEF ControlOf
<1>7. p.m * ControlOf(p, node) \in Nat /\ p.m * ControlOf(p, node) + p.m <= p.m * p.nc
  <2>1. PICK c \in 0 .. p.nc - 1 : c = ControlOf(p, node)
    BY <1>6
  <2>2. c \in Nat /\ p.nc \in Nat /\ c < p.nc /\ 0 \in 0 .. p.m - 1
    BY <1>1
  <2>3. p.m * c \in Nat /\ p.m * c + p.m <= p.m * p.nc
    BY <1>1, <2>2, Within
  <2> QED BY <2>1, <2>3
<1>8. UStart(p) + p.m * ControlOf(p, node) + p.m <= WStart(p)
  <2>1. PICK a \in Nat : a = p.m * ControlOf(p, node)
    BY <1>7
  <2>2. PICK z \in Nat : z = p.m * p.nc
    BY <1>4
  <2>3. PICK w \in Nat : w = p.m
    BY <1>1
  <2>4. a + w <= z /\ WStart(p) = UStart(p) + z
    BY <1>4, <1>7, <2>1, <2>2, <2>3
  <2>5. UStart(p) + a + w <= WStart(p)
    BY <1>4, <2>4
  <2> QED BY <2>1, <2>3, <2>5
<1> QED BY <1>1, <1>2, <1>4, <1>5, <1>6, <1>7, <1>8

LEMMA DynamicsIs ==
  ASSUME NEW p, WellFormed(p), NEW e
  PROVE  e \in Dynamics(p) <=>
           \/ \E r \in 0 .. p.n - 1, c \in 0 .. p.n - 1 : e = <<r, c>>
           \/ \E node \in 0 .. p.np - 1 :
                \E r \in StateRows(p, node), c \in Before(p, node) \cup Control(p, node) :
                  e = <<r, c>>
<1>1. p.n \in Nat \ {0} /\ p.m \in Nat \ {0} /\ 2 * p.n \in Nat
  BY DEF WellFormed
<1>2. e \in Block(p.n, 0, p.n, 0) <=> \E r \in 0 .. p.n - 1, c \in 0 .. p.n - 1 : e = <<r, c>>
  <2>1. PICK z \in Nat : z = p.n
    BY <1>1
  <2>2. e \in Block(z, 0, z, 0) <=> \E r \in 0 .. 0 + z - 1, c \in 0 .. 0 + z - 1 : e = <<r, c>>
    <3>1. 0 \in Int
      OBVIOUS
    <3> QED BY <3>1, BlockIs
  <2>3. 0 + z - 1 = z - 1
    OBVIOUS
  <2> QED BY <2>1, <2>2, <2>3
<1>3. ASSUME NEW node \in 0 .. p.np - 1
      PROVE  e \in Block(p.n, p.n * (node + 1), 2 * p.n, p.n * node) \cup
                   Block(p.n, p.n * (node + 1), p.m, UStart(p) + p.m * ControlOf(p, node))
             <=> \E r \in StateRows(p, node), c \in Before(p, node) \cup Control(p, node) :
                   e = <<r, c>>
  <2>1. /\ p.n \in Nat /\ p.m \in Nat /\ p.n * (node + 1) \in Int /\ p.n * node \in Int
        /\ UStart(p) + p.m * ControlOf(p, node) \in Int
    BY <1>1, NodeFacts
  <2>2. e \in Block(p.n, p.n * (node + 1), 2 * p.n, p.n * node) <=>
          \E r \in StateRows(p, node), c \in Before(p, node) : e = <<r, c>>
    <3>1. PICK row \in Int, col \in Int, cols \in Nat :
            row = p.n * (node + 1) /\ col = p.n * node /\ cols = 2 * p.n
      BY <1>1, <2>1
    <3>2. e \in Block(p.n, row, cols, col) <=>
            \E r \in row .. row + p.n - 1, c \in col .. col + cols - 1 : e = <<r, c>>
      BY <2>1, BlockIs
    <3>3. StateRows(p, node) = row .. row + p.n - 1 /\ Before(p, node) = col .. col + cols - 1
      BY <3>1, Zenon DEF StateRows, Before
    <3> QED BY <3>1, <3>2, <3>3, Zenon
  <2>3. e \in Block(p.n, p.n * (node + 1), p.m, UStart(p) + p.m * ControlOf(p, node)) <=>
          \E r \in StateRows(p, node), c \in Control(p, node) : e = <<r, c>>
    <3>1. PICK row \in Int, col \in Int, cols \in Nat :
            /\ row = p.n * (node + 1) /\ col = UStart(p) + p.m * ControlOf(p, node)
            /\ cols = p.m
      BY <2>1
    <3>2. e \in Block(p.n, row, cols, col) <=>
            \E r \in row .. row + p.n - 1, c \in col .. col + cols - 1 : e = <<r, c>>
      BY <2>1, BlockIs
    <3>3. StateRows(p, node) = row .. row + p.n - 1 /\ Control(p, node) = col .. col + cols - 1
      BY <3>1, Zenon DEF StateRows, Control
    <3> QED BY <3>1, <3>2, <3>3, Zenon
  <2> QED BY <2>2, <2>3
<1> DEFINE B(node) == Block(p.n, p.n * (node + 1), 2 * p.n, p.n * node) \cup
                      Block(p.n, p.n * (node + 1), p.m, UStart(p) + p.m * ControlOf(p, node))
<1>4. Dynamics(p) = Block(p.n, 0, p.n, 0) \cup UNION {B(node) : node \in 0 .. p.np - 1}
  BY Zenon DEF Dynamics
<1>5. \A node \in 0 .. p.np - 1 :
        e \in B(node) <=> \E r \in StateRows(p, node), c \in Before(p, node) \cup Control(p, node) :
                            e = <<r, c>>
  BY <1>3
<1> HIDE DEF B
<1>6. e \in Dynamics(p) <=> \/ e \in Block(p.n, 0, p.n, 0)
                            \/ \E node \in 0 .. p.np - 1 : e \in B(node)
  BY <1>4
<1> QED BY <1>2, <1>5, <1>6, Zenon

\* The state a row follows from.
LEMMA NodeOfRow ==
  ASSUME NEW p, WellFormed(p), NEW r \in EqualityRows(p), r >= p.n
  PROVE  \E node \in 0 .. p.np - 1 : r \in StateRows(p, node)
<1>1. p.n \in Nat \ {0} /\ p.np + 1 \in Nat /\ p.np \in Nat
  BY DEF WellFormed
<1>2. r \in Nat /\ r < p.n * (p.np + 1)
  <2>1. PICK z \in Nat : z = p.n * (p.np + 1)
    BY Starts
  <2> QED BY <2>1 DEF EqualityRows
<1>3. \E q \in 0 .. p.np : \E d \in 0 .. p.n - 1 : r = p.n * q + d
  <2>1. PICK k \in Nat : k = p.np + 1
    BY <1>1
  <2>2. r < p.n * k
    BY <1>2, <2>1
  <2>3. /\ r \div p.n \in 0 .. k - 1 /\ r % p.n \in 0 .. p.n - 1
        /\ r = (p.n * (r \div p.n)) + (r % p.n)
    BY <1>1, <1>2, <2>2, Quotient
  <2>4. 0 .. k - 1 = 0 .. p.np
    BY <1>1, <2>1
  <2> QED BY <2>3, <2>4, Zenon
<1>4. PICK q \in 0 .. p.np : \E d \in 0 .. p.n - 1 : r = p.n * q + d
  BY <1>3
<1>5. PICK d \in 0 .. p.n - 1 : r = p.n * q + d
  BY <1>4
<1>6. q # 0
  <2> SUFFICES ASSUME q = 0 PROVE FALSE
    OBVIOUS
  <2>1. p.n * q = 0
    BY <1>1
  <2>2. r = d
    BY <1>1, <1>5, <2>1
  <2> QED BY <1>1, <2>2
<1>7. PICK node \in 0 .. p.np - 1 : node + 1 = q
  <2>1. q - 1 \in 0 .. p.np - 1 /\ (q - 1) + 1 = q
    BY <1>1, <1>4, <1>6
  <2> QED BY <2>1
<1>8. p.n * (node + 1) \in Int /\ r = p.n * (node + 1) + d
  BY <1>1, <1>5, <1>7
<1>9. r \in StateRows(p, node)
  BY <1>1, <1>8 DEF StateRows
<1> QED BY <1>9

LEMMA OneState ==
  ASSUME NEW p, WellFormed(p), NEW r, NEW i \in 0 .. p.np - 1, NEW j \in 0 .. p.np - 1,
         r \in StateRows(p, i), r \in StateRows(p, j)
  PROVE  i = j
<1>1. p.n \in Nat \ {0} /\ i + 1 \in Nat /\ j + 1 \in Nat /\ i \in Int /\ j \in Int
  BY DEF WellFormed
<1>2. PICK a \in Nat : a = p.n * (i + 1)
  BY <1>1
<1>3. PICK b \in Nat : b = p.n * (j + 1)
  BY <1>1
<1>4. r \in a .. a + p.n - 1 /\ r \in b .. b + p.n - 1
  BY <1>2, <1>3 DEF StateRows
<1>5. PICK d \in 0 .. p.n - 1 : r = a + d
  <2>1. r - a \in 0 .. p.n - 1 /\ r = a + (r - a)
    BY <1>1, <1>4
  <2> QED BY <2>1
<1>6. PICK f \in 0 .. p.n - 1 : r = b + f
  <2>1. r - b \in 0 .. p.n - 1 /\ r = b + (r - b)
    BY <1>1, <1>4
  <2> QED BY <2>1
<1>7. i + 1 = j + 1
  <2>1. p.n * (i + 1) + d = p.n * (j + 1) + f
    BY <1>2, <1>3, <1>5, <1>6
  <2> QED BY <1>1, <2>1, OnePlace
<1> QED BY <1>1, <1>7

\* The rows the dynamics fill, and of each state but the first their columns.
LEMMA DynamicsRows ==
  ASSUME NEW p, WellFormed(p) PROVE Rows(Dynamics(p)) = EqualityRows(p)
<1>1. p.n \in Nat \ {0} /\ p.np \in Nat \ {0} /\ UStart(p) = p.n * (p.np + 1) /\ UStart(p) \in Nat
  BY Starts DEF WellFormed
<1>2. EqualityRows(p) = 0 .. UStart(p) - 1
  BY <1>1 DEF EqualityRows
<1>3. p.n <= UStart(p)
  <2>1. 0 \in 0 .. p.np - 1
    BY <1>1
  <2>2. p.n * 0 + 2 * p.n <= UStart(p) /\ p.n * 0 = 0
    BY <1>1, <2>1, NodeFacts
  <2> QED BY <1>1, <2>2
<1>4. ASSUME NEW r \in Rows(Dynamics(p)) PROVE r \in EqualityRows(p)
  <2>1. PICK e \in Dynamics(p) : r = e[1]
    BY <1>4 DEF Rows
  <2>2. CASE \E q \in 0 .. p.n - 1, c \in 0 .. p.n - 1 : e = <<q, c>>
    <3>1. r \in 0 .. p.n - 1
      BY <2>1, <2>2
    <3> QED BY <1>1, <1>2, <1>3, <3>1
  <2>3. CASE \E node \in 0 .. p.np - 1 :
               \E q \in StateRows(p, node), c \in Before(p, node) \cup Control(p, node) :
                 e = <<q, c>>
    <3>1. PICK node \in 0 .. p.np - 1 : r \in StateRows(p, node)
      BY <2>1, <2>3
    <3>2. PICK a \in Nat : a = p.n * node
      BY NodeFacts
    <3>3. a + 2 * p.n <= UStart(p) /\ r \in a + p.n .. a + p.n + p.n - 1
      BY <3>1, <3>2, NodeFacts DEF StateRows
    <3> QED BY <1>1, <1>2, <3>3
  <2> QED BY <2>1, <2>2, <2>3, DynamicsIs
<1>5. ASSUME NEW r \in EqualityRows(p) PROVE r \in Rows(Dynamics(p))
  <2>1. \E c : <<r, c>> \in Dynamics(p)
    <3>1. CASE r >= p.n
      <4>1. PICK node \in 0 .. p.np - 1 : r \in StateRows(p, node)
        BY <3>1, NodeOfRow
      <4>2. p.n * node \in Before(p, node)
        <5>1. PICK a \in Nat : a = p.n * node
          BY NodeFacts
        <5>2. a \in a .. a + 2 * p.n - 1
          BY <1>1
        <5> QED BY <5>1, <5>2 DEF Before
      <4> QED BY <4>1, <4>2, DynamicsIs
    <3>2. CASE ~(r >= p.n)
      <4>1. r \in 0 .. p.n - 1 /\ 0 \in 0 .. p.n - 1
        BY <1>1, <1>2, <3>2
      <4> QED BY <4>1, DynamicsIs
    <3> QED BY <3>1, <3>2
  <2>2. PICK c : <<r, c>> \in Dynamics(p)
    BY <2>1
  <2>3. <<r, c>>[1] = r
    OBVIOUS
  <2> QED BY <2>2, <2>3 DEF Rows
<1> QED BY <1>4, <1>5

LEMMA DynamicsColumns ==
  ASSUME NEW p, WellFormed(p), NEW r \in EqualityRows(p), r >= p.n
  PROVE  /\ Cardinality(At(Dynamics(p), r) \cap StateColumns(p)) = 2 * p.n
         /\ Cardinality(At(Dynamics(p), r) \cap ControlColumns(p)) = p.m
<1>1. PICK node \in 0 .. p.np - 1 : r \in StateRows(p, node)
  BY NodeOfRow
<1>2. PICK a \in Nat : a = p.n * node
  BY NodeFacts
<1>3. PICK g \in Nat : g = UStart(p) + p.m * ControlOf(p, node)
  BY NodeFacts
<1>4. /\ p.n \in Nat \ {0} /\ p.m \in Nat \ {0} /\ UStart(p) \in Nat /\ WStart(p) \in Nat
      /\ a + 2 * p.n <= UStart(p) /\ UStart(p) <= g /\ g + p.m <= WStart(p)
      /\ Before(p, node) = a .. a + 2 * p.n - 1 /\ Control(p, node) = g .. g + p.m - 1
      /\ 2 * p.n \in Nat
  BY <1>2, <1>3, NodeFacts DEF Before, Control
<1>5. \A c : c \in At(Dynamics(p), r) <=> c \in Before(p, node) \cup Control(p, node)
  <2>1. ASSUME NEW c, c \in At(Dynamics(p), r)
        PROVE  c \in Before(p, node) \cup Control(p, node)
    <3>1. PICK e \in Dynamics(p) : e[1] = r /\ e[2] = c
      BY <2>1 DEF At
    <3>2. CASE \E q \in 0 .. p.n - 1, d \in 0 .. p.n - 1 : e = <<q, d>>
      <4>1. r \in 0 .. p.n - 1
        BY <3>1, <3>2
      <4> QED BY <1>4, <4>1
    <3>3. CASE \E i \in 0 .. p.np - 1 :
                 \E q \in StateRows(p, i), d \in Before(p, i) \cup Control(p, i) : e = <<q, d>>
      <4>1. PICK i \in 0 .. p.np - 1 :
              \E q \in StateRows(p, i), d \in Before(p, i) \cup Control(p, i) : e = <<q, d>>
        BY <3>3
      <4>2. PICK q \in StateRows(p, i), d \in Before(p, i) \cup Control(p, i) : e = <<q, d>>
        BY <4>1
      <4>3. q = r /\ d = c
        BY <3>1, <4>2
      <4>4. i = node
        BY <1>1, <4>2, <4>3, OneState
      <4> QED BY <4>2, <4>3, <4>4
    <3> QED BY <3>1, <3>2, <3>3, DynamicsIs
  <2>2. ASSUME NEW c \in Before(p, node) \cup Control(p, node) PROVE c \in At(Dynamics(p), r)
    <3>1. <<r, c>> \in Dynamics(p)
      BY <1>1, DynamicsIs
    <3>2. <<r, c>>[1] = r /\ <<r, c>>[2] = c
      OBVIOUS
    <3> QED BY <3>1, <3>2, Zenon DEF At
  <2> QED BY <2>1, <2>2
<1>6. At(Dynamics(p), r) \cap StateColumns(p) = a .. a + 2 * p.n - 1
  <2>1. PICK z \in Nat : z = 2 * p.n
    BY <1>4
  <2>2. \A c : c \in At(Dynamics(p), r) <=> c \in a .. a + z - 1 \/ c \in g .. g + p.m - 1
    BY <1>4, <1>5, <2>1
  <2>3. ASSUME NEW c
        PROVE  c \in At(Dynamics(p), r) \cap StateColumns(p) <=> c \in a .. a + z - 1
    <3>1. a + z <= UStart(p)
      BY <1>4, <2>1
    <3>2. c \in a .. a + z - 1 => c \in StateColumns(p)
      BY <1>4, <3>1 DEF StateColumns
    <3>3. c \in g .. g + p.m - 1 => c \notin StateColumns(p)
      BY <1>4 DEF StateColumns
    <3> QED BY <2>2, <3>2, <3>3
  <2> QED BY <2>1, <2>3
<1>7. At(Dynamics(p), r) \cap ControlColumns(p) = g .. g + p.m - 1
  <2>1. PICK z \in Nat : z = 2 * p.n
    BY <1>4
  <2>2. \A c : c \in At(Dynamics(p), r) <=> c \in a .. a + z - 1 \/ c \in g .. g + p.m - 1
    BY <1>4, <1>5, <2>1
  <2>3. ASSUME NEW c
        PROVE  c \in At(Dynamics(p), r) \cap ControlColumns(p) <=> c \in g .. g + p.m - 1
    <3>1. a + z <= UStart(p)
      BY <1>4, <2>1
    <3>2. c \in g .. g + p.m - 1 => c \in ControlColumns(p)
      <4>1. UStart(p) <= g /\ g + p.m <= WStart(p) /\ p.m \in Nat
            /\ UStart(p) \in Nat /\ WStart(p) \in Nat
        BY <1>4
      <4> QED BY <4>1 DEF ControlColumns
    <3>3. c \in a .. a + z - 1 => c \notin ControlColumns(p)
      BY <1>4, <3>1 DEF ControlColumns
    <3> QED BY <2>2, <3>2, <3>3
  <2> QED BY <2>3
<1>8. a \in Int /\ g \in Int
  OBVIOUS
<1>9. Cardinality(a .. a + 2 * p.n - 1) = 2 * p.n
  <2>1. PICK z \in Nat : z = 2 * p.n
    BY <1>4
  <2>2. Cardinality(a .. a + z - 1) = z
    BY <1>8, IntervalSize
  <2> QED BY <2>1, <2>2
<1>10. Cardinality(g .. g + p.m - 1) = p.m
  BY <1>4, <1>8, IntervalSize
<1> QED BY <1>6, <1>7, <1>9, <1>10

-----------------------------------------------------------------------------
(* The assembly of a problem.                                              *)

LEMMA Assembled ==
  ASSUME NEW p, WellFormed(p)
  PROVE  LET Obstacles == IF p.k > 0 THEN RowsOf(p, ObsBlock(p)) ELSE {}
             S == Written(p, {})
         IN  /\ Rows(S) = InequalityRows(p)
             /\ \A e \in S : e[2] \in Columns(p)
             /\ \A r \in InequalityRows(p) \ Obstacles :
                  \/ Cardinality(At(S, r)) = 1
                  \/ Cardinality(At(S, r)) = 2 /\ At(S, r) \subseteq ControlColumns(p)
             /\ \A r, q \in Obstacles : r # q =>
                  (At(S, r) \cap At(S, q)) \subseteq StateColumns(p)
<1> DEFINE Obstacles == IF p.k > 0 THEN RowsOf(p, ObsBlock(p)) ELSE {}
           S == Written(p, {})
<1>1. /\ \A r \in InequalityRows(p) : \E b \in 1 .. LastBlock(p) : r \in RowsOf(p, b)
      /\ \A b \in 1 .. LastBlock(p) : \A r \in RowsOf(p, b) : r \in InequalityRows(p)
  BY SizesAre, RowsPart
<1>2. \A b \in 1 .. LastBlock(p) : \A r \in RowsOf(p, b) :
        \/ ~(p.k > 0 /\ b = ObsBlock(p)) /\ (Single(At(S, r), p) \/ Pair(At(S, r), p))
        \/ /\ p.k > 0 /\ b = ObsBlock(p) /\ Place(p, b, r) \in 0 .. p.np * p.k - 1
           /\ At(S, r) = SlotColumns(p, Place(p, b, r))
  BY RowKinds
<1>3. ASSUME p.k > 0, NEW s \in 0 .. p.np * p.k - 1
      PROVE  /\ SlotColumns(p, s) \subseteq Columns(p)
             /\ WStart(p) + s \in SlotColumns(p, s)
             /\ \A c \in SlotColumns(p, s) : c = WStart(p) + s \/ c \in StateColumns(p)
  BY <1>3, SlotColumnsAre, InColumns
<1>4. \A e \in S : \E b \in 1 .. LastBlock(p) : e[1] \in RowsOf(p, b)
  <2>1. ASSUME NEW e \in S PROVE \E b \in 1 .. LastBlock(p) : e[1] \in RowsOf(p, b)
    <3>1. PICK b \in 1 .. LastBlock(p) : \E r \in RowsOf(p, b) : \E c :
            e = <<r, c>> /\ Spot(p, b, r, c)
      BY WrittenSpots
    <3>2. PICK r \in RowsOf(p, b) : \E c : e = <<r, c>>
      BY <3>1
    <3> QED BY <3>2
  <2> QED BY <2>1
<1> HIDE DEF S
<1>5. ASSUME NEW b \in 1 .. LastBlock(p), NEW r \in RowsOf(p, b)
      PROVE  (\E c : c \in At(S, r)) /\ At(S, r) \subseteq Columns(p)
  <2>1. CASE Single(At(S, r), p)
    BY <2>1 DEF Single
  <2>2. CASE Pair(At(S, r), p)
    BY <2>2, InColumns DEF Pair
  <2>3. CASE /\ p.k > 0 /\ b = ObsBlock(p) /\ Place(p, b, r) \in 0 .. p.np * p.k - 1
             /\ At(S, r) = SlotColumns(p, Place(p, b, r))
    BY <1>3, <2>3
  <2> QED BY <1>2, <2>1, <2>2, <2>3
<1>6. Rows(S) = InequalityRows(p)
  <2>1. ASSUME NEW r \in Rows(S) PROVE r \in InequalityRows(p)
    BY <1>1, <1>4, <2>1 DEF Rows
  <2>2. ASSUME NEW r \in InequalityRows(p) PROVE r \in Rows(S)
    <3>1. PICK c : c \in At(S, r)
      BY <1>1, <1>5
    <3> QED BY <3>1, Zenon DEF At, Rows
  <2> QED BY <2>1, <2>2
<1>7. ASSUME NEW e \in S PROVE e[2] \in Columns(p)
  <2>1. e[2] \in At(S, e[1])
    BY Zenon DEF At
  <2>2. PICK b \in 1 .. LastBlock(p) : e[1] \in RowsOf(p, b)
    BY <1>4
  <2> QED BY <1>5, <2>1, <2>2
<1>8. ASSUME NEW r \in InequalityRows(p) \ Obstacles
      PROVE  \/ Cardinality(At(S, r)) = 1
             \/ Cardinality(At(S, r)) = 2 /\ At(S, r) \subseteq ControlColumns(p)
  <2>1. PICK b \in 1 .. LastBlock(p) : r \in RowsOf(p, b)
    BY <1>1
  <2>2. ~(p.k > 0 /\ b = ObsBlock(p))
    BY <2>1
  <2>3. CASE Single(At(S, r), p)
    <3>1. PICK c : At(S, r) = {c}
      BY <2>3 DEF Single
    <3>2. Cardinality({c}) = 1
      BY FS_Singleton
    <3> QED BY <3>1, <3>2
  <2>4. CASE Pair(At(S, r), p)
    <3>1. PICK c \in ControlColumns(p), d \in ControlColumns(p) : c # d /\ At(S, r) = {c, d}
      BY <2>4 DEF Pair
    <3>2. IsFiniteSet({c}) /\ Cardinality({c}) = 1
      BY FS_Singleton
    <3>3. Cardinality({c} \cup {d}) = 1 + 1
      BY <3>1, <3>2, FS_AddElement
    <3>4. {c} \cup {d} = {c, d} /\ {c, d} \subseteq ControlColumns(p) /\ 1 + 1 = 2
      OBVIOUS
    <3> QED BY <3>1, <3>3, <3>4
  <2> QED BY <1>2, <2>1, <2>2, <2>3, <2>4
<1>9. ASSUME NEW r \in Obstacles, NEW q \in Obstacles, r # q
      PROVE  (At(S, r) \cap At(S, q)) \subseteq StateColumns(p)
  <2> DEFINE b == ObsBlock(p)
             s == Place(p, b, r)
             t == Place(p, b, q)
  <2>1. p.k > 0 /\ b \in 1 .. LastBlock(p) /\ r \in RowsOf(p, b) /\ q \in RowsOf(p, b)
    BY <1>9, Kinds
  <2>2. r = End(p, b - 1) + s /\ q = End(p, b - 1) + t
    BY <2>1, Places
  <2>3. /\ s \in 0 .. p.np * p.k - 1 /\ At(S, r) = SlotColumns(p, s)
        /\ t \in 0 .. p.np * p.k - 1 /\ At(S, q) = SlotColumns(p, t)
    BY <1>2, <2>1
  <2> HIDE DEF s, t, b
  <2>4. s # t
    BY <1>9, <2>2
  <2>5. WStart(p) + s # WStart(p) + t /\ WStart(p) + s \notin StateColumns(p)
    <3>1. WStart(p) \in Nat /\ p.np * p.k \in Nat
      BY Starts
    <3>2. s \in Int /\ t \in Int
      BY <2>3, <3>1
    <3> QED BY <2>3, <2>4, <3>1, <3>2, InColumns
  <2>6. ASSUME NEW c \in At(S, r) \cap At(S, q) PROVE c \in StateColumns(p)
    <3>1. c = WStart(p) + s \/ c \in StateColumns(p)
      BY <1>3, <2>1, <2>3
    <3>2. c = WStart(p) + t \/ c \in StateColumns(p)
      BY <1>3, <2>1, <2>3
    <3> QED BY <2>5, <3>1, <3>2
  <2> QED BY <2>6
<1> QED BY <1>6, <1>7, <1>8, <1>9 DEF S

-----------------------------------------------------------------------------
(* The coupled part of the assembly.                                       *)

\* The gradients of no row are none, and those of rows that may be coupled are among
\* the positions every assembly writes.
LEMMA GradientsEmpty == ASSUME NEW p PROVE Gradients(p, {}) = {}
BY DEF Gradients

LEMMA GradientsWritten ==
  ASSUME NEW p, NEW c, NEW rows, rows \subseteq Coupleable(p)
  PROVE  Gradients(p, rows) \subseteq Couplings(p, c)
BY DEF Gradients, Couplings, Coupleable

LEMMA CoupledRowsBounded == ASSUME NEW p PROVE CoupledRows(p) \subseteq Coupleable(p)
BY DEF CoupledRows, Coupleable

-----------------------------------------------------------------------------
(* The invariant is established and preserved.                             *)

LEMMA ModelSizes == \A mod \in Models : mod.n \in Nat \ {0} /\ mod.m \in Nat \ {0}
BY ModelAssumption

LEMMA InitInv == Init => IInv
<1> SUFFICES ASSUME Init PROVE IInv
  OBVIOUS
<1>1. TypeOK
  <2>1. dt \in Nat \X (1 .. MaxNp) /\ T \in Nat /\ max_obs \in Nat
    BY ScalarAssumption DEF Init
  <2>3. DOMAIN buffers = DOMAIN Unsized
    BY DEF Init
  <2>2. Np \in 0 .. MaxNp /\ Nc \in 0 .. MaxNp /\ Q \in Nat /\ R \in Nat
    BY ScalarAssumption DEF Init
  <2> QED BY <2>1, <2>2, <2>3 DEF Init, TypeOK
<1>2. ~Ready
  BY DEF Init, Ready, NoSolver
<1>3. HorizonConsistent /\ SolverInv /\ BuiltInv /\ GoalInv /\ CouplingInv
  BY <1>2 DEF Init, HorizonConsistent, SolverInv, BuiltInv, GoalInv, CouplingInv, Empty
<1> QED BY <1>1, <1>3 DEF IInv

\* The parts about the solver are kept by a step that leaves the solver alone.
LEMMA SolverKept ==
  ASSUME SolverInv, CouplingInv, UNCHANGED <<solver, pattern, qp>>
  PROVE  SolverInv' /\ CouplingInv'
<1>1. SolverInv'
  BY DEF SolverInv, Ready
<1>2. Problem(solver)' = Problem(solver)
  BY DEF Problem
<1>3. CouplingInv'
  BY <1>2 DEF CouplingInv, Ready, qp
<1> QED BY <1>1, <1>3

\* Before init() completes, only the types and the horizon are at stake.
LEMMA StructuralInv ==
  ASSUME IInv, Settable, UNCHANGED <<initialized, goals, assigned, solver, pattern, qp>>,
         TypeOK', HorizonConsistent'
  PROVE  IInv'
<1>1. SolverInv' /\ CouplingInv'
  BY SolverKept DEF IInv
<1>2. BuiltInv' /\ GoalInv'
  BY DEF IInv, Settable, goals, BuiltInv, GoalInv
<1> QED BY <1>1, <1>2 DEF IInv

\* The setters of the horizon.
LEMMA HorizonInv ==
  ASSUME IInv, \/ \E k \in 0 .. MaxNp : SetNp(k) \/ SetNc(k)
               \/ \E d \in Steps : Setdt(d)
               \/ \E t \in Times : SetT(t)
  PROVE  IInv'
<1> USE ScalarAssumption DEF Rest, sizes, avoidance, weights, goals
<1>1. /\ Settable
      /\ UNCHANGED <<initialized, assigned, goals, weights, model, broken, avoidance,
                     buffers, solver, pattern, qp>>
  BY DEF SetNp, SetNc, Setdt, SetT
<1>2. ASSUME NEW k \in 0 .. MaxNp, SetNp(k) PROVE TypeOK' /\ HorizonConsistent'
  BY <1>1, <1>2 DEF SetNp, StepFor, IInv, TypeOK, HorizonConsistent
<1>3. ASSUME NEW k \in 0 .. MaxNp, SetNc(k) PROVE TypeOK' /\ HorizonConsistent'
  BY <1>1, <1>3 DEF SetNc, IInv, TypeOK, HorizonConsistent
<1>4. ASSUME NEW d \in Steps, Setdt(d) PROVE TypeOK' /\ HorizonConsistent'
  <2>1. dt' = <<d, 1>> /\ UNCHANGED <<Np, Nc>> /\ T' = IF Np > 0 THEN Np * d ELSE T
    BY <1>4 DEF Setdt
  <2>2. d \in Nat \ {0} /\ Np \in Nat /\ 1 \in 1 .. MaxNp /\ T \in Nat
    BY DEF IInv, TypeOK
  <2>3. PICK z \in Nat : z = Np * d
    BY <2>2
  <2>4. T' \in Nat /\ dt' \in Nat \X (1 .. MaxNp)
    BY <2>1, <2>2, <2>3
  <2>5. TypeOK'
    BY <1>1, <2>1, <2>4 DEF IInv, TypeOK
  <2>6. Np' > 0 => dt'[1] * Np' = T' * dt'[2]
    BY <2>1, <2>2, <2>3
  <2>7. HorizonConsistent'
    BY <1>1, <2>1, <2>6 DEF IInv, HorizonConsistent
  <2> QED BY <2>5, <2>7
<1>5. ASSUME NEW t \in Times, SetT(t) PROVE TypeOK' /\ HorizonConsistent'
  <2>1. t \in Nat \ {0} /\ Np \in 0 .. MaxNp /\ dt \in Nat \X (1 .. MaxNp)
    BY DEF IInv, TypeOK
  <2>2. T' = t /\ dt' = (IF Np > 0 THEN <<t, Np>> ELSE dt) /\ UNCHANGED <<Np, Nc>>
    BY <1>5 DEF SetT
  <2>3. TypeOK'
    BY <1>1, <2>1, <2>2 DEF IInv, TypeOK
  <2>4. HorizonConsistent'
    BY <1>1, <2>1, <2>2 DEF IInv, HorizonConsistent
  <2> QED BY <2>3, <2>4
<1> QED BY <1>1, <1>2, <1>3, <1>4, <1>5, StructuralInv

\* The setters of capacity, barrier and weights.
LEMMA ParameterInv ==
  ASSUME IInv, \/ \E k \in Capacities : SetMaxObs(k)
               \/ \E b \in BOOLEAN : SetCbfGamma(b)
               \/ \E q \in Dims \cup {Malformed} : SetQ(q)
               \/ \E r \in Dims : SetR(r)
  PROVE  IInv'
<1> USE DEF Rest, sizes, avoidance, weights, goals, horizon
<1>1. /\ Settable
      /\ UNCHANGED <<initialized, assigned, goals, horizon, model, broken, buffers,
                     solver, pattern, qp>>
  BY DEF SetMaxObs, SetCbfGamma, SetQ, SetR
<1>2. /\ max_obs' \in {max_obs} \cup Capacities /\ cbf' \in {cbf} \cup BOOLEAN
      /\ Q' \in {Q} \cup Dims \cup {Malformed} /\ R' \in {R} \cup Dims
  BY DEF SetMaxObs, SetCbfGamma, SetQ, SetR
<1>3. TypeOK'
  BY <1>1, <1>2, ScalarAssumption DEF IInv, TypeOK
<1>4. HorizonConsistent'
  BY <1>1 DEF IInv, HorizonConsistent
<1> QED BY <1>1, <1>3, <1>4, StructuralInv

\* The per-cycle setters change nothing but their goal, their obstacles or x.
LEMMA PerCycleInv ==
  ASSUME IInv, UNCHANGED <<horizon, avoidance, model, weights, initialized, assigned,
                           solver, pattern, qp>>,
         UNCHANGED <<DOMAIN buffers, buffers.u, buffers.w, buffers.n_ineq>>,
         broken' \in BOOLEAN, GoalInv'
  PROVE  IInv'
<1> USE DEF horizon, avoidance, weights
<1>1. TypeOK' /\ HorizonConsistent'
  BY DEF IInv, TypeOK, HorizonConsistent
<1>2. SolverInv' /\ CouplingInv'
  BY SolverKept DEF IInv
<1>3. BuiltInv'
  <2>1. UNCHANGED <<Ready, WeightsFit(model), MappingFits(model)>>
    BY DEF Ready, WeightsFit, Defaulted, MappingFits, Slackened
  <2>2. UNCHANGED <<Configured(solver.model), OthersFit, Bounds(solver.model)>>
    BY DEF Configured, OthersFit, Problem, Bounds
  <2> QED BY <2>1, <2>2 DEF IInv, BuiltInv
<1> QED BY <1>1, <1>2, <1>3 DEF IInv

LEMMA GoalSettersInv ==
  ASSUME IInv, NEW rows \in Nat, NEW cols \in Nat,
         SetGoalX(rows, cols) \/ SetGoalU(rows, cols)
  PROVE  IInv'
<1>1. /\ UNCHANGED <<horizon, avoidance, model, weights, initialized, assigned,
                     buffers, solver, pattern, qp, broken>>
      /\ UNCHANGED <<DOMAIN buffers, buffers.u, buffers.w, buffers.n_ineq>>
  BY DEF SetGoalX, SetGoalU, Rest, sizes
<1>2. Accepted => initialized /\ model.n = Q /\ model.m = R /\ Q \in Nat \ {0} /\ R \in Nat \ {0}
  BY DEF Accepted, WeightsFit, Defaulted, IInv, BuiltInv
<1>3. initialized /\ ~assigned => Np \in Nat \ {0} /\ Nc \in Nat \ {0}
  BY ScalarAssumption DEF IInv, BuiltInv, TypeOK
<1>4. ASSUME SetGoalX(rows, cols) PROVE GoalInv'
  BY <1>1, <1>2, <1>3, <1>4 DEF SetGoalX, IInv, GoalInv, Fits, horizon, weights
<1>5. ASSUME SetGoalU(rows, cols) PROVE GoalInv'
  BY <1>1, <1>2, <1>3, <1>5 DEF SetGoalU, IInv, GoalInv, Fits, horizon, weights
<1>6. broken' \in BOOLEAN
  BY <1>1 DEF IInv, TypeOK
<1> QED BY <1>1, <1>4, <1>5, <1>6, PerCycleInv

LEMMA OtherSettersInv ==
  ASSUME IInv, \/ \E rows, filled : SetObs(rows, filled)
               \/ \E shape : SetX(shape)
  PROVE  IInv'
<1>1. UNCHANGED <<horizon, avoidance, model, weights, goals, initialized, assigned,
                  solver, pattern, qp, broken>>
  BY DEF SetObs, SetX, sizes
<1>2. UNCHANGED <<DOMAIN buffers, buffers.u, buffers.w, buffers.n_ineq>>
  <2>1. DOMAIN buffers = {"x", "u", "w", "n_ineq"}
    BY DEF IInv, TypeOK, Unsized
  <2> QED BY <2>1 DEF SetObs, SetX, sizes
<1>3. GoalInv' /\ broken' \in BOOLEAN
  BY <1>1 DEF horizon, weights, goals, IInv, GoalInv, Fits, TypeOK
<1> QED BY <1>1, <1>2, <1>3, PerCycleInv

\* A size assigned past the setters ends what depends on them, not what the solver has.
LEMMA AssignInv == ASSUME IInv, NEW s \in Assigned, Assign(s) PROVE IInv'
<1>1. TypeOK'
  <2>1. Np' \in 0 .. MaxNp /\ Nc' \in 0 .. MaxNp
    BY ScalarAssumption DEF Assign
  <2> QED BY <2>1 DEF Assign, avoidance, weights, sizes, IInv, TypeOK
<1>2. SolverInv' /\ CouplingInv'
  BY SolverKept DEF Assign, sizes, IInv
<1>3. HorizonConsistent' /\ BuiltInv' /\ GoalInv'
  BY DEF Assign, weights, IInv, HorizonConsistent, BuiltInv, GoalInv
<1> QED BY <1>1, <1>2, <1>3 DEF IInv

-----------------------------------------------------------------------------
(* init() and configProxQP().                                              *)

\* What every outcome of init() leaves.
LEMMA ReadInv ==
  ASSUME IInv, NEW mod \in Models, ReadModel(mod), broken' \in BOOLEAN,
         UNCHANGED <<horizon, avoidance, goals, assigned>>, initialized' \in BOOLEAN,
         initialized => initialized', UNCHANGED buffers \/ SizeBuffers(mod)
  PROVE  /\ TypeOK' /\ HorizonConsistent' /\ GoalInv'
         /\ initialized => UNCHANGED weights
<1>1. model' = mod /\ Q' = Defaulted(Q, mod.n) /\ R' = Defaulted(R, mod.m)
  BY DEF ReadModel
<1>2. mod.n \in Nat /\ mod.m \in Nat
  BY ModelSizes
<1>3. initialized => UNCHANGED weights
  BY <1>1 DEF Defaulted, weights, IInv, BuiltInv
<1>4. TypeOK'
  <2>1. Q' \in Nat \cup {Malformed} /\ R' \in Nat \cup {Malformed}
    BY <1>1, <1>2 DEF Defaulted, IInv, TypeOK
  <2>2. DOMAIN buffers' = DOMAIN Unsized
    <3>1. DOMAIN Unsized = {"x", "u", "w", "n_ineq"}
      BY DEF Unsized
    <3>2. SizeBuffers(mod) => DOMAIN buffers' = {"x", "u", "w", "n_ineq"}
      BY DEF SizeBuffers
    <3> QED BY <3>1, <3>2 DEF IInv, TypeOK
  <2> QED BY <1>1, <2>1, <2>2 DEF horizon, avoidance, IInv, TypeOK
<1>5. HorizonConsistent'
  BY DEF horizon, IInv, HorizonConsistent
<1>6. GoalInv'
  BY <1>3 DEF horizon, goals, weights, IInv, GoalInv, Fits
<1> QED BY <1>3, <1>4, <1>5, <1>6

\* A configuration that completes.
LEMMA ConfiguredInv ==
  ASSUME IInv, NEW mod \in Models, Usable(mod), ConfigProxQP(mod), Np > 0,
         UNCHANGED <<horizon, avoidance>>
  PROVE  /\ SolverInv' /\ CouplingInv' /\ Ready'
         /\ solver' = Configured(mod) /\ solver'.model = mod
         /\ Problem(solver').k = (IF Slackened(mod) THEN max_obs ELSE 0)
<1>1. solver' = Configured(mod) /\ coupled' = {} /\ gradient' = {}
      /\ pattern' = Written(Problem(solver'), {})
  BY DEF ConfigProxQP
<1>2. /\ solver'.model = mod /\ solver'.Np = Np /\ solver'.Nc = Nc
      /\ solver'.K = max_obs /\ solver'.cbf = cbf
  BY <1>1 DEF Configured
<1>3. Np \in Nat \ {0} /\ Nc \in Nat \ {0} /\ max_obs \in Nat /\ cbf \in BOOLEAN
  BY ScalarAssumption DEF IInv, TypeOK, Usable
<1>4. SolverInv' /\ Ready'
  BY <1>2, <1>3 DEF SolverInv, Ready, Usable, MappingFits, Slackened
<1>5. CouplingInv'
  BY <1>1, GradientsEmpty DEF CouplingInv
<1>6. Problem(solver').k = (IF Slackened(mod) THEN max_obs ELSE 0)
  BY <1>2, <1>3 DEF Problem, Slackened
<1> QED BY <1>1, <1>2, <1>4, <1>5, <1>6

\* One that throws.
LEMMA FailedInv ==
  ASSUME ConfigFails PROVE SolverInv' /\ CouplingInv' /\ ~Ready'
<1>1. ~Ready'
  BY DEF ConfigFails, Ready, NoSolver
<1> QED BY <1>1 DEF SolverInv, CouplingInv

LEMMA InitRejects ==
  ASSUME IInv, NEW mod \in Models, InitRejected(mod) \/ InitWithoutHorizon(mod)
  PROVE  IInv'
<1>1. /\ ReadModel(mod) /\ broken' \in BOOLEAN
      /\ UNCHANGED <<horizon, avoidance, goals, assigned, initialized>>
      /\ UNCHANGED <<buffers, solver, pattern, qp>>
      /\ Nc = 0 \/ Nc > Np \/ ~WeightsFit(mod)
  BY DEF InitRejected, InitWithoutHorizon, sizes, IInv, TypeOK
<1>2. TypeOK' /\ HorizonConsistent' /\ GoalInv' /\ (initialized => UNCHANGED weights)
  BY <1>1, ReadInv DEF IInv, TypeOK
<1>3. SolverInv' /\ CouplingInv'
  BY <1>1, SolverKept DEF IInv
<1>4. BuiltInv'
  <2>1. CASE initialized
    <3>1. UNCHANGED <<Np, Nc, dt, T, max_obs, cbf, Q, R>> /\ model' = mod
      BY <1>1, <1>2, <2>1 DEF horizon, avoidance, weights, ReadModel
    <3>2. ~assigned => ~WeightsFit(mod) /\ Np \in Nat /\ Nc \in Nat
      BY <1>1, <2>1, ScalarAssumption DEF IInv, BuiltInv, TypeOK
    <3>3. ~assigned => ~WeightsFit(model)'
      BY <3>1, <3>2 DEF WeightsFit, Defaulted
    <3>4. UNCHANGED <<Ready, Configured(solver.model), OthersFit, Bounds(solver.model)>>
      BY <1>1, <3>1 DEF Ready, Configured, OthersFit, Problem, Bounds
    <3> QED BY <1>1, <2>1, <3>1, <3>3, <3>4 DEF IInv, BuiltInv
  <2>2. CASE ~initialized
    BY <1>1, <2>2 DEF BuiltInv
  <2> QED BY <2>1, <2>2
<1> QED BY <1>2, <1>3, <1>4 DEF IInv

LEMMA SolverRejects ==
  ASSUME IInv, NEW mod \in Models, SolverRejected(mod) PROVE IInv'
<1>1. /\ ReadModel(mod) /\ broken' \in BOOLEAN /\ ~Usable(mod) /\ ConfigFails
      /\ SizeBuffers(mod)
      /\ UNCHANGED <<horizon, avoidance, goals, assigned, initialized>>
  BY DEF SolverRejected, IInv, TypeOK
<1>2. TypeOK' /\ HorizonConsistent' /\ GoalInv' /\ (initialized => UNCHANGED weights)
  BY <1>1, ReadInv DEF IInv, TypeOK
<1>3. SolverInv' /\ CouplingInv' /\ ~Ready'
  BY <1>1, FailedInv
<1>4. BuiltInv'
  <2>1. CASE initialized
    <3>1. UNCHANGED <<Np, Nc, dt, T, max_obs, cbf, Q, R>> /\ model' = mod
      BY <1>1, <1>2, <2>1 DEF horizon, avoidance, weights, ReadModel
    <3>2. ~assigned => ~MappingFits(mod)
      BY <1>1, <2>1 DEF IInv, BuiltInv, Usable
    <3>3. ~assigned => ~MappingFits(model)'
      BY <3>1, <3>2 DEF MappingFits, Slackened
    <3> QED BY <1>1, <1>3, <2>1, <3>1, <3>3 DEF IInv, BuiltInv
  <2>2. CASE ~initialized
    BY <1>1, <2>2 DEF BuiltInv
  <2> QED BY <2>1, <2>2
<1> QED BY <1>2, <1>3, <1>4 DEF IInv

LEMMA InitSucceeds ==
  ASSUME IInv, NEW mod \in Models, InitDone(mod) PROVE IInv'
<1>1. /\ ReadModel(mod) /\ WeightsFit(mod) /\ Usable(mod) /\ ConfigProxQP(mod) /\ SizeBuffers(mod)
      /\ UNCHANGED <<horizon, avoidance, goals, assigned, broken>>
      /\ initialized' = TRUE /\ Nc <= Np /\ broken' \in BOOLEAN
  BY DEF InitDone, IInv, TypeOK
<1>2. Np \in Nat /\ Nc \in Nat /\ 0 < Nc /\ Nc <= Np /\ dt[1] > 0 /\ max_obs \in Nat
  BY <1>1, ScalarAssumption DEF Usable, IInv, TypeOK
<1>3. TypeOK' /\ HorizonConsistent' /\ GoalInv' /\ (initialized => UNCHANGED weights)
  BY <1>1, ReadInv
<1>4. /\ SolverInv' /\ CouplingInv' /\ Ready'
      /\ solver' = Configured(mod) /\ solver'.model = mod
      /\ Problem(solver').k = (IF Slackened(mod) THEN max_obs ELSE 0)
  BY <1>1, <1>2, ConfiguredInv
<1>5. BuiltInv'
  <2>1. /\ UNCHANGED <<Np, Nc, dt, T, max_obs, cbf>> /\ model' = mod
        /\ Q' = mod.n /\ R' = mod.m /\ mod.n \in Nat \ {0} /\ mod.m \in Nat \ {0}
    BY <1>1, ModelSizes DEF horizon, avoidance, ReadModel, WeightsFit
  <2>2. Configured(mod)' = Configured(mod) /\ Configured(solver.model)' = Configured(mod)
    BY <1>4, <2>1 DEF Configured
  <2>3. OthersFit'
    <3>1. solver'.Np = Np /\ solver'.Nc = Nc
      BY <1>4 DEF Configured
    <3>2. buffers'.u = <<Nc, mod.m>> /\ buffers'.w = Slack(mod)
      BY <1>1 DEF SizeBuffers
    <3>3. Slack(mod) = Np * (IF Slackened(mod) THEN max_obs ELSE 0)
      BY <1>2 DEF Slack
    <3> QED BY <1>4, <3>1, <3>2, <3>3 DEF OthersFit
  <2>4. buffers'.n_ineq = Bounds(solver'.model)
    BY <1>1, <1>4 DEF SizeBuffers
  <2>5. Bounds(solver.model)' = Bounds(solver'.model)
    BY DEF Bounds
  <2> QED BY <1>2, <1>4, <2>1, <2>2, <2>3, <2>4, <2>5 DEF BuiltInv
<1> QED BY <1>3, <1>4, <1>5 DEF IInv

\* configProxQP() on an initialized object: of one whose sizes nobody assigned it
\* makes the solver that is there, or none.
LEMMA ReconfigureInv ==
  ASSUME IInv, Reconfigure \/ ReconfigureRejected \/ ReconfigureUndefined PROVE IInv'
<1>1. /\ UnchangedByConfig /\ initialized /\ Np > 0 /\ broken' \in BOOLEAN
  BY DEF Reconfigure, ReconfigureRejected, ReconfigureUndefined, IInv, TypeOK
<1>2. UNCHANGED <<Np, Nc, dt, T, max_obs, cbf, model, Q, R, goal_x, goal_u, initialized,
                  assigned, buffers>>
  BY <1>1 DEF UnchangedByConfig, horizon, avoidance, weights, goals
<1>3. TypeOK' /\ HorizonConsistent' /\ GoalInv'
  BY <1>1, <1>2 DEF IInv, TypeOK, HorizonConsistent, GoalInv, Fits
<1>4. UNCHANGED <<WeightsFit(model), MappingFits(model)>>
  BY <1>2 DEF WeightsFit, Defaulted, MappingFits, Slackened
<1>5. CASE ReconfigureUndefined
  <2>1. UNCHANGED <<solver, pattern, qp>>
    BY <1>5 DEF ReconfigureUndefined
  <2>2. SolverInv' /\ CouplingInv'
    BY <2>1, SolverKept DEF IInv
  <2>3. UNCHANGED <<Ready, Configured(solver.model), OthersFit, Bounds(solver.model)>>
    BY <1>2, <2>1 DEF Ready, Configured, OthersFit, Problem, Bounds
  <2>4. BuiltInv'
    BY <1>2, <1>4, <2>1, <2>3 DEF IInv, BuiltInv
  <2> QED BY <1>3, <2>2, <2>4 DEF IInv
<1>6. CASE ReconfigureRejected
  <2>1. SolverInv' /\ CouplingInv' /\ ~Ready' /\ ~Usable(model)
    BY <1>6, FailedInv DEF ReconfigureRejected
  <2>2. ~assigned => ~MappingFits(model)
    BY <1>1, <2>1 DEF IInv, BuiltInv, Usable
  <2>3. BuiltInv'
    BY <1>2, <1>4, <2>1, <2>2 DEF IInv, BuiltInv
  <2> QED BY <1>3, <2>1, <2>3 DEF IInv
<1>7. CASE Reconfigure
  <2>1. Usable(model) /\ Counted /\ ConfigProxQP(model)
    BY <1>7 DEF Reconfigure
  <2>2. model \in Models
    <3>1. model # NoModel
      BY <1>1, <2>1 DEF Counted, WeightsFit, Defaulted, NoModel, IInv, BuiltInv
    <3> QED BY <3>1 DEF IInv, TypeOK
  <2>3. SolverInv' /\ CouplingInv' /\ Ready' /\ solver' = Configured(model) /\ solver'.model = model
    BY <1>1, <1>2, <2>1, <2>2, ConfiguredInv DEF horizon, avoidance
  <2>4. BuiltInv'
    <3>1. CASE assigned
      BY <1>2, <3>1 DEF IInv, BuiltInv
    <3>2. CASE ~assigned
      <4>1. WeightsFit(model) /\ MappingFits(model)
        BY <2>1 DEF Counted, Usable
      <4>2. Ready /\ solver.model = model /\ solver = Configured(model)
        BY <1>1, <3>2, <4>1 DEF IInv, BuiltInv
      <4>3. solver' = solver
        BY <2>3, <4>2
      <4>4. UNCHANGED <<Ready, Configured(solver.model), OthersFit, Bounds(solver.model)>>
        BY <1>2, <4>3 DEF Ready, Configured, OthersFit, Problem, Bounds
      <4> QED BY <1>2, <1>4, <4>3, <4>4 DEF IInv, BuiltInv
    <3> QED BY <3>1, <3>2
  <2> QED BY <1>3, <2>3, <2>4 DEF IInv
<1> QED BY <1>5, <1>6, <1>7

-----------------------------------------------------------------------------
\* A solve replaces the gradients: it writes every position an earlier one may have.
LEMMA SolveInv == ASSUME IInv, Solve PROVE IInv'
<1> DEFINE p == Problem(solver)
<1>1. /\ Ready
      /\ UNCHANGED <<horizon, avoidance, model, weights, goals, initialized, assigned, sizes, broken>>
  BY DEF Solve, SolveReads
<1>2. UNCHANGED <<Np, Nc, dt, T, max_obs, cbf, model, Q, R, goal_x, goal_u, initialized,
                  assigned, buffers, solver, pattern, broken>>
  BY <1>1 DEF horizon, avoidance, weights, goals, sizes
<1>3. TypeOK' /\ HorizonConsistent' /\ GoalInv' /\ SolverInv'
  BY <1>2 DEF IInv, TypeOK, HorizonConsistent, GoalInv, Fits, SolverInv, Ready
<1>4. BuiltInv'
  <2>1. UNCHANGED <<Ready, WeightsFit(model), MappingFits(model)>>
    BY <1>2 DEF Ready, WeightsFit, Defaulted, MappingFits, Slackened
  <2>2. UNCHANGED <<Configured(solver.model), OthersFit, Bounds(solver.model)>>
    BY <1>2 DEF Configured, OthersFit, Problem, Bounds
  <2> QED BY <1>2, <2>1, <2>2 DEF IInv, BuiltInv
<1>5. CouplingInv'
  <2>1. Problem(solver)' = p
    BY <1>2 DEF Problem
  <2>2. CASE p.k > 0
    <3>1. coupled' = CoupledRows(p)
      BY <2>2 DEF Solve
    <3>2. gradient' = (gradient \ Couplings(p, CoupledRows(p))) \cup Gradients(p, CoupledRows(p))
      BY <2>2 DEF Solve
    <3>3. gradient \subseteq Couplings(p, CoupledRows(p))
      BY <1>1, <2>2, GradientsWritten DEF IInv, CouplingInv
    <3>4. gradient' = Gradients(p, coupled')
      BY <3>1, <3>2, <3>3
    <3>5. coupled' \subseteq Coupleable(p)
      BY <3>1, CoupledRowsBounded
    <3>6. pattern' = Written(Problem(solver), {})'
      BY <1>1, <1>2, <2>1 DEF IInv, CouplingInv
    <3>7. gradient' = Gradients(Problem(solver), coupled)'
      BY <2>1, <3>4
    <3>8. Problem(solver)'.k > 0 /\ coupled' \subseteq Coupleable(Problem(solver)')
      BY <2>1, <2>2, <3>5
    <3> QED BY <3>6, <3>7, <3>8 DEF CouplingInv
  <2>3. CASE ~(p.k > 0)
    <3>1. coupled' = {} /\ gradient' = {}
      BY <2>3 DEF Solve
    <3>2. pattern' = Written(Problem(solver), {})'
      BY <1>1, <1>2, <2>1 DEF IInv, CouplingInv
    <3>3. gradient' = Gradients(Problem(solver), coupled)'
      BY <3>1, GradientsEmpty
    <3> QED BY <3>1, <3>2, <3>3 DEF CouplingInv
  <2> QED BY <2>2, <2>3
<1> QED BY <1>3, <1>4, <1>5 DEF IInv

LEMMA NextInv == IInv /\ [Next]_vars => IInv'
<1> SUFFICES ASSUME IInv, [Next]_vars PROVE IInv'
  OBVIOUS
<1>1. CASE UNCHANGED vars \/ SolveUndefined
  <2>1. /\ UNCHANGED <<horizon, avoidance, model, weights, goals, initialized, assigned,
                       buffers, solver, pattern, qp>>
        /\ broken' \in BOOLEAN
    BY <1>1 DEF vars, SolveUndefined, sizes, IInv, TypeOK
  <2>2. GoalInv'
    BY <2>1 DEF horizon, goals, weights, IInv, GoalInv, Fits
  <2> QED BY <2>1, <2>2, PerCycleInv
<1>2. CASE Next /\ ~SolveUndefined
  <2>1. CASE \/ \E k \in 0 .. MaxNp : SetNp(k) \/ SetNc(k)
             \/ \E d \in Steps : Setdt(d)
             \/ \E t \in Times : SetT(t)
    BY <2>1, HorizonInv
  <2>2. CASE \/ \E k \in Capacities : SetMaxObs(k)
             \/ \E b \in BOOLEAN : SetCbfGamma(b)
             \/ \E q \in Dims \cup {Malformed} : SetQ(q)
             \/ \E r \in Dims : SetR(r)
    BY <2>2, ParameterInv
  <2>3. CASE \E s \in Shapes : SetGoalX(s[1], s[2]) \/ SetGoalU(s[1], s[2]) \/ SetX(s)
    <3>1. PICK s \in Shapes : SetGoalX(s[1], s[2]) \/ SetGoalU(s[1], s[2]) \/ SetX(s)
      BY <2>3
    <3>2. s[1] \in Nat /\ s[2] \in Nat
      BY ScalarAssumption
    <3> QED BY <3>1, <3>2, GoalSettersInv, OtherSettersInv
  <2>4. CASE \E over \in {0, 1} : \E f \in SUBSET (0 .. Np * max_obs - 1) :
               SetObs((Np + over) * max_obs, f)
    BY <2>4, OtherSettersInv
  <2>5. CASE \E s \in Assigned : Assign(s)
    BY <2>5, AssignInv
  <2>6. CASE \E mod \in Models : InitRejected(mod) \/ SolverRejected(mod)
                                  \/ InitWithoutHorizon(mod) \/ InitDone(mod)
    BY <2>6, InitRejects, SolverRejects, InitSucceeds
  <2>7. CASE Reconfigure \/ ReconfigureRejected \/ ReconfigureUndefined
    BY <2>7, ReconfigureInv
  <2>8. CASE Solve
    BY <2>8, SolveInv
  <2> QED BY <1>2, <2>1, <2>2, <2>3, <2>4, <2>5, <2>6, <2>7, <2>8 DEF Next
<1> QED BY <1>1, <1>2

LEMMA Inductive == Spec => []IInv
BY InitInv, NextInv, PTL DEF Spec

-----------------------------------------------------------------------------
\* Every value is of the kind the checks of the setters and of init() rely on.
THEOREM ConfigTypeCorrect == Spec => []TypeOK
<1>1. IInv => TypeOK BY DEF IInv
<1> QED BY <1>1, Inductive, PTL

\* The three views of the horizon agree, whatever setters come in whatever order,
\* until a public size is assigned past them.
THEOREM HorizonCorrect == Spec => []HorizonConsistent
<1>1. IInv => HorizonConsistent BY DEF IInv
<1> QED BY <1>1, Inductive, PTL

\* However often init() is called again, completes or throws: a configured solver, the
\* buffers, the weights and the members agree in every size.
THEOREM BuiltCorrect == Spec => []ConfiguredAsBuilt
<1>1. IInv => ConfiguredAsBuilt BY DEF IInv, BuiltInv, ConfiguredAsBuilt
<1> QED BY <1>1, Inductive, PTL

\* A goal given while init() accepts the model on record is read in its bounds by every
\* later solve, through every later init().
THEOREM GoalsCorrect == Spec => []SolvesInBounds
<1>1. IInv => SolvesInBounds
  <2> SUFFICES ASSUME IInv, Ready, ~assigned, XFits, goal_x.checked, goal_u.checked
               PROVE  SolveReads
    BY DEF SolvesInBounds
  <2>1. initialized /\ Fits(goal_x, Np + 1, Q) /\ Fits(goal_u, Nc, R)
    BY DEF IInv, GoalInv
  <2>2. /\ solver = Configured(solver.model) /\ OthersFit
        /\ Q = solver.model.n /\ R = solver.model.m
    BY <2>1 DEF IInv, BuiltInv
  <2>3. solver.Np = Np /\ solver.Nc = Nc
    BY <2>2 DEF Configured
  <2> QED BY <2>1, <2>2, <2>3 DEF SolveReads, GoalsFit
<1> QED BY <1>1, Inductive, PTL

\* The coupling gradients are this solve's, at declared positions.
THEOREM CouplingCorrect == Spec => []CouplingIsCurrent
<1>1. IInv => CouplingIsCurrent
  <2> SUFFICES ASSUME IInv, Ready PROVE CouplingIsCurrent
    BY DEF CouplingIsCurrent
  <2> DEFINE p == Problem(solver)
  <2>1. gradient = Gradients(p, coupled) /\ pattern = Written(p, {})
    BY DEF IInv, CouplingInv
  <2>2. gradient = (IF coupled = {} THEN {} ELSE Gradients(p, coupled))
    BY <2>1, GradientsEmpty
  <2>3. gradient \subseteq pattern
    <3>1. CASE p.k > 0
      <4>1. gradient \subseteq Couplings(p, {})
        BY <2>1, <3>1, GradientsWritten DEF IInv, CouplingInv
      <4> QED BY <2>1, <3>1, <4>1 DEF Written
    <3>2. CASE ~(p.k > 0)
      BY <2>1, <3>2, GradientsEmpty DEF IInv, CouplingInv
    <3> QED BY <3>1, <3>2
  <2> QED BY <2>2, <2>3 DEF CouplingIsCurrent
<1> QED BY <1>1, Inductive, PTL

\* The problem of a configured solver is one the assembly can be asked for.
LEMMA ProblemWellFormed == ASSUME IInv, Ready PROVE WellFormed(Problem(solver))
<1> DEFINE model_ == solver.model
<1>1. /\ model_ \in Models /\ solver.Np \in Nat \ {0} /\ solver.Nc \in Nat \ {0}
      /\ solver.K \in Nat /\ solver.cbf \in BOOLEAN
      /\ model_.obs /\ solver.K > 0 => model_.px < model_.n /\ model_.py < model_.n
  BY DEF IInv, SolverInv
<1>2. /\ model_.n \in Nat \ {0} /\ model_.m \in Nat \ {0} /\ model_.px \in Nat /\ model_.py \in Nat
      /\ model_.x \in Seq(0 .. model_.n - 1)
      /\ model_.u \in Seq(0 .. model_.m - 1) /\ model_.du \in Seq(0 .. model_.m - 1)
  BY <1>1, ModelAssumption
<1> DEFINE p == Problem(solver)
<1>3. /\ p.n = model_.n /\ p.m = model_.m /\ p.np = solver.Np /\ p.nc = solver.Nc
      /\ p.pos = {model_.px, model_.py}
      /\ p.k = (IF model_.obs THEN solver.K ELSE 0) /\ p.barrier = solver.cbf
      /\ p.x = model_.x /\ p.u = model_.u /\ p.du = model_.du
  BY DEF Problem
<1> HIDE DEF p, model_
<1>4. p.k \in Nat /\ (p.k > 0 => model_.obs /\ solver.K > 0)
  BY <1>1, <1>3
<1>5. p.k > 0 => p.pos \subseteq 0 .. p.n - 1
  <2> SUFFICES ASSUME p.k > 0 PROVE p.pos \subseteq 0 .. p.n - 1
    OBVIOUS
  <2>1. model_.px < model_.n /\ model_.py < model_.n
    BY <1>1, <1>4
  <2> QED BY <1>2, <1>3, <2>1
<1>6. WellFormed(p)
  BY <1>1, <1>2, <1>3, <1>4, <1>5, Zenon DEF WellFormed
<1> QED BY <1>6 DEF p

\* The assembly fills the rows it declared and stays in its columns, for every horizon
\* and every model whose bounds are on its own states and controls.
THEOREM AssemblyCorrect == Spec => []AssemblyInBounds
<1>1. IInv => AssemblyInBounds
  <2> SUFFICES ASSUME IInv, Ready PROVE AssemblyInBounds
    BY DEF AssemblyInBounds
  <2> DEFINE p == Problem(solver)
  <2>1. WellFormed(p) /\ pattern = Written(p, {})
    BY ProblemWellFormed DEF IInv, CouplingInv
  <2> HIDE DEF p
  <2>2. Rows(Dynamics(p)) = EqualityRows(p)
    BY <2>1, DynamicsRows
  <2>3. \A r \in EqualityRows(p) : r >= p.n =>
          /\ Cardinality(At(Dynamics(p), r) \cap StateColumns(p)) = 2 * p.n
          /\ Cardinality(At(Dynamics(p), r) \cap ControlColumns(p)) = p.m
    BY <2>1, DynamicsColumns
  <2>4. LET Obstacles == IF p.k > 0 THEN RowsOf(p, ObsBlock(p)) ELSE {}
        IN  /\ Rows(pattern) = InequalityRows(p)
            /\ \A e \in pattern : e[2] \in Columns(p)
            /\ \A r \in InequalityRows(p) \ Obstacles :
                 \/ Cardinality(At(pattern, r)) = 1
                 \/ Cardinality(At(pattern, r)) = 2 /\ At(pattern, r) \subseteq ControlColumns(p)
            /\ \A r, q \in Obstacles : r # q =>
                 (At(pattern, r) \cap At(pattern, q)) \subseteq StateColumns(p)
    BY <2>1, Assembled, Zenon
  <2> QED BY <2>2, <2>3, <2>4, Zenon DEF AssemblyInBounds, p
<1> QED BY <1>1, Inductive, PTL

=============================================================================
