--------------------------- MODULE RollbackProofs ---------------------------
(***************************************************************************)
(* The repair tool never overdraws a wallet, and a sound repair leaves it  *)
(* within a known distance of its records, for every set of orders,        *)
(* amounts, plans and runs of the tool.                                    *)
(***************************************************************************)
EXTENDS Rollback, WellFoundedInduction, TLAPS

(* Some naturals have a least one; so what holds of 0 and of each successor
   holds of all of them. *)
LEMMA LeastOf ==
  ASSUME NEW T \in SUBSET Nat, T # {}
  PROVE  \E n \in T : \A m \in T : n <= m
<1> DEFINE R == {ss \in Nat \X Nat : ss[1] < ss[2]}
<1>1. IsWellFoundedOn(R, Nat)
  BY NatLessThanWellFounded, Zenon DEF OpToRel
<1>2. PICK n \in T : \A m \in T : <<m, n>> \notin R
  <2> HIDE DEF R
  <2>1. QED
    BY <1>1, WFMin
<1>3. \A m \in T : ~(m < n)
  BY <1>2
<1>4. QED
  BY <1>2, <1>3

LEMMA Counting ==
  ASSUME NEW S, 0 \in S, \A n \in Nat : n \in S => n + 1 \in S
  PROVE  \A n \in Nat : n \in S
<1> DEFINE T == {n \in Nat : n \notin S}
<1>1. SUFFICES ASSUME T # {} PROVE FALSE
  OBVIOUS
<1>2. PICK n \in T : \A m \in T : n <= m
  <2>1. T \in SUBSET Nat
    OBVIOUS
  <2> HIDE DEF T
  <2>2. QED
    BY <1>1, <2>1, LeastOf
<1>3. n \in Nat /\ n # 0 /\ n - 1 \in Nat /\ n = (n - 1) + 1
  BY <1>2
<1>4. n - 1 \notin T
  BY <1>2, <1>3
<1>5. QED
  BY <1>2, <1>3, <1>4

(* A value that is computed from an earlier one, at each place up to n. *)
IsRun(f, n, V, base, step, prev) ==
  /\ f \in [0 .. n -> V]
  /\ \A i \in 0 .. n : f[i] = IF i = 0 THEN base ELSE step[i][f[prev[i]]]

LEMMA RunExists ==
  ASSUME NEW n \in Nat, NEW V, NEW base \in V, NEW step \in [1 .. n -> [V -> V]],
         NEW prev \in [1 .. n -> 0 .. n], \A i \in 1 .. n : prev[i] < i
  PROVE  \E f : IsRun(f, n, V, base, step, prev)
<1> DEFINE Upto(m, f) == \A i \in 0 .. m : f[i] = IF i = 0 THEN base ELSE step[i][f[prev[i]]]
           S == {m \in Nat : m <= n => \E f \in [0 .. m -> V] : Upto(m, f)}
<1>1. 0 \in S
  <2>1. Upto(0, [i \in 0 .. 0 |-> base]) /\ [i \in 0 .. 0 |-> base] \in [0 .. 0 -> V]
    OBVIOUS
  <2> HIDE DEF Upto
  <2>2. QED
    BY <2>1
<1>2. ASSUME NEW m \in Nat, m \in S, m + 1 <= n PROVE \E f \in [0 .. m + 1 -> V] : Upto(m + 1, f)
  <2>1. PICK f \in [0 .. m -> V] : Upto(m, f)
    <3> HIDE DEF Upto
    <3>1. m <= n
      BY <1>2
    <3>2. QED
      BY <1>2, <3>1
  <2> DEFINE g == [i \in 0 .. m + 1 |-> IF i <= m THEN f[i] ELSE step[m + 1][f[prev[m + 1]]]]
  <2>2. m + 1 \in 1 .. n /\ prev[m + 1] \in 0 .. m
    BY <1>2
  <2>3. step[m + 1] \in [V -> V] /\ f[prev[m + 1]] \in V
    BY <2>2
  <2>4. g \in [0 .. m + 1 -> V]
    BY <2>3
  <2>5. \A i \in 0 .. m : g[i] = f[i]
    OBVIOUS
  <2>6. g[m + 1] = step[m + 1][g[prev[m + 1]]]
    BY <2>2, <2>5
  <2>7. \A i \in 1 .. m : prev[i] \in 0 .. m
    BY <1>2
  <2>8. ASSUME NEW i \in 0 .. m + 1 PROVE g[i] = IF i = 0 THEN base ELSE step[i][g[prev[i]]]
    <3> HIDE DEF g
    <3>1. CASE i = m + 1
      BY <2>6, <3>1
    <3>2. CASE i \in 1 .. m
      <4>1. g[i] = f[i] /\ g[prev[i]] = f[prev[i]] /\ f[i] = step[i][f[prev[i]]]
        BY <2>1, <2>5, <2>7, <3>2
      <4>2. QED
        BY <3>2, <4>1
    <3>3. CASE i = 0
      BY <2>1, <2>5, <3>3
    <3>4. QED
      BY <3>1, <3>2, <3>3
  <2>9. Upto(m + 1, g)
    BY <2>8
  <2> HIDE DEF g, Upto
  <2>10. QED
    BY <2>4, <2>9
<1>3. \A m \in Nat : m \in S => m + 1 \in S
  <2> HIDE DEF Upto
  <2>1. QED
    BY <1>2
<1>4. \A m \in Nat : m \in S
  <2> HIDE DEF S
  <2>1. QED
    BY <1>1, <1>3, Counting
<1>5. PICK f \in [0 .. n -> V] : Upto(n, f)
  <2> HIDE DEF Upto
  <2>1. QED
    BY <1>4
<1>6. IsRun(f, n, V, base, step, prev)
  BY <1>5 DEF IsRun
<1>7. QED
  BY <1>6

-----------------------------------------------------------------------------
(* One record *)

LEMMA RecordFields ==
  ASSUME NEW e \in Record
  PROVE  /\ e.id \in Nat /\ e.amount \in Nat
         /\ e.type \in {"recharge", "deduct", "refund"}
BY DEF Record

LEMMA Rounding ==
  ASSUME NEW n \in Int
  PROVE  round2(n) \in Int /\ Near(round2(n), n, 5) /\ (n >= 0 => round2(n) >= 0)
BY DEF round2, Near

LEMMA Steps ==
  ASSUME NEW n \in Int, NEW e \in Record
  PROVE  /\ Moved(n, e) \in Int
         /\ Rounded(n, e) \in Int /\ Near(Rounded(n, e), Moved(n, e), 5)
         /\ Replayed(n, e) \in Int /\ (n >= 0 => Replayed(n, e) >= 0)
<1>1. e.amount \in Nat
  BY RecordFields
<1>2. Moved(n, e) \in Int /\ (Keeps(n, e) /\ n >= 0 => Moved(n, e) >= 0)
  BY <1>1 DEF Moved, Keeps
<1>3. QED
  BY <1>2, Rounding DEF Rounded, Replayed

(* Distances add up. *)
LEMMA NearChain ==
  ASSUME NEW x \in Int, NEW y \in Int, NEW z \in Int, NEW d \in Int, NEW e \in Int,
         NEW s \in Int, Near(x, y, d) \/ Near(y, x, d), Near(z, y, e) \/ Near(y, z, e), d + e <= s
  PROVE  Near(x, z, s)
BY SMT DEF Near

(* A step keeps two balances as near as they are, up to half a cent. *)
LEMMA StepsNear ==
  ASSUME NEW n \in Int, NEW m \in Int, NEW d \in Int, Near(n, m, d), NEW e \in Record
  PROVE  Near(Rounded(n, e), Moved(m, e), d + 5) /\ Near(Moved(n, e), Moved(m, e), d)
<1>1. e.amount \in Nat
  BY RecordFields
<1>2. Near(Moved(n, e), Moved(m, e), d)
  BY <1>1 DEF Moved, Near
<1>3. PICK a, b, c : a = Rounded(n, e) /\ b = Moved(n, e) /\ c = Moved(m, e)
  OBVIOUS
<1>4. a \in Int /\ b \in Int /\ c \in Int /\ Near(a, b, 5) /\ Near(b, c, d)
  BY <1>2, <1>3, Steps
<1>5. Near(a, c, d + 5)
  BY <1>4 DEF Near
<1>6. QED
  BY <1>2, <1>3, <1>5

-----------------------------------------------------------------------------
(* What the loops compute *)

IsLoop(f, s, V, base, step) ==
  /\ f \in [0 .. Len(s) -> V]
  /\ f = [i \in 0 .. Len(s) |-> IF i = 0 THEN base ELSE step[i][f[i - 1]]]

LEMMA LoopExists ==
  ASSUME NEW s \in Seq(Record), NEW V, NEW base \in V, NEW step \in [1 .. Len(s) -> [V -> V]]
  PROVE  \E f : IsLoop(f, s, V, base, step)
<1> DEFINE prev == [i \in 1 .. Len(s) |-> i - 1]
<1>1. Len(s) \in Nat
  OBVIOUS
<1>2. prev \in [1 .. Len(s) -> 0 .. Len(s)] /\ \A i \in 1 .. Len(s) : prev[i] < i /\ prev[i] = i - 1
  BY <1>1
<1> HIDE DEF prev
<1>3. PICK f : IsRun(f, Len(s), V, base, step, prev)
  <2>1. \A i \in 1 .. Len(s) : prev[i] < i
    BY <1>2
  <2>2. QED
    BY <1>1, <1>2, <2>1, RunExists
<1>4. \A i \in 0 .. Len(s) : f[i] = IF i = 0 THEN base ELSE step[i][f[i - 1]]
  BY <1>1, <1>2, <1>3 DEF IsRun
<1>5. IsLoop(f, s, V, base, step)
  BY <1>3, <1>4 DEF IsLoop, IsRun
<1>6. QED
  BY <1>5

LEMMA NumberLoopExists ==
  ASSUME NEW s \in Seq(Record), NEW step \in [1 .. Len(s) -> [Int -> Int]]
  PROVE  \E f : IsLoop(f, s, Int, 0, step)
<1>1. PICK V, b : V = Int /\ b = 0
  OBVIOUS
<1>2. b \in V /\ step \in [1 .. Len(s) -> [V -> V]]
  BY <1>1
<1>3. \E f : IsLoop(f, s, V, b, step)
  BY <1>2, LoopExists
<1>4. QED
  BY <1>1, <1>3

LEMMA ReplayIs ==
  ASSUME NEW s \in Seq(Record)
  PROVE  /\ Replay(s) = [i \in 0 .. Len(s) |->
                      IF i = 0 THEN 0 ELSE Replayed(Replay(s)[i - 1], s[i])]
         /\ Replay(s) \in [0 .. Len(s) -> Nat]
<1> DEFINE Runs(f) == f = [i \in 0 .. Len(s) |-> IF i = 0 THEN 0 ELSE Replayed(f[i - 1], s[i])]
           step == [i \in 1 .. Len(s) |-> [n \in Int |-> Replayed(n, s[i])]]
<1>1. Replay(s) = CHOOSE f : Runs(f)
  BY Zenon DEF Replay, Running
<1>2. \E f : Runs(f)
  <2>1. step \in [1 .. Len(s) -> [Int -> Int]]
    BY Steps
  <2>2. \A i \in 1 .. Len(s) : \A n \in Int : step[i][n] = Replayed(n, s[i])
    OBVIOUS
  <2> HIDE DEF step
  <2>3. PICK f : IsLoop(f, s, Int, 0, step)
    BY <2>1, NumberLoopExists
  <2>4. ASSUME NEW i \in 0 .. Len(s)
        PROVE  f[i] = IF i = 0 THEN 0 ELSE Replayed(f[i - 1], s[i])
    <3>1. f[i] = IF i = 0 THEN 0 ELSE step[i][f[i - 1]]
      BY <2>3 DEF IsLoop
    <3>2. i # 0 => i \in 1 .. Len(s) /\ f[i - 1] \in Int
      BY <2>3 DEF IsLoop
    <3>3. QED
      BY <2>2, <3>1, <3>2
  <2>5. f = [i \in 0 .. Len(s) |-> IF i = 0 THEN 0 ELSE Replayed(f[i - 1], s[i])]
    BY <2>3, <2>4 DEF IsLoop
  <2>6. QED
    BY <2>5, Zenon
<1>3. Runs(Replay(s))
  <2> HIDE DEF Runs
  <2>1. QED
    BY <1>1, <1>2, Zenon
<1> DEFINE S == {i \in Nat : i <= Len(s) => Replay(s)[i] \in Nat}
<1>4. 0 \in S
  BY <1>3
<1>5. \A i \in Nat : i \in S => i + 1 \in S
  <2> SUFFICES ASSUME NEW i \in Nat, i \in S, i + 1 <= Len(s) PROVE Replay(s)[i + 1] \in Nat
    OBVIOUS
  <2>1. Replay(s)[i + 1] = Replayed(Replay(s)[i], s[i + 1])
    BY <1>3
  <2>2. s[i + 1] \in Record /\ Replay(s)[i] \in Nat
    OBVIOUS
  <2>3. QED
    BY <2>1, <2>2, Steps
<1>6. \A i \in Nat : i \in S
  <2> HIDE DEF S
  <2>1. QED
    BY <1>4, <1>5, Counting
<1>7. Replay(s) \in [0 .. Len(s) -> Nat]
  BY <1>3, <1>6
<1>8. QED
  BY <1>3, <1>7

LEMMA ChainIs ==
  ASSUME NEW s \in Seq(Record)
  PROVE  /\ Chain(s) = [i \in 0 .. Len(s) |->
                     IF i = 0 THEN 0 ELSE Rounded(Chain(s)[i - 1], s[i])]
         /\ Chain(s) \in [0 .. Len(s) -> Int]
<1> DEFINE Runs(f) == f = [i \in 0 .. Len(s) |-> IF i = 0 THEN 0 ELSE Rounded(f[i - 1], s[i])]
           step == [i \in 1 .. Len(s) |-> [n \in Int |-> Rounded(n, s[i])]]
<1>1. Chain(s) = CHOOSE f : Runs(f)
  BY Zenon DEF Chain, Running
<1>2. \E f : Runs(f)
  <2>1. step \in [1 .. Len(s) -> [Int -> Int]]
    BY Steps
  <2>2. \A i \in 1 .. Len(s) : \A n \in Int : step[i][n] = Rounded(n, s[i])
    OBVIOUS
  <2> HIDE DEF step
  <2>3. PICK f : IsLoop(f, s, Int, 0, step)
    BY <2>1, NumberLoopExists
  <2>4. ASSUME NEW i \in 0 .. Len(s)
        PROVE  f[i] = IF i = 0 THEN 0 ELSE Rounded(f[i - 1], s[i])
    <3>1. f[i] = IF i = 0 THEN 0 ELSE step[i][f[i - 1]]
      BY <2>3 DEF IsLoop
    <3>2. i # 0 => i \in 1 .. Len(s) /\ f[i - 1] \in Int
      BY <2>3 DEF IsLoop
    <3>3. QED
      BY <2>2, <3>1, <3>2
  <2>5. f = [i \in 0 .. Len(s) |-> IF i = 0 THEN 0 ELSE Rounded(f[i - 1], s[i])]
    BY <2>3, <2>4 DEF IsLoop
  <2>6. QED
    BY <2>5, Zenon
<1>3. Runs(Chain(s))
  <2> HIDE DEF Runs
  <2>1. QED
    BY <1>1, <1>2, Zenon
<1> DEFINE S == {i \in Nat : i <= Len(s) => Chain(s)[i] \in Int}
<1>4. 0 \in S
  BY <1>3
<1>5. \A i \in Nat : i \in S => i + 1 \in S
  <2> SUFFICES ASSUME NEW i \in Nat, i \in S, i + 1 <= Len(s) PROVE Chain(s)[i + 1] \in Int
    OBVIOUS
  <2>1. Chain(s)[i + 1] = Rounded(Chain(s)[i], s[i + 1])
    BY <1>3
  <2>2. s[i + 1] \in Record /\ Chain(s)[i] \in Int
    OBVIOUS
  <2>3. QED
    BY <2>1, <2>2, Steps
<1>6. \A i \in Nat : i \in S
  <2> HIDE DEF S
  <2>1. QED
    BY <1>4, <1>5, Counting
<1>7. Chain(s) \in [0 .. Len(s) -> Int]
  BY <1>3, <1>6
<1>8. QED
  BY <1>3, <1>7

LEMMA TotalsIs ==
  ASSUME NEW s \in Seq(Record)
  PROVE  /\ Totals(s) = [i \in 0 .. Len(s) |->
                      IF i = 0 THEN 0 ELSE Moved(Totals(s)[i - 1], s[i])]
         /\ Totals(s) \in [0 .. Len(s) -> Int]
<1> DEFINE Runs(f) == f = [i \in 0 .. Len(s) |-> IF i = 0 THEN 0 ELSE Moved(f[i - 1], s[i])]
           step == [i \in 1 .. Len(s) |-> [n \in Int |-> Moved(n, s[i])]]
<1>1. Totals(s) = CHOOSE f : Runs(f)
  BY Zenon DEF Totals, Running
<1>2. \E f : Runs(f)
  <2>1. step \in [1 .. Len(s) -> [Int -> Int]]
    BY Steps
  <2>2. \A i \in 1 .. Len(s) : \A n \in Int : step[i][n] = Moved(n, s[i])
    OBVIOUS
  <2> HIDE DEF step
  <2>3. PICK f : IsLoop(f, s, Int, 0, step)
    BY <2>1, NumberLoopExists
  <2>4. ASSUME NEW i \in 0 .. Len(s)
        PROVE  f[i] = IF i = 0 THEN 0 ELSE Moved(f[i - 1], s[i])
    <3>1. f[i] = IF i = 0 THEN 0 ELSE step[i][f[i - 1]]
      BY <2>3 DEF IsLoop
    <3>2. i # 0 => i \in 1 .. Len(s) /\ f[i - 1] \in Int
      BY <2>3 DEF IsLoop
    <3>3. QED
      BY <2>2, <3>1, <3>2
  <2>5. f = [i \in 0 .. Len(s) |-> IF i = 0 THEN 0 ELSE Moved(f[i - 1], s[i])]
    BY <2>3, <2>4 DEF IsLoop
  <2>6. QED
    BY <2>5, Zenon
<1>3. Runs(Totals(s))
  <2> HIDE DEF Runs
  <2>1. QED
    BY <1>1, <1>2, Zenon
<1> DEFINE S == {i \in Nat : i <= Len(s) => Totals(s)[i] \in Int}
<1>4. 0 \in S
  BY <1>3
<1>5. \A i \in Nat : i \in S => i + 1 \in S
  <2> SUFFICES ASSUME NEW i \in Nat, i \in S, i + 1 <= Len(s) PROVE Totals(s)[i + 1] \in Int
    OBVIOUS
  <2>1. Totals(s)[i + 1] = Moved(Totals(s)[i], s[i + 1])
    BY <1>3
  <2>2. s[i + 1] \in Record /\ Totals(s)[i] \in Int
    OBVIOUS
  <2>3. QED
    BY <2>1, <2>2, Steps
<1>6. \A i \in Nat : i \in S
  <2> HIDE DEF S
  <2>1. QED
    BY <1>4, <1>5, Counting
<1>7. Totals(s) \in [0 .. Len(s) -> Int]
  BY <1>3, <1>6
<1>8. QED
  BY <1>3, <1>7

Kept(left, e, gone) == IF e.id \in gone THEN left ELSE Append(left, e)

LEMMA LeftIs ==
  ASSUME NEW s \in Seq(Record), NEW gone
  PROVE  /\ Left(s, gone) = [i \in 0 .. Len(s) |->
                IF i = 0 THEN <<>> ELSE Kept(Left(s, gone)[i - 1], s[i], gone)]
         /\ Left(s, gone) \in [0 .. Len(s) -> Seq(Record)]
<1> DEFINE Runs(f) == f = [i \in 0 .. Len(s) |-> IF i = 0 THEN <<>> ELSE Kept(f[i - 1], s[i], gone)]
           step == [i \in 1 .. Len(s) |-> [l \in Seq(Record) |-> Kept(l, s[i], gone)]]
<1>0. \A l \in Seq(Record), e \in Record : Kept(l, e, gone) \in Seq(Record)
  BY DEF Kept
<1>1. Left(s, gone) = CHOOSE f : Runs(f)
  BY Zenon DEF Left, Running, Kept
<1>2. \E f : Runs(f)
  <2>1. step \in [1 .. Len(s) -> [Seq(Record) -> Seq(Record)]]
    <3>1. \A i \in 1 .. Len(s) : s[i] \in Record
      OBVIOUS
    <3>2. ASSUME NEW i \in 1 .. Len(s)
          PROVE  [l \in Seq(Record) |-> Kept(l, s[i], gone)] \in [Seq(Record) -> Seq(Record)]
      BY <1>0, <3>1
    <3>3. QED
      BY <3>2
  <2>2. \A i \in 1 .. Len(s) : \A l \in Seq(Record) : step[i][l] = Kept(l, s[i], gone)
    OBVIOUS
  <2> HIDE DEF step
  <2>3. PICK f : IsLoop(f, s, Seq(Record), <<>>, step)
    <3>1. PICK V, b : V = Seq(Record) /\ b = <<>>
      OBVIOUS
    <3>2. b \in V /\ step \in [1 .. Len(s) -> [V -> V]]
      BY <2>1, <3>1
    <3>3. \E f : IsLoop(f, s, V, b, step)
      BY <3>2, LoopExists
    <3>4. QED
      BY <3>1, <3>3
  <2>4. ASSUME NEW i \in 0 .. Len(s)
        PROVE  f[i] = IF i = 0 THEN <<>> ELSE Kept(f[i - 1], s[i], gone)
    <3>1. f[i] = IF i = 0 THEN <<>> ELSE step[i][f[i - 1]]
      BY <2>3 DEF IsLoop
    <3>2. i # 0 => i \in 1 .. Len(s) /\ f[i - 1] \in Seq(Record)
      BY <2>3 DEF IsLoop
    <3>3. QED
      BY <2>2, <3>1, <3>2
  <2>5. f = [i \in 0 .. Len(s) |-> IF i = 0 THEN <<>> ELSE Kept(f[i - 1], s[i], gone)]
    BY <2>3, <2>4 DEF IsLoop
  <2>6. QED
    BY <2>5, Zenon
<1>3. Runs(Left(s, gone))
  <2> HIDE DEF Runs
  <2>1. QED
    BY <1>1, <1>2, Zenon
<1> DEFINE S == {i \in Nat : i <= Len(s) => Left(s, gone)[i] \in Seq(Record)}
<1>4. 0 \in S
  BY <1>3
<1>5. \A i \in Nat : i \in S => i + 1 \in S
  <2> SUFFICES ASSUME NEW i \in Nat, i \in S, i + 1 <= Len(s)
               PROVE  Left(s, gone)[i + 1] \in Seq(Record)
    OBVIOUS
  <2>1. Left(s, gone)[i + 1] = Kept(Left(s, gone)[i], s[i + 1], gone)
    BY <1>3
  <2>2. s[i + 1] \in Record /\ Left(s, gone)[i] \in Seq(Record)
    OBVIOUS
  <2>3. QED
    BY <1>0, <2>1, <2>2
<1>6. \A i \in Nat : i \in S
  <2> HIDE DEF S
  <2>1. QED
    BY <1>4, <1>5, Counting
<1>7. Left(s, gone) \in [0 .. Len(s) -> Seq(Record)]
  BY <1>3, <1>6
<1>8. QED
  BY <1>3, <1>7

(* The same, place by place. *)
LEMMA LoopsAt ==
  ASSUME NEW s \in Seq(Record)
  PROVE  /\ Replay(s)[0] = 0 /\ Chain(s)[0] = 0 /\ Totals(s)[0] = 0
         /\ \A i \in 0 .. Len(s) :
              Replay(s)[i] \in Nat /\ Chain(s)[i] \in Int /\ Totals(s)[i] \in Int
         /\ \A i \in 1 .. Len(s) :
              /\ s[i] \in Record /\ i - 1 \in 0 .. Len(s)
              /\ Replay(s)[i] = Replayed(Replay(s)[i - 1], s[i])
              /\ Chain(s)[i] = Rounded(Chain(s)[i - 1], s[i])
              /\ Totals(s)[i] = Moved(Totals(s)[i - 1], s[i])
<1>1. Len(s) \in Nat /\ 0 \in 0 .. Len(s)
  OBVIOUS
<1>2. \A i \in 1 .. Len(s) : s[i] \in Record /\ i - 1 \in 0 .. Len(s) /\ i \in 0 .. Len(s) /\ i # 0
  OBVIOUS
<1>3. /\ Replay(s)[0] = 0
      /\ \A i \in 1 .. Len(s) : Replay(s)[i] = Replayed(Replay(s)[i - 1], s[i])
      /\ \A i \in 0 .. Len(s) : Replay(s)[i] \in Nat
  BY <1>1, <1>2, ReplayIs
<1>4. /\ Chain(s)[0] = 0
      /\ \A i \in 1 .. Len(s) : Chain(s)[i] = Rounded(Chain(s)[i - 1], s[i])
      /\ \A i \in 0 .. Len(s) : Chain(s)[i] \in Int
  BY <1>1, <1>2, ChainIs
<1>5. /\ Totals(s)[0] = 0
      /\ \A i \in 1 .. Len(s) : Totals(s)[i] = Moved(Totals(s)[i - 1], s[i])
      /\ \A i \in 0 .. Len(s) : Totals(s)[i] \in Int
  BY <1>1, <1>2, TotalsIs
<1>6. QED
  BY <1>2, <1>3, <1>4, <1>5

LEMMA LeftAt ==
  ASSUME NEW s \in Seq(Record), NEW gone
  PROVE  /\ Left(s, gone)[0] = <<>>
         /\ \A i \in 0 .. Len(s) : Left(s, gone)[i] \in Seq(Record)
         /\ \A i \in 1 .. Len(s) : Left(s, gone)[i] = Kept(Left(s, gone)[i - 1], s[i], gone)
<1>1. Len(s) \in Nat /\ 0 \in 0 .. Len(s)
  OBVIOUS
<1>2. \A i \in 1 .. Len(s) : i \in 0 .. Len(s) /\ i # 0
  OBVIOUS
<1>3. QED
  BY <1>1, <1>2, LeftIs

(* Two histories that agree on their first k records, but for what they show. *)
Same(e, f) == e.id = f.id /\ e.type = f.type /\ e.amount = f.amount

Agree(s, r, k) ==
  /\ k \in Nat /\ k <= Len(s) /\ k <= Len(r)
  /\ \A i \in 1 .. k : Same(s[i], r[i])

LEMMA SameSteps ==
  ASSUME NEW e, NEW f, Same(e, f), NEW n
  PROVE  /\ Moved(n, e) = Moved(n, f) /\ Rounded(n, e) = Rounded(n, f)
         /\ Replayed(n, e) = Replayed(n, f) /\ Keeps(n, e) = Keeps(n, f)
<1>1. Moved(n, e) = Moved(n, f)
  BY DEF Same, Moved
<1>2. Keeps(n, e) = Keeps(n, f)
  BY DEF Same, Keeps
<1>3. QED
  BY <1>1, <1>2 DEF Rounded, Replayed

LEMMA SameLoops ==
  ASSUME NEW s \in Seq(Record), NEW r \in Seq(Record), NEW k, Agree(s, r, k), NEW i \in 0 .. k
  PROVE  Replay(s)[i] = Replay(r)[i] /\ Chain(s)[i] = Chain(r)[i] /\ Totals(s)[i] = Totals(r)[i]
<1> DEFINE Equal(j) == /\ Replay(s)[j] = Replay(r)[j] /\ Chain(s)[j] = Chain(r)[j]
                       /\ Totals(s)[j] = Totals(r)[j]
           S == {j \in Nat : j <= k => Equal(j)}
<1>1. 0 \in S
  BY LoopsAt
<1>2. ASSUME NEW j \in Nat, j \in S, j + 1 <= k PROVE Equal(j + 1)
  <2>1. j + 1 \in 1 .. Len(s) /\ j + 1 \in 1 .. Len(r) /\ Same(s[j + 1], r[j + 1])
    BY <1>2 DEF Agree
  <2>2. (j + 1) - 1 = j
    OBVIOUS
  <2>3. Equal(j)
    <3>1. k \in Nat
      BY DEF Agree
    <3>2. QED
      BY <1>2, <3>1
  <2>4. /\ Replay(s)[j + 1] = Replayed(Replay(s)[j], s[j + 1])
        /\ Chain(s)[j + 1] = Rounded(Chain(s)[j], s[j + 1])
        /\ Totals(s)[j + 1] = Moved(Totals(s)[j], s[j + 1])
    BY <2>1, <2>2, LoopsAt
  <2>5. /\ Replay(r)[j + 1] = Replayed(Replay(r)[j], r[j + 1])
        /\ Chain(r)[j + 1] = Rounded(Chain(r)[j], r[j + 1])
        /\ Totals(r)[j + 1] = Moved(Totals(r)[j], r[j + 1])
    BY <2>1, <2>2, LoopsAt
  <2>6. QED
    BY <2>1, <2>3, <2>4, <2>5, SameSteps
<1>3. \A j \in Nat : j \in S => j + 1 \in S
  <2> HIDE DEF Equal
  <2>1. QED
    BY <1>2
<1>4. \A j \in Nat : j \in S
  <2> HIDE DEF S
  <2>1. QED
    BY <1>1, <1>3, Counting
<1>5. QED
  BY <1>4 DEF Agree

Shown(s) == Chain(s)[Len(s)]

(* One record more. *)
LEMMA LoopsAppend ==
  ASSUME NEW s \in Seq(Record), NEW e \in Record
  PROVE  /\ Append(s, e) \in Seq(Record) /\ Len(Append(s, e)) = Len(s) + 1
         /\ Agree(s, Append(s, e), Len(s))
         /\ Shown(Append(s, e)) = Rounded(Shown(s), e)
         /\ Total(Append(s, e)) = Moved(Total(s), e)
         /\ Shown(s) \in Int /\ Total(s) \in Int
<1> DEFINE r == Append(s, e)
<1>1. r \in Seq(Record) /\ Len(r) = Len(s) + 1 /\ r[Len(s) + 1] = e /\ Len(s) \in Nat
  OBVIOUS
<1>2. \A i \in 1 .. Len(s) : r[i] = s[i]
  OBVIOUS
<1> HIDE DEF r
<1>3. Agree(s, r, Len(s))
  BY <1>1, <1>2 DEF Agree, Same
<1>4. Chain(s)[Len(s)] = Chain(r)[Len(s)] /\ Totals(s)[Len(s)] = Totals(r)[Len(s)]
  BY <1>1, <1>3, SameLoops
<1>5. Chain(r)[Len(s) + 1] = Rounded(Chain(r)[Len(s)], e)
      /\ Totals(r)[Len(s) + 1] = Moved(Totals(r)[Len(s)], e)
  <2>1. Len(s) + 1 \in 1 .. Len(r) /\ (Len(s) + 1) - 1 = Len(s)
    BY <1>1
  <2>2. QED
    BY <1>1, <2>1, LoopsAt
<1>6. Chain(s)[Len(s)] \in Int /\ Totals(s)[Len(s)] \in Int
  BY <1>1, LoopsAt
<1>7. QED
  <2>1. Shown(r) = Rounded(Shown(s), e) /\ Total(r) = Moved(Total(s), e)
    BY <1>1, <1>4, <1>5 DEF Shown, Total
  <2>2. QED
    BY <1>1, <1>3, <1>6, <2>1 DEF r, Shown, Total

-----------------------------------------------------------------------------
(* What a repair leaves *)

Sorted(s) == \A i, j \in 1 .. Len(s) : i < j => s[i].id < s[j].id

(* The ids of the records among the first k that the replay does not keep. *)
Unkept(s, k) == {s[i].id : i \in {j \in 1 .. k : ~Keeps(Replay(s)[j - 1], s[j])}}

LEMMA UnkeptIs ==
  ASSUME NEW s \in Seq(Record), Sorted(s), NEW k \in 0 .. Len(s), NEW i \in 1 .. Len(s)
  PROVE  s[i].id \in Unkept(s, k) <=> i <= k /\ ~Keeps(Replay(s)[i - 1], s[i])
<1>1. ASSUME NEW j \in 1 .. k, s[j].id = s[i].id PROVE j = i
  <2>1. s[j] \in Record /\ s[i] \in Record
    OBVIOUS
  <2>2. s[j].id \in Nat /\ s[i].id \in Nat
    BY <2>1, RecordFields
  <2>3. ~(j < i) /\ ~(i < j)
    BY <1>1, <2>2 DEF Sorted
  <2>4. QED
    BY <2>3
<1>2. QED
  BY <1>1 DEF Unkept

(* Up to record k: the balance of the replay is the last one the records that
   are left show, half a cent for each of them off their sum; they were never
   overdrawn by more than that. *)
Replays(s, gone, i) ==
  LET l == Left(s, gone)[i]
  IN  /\ Shown(l) = Replay(s)[i]
      /\ Near(Replay(s)[i], Total(l), 5 * i)
      /\ Len(l) <= i /\ (i > 0 => Len(l) > 0)
      /\ \A m \in 1 .. Len(l) : Totals(l)[m] >= 0 - 5 * i

LEMMA ReplayLeaves ==
  ASSUME NEW s \in Seq(Record), Sorted(s), NEW k \in 0 .. Len(s),
         k > 0 => s[1].type # "deduct", NEW i \in 0 .. k
  PROVE  Replays(s, Unkept(s, k), i)
<1> DEFINE gone == Unkept(s, k)
           l(j) == Left(s, gone)[j]
           S == {j \in Nat : j <= k => Replays(s, gone, j)}
<1>1. 0 \in S
  <2>1. l(0) = <<>> /\ Len(l(0)) = 0
    BY LeftIs
  <2>2. Chain(<<>>)[0] = 0 /\ Totals(<<>>)[0] = 0 /\ Replay(s)[0] = 0
    <3>1. <<>> \in Seq(Record)
      OBVIOUS
    <3>2. QED
      BY <3>1, LoopsAt
  <2>3. Shown(l(0)) = 0 /\ Total(l(0)) = 0
    BY <2>1, <2>2 DEF Shown, Total
  <2> HIDE DEF l
  <2>4. Replays(s, gone, 0)
    BY <2>1, <2>2, <2>3 DEF Replays, Near, l
  <2>5. QED
    BY <2>4
<1>2. ASSUME NEW j \in Nat, j + 1 <= k, Replays(s, gone, j) PROVE Replays(s, gone, j + 1)
  <2> DEFINE e == s[j + 1]
             r == Replay(s)[j]
  <2>1. j + 1 \in 1 .. Len(s) /\ j \in 0 .. Len(s) /\ (j + 1) - 1 = j /\ j + 1 # 0 /\ j + 1 \in 0 .. Len(s)
    BY <1>2
  <2>2. e \in Record /\ r \in Nat /\ Replay(s)[j + 1] = Replayed(r, e)
    BY <2>1, LoopsAt
  <2>3. l(j) \in Seq(Record) /\ l(j + 1) = Kept(l(j), e, gone)
    BY <2>1, LeftIs
  <2>4. e.id \in gone <=> ~Keeps(r, e)
    BY <1>2, <2>1, UnkeptIs
  <2> HIDE DEF e, r, l, gone
  <2>5. /\ Shown(l(j)) = r /\ Near(r, Total(l(j)), 5 * j)
        /\ Len(l(j)) <= j /\ (j > 0 => Len(l(j)) > 0)
        /\ \A m \in 1 .. Len(l(j)) : Totals(l(j))[m] >= 0 - 5 * j
    BY <1>2 DEF Replays, r, l
  <2>6. CASE Keeps(r, e)
    <3>1. l(j + 1) = Append(l(j), e) /\ Replay(s)[j + 1] = Rounded(r, e)
      BY <2>2, <2>3, <2>4, <2>6 DEF Kept, Replayed, Rounded
    <3>2. /\ l(j + 1) \in Seq(Record) /\ Len(l(j + 1)) = Len(l(j)) + 1
          /\ Agree(l(j), l(j + 1), Len(l(j)))
          /\ Shown(l(j + 1)) = Rounded(r, e)
          /\ Total(l(j + 1)) = Moved(Total(l(j)), e)
          /\ Total(l(j)) \in Int
      BY <2>2, <2>3, <2>5, <3>1, LoopsAppend
    <3>3. Len(l(j)) \in Nat
      BY <2>3
    <3>4. Near(Rounded(r, e), Total(l(j + 1)), 5 * (j + 1))
      <4>1. Near(Rounded(r, e), Moved(Total(l(j)), e), 5 * j + 5)
        BY <1>2, <2>2, <2>5, <3>2, StepsNear
      <4>2. 5 * j + 5 = 5 * (j + 1)
        OBVIOUS
      <4>3. QED
        BY <3>2, <4>1, <4>2
    <3>5. ASSUME NEW m \in 1 .. Len(l(j + 1)) PROVE Totals(l(j + 1))[m] >= 0 - 5 * (j + 1)
      <4>1. CASE m \in 1 .. Len(l(j))
        <5>1. Totals(l(j))[m] = Totals(l(j + 1))[m] /\ Totals(l(j))[m] \in Int
          BY <2>3, <3>2, <3>3, <4>1, SameLoops, LoopsAt
        <5>2. Totals(l(j))[m] >= 0 - 5 * j
          BY <2>5, <4>1
        <5>3. QED
          BY <5>1, <5>2
      <4>2. CASE m = Len(l(j + 1))
        <5>1. Replay(s)[j + 1] \in Nat
          BY <2>1, LoopsAt
        <5>2. Total(l(j + 1)) \in Int
          BY <2>2, <3>2, Steps
        <5>3. QED
          BY <3>1, <3>4, <4>2, <5>1, <5>2 DEF Near, Total
      <4>3. QED
        BY <3>2, <3>3, <3>5, <4>1, <4>2
    <3>6. QED
      BY <2>5, <3>1, <3>2, <3>3, <3>4, <3>5 DEF Replays, l
  <2>7. CASE ~Keeps(r, e)
    <3>1. l(j + 1) = l(j) /\ Replay(s)[j + 1] = r
      BY <2>2, <2>3, <2>4, <2>7 DEF Kept, Replayed
    <3>2. j > 0
      <4>1. j = 0 => e.type # "deduct"
        BY <1>2 DEF e
      <4>2. QED
        BY <2>7, <4>1 DEF Keeps
    <3>3. Total(l(j)) \in Int /\ Len(l(j)) \in Nat
      BY <2>3, LoopsAt DEF Total
    <3>4. Near(r, Total(l(j)), 5 * (j + 1))
      BY <2>2, <2>5, <3>3 DEF Near
    <3>5. ASSUME NEW m \in 1 .. Len(l(j)) PROVE Totals(l(j))[m] >= 0 - 5 * (j + 1)
      <4>1. Totals(l(j))[m] \in Int
        BY <2>3, <3>3, LoopsAt
      <4>2. QED
        BY <2>5, <4>1
    <3>6. /\ Shown(l(j + 1)) = Replay(s)[j + 1]
          /\ Near(Replay(s)[j + 1], Total(l(j + 1)), 5 * (j + 1))
          /\ \A m \in 1 .. Len(l(j + 1)) : Totals(l(j + 1))[m] >= 0 - 5 * (j + 1)
      BY <2>5, <3>1, <3>4, <3>5
    <3>7. Len(l(j + 1)) <= j + 1 /\ Len(l(j + 1)) > 0
      BY <2>5, <3>1, <3>2, <3>3
    <3>8. QED
      BY <3>6, <3>7 DEF Replays, l
  <2>8. QED
    BY <2>6, <2>7
<1>3. \A j \in Nat : j \in S => j + 1 \in S
  <2> HIDE DEF gone
  <2>1. QED
    BY <1>2
<1>4. \A j \in Nat : j \in S
  <2> HIDE DEF S
  <2>1. QED
    BY <1>1, <1>3, Counting
<1>5. QED
  <2> HIDE DEF gone
  <2>1. QED
    BY <1>4 DEF gone

(* After record k nothing is deleted: the records that follow add what they add
   to the whole history. *)
LivesOn(s, gone, k, i) ==
  LET l == Left(s, gone)
  IN  /\ Len(l[i]) = Len(l[k]) + (i - k)
      /\ Near(Shown(l[i]), Replay(s)[k] + (Totals(s)[i] - Totals(s)[k]), 5 * (i - k))
      /\ Total(l[i]) = Total(l[k]) + (Totals(s)[i] - Totals(s)[k])

LEMMA MovedShift ==
  ASSUME NEW n \in Int, NEW d \in Int, NEW e \in Record
  PROVE  Moved(d + n, e) = d + Moved(n, e)
<1>1. e.amount \in Nat
  BY RecordFields
<1>2. QED
  BY <1>1 DEF Moved

LEMMA MovedTogether ==
  ASSUME NEW n \in Int, NEW m \in Int, NEW e \in Record
  PROVE  Moved(n, e) - Moved(m, e) = n - m
<1>1. e.amount \in Nat
  BY RecordFields
<1>2. QED
  BY <1>1 DEF Moved

LEMMA SuffixStays ==
  ASSUME NEW s \in Seq(Record), Sorted(s), NEW k \in 0 .. Len(s),
         k > 0 => s[1].type # "deduct", NEW i \in k .. Len(s)
  PROVE  LivesOn(s, Unkept(s, k), k, i)
<1> DEFINE gone == Unkept(s, k)
           l(j) == Left(s, gone)[j]
           S == {j \in Nat : k + j <= Len(s) => LivesOn(s, gone, k, k + j)}
<1>0. /\ k \in 0 .. k /\ k \in 0 .. Len(s) /\ k \in Nat /\ Len(s) \in Nat
      /\ Replay(s)[k] \in Nat /\ Totals(s)[k] \in Int
  BY LoopsAt
<1>1. l(k) \in Seq(Record) /\ Len(l(k)) \in Nat /\ Shown(l(k)) = Replay(s)[k] /\ Total(l(k)) \in Int
  <2>1. l(k) \in Seq(Record) /\ Shown(l(k)) = Replay(s)[k]
    BY <1>0, LeftIs, ReplayLeaves DEF Replays
  <2> HIDE DEF l
  <2>2. QED
    BY <2>1, LoopsAt DEF Total
<1>2. LivesOn(s, gone, k, k + 0)
  <2>1. k + 0 = k
    BY <1>0
  <2> HIDE DEF gone
  <2>2. LivesOn(s, gone, k, k)
    BY <1>0, <1>1 DEF LivesOn, Near
  <2>3. QED
    BY <2>1, <2>2
<1>3. ASSUME NEW j \in Nat, k + (j + 1) <= Len(s), LivesOn(s, gone, k, k + j)
      PROVE  LivesOn(s, gone, k, k + (j + 1))
  <2>1. PICK m : m = k + j
    OBVIOUS
  <2>2. m + 1 \in 1 .. Len(s) /\ m \in 0 .. Len(s) /\ (m + 1) - 1 = m /\ m + 1 # 0
        /\ m + 1 \in 0 .. Len(s) /\ k + (j + 1) = m + 1 /\ ~(m + 1 <= k) /\ m - k \in Nat
        /\ m \in Nat
    BY <1>0, <1>3, <2>1
  <2> DEFINE e == s[m + 1]
  <2>3. e \in Record /\ Totals(s)[m + 1] = Moved(Totals(s)[m], e) /\ Totals(s)[m] \in Int
    BY <2>2, LoopsAt
  <2>4. l(m) \in Seq(Record) /\ l(m + 1) = Kept(l(m), e, gone)
    <3> HIDE DEF gone
    <3>1. QED
      BY <2>2, LeftAt
  <2>5. e.id \notin gone
    BY <2>2, UnkeptIs
  <2> HIDE DEF e, l, gone
  <2>6. /\ Len(l(m)) = Len(l(k)) + (m - k)
        /\ Near(Shown(l(m)), Replay(s)[k] + (Totals(s)[m] - Totals(s)[k]), 5 * (m - k))
        /\ Total(l(m)) = Total(l(k)) + (Totals(s)[m] - Totals(s)[k])
    BY <1>3, <2>1 DEF LivesOn, l
  <2>7. /\ Len(l(m + 1)) = Len(l(m)) + 1
        /\ Shown(l(m + 1)) = Rounded(Shown(l(m)), e) /\ Shown(l(m)) \in Int
        /\ Total(l(m + 1)) = Moved(Total(l(m)), e)
    <3>1. l(m + 1) = Append(l(m), e)
      BY <2>4, <2>5 DEF Kept
    <3>2. QED
      BY <2>3, <2>4, <3>1, LoopsAppend
  <2>8. PICK a, c : a = Replay(s)[k] - Totals(s)[k] /\ c = Total(l(k)) - Totals(s)[k]
    OBVIOUS
  <2>9. a \in Int /\ c \in Int
    BY <1>0, <1>1, <2>8
  <2>10. Total(l(m + 1)) = Total(l(k)) + (Totals(s)[m + 1] - Totals(s)[k])
    <3>1. Total(l(m)) = c + Totals(s)[m]
      BY <1>0, <1>1, <2>3, <2>6, <2>8
    <3>2. Total(l(m + 1)) = c + Totals(s)[m + 1]
      BY <2>3, <2>7, <2>9, <3>1, MovedShift
    <3>3. Totals(s)[m + 1] \in Int
      BY <2>3, Steps
    <3>4. QED
      BY <1>0, <1>1, <2>8, <3>2, <3>3
  <2>11. Near(Shown(l(m + 1)), Replay(s)[k] + (Totals(s)[m + 1] - Totals(s)[k]), 5 * ((m + 1) - k))
    <3>1. PICK x, d : x = a + Totals(s)[m] /\ d = 5 * (m - k)
      OBVIOUS
    <3>2. x \in Int /\ d \in Int /\ x = Replay(s)[k] + (Totals(s)[m] - Totals(s)[k])
          /\ d + 5 = 5 * ((m + 1) - k)
      <4>1. m \in Int /\ k \in Int /\ Replay(s)[k] \in Int /\ Totals(s)[k] \in Int
        BY <1>0, <2>2
      <4>2. d \in Int /\ d + 5 = 5 * ((m + 1) - k)
        BY <3>1, <4>1
      <4>3. x \in Int /\ x = Replay(s)[k] + (Totals(s)[m] - Totals(s)[k])
        BY <2>3, <2>8, <3>1, <4>1
      <4>4. QED
        BY <4>2, <4>3
    <3>3. Near(Rounded(Shown(l(m)), e), Moved(x, e), d + 5)
      BY <2>3, <2>6, <2>7, <3>1, <3>2, StepsNear
    <3>4. Moved(x, e) = a + Totals(s)[m + 1]
      BY <2>3, <2>9, <3>1, MovedShift
    <3>5. Totals(s)[m + 1] \in Int
      BY <2>3, Steps
    <3>6. a + Totals(s)[m + 1] = Replay(s)[k] + (Totals(s)[m + 1] - Totals(s)[k])
      BY <1>0, <2>8, <3>5
    <3>7. QED
      BY <2>7, <3>2, <3>3, <3>4, <3>6
  <2>12. Len(l(m + 1)) = Len(l(k)) + ((m + 1) - k)
    <3>1. m \in Int /\ k \in Int /\ Len(l(k)) \in Int
      BY <1>0, <1>1, <2>2 DEF l
    <3>2. QED
      BY <2>6, <2>7, <3>1
  <2>13. QED
    BY <2>2, <2>10, <2>11, <2>12 DEF LivesOn, l
<1>4. \A j \in Nat : j \in S => j + 1 \in S
  <2> SUFFICES ASSUME NEW j \in Nat, j \in S, k + (j + 1) <= Len(s)
               PROVE  LivesOn(s, gone, k, k + (j + 1))
    OBVIOUS
  <2>1. k + j <= Len(s)
    BY <1>0
  <2> HIDE DEF gone
  <2>2. QED
    BY <1>3, <2>1
<1>5. \A j \in Nat : j \in S
  <2>1. 0 \in S
    BY <1>2
  <2> HIDE DEF S
  <2>2. QED
    BY <1>4, <2>1, Counting
<1>6. i - k \in Nat /\ k + (i - k) = i /\ i <= Len(s)
  BY <1>0
<1>7. QED
  <2>1. i - k \in S
    BY <1>5, <1>6
  <2> HIDE DEF gone
  <2>2. LivesOn(s, gone, k, i)
    BY <1>6, <2>1
  <2>3. QED
    BY <2>2 DEF gone

(* What is left is in the order it was in, and starts as it did. *)
Thinned(s, gone, i) ==
  LET l == Left(s, gone)[i]
  IN  /\ Sorted(l) /\ Len(l) <= i
      /\ \A m \in 1 .. Len(l) : \E j \in 1 .. i : l[m] = s[j]
      /\ i > 0 /\ s[1].id \notin gone => Len(l) > 0 /\ l[1] = s[1]

LEMMA LeftIsThinned ==
  ASSUME NEW s \in Seq(Record), Sorted(s), NEW gone, NEW i \in 0 .. Len(s)
  PROVE  Thinned(s, gone, i)
<1> DEFINE l(j) == Left(s, gone)[j]
           S == {j \in Nat : j <= Len(s) => Thinned(s, gone, j)}
<1>1. 0 \in S
  <2>1. l(0) = <<>> /\ Len(l(0)) = 0
    BY LeftIs
  <2> HIDE DEF l
  <2>2. Thinned(s, gone, 0)
    BY <2>1 DEF Thinned, Sorted, l
  <2>3. QED
    BY <2>2
<1>2. ASSUME NEW j \in Nat, j + 1 <= Len(s), Thinned(s, gone, j) PROVE Thinned(s, gone, j + 1)
  <2> DEFINE e == s[j + 1]
  <2>1. j + 1 \in 1 .. Len(s) /\ j \in 0 .. Len(s) /\ (j + 1) - 1 = j /\ j + 1 # 0 /\ j + 1 \in 0 .. Len(s)
    BY <1>2
  <2>2. e \in Record
    BY <2>1
  <2>3. l(j) \in Seq(Record) /\ l(j + 1) \in Seq(Record) /\ l(j + 1) = Kept(l(j), e, gone)
    BY <2>1, LeftAt
  <2> HIDE DEF l
  <2>4. Len(l(j)) \in Nat
    BY <2>3
  <2>5. /\ Sorted(l(j)) /\ Len(l(j)) <= j
        /\ \A m \in 1 .. Len(l(j)) : \E h \in 1 .. j : l(j)[m] = s[h]
        /\ j > 0 /\ s[1].id \notin gone => Len(l(j)) > 0 /\ l(j)[1] = s[1]
    BY <1>2 DEF Thinned, l
  <2>6. CASE e.id \in gone
    <3>1. l(j + 1) = l(j)
      BY <2>3, <2>6 DEF Kept
    <3>2. \A m \in 1 .. Len(l(j)) : \E h \in 1 .. j + 1 : l(j)[m] = s[h]
      <4>1. \A h \in 1 .. j : h \in 1 .. j + 1
        OBVIOUS
      <4>2. QED
        BY <2>5, <4>1
    <3>3. s[1].id \notin gone => j > 0
      BY <2>6
    <3>4. QED
      BY <2>4, <2>5, <3>1, <3>2, <3>3 DEF Thinned, l
  <2>7. CASE e.id \notin gone
    <3>1. l(j + 1) = Append(l(j), e)
      BY <2>3, <2>7 DEF Kept
    <3>2. Len(l(j + 1)) = Len(l(j)) + 1 /\ l(j + 1)[Len(l(j)) + 1] = e
          /\ \A m \in 1 .. Len(l(j)) : l(j + 1)[m] = l(j)[m]
      BY <2>2, <2>3, <3>1
    <3>3. ASSUME NEW m \in 1 .. Len(l(j)) PROVE l(j)[m].id < e.id
      <4>1. PICK h \in 1 .. j : l(j)[m] = s[h]
        BY <2>5
      <4>2. h \in 1 .. Len(s) /\ h < j + 1
        BY <1>2
      <4>3. QED
        BY <2>1, <4>1, <4>2 DEF Sorted
    <3>4. Sorted(l(j + 1))
      <4> SUFFICES ASSUME NEW m \in 1 .. Len(l(j + 1)), NEW n \in 1 .. Len(l(j + 1)), m < n
                   PROVE  l(j + 1)[m].id < l(j + 1)[n].id
        BY DEF Sorted
      <4>1. m \in 1 .. Len(l(j))
        BY <2>4, <3>2
      <4>2. CASE n \in 1 .. Len(l(j))
        BY <2>5, <3>2, <4>1, <4>2 DEF Sorted
      <4>3. CASE n = Len(l(j)) + 1
        BY <3>2, <3>3, <4>1, <4>3
      <4>4. QED
        BY <2>4, <3>2, <4>2, <4>3
    <3>5. ASSUME NEW m \in 1 .. Len(l(j + 1)) PROVE \E h \in 1 .. j + 1 : l(j + 1)[m] = s[h]
      <4>1. CASE m \in 1 .. Len(l(j))
        <5>1. PICK h \in 1 .. j : l(j)[m] = s[h]
          BY <2>5, <4>1
        <5>2. h \in 1 .. j + 1 /\ l(j + 1)[m] = s[h]
          BY <3>2, <4>1, <5>1
        <5>3. QED
          BY <5>2
      <4>2. CASE m = Len(l(j)) + 1
        <5>1. j + 1 \in 1 .. j + 1 /\ l(j + 1)[m] = s[j + 1]
          BY <3>2, <4>2
        <5>2. QED
          BY <5>1
      <4>3. QED
        BY <2>4, <3>2, <4>1, <4>2
    <3>6. s[1].id \notin gone => l(j + 1)[1] = s[1]
      <4>1. CASE j = 0
        <5>1. Len(l(j)) = 0
          BY <2>4, <2>5, <4>1
        <5>2. QED
          BY <3>2, <4>1, <5>1
      <4>2. CASE j > 0
        <5>1. s[1].id \notin gone => 1 \in 1 .. Len(l(j))
          BY <2>4, <2>5, <4>2
        <5>2. QED
          BY <2>5, <3>2, <4>2, <5>1
      <4>3. QED
        BY <4>1, <4>2
    <3>7. Len(l(j + 1)) <= j + 1 /\ Len(l(j + 1)) > 0
      BY <2>4, <2>5, <3>2
    <3>8. QED
      BY <3>4, <3>5, <3>6, <3>7 DEF Thinned, l
  <2>8. QED
    BY <2>6, <2>7
<1>3. \A j \in Nat : j \in S => j + 1 \in S
  BY <1>2
<1>4. \A j \in Nat : j \in S
  <2> HIDE DEF S
  <2>1. QED
    BY <1>1, <1>3, Counting
<1>5. QED
  BY <1>4

-----------------------------------------------------------------------------
(* The inductive invariant *)

(* Books, and every copy of them that a run or a plan keeps, start with the
   first recharge and are in the order of their ids. *)
Orderly(s) == Len(s) > 0 /\ s[1].id = 1 /\ s[1].type = "recharge" /\ Sorted(s)

BookInv ==
  /\ Orderly(book)
  /\ Len(book) <= lastId
  /\ \A i \in 1 .. Len(book) : book[i].id <= lastId

CopyInv ==
  /\ \A b \in Batch : plan[b].state # "none" => Orderly(plan[b].events)
  /\ \A t \in Tool : tool[t].pc # "idle" => Orderly(tool[t].events)

(* A plan is written once, by the run that claimed its name, and applied as it
   was written. *)
ClaimInv ==
  \A t \in Tool :
    LET b == tool[t].batch
    IN  /\ tool[t].pc = "balance" => /\ b \in Batch /\ plan[b].state = "none"
                                     /\ \A u \in Tool : u # t => tool[u].batch # b
        /\ tool[t].pc = "apply" => /\ b \in Batch /\ plan[b].state # "none"
                                   /\ plan[b].events = tool[t].events
                                   /\ Reversed(tool[t].events) # {}

(* Since a sound plan was made the wallet has moved as the books have. *)
SoundInv ==
  \A b \in Batch : plan[b].sound =>
    LET events == plan[b].events
    IN  /\ plan[b].state = "written"
        /\ Agree(events, book, Len(events))
        /\ Near(balance - Total(book), plan[b].current - Total(events), 5)

(* After a sound repair the wallet is near the sum of its records and near the
   last of the balances a rebalance would show. *)
RepairedInv ==
  repaired => /\ Near(balance, Total(book), 5 * MaxRecord + 15)
              /\ Near(balance, Shown(book), 5 * (Len(book) - 1) + 15)

(* What the server posts behind the back of a rebalance starts near where the
   rebalance will end, is continuous and ends at the wallet. *)
Handover(events, books, wallet) ==
  LET k == Len(events)
      n == Len(books)
  IN  /\ k <= n /\ \A i \in 1 .. k : books[i] = events[i]
      /\ k < n => /\ Near(books[k + 1].before, Shown(events), 5 * (k - 1) + 15)
                  /\ books[n].after = wallet
      /\ \A i \in k + 2 .. n : books[i].before = books[i - 1].after

HandoverInv ==
  \A t \in Tool :
    tool[t].pc = "rebalance" /\ tool[t].fresh /\ repaired => Handover(tool[t].events, book, balance)

IndInv == TypeOK /\ BookInv /\ CopyInv /\ ClaimInv /\ SoundInv /\ RepairedInv /\ HandoverInv

-----------------------------------------------------------------------------
(* The books the code without locks has left *)

LEMMA Numbers ==
  ASSUME NEW cost \in [Order -> Price]
  PROVE  /\ OldOrders \in Nat /\ MaxOrder \in Nat /\ OldOrders <= MaxOrder
         /\ MaxRecord \in Nat /\ OldOrders < MaxRecord
         /\ \A o \in Order : cost[o] \in Nat
         /\ \A i \in 1 .. OldOrders : i \in Order /\ cost[i] \in Nat
<1>1. \A o \in Order : cost[o] \in Price
  OBVIOUS
<1>2. \A n \in Price : n \in Nat
  BY RollbackAssumption
<1>3. \A o \in Order : cost[o] \in Nat
  BY <1>1, <1>2
<1>4. \A i \in 1 .. OldOrders : i \in Order
  BY RollbackAssumption DEF Order
<1>5. QED
  BY <1>3, <1>4, RollbackAssumption

LEMMA OldBalanceInt ==
  ASSUME NEW c \in Nat, NEW base \in [1 .. OldOrders -> 0 .. OldOrders],
         \A i \in 1 .. OldOrders : base[i] < i, NEW cost \in [Order -> Price]
  PROVE  /\ OldBalance(c, base, cost) \in [0 .. OldOrders -> Int]
         /\ OldBalance(c, base, cost)[0] = c
<1> DEFINE Runs(f) == f = [i \in 0 .. OldOrders |-> IF i = 0 THEN c ELSE f[base[i]] - cost[i]]
           step == [i \in 1 .. OldOrders |-> [n \in Int |-> n - cost[i]]]
           g == OldBalance(c, base, cost)
<1>1. OldOrders \in Nat /\ \A i \in 1 .. OldOrders : cost[i] \in Nat
  BY Numbers
<1>2. g = CHOOSE f : Runs(f)
  BY Zenon DEF OldBalance
<1>3. \E f : Runs(f)
  <2>1. step \in [1 .. OldOrders -> [Int -> Int]]
    BY <1>1
  <2>2. \A i \in 1 .. OldOrders : \A n \in Int : step[i][n] = n - cost[i]
    OBVIOUS
  <2> HIDE DEF step
  <2>3. PICK V : V = Int
    OBVIOUS
  <2>4. c \in V /\ step \in [1 .. OldOrders -> [V -> V]]
    BY <2>1, <2>3
  <2>5. PICK f : IsRun(f, OldOrders, V, c, step, base)
    BY <1>1, <2>4, RunExists
  <2>6. ASSUME NEW i \in 0 .. OldOrders PROVE f[i] = IF i = 0 THEN c ELSE f[base[i]] - cost[i]
    <3>1. f[i] = IF i = 0 THEN c ELSE step[i][f[base[i]]]
      BY <2>5 DEF IsRun
    <3>2. i # 0 => i \in 1 .. OldOrders /\ f[base[i]] \in Int
      BY <1>1, <2>3, <2>5 DEF IsRun
    <3>3. QED
      BY <2>2, <3>1, <3>2
  <2>7. f = [i \in 0 .. OldOrders |-> f[i]]
    BY <2>5 DEF IsRun
  <2>8. f = [i \in 0 .. OldOrders |-> IF i = 0 THEN c ELSE f[base[i]] - cost[i]]
    BY <2>6, <2>7
  <2>9. QED
    BY <2>8, Zenon
<1>4. Runs(g)
  <2> HIDE DEF Runs, g
  <2>1. QED
    BY <1>2, <1>3, Zenon
<1> HIDE DEF g
<1> DEFINE S == {m \in Nat : \A i \in 0 .. m : i <= OldOrders => g[i] \in Int}
<1>5. g[0] = c /\ \A i \in 1 .. OldOrders : g[i] = g[base[i]] - cost[i]
  BY <1>1, <1>4
<1>6. 0 \in S
  BY <1>5
<1>7. ASSUME NEW m \in Nat, m \in S PROVE m + 1 \in S
  <2>1. ASSUME m + 1 <= OldOrders PROVE g[m + 1] \in Int
    <3>1. m + 1 \in 1 .. OldOrders /\ base[m + 1] \in 0 .. m /\ base[m + 1] <= OldOrders
      BY <1>1, <2>1
    <3>2. g[base[m + 1]] \in Int /\ cost[m + 1] \in Nat
      BY <1>1, <1>7, <3>1
    <3>3. QED
      BY <1>5, <3>1, <3>2
  <2>2. \A i \in 0 .. m + 1 : i \in 0 .. m \/ i = m + 1
    OBVIOUS
  <2>3. QED
    BY <1>7, <2>1, <2>2
<1>8. \A m \in Nat : m \in S
  <2> HIDE DEF S
  <2>1. QED
    BY <1>6, <1>7, Counting
<1>9. \A i \in 0 .. OldOrders : g[i] \in Int
  <2>1. OldOrders \in S
    BY <1>1, <1>8
  <2>2. QED
    BY <1>1, <2>1
<1>10. g \in [0 .. OldOrders -> Int]
  BY <1>4, <1>9
<1>11. QED
  BY <1>5, <1>10 DEF g

LEMMA OldBookOrderly ==
  ASSUME NEW c \in Nat, NEW base \in [1 .. OldOrders -> 0 .. OldOrders],
         \A i \in 1 .. OldOrders : base[i] < i, NEW cost \in [Order -> Price]
  PROVE  LET s == OldBook(c, base, cost)
         IN  /\ s \in Seq(Record) /\ Len(s) = OldOrders + 1 /\ Orderly(s)
             /\ \A i \in 1 .. Len(s) : s[i].id = i
<1> DEFINE s == OldBook(c, base, cost)
           g == OldBalance(c, base, cost)
           first == [id |-> 1, type |-> "recharge", order |-> NoOrder, amount |-> c,
                     before |-> 0, after |-> c]
           next(i) == [id |-> i, type |-> "deduct", order |-> i - 1, amount |-> cost[i - 1],
                       before |-> g[base[i - 1]], after |-> g[i - 1]]
<1>1. OldOrders \in Nat /\ MaxOrder \in Nat /\ OldOrders <= MaxOrder
      /\ \A i \in 1 .. OldOrders : cost[i] \in Nat
  BY Numbers
<1>2. g \in [0 .. OldOrders -> Int]
  BY OldBalanceInt
<1>3. s = [i \in 1 .. OldOrders + 1 |-> IF i = 1 THEN first ELSE next(i)]
  BY Zenon DEF OldBook
<1> HIDE DEF g
<1>4. first \in Record /\ first.id = 1 /\ first.type = "recharge"
  BY DEF Record
<1>5. ASSUME NEW i \in 2 .. OldOrders + 1 PROVE next(i) \in Record /\ next(i).id = i
  <2>1. i - 1 \in 1 .. OldOrders /\ i \in Nat
    BY <1>1
  <2>2. i - 1 \in Order /\ cost[i - 1] \in Nat /\ base[i - 1] \in 0 .. OldOrders /\ i - 1 \in 0 .. OldOrders
    BY <1>1, <2>1 DEF Order
  <2>3. g[base[i - 1]] \in Int /\ g[i - 1] \in Int
    BY <1>2, <2>2
  <2>4. QED
    BY <2>1, <2>2, <2>3 DEF Record
<1> HIDE DEF first, next, s
<1>6. \A i \in 1 .. OldOrders + 1 : i = 1 \/ i \in 2 .. OldOrders + 1
  BY <1>1
<1>7. \A i \in 1 .. OldOrders + 1 : s[i] \in Record /\ s[i].id = i
  BY <1>3, <1>4, <1>5, <1>6
<1>8. s \in Seq(Record) /\ Len(s) = OldOrders + 1
  <2>1. s \in [1 .. OldOrders + 1 -> Record]
    BY <1>3, <1>7
  <2>2. OldOrders + 1 \in Nat
    BY <1>1
  <2>3. QED
    BY <2>1, <2>2
<1>9. s[1] = first
  BY <1>1, <1>3
<1>10. Orderly(s)
  BY <1>1, <1>4, <1>7, <1>8, <1>9 DEF Orderly, Sorted
<1>11. QED
  BY <1>7, <1>8, <1>10 DEF s

-----------------------------------------------------------------------------
(* The invariant holds at the start, and of every step of the server *)

ToolState == [pc : {"idle", "balance", "apply", "rebalance"},
              batch : Batch \cup {NoBatch}, events : Seq(Record), fresh : BOOLEAN]

LEMMA Typed ==
  ASSUME TypeOK
  PROVE  /\ balance \in Nat /\ book \in Seq(Record) /\ lastId \in Nat /\ lastId <= MaxRecord
         /\ Len(book) \in Nat /\ MaxRecord \in Nat
         /\ status \in [Order -> {"pending", "success", "refunded"}]
         /\ \A o \in Order : price[o] \in Nat
         /\ plan \in [Batch -> Plan] /\ tool \in [Tool -> ToolState] /\ repaired \in BOOLEAN
         /\ \A b \in Batch : plan[b].events \in Seq(Record) /\ plan[b].current \in Int
         /\ \A t \in Tool : tool[t].events \in Seq(Record) /\ tool[t].batch \in Batch \cup {NoBatch}
<1>1. balance \in Nat /\ book \in Seq(Record) /\ lastId \in 0 .. MaxRecord /\ MaxRecord \in Nat
  BY RollbackAssumption DEF TypeOK
<1>2. /\ price \in [Order -> Price] /\ repaired \in BOOLEAN
      /\ status \in [Order -> {"pending", "success", "refunded"}]
  BY DEF TypeOK
<1>3. plan \in [Batch -> Plan] /\ tool \in [Tool -> ToolState]
  BY DEF TypeOK, ToolState
<1>4. \A o \in Order : price[o] \in Nat
  BY <1>2, Numbers
<1>5. \A b \in Batch : plan[b].events \in Seq(Record) /\ plan[b].current \in Int
  BY <1>3 DEF Plan
<1>6. \A t \in Tool : tool[t].events \in Seq(Record) /\ tool[t].batch \in Batch \cup {NoBatch}
  BY <1>3 DEF ToolState
<1>7. QED
  BY <1>1, <1>2, <1>3, <1>4, <1>5, <1>6

LEMMA TotalInt ==
  ASSUME NEW s \in Seq(Record)
  PROVE  Total(s) \in Int /\ Shown(s) \in Int /\ Len(s) \in Nat
BY LoopsAt DEF Total, Shown

LEMMA InitHolds == Init => IndInv
<1> SUFFICES ASSUME Init PROVE IndInv
  OBVIOUS
<1>1. PICK c \in Deposit, base \in [1 .. OldOrders -> 0 .. OldOrders] :
        /\ \A i \in 1 .. OldOrders : base[i] < i
        /\ \A i \in 1 .. OldOrders : OldBalance(c, base, price)[i] >= 0
        /\ book = OldBook(c, base, price)
        /\ balance = OldBalance(c, base, price)[OldOrders]
  BY DEF Init
<1>2. c \in Nat /\ price \in [Order -> Price]
  BY RollbackAssumption DEF Init
<1>3. \A i \in 1 .. OldOrders : base[i] < i
  BY <1>1
<1>4. /\ book \in Seq(Record) /\ Len(book) = OldOrders + 1 /\ Orderly(book)
      /\ \A i \in 1 .. Len(book) : book[i].id = i
  BY <1>1, <1>2, <1>3, OldBookOrderly
<1>5. /\ OldOrders \in Nat /\ MaxRecord \in Nat /\ OldOrders < MaxRecord
  BY RollbackAssumption
<1>6. balance \in Nat
  <2>1. OldBalance(c, base, price) \in [0 .. OldOrders -> Int] /\ OldBalance(c, base, price)[0] = c
    BY <1>2, <1>3, OldBalanceInt
  <2>2. balance \in Int
    BY <1>1, <1>5, <2>1
  <2>3. balance >= 0
    <3>1. CASE OldOrders = 0
      BY <1>1, <1>2, <2>1, <3>1
    <3>2. CASE OldOrders # 0
      <4>1. OldOrders \in 1 .. OldOrders
        BY <1>5, <3>2
      <4>2. QED
        BY <1>1, <4>1
    <3>3. QED
      BY <3>1, <3>2
  <2>4. QED
    BY <2>2, <2>3
<1>7. lastId = OldOrders + 1 /\ repaired = FALSE
      /\ plan = [b \in Batch |-> NoPlan] /\ tool = [t \in Tool |-> IdleTool]
      /\ status = [o \in Order |-> IF o <= OldOrders THEN "success" ELSE "pending"]
  BY DEF Init
<1>8. <<>> \in Seq(Record)
  OBVIOUS
<1>9. NoPlan \in Plan /\ NoPlan.state = "none" /\ NoPlan.sound = FALSE
  BY <1>8 DEF NoPlan, Plan
<1>10. IdleTool \in ToolState /\ IdleTool.pc = "idle"
  BY <1>8 DEF IdleTool, ToolState
<1>11. TypeOK
  <2>1. lastId \in 0 .. MaxRecord
    BY <1>5, <1>7
  <2>2. status \in [Order -> {"pending", "success", "refunded"}]
    BY <1>7
  <2>3. plan \in [Batch -> Plan]
    BY <1>7, <1>9
  <2>4. tool \in [Tool -> ToolState]
    BY <1>7, <1>10
  <2>5. QED
    BY <1>2, <1>4, <1>6, <1>7, <2>1, <2>2, <2>3, <2>4 DEF TypeOK, ToolState
<1>12. BookInv
  BY <1>4, <1>5, <1>7 DEF BookInv
<1>13. \A b \in Batch : plan[b] = NoPlan
  BY <1>7
<1>14. \A t \in Tool : tool[t] = IdleTool
  BY <1>7
<1>15. CopyInv /\ SoundInv
  BY <1>9, <1>10, <1>13, <1>14 DEF CopyInv, SoundInv
<1>16. ClaimInv
  BY <1>10, <1>14 DEF ClaimInv
<1>17. RepairedInv /\ HandoverInv
  BY <1>7 DEF RepairedInv, HandoverInv
<1>18. QED
  BY <1>11, <1>12, <1>15, <1>16, <1>17 DEF IndInv

LEMMA PostKeeps ==
  ASSUME IndInv, NEW type \in {"recharge", "deduct", "refund"}, NEW o \in Order \cup {NoOrder},
         NEW n \in Nat, type = "deduct" => balance >= n, Post(type, o, n),
         status' \in [Order -> {"pending", "success", "refunded"}]
  PROVE  IndInv'
<1> DEFINE after == IF type = "deduct" THEN balance - n ELSE balance + n
           e == [id |-> lastId + 1, type |-> type, order |-> o, amount |-> n,
                 before |-> balance, after |-> after]
<1>1. /\ lastId < MaxRecord /\ lastId' = lastId + 1 /\ balance' = after
      /\ book' = Append(book, e)
      /\ price' = price /\ plan' = plan /\ tool' = tool /\ repaired' = repaired
  BY DEF Post
<1>2. /\ balance \in Nat /\ book \in Seq(Record) /\ lastId \in Nat /\ lastId <= MaxRecord
      /\ Len(book) \in Nat /\ MaxRecord \in Nat
  BY Typed DEF IndInv
<1>3. after \in Nat
  BY <1>2
<1>4. /\ e \in Record /\ e.id = lastId + 1 /\ e.before = balance /\ e.after = balance'
      /\ balance' = Moved(balance, e)
  <2>1. e \in Record
    BY <1>2, <1>3 DEF Record
  <2>2. balance' = Moved(balance, e)
    BY <1>1 DEF Moved
  <2>3. QED
    BY <1>1, <2>1, <2>2
<1> HIDE DEF e, after
<1>5. /\ book' \in Seq(Record) /\ Len(book') = Len(book) + 1 /\ book'[Len(book) + 1] = e
      /\ \A i \in 1 .. Len(book) : book'[i] = book[i]
  BY <1>1, <1>2, <1>4
<1>6. /\ Shown(book') = Rounded(Shown(book), e) /\ Total(book') = Moved(Total(book), e)
      /\ Shown(book) \in Int /\ Total(book) \in Int
      /\ Agree(book, book', Len(book))
  BY <1>1, <1>2, <1>4, LoopsAppend
<1>7. balance' - Total(book') = balance - Total(book) /\ balance' \in Nat /\ Total(book') \in Int
  <2>1. balance' \in Nat
    BY <1>1, <1>3
  <2>2. Moved(balance, e) - Moved(Total(book), e) = balance - Total(book)
        /\ Moved(Total(book), e) \in Int
    BY <1>2, <1>4, <1>6, MovedTogether, Steps
  <2>3. QED
    BY <1>4, <1>6, <2>1, <2>2
<1>8. TypeOK'
  <2>1. lastId' \in 0 .. MaxRecord
    BY <1>1, <1>2
  <2>2. QED
    BY <1>1, <1>5, <1>7, <2>1 DEF IndInv, TypeOK
<1>9. BookInv'
  <2>1. Orderly(book) /\ Len(book) <= lastId /\ \A i \in 1 .. Len(book) : book[i].id <= lastId
    BY DEF IndInv, BookInv
  <2>2. \A i \in 1 .. Len(book) : book[i] \in Record /\ book[i].id \in Nat
    BY <1>2, RecordFields
  <2>3. \A i \in 1 .. Len(book') : i \in 1 .. Len(book) \/ i = Len(book) + 1
    BY <1>2, <1>5
  <2>4. Sorted(book')
    <3> SUFFICES ASSUME NEW i \in 1 .. Len(book'), NEW j \in 1 .. Len(book'), i < j
                 PROVE  book'[i].id < book'[j].id
      BY DEF Sorted
    <3>1. i \in 1 .. Len(book) /\ book'[i] = book[i]
      BY <1>2, <1>5, <2>3
    <3>2. CASE j \in 1 .. Len(book)
      BY <1>5, <2>1, <3>1, <3>2 DEF Orderly, Sorted
    <3>3. CASE j = Len(book) + 1
      BY <1>2, <1>4, <1>5, <2>1, <2>2, <3>1, <3>3
    <3>4. QED
      BY <2>3, <3>2, <3>3
  <2>5. \A i \in 1 .. Len(book') : book'[i].id <= lastId'
    BY <1>1, <1>2, <1>4, <1>5, <2>1, <2>2, <2>3
  <2>6. 1 \in 1 .. Len(book)
    BY <1>2, <2>1 DEF Orderly
  <2>7. Orderly(book')
    BY <1>2, <1>5, <2>1, <2>4, <2>6 DEF Orderly
  <2>8. QED
    BY <1>1, <1>2, <1>5, <2>1, <2>5, <2>7 DEF BookInv
<1>10. CopyInv' /\ ClaimInv'
  BY <1>1 DEF IndInv, CopyInv, ClaimInv
<1>11. SoundInv'
  <2> SUFFICES ASSUME NEW b \in Batch, plan[b].sound
               PROVE  /\ plan[b].state = "written"
                      /\ Agree(plan[b].events, book', Len(plan[b].events))
                      /\ Near(balance' - Total(book'), plan[b].current - Total(plan[b].events), 5)
    BY <1>1 DEF SoundInv
  <2>1. /\ plan[b].state = "written"
        /\ Agree(plan[b].events, book, Len(plan[b].events))
        /\ Near(balance - Total(book), plan[b].current - Total(plan[b].events), 5)
    BY DEF IndInv, SoundInv
  <2>2. Agree(plan[b].events, book', Len(plan[b].events))
    BY <1>2, <1>5, <2>1 DEF Agree
  <2>3. QED
    BY <1>7, <2>1, <2>2
<1>12. RepairedInv'
  <2> SUFFICES ASSUME repaired
               PROVE  /\ Near(balance', Total(book'), 5 * MaxRecord + 15)
                      /\ Near(balance', Shown(book'), 5 * (Len(book') - 1) + 15)
    BY <1>1 DEF RepairedInv
  <2>1. /\ Near(balance, Total(book), 5 * MaxRecord + 15)
        /\ Near(balance, Shown(book), 5 * (Len(book) - 1) + 15)
    BY DEF IndInv, RepairedInv
  <2>2. Near(balance', Total(book'), 5 * MaxRecord + 15)
    <3>1. PICK x, y, u, v : x = balance /\ y = Total(book) /\ u = balance' /\ v = Total(book')
      OBVIOUS
    <3>2. x \in Int /\ y \in Int /\ u \in Int /\ v \in Int /\ u - v = x - y
      BY <1>2, <1>6, <1>7, <3>1
    <3>3. u - v = x - y /\ v - u = y - x
      BY <3>2
    <3>4. QED
      BY <2>1, <3>1, <3>3 DEF Near
  <2>3. Near(Shown(book'), balance', 5 * (Len(book) - 1) + 15 + 5)
    <3>1. PICK d : d = 5 * (Len(book) - 1) + 15
      OBVIOUS
    <3>2. d \in Int
      BY <1>2, <3>1
    <3>3. Near(Shown(book), balance, d)
      BY <2>1, <3>1 DEF Near
    <3>4. QED
      BY <1>2, <1>4, <1>6, <3>1, <3>2, <3>3, StepsNear
  <2>4. 5 * (Len(book) - 1) + 15 + 5 = 5 * (Len(book') - 1) + 15
    BY <1>2, <1>5
  <2>5. QED
    BY <2>2, <2>3, <2>4 DEF Near
<1>13. HandoverInv'
  <2> SUFFICES ASSUME NEW t \in Tool, tool[t].pc = "rebalance", tool[t].fresh, repaired,
                      NEW events, events = tool[t].events
               PROVE  Handover(events, book', balance')
    BY <1>1 DEF HandoverInv
  <2>0. PICK k : k = Len(events)
    OBVIOUS
  <2>1. events \in Seq(Record) /\ k \in Nat
    BY <2>0, Typed DEF IndInv
  <2>2. /\ k <= Len(book) /\ \A i \in 1 .. k : book[i] = events[i]
        /\ k < Len(book) => /\ Near(book[k + 1].before, Shown(events), 5 * (k - 1) + 15)
                            /\ book[Len(book)].after = balance
        /\ \A i \in k + 2 .. Len(book) : book[i].before = book[i - 1].after
    <3>1. Handover(events, book, balance)
      BY DEF IndInv, HandoverInv
    <3>2. QED
      BY <2>0, <3>1 DEF Handover
  <2>3. \A i \in 1 .. k : book'[i] = events[i]
    BY <1>2, <1>5, <2>1, <2>2
  <2>4. book'[Len(book')].after = balance'
    BY <1>4, <1>5
  <2>5. Near(book'[k + 1].before, Shown(events), 5 * (k - 1) + 15)
    <3>1. CASE k < Len(book)
      <4>1. k + 1 \in 1 .. Len(book)
        BY <1>2, <2>1, <3>1
      <4>2. QED
        BY <1>5, <2>2, <3>1, <4>1
    <3>2. CASE k = Len(book)
      <4>1. Agree(events, book, k)
        BY <1>2, <2>0, <2>1, <2>2, <3>2 DEF Agree, Same
      <4>2. k \in 0 .. k
        BY <2>1
      <4>3. Shown(events) = Shown(book)
        BY <1>2, <2>0, <2>1, <3>2, <4>1, <4>2, SameLoops DEF Shown
      <4>4. Near(balance, Shown(book), 5 * (Len(book) - 1) + 15)
        BY DEF IndInv, RepairedInv
      <4>5. QED
        BY <1>4, <1>5, <3>2, <4>3, <4>4
    <3>3. QED
      BY <1>2, <2>1, <2>2, <3>1, <3>2
  <2>6. ASSUME NEW i \in k + 2 .. Len(book') PROVE book'[i].before = book'[i - 1].after
    <3>1. k < Len(book) /\ i - 1 \in 1 .. Len(book)
      BY <1>2, <1>5, <2>1
    <3>2. CASE i \in k + 2 .. Len(book)
      <4>1. i \in 1 .. Len(book)
        BY <1>2, <2>1, <3>2
      <4>2. QED
        BY <1>5, <2>2, <3>1, <3>2, <4>1
    <3>3. CASE i = Len(book) + 1
      <4>1. i - 1 = Len(book)
        BY <1>2, <3>3
      <4>2. QED
        BY <1>4, <1>5, <2>2, <3>1, <3>3, <4>1
    <3>4. QED
      BY <1>2, <1>5, <2>1, <3>2, <3>3
  <2>7. k <= Len(book')
    BY <1>2, <1>5, <2>1, <2>2
  <2>8. QED
    BY <2>0, <2>3, <2>4, <2>5, <2>6, <2>7 DEF Handover
<1>14. QED
  BY <1>8, <1>9, <1>10, <1>11, <1>12, <1>13 DEF IndInv

LEMMA LiveStepKeeps ==
  ASSUME IndInv, LiveStep
  PROVE  IndInv'
<1>1. /\ status \in [Order -> {"pending", "success", "refunded"}] /\ book \in Seq(Record)
      /\ \A o \in Order : price[o] \in Nat
  BY Typed DEF IndInv
<1>2. CASE \E n \in Deposit : Recharge(n)
  <2>1. PICK n \in Deposit : Recharge(n)
    BY <1>2
  <2>2. n \in Nat /\ NoOrder \in Order \cup {NoOrder}
    BY RollbackAssumption
  <2>3. Post("recharge", NoOrder, n) /\ status' = status
    BY <2>1 DEF Recharge
  <2>4. QED
    BY <1>1, <2>2, <2>3, PostKeeps
<1>3. CASE \E o \in Order : Deduct(o)
  <2>1. PICK o \in Order : Deduct(o)
    BY <1>3
  <2>2. /\ Post("deduct", o, price[o]) /\ balance >= price[o] /\ price[o] \in Nat
        /\ status' = [status EXCEPT ![o] = "success"]
    BY <1>1, <2>1 DEF Deduct
  <2>3. status' \in [Order -> {"pending", "success", "refunded"}]
    BY <1>1, <2>2
  <2>4. QED
    BY <2>2, <2>3, PostKeeps
<1>4. CASE \E o \in Order : Refund(o)
  <2>1. PICK o \in Order : Refund(o)
    BY <1>4
  <2>2. PICK i \in DOMAIN book : Post("refund", o, book[i].amount)
    BY <2>1 DEF Refund
  <2>3. book[i] \in Record
    BY <1>1
  <2>4. book[i].amount \in Nat
    BY <2>3, RecordFields
  <2>5. status' \in [Order -> {"pending", "success", "refunded"}]
    BY <1>1, <2>1 DEF Refund
  <2>6. QED
    BY <2>2, <2>4, <2>5, PostKeeps
<1>5. QED
  BY <1>2, <1>3, <1>4 DEF LiveStep

-----------------------------------------------------------------------------
(* The queries of the tool *)

(* One run moves on, and nothing changes but the plans. *)
LEMMA Moves ==
  ASSUME TypeOK, NEW t \in Tool, NEW x \in ToolState, tool' = [tool EXCEPT ![t] = x]
  PROVE  /\ tool' \in [Tool -> ToolState] /\ tool'[t] = x
         /\ \A u \in Tool : u # t => tool'[u] = tool[u]
<1>1. tool \in [Tool -> ToolState]
  BY Typed
<1>2. QED
  BY <1>1

LEMMA LoadEventsKeeps ==
  ASSUME IndInv, NEW t \in Tool, NEW b \in Batch, LoadEvents(t, b)
  PROVE  IndInv'
<1> DEFINE x == [pc |-> "balance", batch |-> b, events |-> book, fresh |-> FALSE]
<1>1. /\ tool[t].pc = "idle" /\ plan[b].state = "none" /\ \A u \in Tool : tool[u].batch # b
      /\ tool' = [tool EXCEPT ![t] = x]
      /\ balance' = balance /\ book' = book /\ status' = status /\ lastId' = lastId
      /\ price' = price /\ plan' = plan /\ repaired' = repaired
  BY DEF LoadEvents, OnlyReads, serverVars
<1>2. TypeOK /\ book \in Seq(Record)
  BY Typed DEF IndInv
<1>3. x \in ToolState /\ x.pc = "balance" /\ x.batch = b /\ x.events = book
  BY <1>2 DEF ToolState
<1> HIDE DEF x
<1>4. /\ tool' \in [Tool -> ToolState] /\ tool'[t] = x
      /\ \A u \in Tool : u # t => tool'[u] = tool[u]
  BY <1>1, <1>2, <1>3, Moves
<1>5. TypeOK'
  BY <1>1, <1>4 DEF IndInv, TypeOK, ToolState
<1>6. BookInv' /\ SoundInv' /\ RepairedInv'
  BY <1>1 DEF IndInv, BookInv, SoundInv, RepairedInv
<1>7. CopyInv'
  BY <1>1, <1>3, <1>4 DEF IndInv, CopyInv, BookInv
<1>8. ClaimInv'
  BY <1>1, <1>3, <1>4 DEF IndInv, ClaimInv
<1>9. HandoverInv'
  BY <1>1, <1>3, <1>4 DEF IndInv, HandoverInv
<1>10. QED
  BY <1>5, <1>6, <1>7, <1>8, <1>9 DEF IndInv

LEMMA LoadPlansKeeps ==
  ASSUME IndInv, NEW t \in Tool, NEW b \in Batch, LoadPlans(t, b)
  PROVE  IndInv'
<1> DEFINE x == [pc |-> "apply", batch |-> b, events |-> plan[b].events, fresh |-> FALSE]
<1>1. /\ tool[t].pc = "idle" /\ plan[b].state = "written" /\ Reversed(plan[b].events) # {}
      /\ tool' = [tool EXCEPT ![t] = x]
      /\ balance' = balance /\ book' = book /\ status' = status /\ lastId' = lastId
      /\ price' = price /\ plan' = plan /\ repaired' = repaired
  BY DEF LoadPlans, OnlyReads, serverVars
<1>2. TypeOK /\ plan[b].events \in Seq(Record)
  BY Typed DEF IndInv
<1>3. x \in ToolState /\ x.pc = "apply" /\ x.batch = b /\ x.events = plan[b].events
  BY <1>2 DEF ToolState
<1> HIDE DEF x
<1>4. /\ tool' \in [Tool -> ToolState] /\ tool'[t] = x
      /\ \A u \in Tool : u # t => tool'[u] = tool[u]
  BY <1>1, <1>2, <1>3, Moves
<1>5. TypeOK'
  BY <1>1, <1>4 DEF IndInv, TypeOK, ToolState
<1>6. BookInv' /\ SoundInv' /\ RepairedInv'
  BY <1>1 DEF IndInv, BookInv, SoundInv, RepairedInv
<1>7. CopyInv'
  BY <1>1, <1>3, <1>4 DEF IndInv, CopyInv
<1>8. ClaimInv'
  BY <1>1, <1>3, <1>4 DEF IndInv, ClaimInv
<1>9. HandoverInv'
  BY <1>1, <1>3, <1>4 DEF IndInv, HandoverInv
<1>10. QED
  BY <1>5, <1>6, <1>7, <1>8, <1>9 DEF IndInv

LEMMA LoadChainKeeps ==
  ASSUME IndInv, NEW t \in Tool, LoadChain(t)
  PROVE  IndInv'
<1> DEFINE x == [pc |-> "rebalance", batch |-> NoBatch, events |-> book, fresh |-> TRUE]
<1>1. /\ tool[t].pc = "idle"
      /\ tool' = [tool EXCEPT ![t] = x]
      /\ balance' = balance /\ book' = book /\ status' = status /\ lastId' = lastId
      /\ price' = price /\ plan' = plan /\ repaired' = repaired
  BY DEF LoadChain, OnlyReads, serverVars
<1>2. TypeOK /\ book \in Seq(Record) /\ Len(book) \in Nat
  BY Typed DEF IndInv
<1>3. x \in ToolState /\ x.pc = "rebalance" /\ x.batch = NoBatch /\ x.events = book
  BY <1>2 DEF ToolState
<1> HIDE DEF x
<1>4. /\ tool' \in [Tool -> ToolState] /\ tool'[t] = x
      /\ \A u \in Tool : u # t => tool'[u] = tool[u]
  BY <1>1, <1>2, <1>3, Moves
<1>5. TypeOK'
  BY <1>1, <1>4 DEF IndInv, TypeOK, ToolState
<1>6. BookInv' /\ SoundInv' /\ RepairedInv'
  BY <1>1 DEF IndInv, BookInv, SoundInv, RepairedInv
<1>7. CopyInv'
  BY <1>1, <1>3, <1>4 DEF IndInv, CopyInv, BookInv
<1>8. ClaimInv'
  BY <1>1, <1>3, <1>4, RollbackAssumption DEF IndInv, ClaimInv
<1>9. HandoverInv'
  <2>1. Handover(book, book, balance)
    BY <1>2 DEF Handover
  <2>2. QED
    BY <1>1, <1>3, <1>4, <2>1 DEF IndInv, HandoverInv
<1>10. QED
  BY <1>5, <1>6, <1>7, <1>8, <1>9 DEF IndInv

LEMMA PlanAccountKeeps ==
  ASSUME IndInv, NEW t \in Tool, PlanAccount(t)
  PROVE  IndInv'
<1> DEFINE b == tool[t].batch
           p == [state |-> "written", events |-> tool[t].events, current |-> round2(balance),
                 sound |-> tool[t].events = book]
<1>1. /\ tool[t].pc = "balance"
      /\ plan' = [plan EXCEPT ![b] = p]
      /\ tool' = [tool EXCEPT ![t] = IdleTool]
      /\ balance' = balance /\ book' = book /\ status' = status /\ lastId' = lastId
      /\ price' = price /\ repaired' = repaired
  BY DEF PlanAccount, OnlyReads, serverVars
<1>2. /\ TypeOK /\ tool[t].events \in Seq(Record) /\ balance \in Nat /\ plan \in [Batch -> Plan]
      /\ book \in Seq(Record)
  BY Typed DEF IndInv
<1>3. round2(balance) \in Int /\ Near(round2(balance), balance, 5)
  <2>1. balance \in Int
    BY <1>2
  <2>2. QED
    BY <2>1, Rounding
<1>4. /\ p \in Plan /\ p.state = "written" /\ p.events = tool[t].events
      /\ p.current = round2(balance) /\ p.sound = (tool[t].events = book)
  BY <1>2, <1>3 DEF Plan
<1>5. IdleTool \in ToolState /\ IdleTool.pc = "idle" /\ IdleTool.batch = NoBatch
  <2>1. <<>> \in Seq(Record)
    OBVIOUS
  <2>2. QED
    BY <2>1 DEF IdleTool, ToolState
<1>6. /\ tool' \in [Tool -> ToolState] /\ tool'[t] = IdleTool
      /\ \A u \in Tool : u # t => tool'[u] = tool[u]
  BY <1>1, <1>2, <1>5, Moves
<1>7. /\ b \in Batch /\ plan[b].state = "none"
      /\ \A u \in Tool : u # t => tool[u].batch # b
  BY <1>1 DEF IndInv, ClaimInv
<1> HIDE DEF p, b
<1>8. /\ plan' \in [Batch -> Plan] /\ plan'[b] = p
      /\ \A c \in Batch : c # b => plan'[c] = plan[c]
  BY <1>1, <1>2, <1>4, <1>7
<1>9. TypeOK'
  BY <1>1, <1>6, <1>8 DEF IndInv, TypeOK, ToolState
<1>10. BookInv' /\ RepairedInv'
  BY <1>1 DEF IndInv, BookInv, RepairedInv
<1>11. CopyInv'
  BY <1>1, <1>4, <1>5, <1>6, <1>8 DEF IndInv, CopyInv
<1>12. ClaimInv'
  <2> SUFFICES ASSUME NEW u \in Tool, u # t
               PROVE  LET c == tool[u].batch
                      IN  /\ tool[u].pc = "balance" => /\ c \in Batch /\ plan'[c].state = "none"
                                                       /\ \A v \in Tool : v # u => tool'[v].batch # c
                          /\ tool[u].pc = "apply" => /\ c \in Batch /\ plan'[c].state # "none"
                                                     /\ plan'[c].events = tool[u].events
                                                     /\ Reversed(tool[u].events) # {}
    BY <1>5, <1>6 DEF ClaimInv
  <2>1. LET c == tool[u].batch
        IN  /\ tool[u].pc = "balance" => /\ c \in Batch /\ plan[c].state = "none"
                                         /\ \A v \in Tool : v # u => tool[v].batch # c
            /\ tool[u].pc = "apply" => /\ c \in Batch /\ plan[c].state # "none"
                                       /\ plan[c].events = tool[u].events
                                       /\ Reversed(tool[u].events) # {}
    BY DEF IndInv, ClaimInv
  <2>2. tool[u].batch # b
    BY <1>7
  <2>3. QED
    BY <1>5, <1>6, <1>8, <2>1, <2>2, RollbackAssumption
<1>13. SoundInv'
  <2> SUFFICES ASSUME NEW c \in Batch, plan'[c].sound
               PROVE  /\ plan'[c].state = "written"
                      /\ Agree(plan'[c].events, book, Len(plan'[c].events))
                      /\ Near(balance - Total(book), plan'[c].current - Total(plan'[c].events), 5)
    BY <1>1 DEF SoundInv
  <2>1. CASE c # b
    BY <1>8, <2>1 DEF IndInv, SoundInv
  <2>2. CASE c = b
    <3>1. plan'[c].events = book /\ plan'[c].state = "written" /\ plan'[c].current = round2(balance)
      BY <1>4, <1>8, <2>2
    <3>2. Agree(book, book, Len(book))
      BY <1>2 DEF Agree, Same
    <3>3. Total(book) \in Int
      BY <1>2, TotalInt
    <3>4. Near(balance - Total(book), round2(balance) - Total(book), 5)
      BY <1>2, <1>3, <3>3 DEF Near
    <3>5. QED
      BY <3>1, <3>2, <3>4
  <2>3. QED
    BY <2>1, <2>2
<1>14. HandoverInv'
  BY <1>1, <1>5, <1>6 DEF IndInv, HandoverInv
<1>15. QED
  BY <1>9, <1>10, <1>11, <1>12, <1>13, <1>14 DEF IndInv

-----------------------------------------------------------------------------
(* The transactions of the tool *)

LEMMA IdleToolIs ==
  IdleTool \in ToolState /\ IdleTool.pc = "idle" /\ IdleTool.batch = NoBatch /\ IdleTool.fresh = FALSE
<1>1. <<>> \in Seq(Record)
  OBVIOUS
<1>2. QED
  BY <1>1 DEF IdleTool, ToolState

LEMMA WrittenIs ==
  ASSUME TypeOK, NEW t \in Tool, tool' = Written(t)
  PROVE  /\ tool' \in [Tool -> ToolState] /\ tool'[t] = IdleTool
         /\ \A u \in Tool : tool'[u].fresh = FALSE
         /\ \A u \in Tool : u # t => /\ tool'[u].pc = tool[u].pc /\ tool'[u].batch = tool[u].batch
                                     /\ tool'[u].events = tool[u].events
<1>1. tool \in [Tool -> ToolState]
  BY Typed
<1>2. ASSUME NEW x \in ToolState
      PROVE  LET y == [x EXCEPT !.fresh = FALSE]
             IN  /\ y \in ToolState /\ y.fresh = FALSE /\ y.pc = x.pc /\ y.batch = x.batch
                 /\ y.events = x.events
  BY DEF ToolState
<1>3. \A u \in Tool : tool'[u] = IF u = t THEN IdleTool ELSE [tool[u] EXCEPT !.fresh = FALSE]
  BY DEF Written
<1>4. \A u \in Tool : tool'[u] \in ToolState
  BY <1>1, <1>2, <1>3, IdleToolIs
<1>5. tool' \in [Tool -> ToolState]
  BY <1>4 DEF Written
<1>6. tool'[t] = IdleTool
  BY <1>3
<1>7. ASSUME NEW u \in Tool, u # t
      PROVE  /\ tool'[u].fresh = FALSE /\ tool'[u].pc = tool[u].pc
             /\ tool'[u].batch = tool[u].batch /\ tool'[u].events = tool[u].events
  <2>1. tool[u] \in ToolState
    BY <1>1
  <2>2. tool'[u] = [tool[u] EXCEPT !.fresh = FALSE]
    BY <1>3, <1>7
  <2>3. QED
    BY <1>2, <2>1, <2>2
<1>8. \A u \in Tool : tool'[u].fresh = FALSE
  BY <1>6, <1>7, IdleToolIs
<1>9. QED
  BY <1>5, <1>6, <1>7, <1>8

(* The first recharge is never among the records to reverse. *)
LEMMA FirstStays ==
  ASSUME NEW s \in Seq(Record), Orderly(s)
  PROVE  1 \notin Reversed(s) /\ s[1].type # "deduct"
<1>1. SUFFICES ASSUME 1 \in Reversed(s) PROVE FALSE
  BY DEF Orderly
<1>2. PICK i \in 1 .. Len(s) : s[i].id = 1 /\ ~Keeps(Replay(s)[i - 1], s[i])
  BY <1>1 DEF Reversed
<1>3. s[i].type = "deduct"
  BY <1>2 DEF Keeps
<1>4. i # 1 /\ 1 \in 1 .. Len(s) /\ 1 < i
  BY <1>3 DEF Orderly
<1>5. s[1].id < s[i].id
  BY <1>4 DEF Orderly, Sorted
<1>6. QED
  BY <1>2, <1>5 DEF Orderly

(* The records a plan reverses are those the replay of the present books would,
   as far as the plan goes. *)
LEMMA ReversedIs ==
  ASSUME NEW s \in Seq(Record), NEW r \in Seq(Record), Agree(s, r, Len(s))
  PROVE  Reversed(s) = Unkept(r, Len(s))
<1> DEFINE k == Len(s)
<1>1. \A i \in 1 .. k : i - 1 \in 0 .. k /\ Same(s[i], r[i])
  BY DEF Agree
<1>2. ASSUME NEW i \in 1 .. k
      PROVE  s[i].id = r[i].id /\ (Keeps(Replay(s)[i - 1], s[i]) <=> Keeps(Replay(r)[i - 1], r[i]))
  <2>1. Replay(s)[i - 1] = Replay(r)[i - 1]
    BY <1>1, SameLoops
  <2>2. Keeps(Replay(r)[i - 1], s[i]) = Keeps(Replay(r)[i - 1], r[i])
    BY <1>1, SameSteps
  <2>3. QED
    BY <1>1, <2>1, <2>2 DEF Same
<1>3. Reversed(s) = {s[i].id : i \in {j \in 1 .. k : ~Keeps(Replay(s)[j - 1], s[j])}}
  BY DEF Reversed
<1>4. {j \in 1 .. k : ~Keeps(Replay(s)[j - 1], s[j])} = {j \in 1 .. k : ~Keeps(Replay(r)[j - 1], r[j])}
  BY <1>2
<1>5. QED
  BY <1>2, <1>3, <1>4 DEF Unkept

(* The transaction of apply, on a wallet that has not moved. *)
Applies(t) ==
  LET b == tool[t].batch
  IN  /\ tool[t].pc = "apply" /\ ~Drifted(b)
      /\ book' = Left(book, Reversed(tool[t].events))[Len(book)]
      /\ balance' = CorrectBalance(tool[t].events)
      /\ plan' = [c \in Batch |->
                   [plan[c] EXCEPT !.state = IF c = b THEN "executed" ELSE @, !.sound = FALSE]]
      /\ repaired' = plan[b].sound
      /\ tool' = Written(t)
      /\ lastId' = lastId /\ price' = price
      /\ status' \in [Order -> {"pending", "success", "refunded"}]

LEMMA ApplyAccountIs ==
  ASSUME TypeOK, NEW t \in Tool, ApplyAccount(t)
  PROVE  \/ /\ UNCHANGED <<balance, book, status, plan, repaired, lastId, price>>
            /\ tool[t].pc = "apply" /\ tool' = [tool EXCEPT ![t] = IdleTool]
         \/ Applies(t)
<1> DEFINE b == tool[t].batch
           gone == Reversed(tool[t].events)
           orders == {e.order : e \in {x \in ToSet(tool[t].events) : x.id \in gone}}
<1>1. CASE Drifted(b)
  BY <1>1 DEF ApplyAccount, serverVars
<1>2. CASE ~Drifted(b)
  <2>1. status \in [Order -> {"pending", "success", "refunded"}]
    BY Typed
  <2>2. status' = [o \in Order |-> IF o \in orders THEN "pending" ELSE status[o]]
    BY <1>2 DEF ApplyAccount
  <2>3. status' \in [Order -> {"pending", "success", "refunded"}]
    <3> HIDE DEF orders
    <3>1. QED
      BY <2>1, <2>2
  <2>4. QED
    BY <1>2, <2>3 DEF ApplyAccount, Applies, serverVars
<1>3. QED
  BY <1>1, <1>2

(* What a repair makes of the books, whatever the plan was made from. *)
LEMMA AppliesBooks ==
  ASSUME IndInv, NEW t \in Tool, Applies(t)
  PROVE  /\ book' \in Seq(Record) /\ BookInv' /\ balance' \in Nat
<1> DEFINE events == tool[t].events
           gone == Reversed(events)
           n == Len(book)
<1>1. /\ TypeOK /\ book \in Seq(Record) /\ n \in Nat /\ events \in Seq(Record) /\ lastId \in Nat
  BY Typed DEF IndInv
<1>2. Orderly(events) /\ Orderly(book) /\ n <= lastId /\ \A i \in 1 .. n : book[i].id <= lastId
  BY DEF IndInv, CopyInv, BookInv, Applies
<1>3. book' = Left(book, gone)[n] /\ balance' = CorrectBalance(events) /\ lastId' = lastId
  BY DEF Applies
<1>4. book[1].id \notin gone
  BY <1>1, <1>2, FirstStays DEF Orderly
<1> HIDE DEF events, gone
<1>5. n \in 0 .. n /\ n > 0
  BY <1>1, <1>2 DEF Orderly
<1>6. Thinned(book, gone, n)
  BY <1>1, <1>2, <1>5, LeftIsThinned DEF Orderly
<1>7. book' \in Seq(Record)
  BY <1>1, <1>3, <1>5, LeftAt
<1>8. /\ Sorted(book') /\ Len(book') <= n
      /\ \A m \in 1 .. Len(book') : \E j \in 1 .. n : book'[m] = book[j]
      /\ Len(book') > 0 /\ book'[1] = book[1]
  BY <1>3, <1>4, <1>5, <1>6 DEF Thinned
<1>9. Orderly(book')
  BY <1>2, <1>8 DEF Orderly
<1>10. \A m \in 1 .. Len(book') : book'[m].id <= lastId'
  BY <1>2, <1>3, <1>8
<1>11. Len(book') \in Nat /\ Len(book') <= lastId'
  BY <1>1, <1>2, <1>3, <1>7, <1>8
<1>12. balance' \in Nat
  BY <1>1, <1>3, LoopsAt DEF CorrectBalance
<1>13. QED
  BY <1>7, <1>9, <1>10, <1>11, <1>12 DEF BookInv

(* A sound plan, applied: only as much came in since it was made as the drift
   check lets pass, and that stays on one side only. *)
LEMMA AppliesSound ==
  ASSUME IndInv, NEW t \in Tool, Applies(t), repaired'
  PROVE  RepairedInv'
<1> DEFINE b == tool[t].batch
           events == tool[t].events
           k == Len(events)
           n == Len(book)
           gone == Reversed(events)
           r == Replay(book)[k]
           d == Totals(book)[n] - Totals(book)[k]
<1>1. /\ TypeOK /\ book \in Seq(Record) /\ n \in Nat /\ events \in Seq(Record)
      /\ lastId \in Nat /\ lastId <= MaxRecord /\ MaxRecord \in Nat /\ balance \in Nat
  BY Typed DEF IndInv
<1>2. /\ b \in Batch /\ plan[b].events = events /\ plan[b].sound
      /\ Orderly(events) /\ Orderly(book) /\ n <= lastId /\ ~Drifted(b)
  BY DEF IndInv, ClaimInv, CopyInv, BookInv, Applies
<1>3. plan[b].current \in Int
  BY <1>1, <1>2, Typed
<1>4. Agree(events, book, k) /\ Near(balance - Total(book), plan[b].current - Total(events), 5)
  BY <1>2 DEF IndInv, SoundInv
<1>5. k \in Nat /\ k > 0 /\ k <= n /\ k \in 0 .. n /\ k \in 0 .. k /\ n \in k .. n /\ n \in 0 .. n
  BY <1>1, <1>2, <1>4 DEF Agree, Orderly
<1>6. gone = Unkept(book, k)
  BY <1>1, <1>4, ReversedIs
<1>7. book' = Left(book, gone)[n] /\ balance' = Replay(events)[k]
  BY DEF Applies, CorrectBalance
<1> HIDE DEF events, k, n, gone, b
<1>8. balance' = r /\ Totals(events)[k] = Totals(book)[k]
  BY <1>1, <1>4, <1>5, <1>7, SameLoops
<1>9. r \in Nat /\ d \in Int /\ Totals(book)[n] \in Int /\ Totals(book)[k] \in Int
  BY <1>1, <1>5, LoopsAt DEF n
<1>10. Near(0, d, 15)
  <2>1. Total(book) = Totals(book)[n] /\ Total(events) = Totals(book)[k]
    BY <1>8 DEF Total, n, k
  <2>2. PICK x, y, c : x = Totals(book)[n] /\ y = Totals(book)[k] /\ c = plan[b].current
    OBVIOUS
  <2>3. /\ ~(balance - c > 10) /\ ~(c - balance > 10)
        /\ Near(balance - x, c - y, 5) /\ x \in Int /\ y \in Int /\ c \in Int /\ d = x - y
    BY <1>2, <1>3, <1>4, <1>9, <2>1, <2>2 DEF Drifted
  <2>4. ((balance - x) - (c - y) <= 5) /\ ((c - y) - (balance - x) <= 5)
    BY <2>3 DEF Near
  <2>5. 0 - d <= 15 /\ d - 0 <= 15
    <3> HIDE DEF d
    <3>1. QED
      BY <1>1, <2>3, <2>4
  <2>6. QED
    BY <2>5 DEF Near
<1>11. Sorted(book) /\ book[1].type # "deduct"
  BY <1>1, <1>2, FirstStays DEF Orderly
<1>12. /\ Near(r, Total(Left(book, gone)[k]), 5 * k) /\ Len(Left(book, gone)[k]) > 0
  <2>1. Replays(book, Unkept(book, k), k)
    BY <1>1, <1>5, <1>11, ReplayLeaves DEF n
  <2>2. QED
    BY <1>5, <1>6, <2>1 DEF Replays
<1>13. /\ Len(book') = Len(Left(book, gone)[k]) + (n - k)
       /\ Near(Shown(book'), r + d, 5 * (n - k))
       /\ Total(book') = Total(Left(book, gone)[k]) + d
  <2>1. LivesOn(book, Unkept(book, k), k, n)
    BY <1>1, <1>5, <1>11, SuffixStays DEF n
  <2>2. QED
    BY <1>6, <1>7, <2>1 DEF LivesOn
<1>14. Left(book, gone)[k] \in Seq(Record) /\ book' \in Seq(Record)
  BY <1>1, <1>5, <1>7, LeftAt DEF n
<1>15. PICK x, y, z, l : /\ x = Total(Left(book, gone)[k]) /\ y = Shown(book')
                         /\ z = Total(book') /\ l = Len(Left(book, gone)[k])
  OBVIOUS
<1>16. x \in Int /\ y \in Int /\ z \in Int /\ l \in Nat
  BY <1>14, <1>15, TotalInt
<1> HIDE DEF r, d
<1>17. Near(r, z, 5 * MaxRecord + 15)
  <2>1. k <= MaxRecord /\ z = x + d /\ Near(r, x, 5 * k)
    BY <1>1, <1>2, <1>5, <1>12, <1>13, <1>15
  <2>2. QED
    BY <1>1, <1>5, <1>9, <1>10, <1>16, <2>1 DEF Near
<1>18. Near(r, y, 5 * (Len(book') - 1) + 15)
  <2>1. Near(y, r + d, 5 * (n - k)) /\ Len(book') = l + (n - k) /\ l > 0
    BY <1>12, <1>13, <1>15
  <2>2. QED
    BY <1>1, <1>5, <1>9, <1>10, <1>16, <2>1 DEF Near
<1>19. QED
  BY <1>8, <1>15, <1>17, <1>18 DEF RepairedInv

LEMMA ApplyAccountKeeps ==
  ASSUME IndInv, NEW t \in Tool, ApplyAccount(t)
  PROVE  IndInv'
<1>1. TypeOK /\ plan \in [Batch -> Plan] /\ repaired \in BOOLEAN
  BY Typed DEF IndInv
<1>2. CASE /\ UNCHANGED <<balance, book, status, plan, repaired, lastId, price>>
           /\ tool[t].pc = "apply" /\ tool' = [tool EXCEPT ![t] = IdleTool]
  <2>1. /\ tool' \in [Tool -> ToolState] /\ tool'[t] = IdleTool
        /\ \A u \in Tool : u # t => tool'[u] = tool[u]
    BY <1>1, <1>2, IdleToolIs, Moves
  <2>2. TypeOK'
    BY <1>2, <2>1 DEF IndInv, TypeOK, ToolState
  <2>3. BookInv' /\ SoundInv' /\ RepairedInv'
    BY <1>2 DEF IndInv, BookInv, SoundInv, RepairedInv
  <2>4. CopyInv'
    BY <1>2, <2>1, IdleToolIs DEF IndInv, CopyInv
  <2>5. ClaimInv'
    BY <1>2, <2>1, IdleToolIs, RollbackAssumption DEF IndInv, ClaimInv
  <2>6. HandoverInv'
    BY <1>2, <2>1, IdleToolIs DEF IndInv, HandoverInv
  <2>7. QED
    BY <2>2, <2>3, <2>4, <2>5, <2>6 DEF IndInv
<1>3. CASE Applies(t)
  <2> DEFINE b == tool[t].batch
  <2>1. /\ tool[t].pc = "apply" /\ tool' = Written(t) /\ lastId' = lastId /\ price' = price
        /\ repaired' = plan[b].sound
        /\ plan' = [c \in Batch |->
                     [plan[c] EXCEPT !.state = IF c = b THEN "executed" ELSE @, !.sound = FALSE]]
        /\ status' \in [Order -> {"pending", "success", "refunded"}]
    BY <1>3 DEF Applies
  <2>2. b \in Batch /\ plan[b].state # "none"
    BY <2>1 DEF IndInv, ClaimInv
  <2>3. /\ tool' \in [Tool -> ToolState] /\ tool'[t] = IdleTool
        /\ \A u \in Tool : tool'[u].fresh = FALSE
        /\ \A u \in Tool : u # t => /\ tool'[u].pc = tool[u].pc /\ tool'[u].batch = tool[u].batch
                                    /\ tool'[u].events = tool[u].events
    BY <1>1, <2>1, WrittenIs
  <2>5. ASSUME NEW c \in Batch
        PROVE  /\ plan'[c] \in Plan /\ plan'[c].sound = FALSE /\ plan'[c].events = plan[c].events
               /\ plan'[c].state = IF c = b THEN "executed" ELSE plan[c].state
    <3>1. plan[c] \in Plan /\ plan[c].state \in {"none", "written", "executed"}
      BY <1>1 DEF Plan
    <3>2. PICK x : x = IF c = b THEN "executed" ELSE plan[c].state
      OBVIOUS
    <3>3. plan'[c] = [plan[c] EXCEPT !.state = x, !.sound = FALSE] /\ x \in {"none", "written", "executed"}
      BY <2>1, <3>1, <3>2
    <3>4. PICK y : y = plan'[c]
      OBVIOUS
    <3>5. y \in Plan /\ y.state = x /\ y.sound = FALSE /\ y.events = plan[c].events
      <4>1. PICK q : q = plan[c]
        OBVIOUS
      <4>2. q \in Plan /\ y = [q EXCEPT !.state = x, !.sound = FALSE]
        BY <3>1, <3>3, <3>4, <4>1
      <4>3. y \in Plan /\ y.state = x /\ y.sound = FALSE /\ y.events = q.events
        BY <3>3, <4>2 DEF Plan
      <4>4. QED
        BY <4>1, <4>3
    <3>6. QED
      BY <3>2, <3>4, <3>5
  <2>6. plan' \in [Batch -> Plan]
    BY <2>1, <2>5
  <2> HIDE DEF b
  <2>7. book' \in Seq(Record) /\ BookInv' /\ balance' \in Nat
    BY <1>3, AppliesBooks
  <2>8. repaired' \in BOOLEAN
    <3>1. plan[b].sound \in BOOLEAN
      BY <1>1, <2>2 DEF Plan
    <3>2. QED
      BY <2>1, <3>1
  <2>9. TypeOK'
    BY <2>1, <2>3, <2>6, <2>7, <2>8 DEF IndInv, TypeOK, ToolState
  <2>10. CopyInv'
    BY <2>2, <2>3, <2>5, IdleToolIs DEF IndInv, CopyInv
  <2>11. ClaimInv'
    <3> SUFFICES ASSUME NEW u \in Tool, u # t
                 PROVE  LET c == tool[u].batch
                        IN  /\ tool[u].pc = "balance" => /\ c \in Batch /\ plan'[c].state = "none"
                                                         /\ \A v \in Tool : v # u => tool'[v].batch # c
                            /\ tool[u].pc = "apply" => /\ c \in Batch /\ plan'[c].state # "none"
                                                       /\ plan'[c].events = tool[u].events
                                                       /\ Reversed(tool[u].events) # {}
      BY <2>3, IdleToolIs DEF ClaimInv
    <3>1. LET c == tool[u].batch
          IN  /\ tool[u].pc = "balance" => /\ c \in Batch /\ plan[c].state = "none"
                                           /\ \A v \in Tool : v # u => tool[v].batch # c
              /\ tool[u].pc = "apply" => /\ c \in Batch /\ plan[c].state # "none"
                                         /\ plan[c].events = tool[u].events
                                         /\ Reversed(tool[u].events) # {}
      BY DEF IndInv, ClaimInv
    <3>2. QED
      BY <2>2, <2>3, <2>5, <3>1, IdleToolIs, RollbackAssumption
  <2>12. SoundInv'
    BY <2>5 DEF SoundInv
  <2>13. RepairedInv'
    <3>1. CASE repaired'
      BY <1>3, <3>1, AppliesSound
    <3>2. CASE ~repaired'
      BY <3>2 DEF RepairedInv
    <3>3. QED
      BY <3>1, <3>2
  <2>14. HandoverInv'
    BY <2>3 DEF HandoverInv
  <2>15. QED
    BY <2>7, <2>9, <2>10, <2>11, <2>12, <2>13, <2>14 DEF IndInv
<1>4. QED
  BY <1>1, <1>2, <1>3, ApplyAccountIs

LEMMA CorrectedIs ==
  ASSUME NEW s \in Seq(Record), NEW e \in Record
  PROVE  /\ Corrected(s, e) \in Record /\ Same(Corrected(s, e), e)
         /\ \/ Corrected(s, e) = e /\ \A i \in 1 .. Len(s) : ~Rewritten(s, e, i)
            \/ \E i \in 1 .. Len(s) : /\ s[i].id = e.id
                                      /\ Corrected(s, e).before = Chain(s)[i - 1]
                                      /\ Corrected(s, e).after = Chain(s)[i]
<1>1. CASE \A i \in 1 .. Len(s) : ~Rewritten(s, e, i)
  <2>1. Corrected(s, e) = e
    BY <1>1 DEF Corrected
  <2>2. QED
    BY <1>1, <2>1 DEF Same
<1>2. CASE \E i \in 1 .. Len(s) : Rewritten(s, e, i)
  <2>1. PICK i : i = CHOOSE j \in DOMAIN s : Rewritten(s, e, j)
    OBVIOUS
  <2>2. i \in 1 .. Len(s) /\ Rewritten(s, e, i)
    <3>1. \E j \in DOMAIN s : Rewritten(s, e, j)
      BY <1>2
    <3>2. i \in DOMAIN s /\ Rewritten(s, e, i)
      BY <2>1, <3>1, Zenon
    <3>3. QED
      BY <3>2
  <2>3. PICK x, y : x = Chain(s)[i - 1] /\ y = Chain(s)[i]
    OBVIOUS
  <2>4. x \in Int /\ y \in Int
    BY <2>2, <2>3, LoopsAt
  <2>5. Corrected(s, e) = [e EXCEPT !.before = x, !.after = y]
    <3>1. Corrected(s, e) = LET j == CHOOSE j \in DOMAIN s : Rewritten(s, e, j)
                            IN  [e EXCEPT !.before = Chain(s)[j - 1], !.after = Chain(s)[j]]
      BY <1>2 DEF Corrected
    <3>2. QED
      BY <2>1, <2>3, <3>1
  <2>6. /\ [e EXCEPT !.before = x, !.after = y] \in Record
        /\ Same([e EXCEPT !.before = x, !.after = y], e)
        /\ [e EXCEPT !.before = x, !.after = y].before = x
        /\ [e EXCEPT !.before = x, !.after = y].after = y
    BY <2>4 DEF Record, Same
  <2>7. s[i].id = e.id
    BY <2>2 DEF Rewritten
  <2>8. QED
    BY <2>2, <2>3, <2>5, <2>6, <2>7
<1>3. QED
  BY <1>1, <1>2

LEMMA RebalanceAccountIs ==
  ASSUME TypeOK, NEW t \in Tool, RebalanceAccount(t)
  PROVE  /\ book' \in Seq(Record) /\ Len(book') = Len(book)
         /\ \A j \in 1 .. Len(book) :
              book'[j] = Corrected(tool[t].events, book[j]) /\ Same(book'[j], book[j])
         /\ Agree(book, book', Len(book))
         /\ Total(book') = Total(book) /\ Shown(book') = Shown(book)
         /\ UNCHANGED <<balance, status, plan, repaired, lastId, price>>
         /\ tool[t].pc = "rebalance" /\ tool' = Written(t)
<1> DEFINE n == Len(book)
           events == tool[t].events
<1>1. book \in Seq(Record) /\ n \in Nat /\ events \in Seq(Record)
  BY Typed
<1>2. /\ UNCHANGED <<balance, status, plan, repaired, lastId, price>>
      /\ tool[t].pc = "rebalance" /\ tool' = Written(t)
      /\ book' = [j \in 1 .. n |-> Corrected(events, book[j])]
  BY <1>1 DEF RebalanceAccount, serverVars
<1> HIDE DEF events
<1>3. ASSUME NEW j \in 1 .. n PROVE book'[j] \in Record /\ book'[j] = Corrected(events, book[j]) /\ Same(book'[j], book[j])
  <2>1. book[j] \in Record
    BY <1>1
  <2>2. book'[j] = Corrected(events, book[j])
    BY <1>2
  <2>3. QED
    BY <1>1, <2>1, <2>2, CorrectedIs
<1>4. book' \in Seq(Record) /\ Len(book') = n
  <2> HIDE DEF n
  <2>1. book' \in [1 .. n -> Record]
    BY <1>2, <1>3
  <2>2. QED
    BY <1>1, <2>1
<1>5. Agree(book, book', n)
  BY <1>1, <1>3, <1>4 DEF Agree, Same
<1>6. Total(book') = Total(book) /\ Shown(book') = Shown(book)
  <2>1. n \in 0 .. n
    BY <1>1
  <2>2. QED
    BY <1>1, <1>4, <1>5, <2>1, SameLoops DEF Total, Shown
<1>7. QED
  BY <1>2, <1>3, <1>4, <1>5, <1>6 DEF events

LEMMA RebalanceAccountKeeps ==
  ASSUME IndInv, NEW t \in Tool, RebalanceAccount(t)
  PROVE  IndInv'
<1>1. TypeOK /\ book \in Seq(Record) /\ Len(book) \in Nat
  BY Typed DEF IndInv
<1>2. /\ book' \in Seq(Record) /\ Len(book') = Len(book)
      /\ \A j \in 1 .. Len(book) : Same(book'[j], book[j])
      /\ Total(book') = Total(book) /\ Shown(book') = Shown(book)
      /\ UNCHANGED <<balance, status, plan, repaired, lastId, price>>
      /\ tool[t].pc = "rebalance" /\ tool' = Written(t)
  BY <1>1, RebalanceAccountIs
<1>3. /\ tool' \in [Tool -> ToolState] /\ tool'[t] = IdleTool
      /\ \A u \in Tool : tool'[u].fresh = FALSE
      /\ \A u \in Tool : u # t => /\ tool'[u].pc = tool[u].pc /\ tool'[u].batch = tool[u].batch
                                  /\ tool'[u].events = tool[u].events
  BY <1>1, <1>2, WrittenIs
<1>4. TypeOK'
  BY <1>2, <1>3 DEF IndInv, TypeOK, ToolState
<1>5. BookInv'
  <2>1. Orderly(book) /\ Len(book) <= lastId /\ \A i \in 1 .. Len(book) : book[i].id <= lastId
    BY DEF IndInv, BookInv
  <2>2. Sorted(book')
    BY <1>2, <2>1 DEF Orderly, Sorted, Same
  <2>3. Orderly(book')
    BY <1>1, <1>2, <2>1, <2>2 DEF Orderly, Same
  <2>4. \A i \in 1 .. Len(book') : book'[i].id <= lastId'
    BY <1>2, <2>1 DEF Same
  <2>5. QED
    BY <1>2, <2>1, <2>3, <2>4 DEF BookInv
<1>6. CopyInv'
  BY <1>2, <1>3, IdleToolIs DEF IndInv, CopyInv
<1>7. ClaimInv'
  BY <1>2, <1>3, IdleToolIs, RollbackAssumption DEF IndInv, ClaimInv
<1>8. SoundInv'
  <2> SUFFICES ASSUME NEW b \in Batch, plan[b].sound
               PROVE  /\ plan[b].state = "written"
                      /\ Agree(plan[b].events, book', Len(plan[b].events))
                      /\ Near(balance - Total(book), plan[b].current - Total(plan[b].events), 5)
    BY <1>2 DEF SoundInv
  <2>1. /\ plan[b].state = "written"
        /\ Agree(plan[b].events, book, Len(plan[b].events))
        /\ Near(balance - Total(book), plan[b].current - Total(plan[b].events), 5)
    BY DEF IndInv, SoundInv
  <2>2. Agree(plan[b].events, book', Len(plan[b].events))
    <3>1. PICK s, k : s = plan[b].events /\ k = Len(plan[b].events)
      OBVIOUS
    <3>2. k \in Nat /\ k <= Len(s) /\ k <= Len(book) /\ \A i \in 1 .. k : Same(s[i], book[i])
      BY <2>1, <3>1 DEF Agree
    <3>3. \A i \in 1 .. k : i \in 1 .. Len(book)
      BY <1>1, <3>2
    <3>4. \A i \in 1 .. k : Same(s[i], book'[i])
      BY <1>2, <3>2, <3>3 DEF Same
    <3>5. QED
      BY <1>2, <3>1, <3>2, <3>4 DEF Agree
  <2>3. QED
    BY <2>1, <2>2
<1>9. RepairedInv'
  BY <1>2 DEF IndInv, RepairedInv
<1>10. HandoverInv'
  BY <1>3 DEF HandoverInv
<1>11. QED
  BY <1>4, <1>5, <1>6, <1>7, <1>8, <1>9, <1>10 DEF IndInv

-----------------------------------------------------------------------------
(* The theorems *)

LEMMA StepKeeps ==
  ASSUME IndInv, [Next]_vars
  PROVE  IndInv'
<1>1. CASE LiveStep
  BY <1>1, LiveStepKeeps
<1>2. CASE \E t \in Tool : ToolStep(t)
  <2>1. PICK t \in Tool : ToolStep(t)
    BY <1>2
  <2>2. CASE \E b \in Batch : LoadEvents(t, b)
    BY <2>2, LoadEventsKeeps
  <2>3. CASE \E b \in Batch : LoadPlans(t, b)
    BY <2>3, LoadPlansKeeps
  <2>4. CASE PlanAccount(t)
    BY <2>4, PlanAccountKeeps
  <2>5. CASE ApplyAccount(t)
    BY <2>5, ApplyAccountKeeps
  <2>6. CASE LoadChain(t)
    BY <2>6, LoadChainKeeps
  <2>7. CASE RebalanceAccount(t)
    BY <2>7, RebalanceAccountKeeps
  <2>8. QED
    BY <2>1, <2>2, <2>3, <2>4, <2>5, <2>6, <2>7 DEF ToolStep
<1>3. CASE UNCHANGED vars
  BY <1>3 DEF vars, serverVars, IndInv, TypeOK, BookInv, CopyInv, ClaimInv, SoundInv,
              RepairedInv, HandoverInv
<1>4. QED
  BY <1>1, <1>2, <1>3 DEF Next

LEMMA Inductive == Spec => []IndInv
<1>1. IndInv /\ [Next]_vars => IndInv'
  BY StepKeeps
<1>2. QED
  BY <1>1, InitHolds, PTL DEF Spec

(* Neither the server nor a repair overdraws the wallet, and every record, plan
   and copy stays well formed (ApplyAccount, ProcessDeduction). *)
THEOREM TypeCorrect == Spec => []TypeOK
<1>1. IndInv => TypeOK
  BY DEF IndInv
<1>2. QED
  BY <1>1, Inductive, PTL

(* Once a sound plan has been applied, for the first time and with no other
   plan applied since it was made, the wallet stays near the sum of the records
   that are left (applyAccount and its drift check). *)
THEOREM RepairedNear == Spec => []RepairIsNear
<1>1. IndInv => RepairIsNear
  BY DEF IndInv, RepairedInv, RepairIsNear
<1>2. QED
  BY <1>1, Inductive, PTL

(* The books a repair leaves were never overdrawn, but for its rounding
   (planAccount's replay). *)
THEOREM RepairedSolvent == Spec => RepairIsSolvent
<1> DEFINE Step == \A t \in Tool :
                     book' # book /\ tool[t].events = book /\ ApplyAccount(t) =>
                       \A i \in DOMAIN book' : Totals(book')[i] >= 0 - 5 * MaxRecord
<1>1. ASSUME IndInv, [Next]_vars PROVE Step
  <2> SUFFICES ASSUME NEW t \in Tool, book' # book, tool[t].events = book, ApplyAccount(t),
                      NEW i \in DOMAIN book'
               PROVE  Totals(book')[i] >= 0 - 5 * MaxRecord
    OBVIOUS
  <2>1. /\ TypeOK /\ book \in Seq(Record) /\ Len(book) \in Nat /\ lastId \in Nat
        /\ lastId <= MaxRecord /\ MaxRecord \in Nat
    BY <1>1, Typed DEF IndInv
  <2>2. Orderly(book) /\ Len(book) <= lastId
    BY <1>1 DEF IndInv, BookInv
  <2>3. Applies(t)
    BY <2>1, ApplyAccountIs
  <2>4. PICK n : n = Len(book)
    OBVIOUS
  <2>5. n \in 0 .. n /\ n \in 0 .. Len(book) /\ Sorted(book) /\ book[1].type # "deduct"
    BY <2>1, <2>2, <2>4, FirstStays DEF Orderly
  <2>6. Agree(book, book, Len(book))
    BY <2>1 DEF Agree, Same
  <2>7. Reversed(book) = Unkept(book, n)
    BY <2>1, <2>4, <2>6, ReversedIs
  <2>8. book' = Left(book, Unkept(book, n))[n]
    BY <2>3, <2>4, <2>7 DEF Applies
  <2>9. Replays(book, Unkept(book, n), n)
    BY <2>1, <2>5, ReplayLeaves
  <2>10. \A m \in 1 .. Len(book') : Totals(book')[m] >= 0 - 5 * n
    BY <2>8, <2>9 DEF Replays
  <2>11. book' \in Seq(Record)
    BY <1>1, <2>3, AppliesBooks
  <2>12. i \in 1 .. Len(book') /\ i \in 0 .. Len(book')
    BY <2>11
  <2>13. Totals(book')[i] \in Int /\ Totals(book')[i] >= 0 - 5 * n
    BY <2>10, <2>11, <2>12, LoopsAt
  <2>14. QED
    BY <2>1, <2>2, <2>4, <2>13
<1>2. IndInv /\ [Next]_vars => [Step]_vars
  BY <1>1
<1>3. QED
  BY <1>2, Inductive, PTL DEF Spec, RepairIsSolvent

(* What rebalance writes is continuous and ends at the wallet
   (rebalanceAccount), though it was computed from an earlier reading. *)
THEOREM RebalancedContinuous == Spec => RebalanceIsContinuous
<1> DEFINE slack == 5 * MaxRecord + 15
           Step == \A t \in Tool :
                     repaired /\ tool[t].fresh /\ RebalanceAccount(t) =>
                       /\ Near(Last(book').after, balance, 5 * MaxRecord + 15)
                       /\ \A i \in 2 .. Len(book') :
                            Near(book'[i].before, book'[i - 1].after, 5 * MaxRecord + 15)
<1>1. ASSUME IndInv, [Next]_vars PROVE Step
  <2> SUFFICES ASSUME NEW t \in Tool, repaired, tool[t].fresh, RebalanceAccount(t)
               PROVE  /\ Near(Last(book').after, balance, slack)
                      /\ \A i \in 2 .. Len(book') : Near(book'[i].before, book'[i - 1].after, slack)
    OBVIOUS
  <2> DEFINE events == tool[t].events
             k == Len(events)
             n == Len(book)
             c == Chain(events)
  <2>1. /\ TypeOK /\ book \in Seq(Record) /\ n \in Nat /\ lastId \in Nat /\ balance \in Nat
        /\ lastId <= MaxRecord /\ MaxRecord \in Nat /\ events \in Seq(Record) /\ k \in Nat
    BY <1>1, Typed DEF IndInv
  <2>2. /\ book' \in Seq(Record) /\ Len(book') = n /\ tool[t].pc = "rebalance"
        /\ \A j \in 1 .. n : book'[j] = Corrected(events, book[j])
    BY <2>1, RebalanceAccountIs
  <2>3. Orderly(events) /\ Orderly(book) /\ n <= MaxRecord /\ n > 0 /\ k > 0
    BY <1>1, <2>1, <2>2 DEF IndInv, CopyInv, BookInv, Orderly
  <2>4. /\ k <= n /\ \A j \in 1 .. k : book[j] = events[j]
        /\ k < n => Near(book[k + 1].before, c[k], 5 * (k - 1) + 15) /\ book[n].after = balance
        /\ \A j \in k + 2 .. n : book[j].before = book[j - 1].after
    <3>1. Handover(events, book, balance)
      BY <1>1, <2>2 DEF IndInv, HandoverInv
    <3>2. QED
      BY <3>1 DEF Handover, Shown
  <2>5. Near(balance, Chain(book)[n], 5 * (n - 1) + 15)
    BY <1>1 DEF IndInv, RepairedInv, Shown
  <2> HIDE DEF events, k, n
  <2>6. \A j \in 0 .. k : c[j] \in Int
    BY <2>1, LoopsAt DEF k
  <2> HIDE DEF c
  <2>7. \A j \in 1 .. n : book[j] \in Record /\ book'[j] \in Record
    BY <2>1, <2>2 DEF n
  <2>8. \A j \in 1 .. n : /\ book[j].before \in Int /\ book[j].after \in Int
                          /\ book'[j].before \in Int /\ book'[j].after \in Int
    BY <2>7 DEF Record
  <2>9. ASSUME NEW j \in 1 .. k
        PROVE  Near(book'[j].before, c[j - 1], 1) /\ Near(book'[j].after, c[j], 1)
    <3>1. j \in 1 .. n /\ j \in 0 .. k /\ j - 1 \in 0 .. k /\ book[j] = events[j]
      BY <2>1, <2>4
    <3>2. book'[j] = Corrected(events, book[j]) /\ book[j] \in Record
      BY <2>2, <2>7, <3>1
    <3>3. c[j] \in Int /\ c[j - 1] \in Int
      BY <2>6, <3>1
    <3>4. CASE book'[j] = book[j] /\ ~Rewritten(events, book[j], j)
      <4>1. ~Off(book'[j].before, c[j - 1]) /\ ~Off(book'[j].after, c[j])
        BY <3>1, <3>4 DEF Rewritten, c
      <4>2. QED
        BY <2>8, <3>1, <3>3, <4>1 DEF Off, Near
    <3>5. CASE \E i \in 1 .. k : /\ events[i].id = book[j].id
                                 /\ book'[j].before = c[i - 1] /\ book'[j].after = c[i]
      <4>1. PICK i \in 1 .. k : /\ events[i].id = book[j].id
                                /\ book'[j].before = c[i - 1] /\ book'[j].after = c[i]
        BY <3>5
      <4>2. events[i] \in Record /\ events[j] \in Record
        BY <2>1 DEF k
      <4>3. events[i].id \in Nat /\ events[i].id = events[j].id
        BY <3>1, <4>1, <4>2, RecordFields
      <4>4. ~(i < j) /\ ~(j < i)
        BY <2>3, <4>3 DEF Orderly, Sorted, k
      <4>5. i = j
        BY <2>1, <4>4
      <4>6. QED
        BY <3>3, <4>1, <4>5 DEF Near
    <3>6. QED
      BY <2>1, <3>2, <3>4, <3>5, CorrectedIs DEF c, k
  <2>10. ASSUME NEW j \in k + 1 .. n PROVE book'[j] = book[j]
    <3>1. j \in 1 .. n /\ book[j] \in Record
      BY <2>1, <2>7
    <3>2. \A i \in 1 .. k : events[i].id # book[j].id
      <4> SUFFICES ASSUME NEW i \in 1 .. k PROVE events[i].id # book[j].id
        OBVIOUS
      <4>1. i \in 1 .. n /\ i < j /\ events[i] = book[i] /\ book[i] \in Record
        BY <2>1, <2>4, <2>7
      <4>2. book[i].id < book[j].id /\ book[i].id \in Nat /\ book[j].id \in Nat
        BY <2>3, <3>1, <4>1, RecordFields DEF Orderly, Sorted, n
      <4>3. QED
        BY <4>1, <4>2
    <3>3. QED
      BY <2>1, <2>2, <3>1, <3>2, CorrectedIs DEF k
  <2>11. slack \in Int /\ slack >= 2 /\ 5 * (n - 1) + 16 <= slack /\ 5 * (k - 1) + 16 <= slack
    BY <2>1, <2>3, <2>4
  <2> HIDE DEF slack
  <2>12. Near(book'[n].after, balance, slack)
    <3>1. CASE k = n
      <4>1. Agree(events, book, n)
        BY <2>1, <2>4, <3>1 DEF Agree, Same, n, k
      <4>2. n \in 0 .. n /\ n \in 1 .. k /\ n \in 0 .. k /\ n \in 1 .. n
        BY <2>1, <2>3, <3>1
      <4>3. c[n] = Chain(book)[n]
        BY <2>1, <4>1, <4>2, SameLoops DEF c
      <4>4. PICK x, y : x = book'[n].after /\ y = c[n]
        OBVIOUS
      <4>5. Near(x, y, 1) /\ Near(balance, y, 5 * (n - 1) + 15) /\ x \in Int /\ y \in Int
        BY <2>5, <2>6, <2>8, <2>9, <4>2, <4>3, <4>4
      <4>6. PICK d, e : d = 1 /\ e = 5 * (n - 1) + 15
        OBVIOUS
      <4>7. d \in Int /\ e \in Int /\ d + e <= slack
        BY <2>1, <2>11, <4>6
      <4>8. balance \in Int
        BY <2>1
      <4>9. Near(x, y, d) /\ Near(balance, y, e)
        BY <4>5, <4>6
      <4>10. QED
        BY <2>11, <4>4, <4>5, <4>7, <4>8, <4>9, NearChain
    <3>2. CASE k < n
      <4>1. n \in k + 1 .. n
        BY <2>1, <3>2
      <4>2. book'[n].after = balance
        BY <2>4, <2>10, <3>2, <4>1
      <4>3. QED
        BY <2>1, <2>11, <4>2 DEF Near
    <3>3. QED
      BY <2>1, <2>4, <3>1, <3>2
  <2>13. ASSUME NEW i \in 2 .. n PROVE Near(book'[i].before, book'[i - 1].after, slack)
    <3>0. i \in 1 .. n /\ i - 1 \in 1 .. n
      BY <2>1
    <3>1. PICK x, y : x = book'[i].before /\ y = book'[i - 1].after
      OBVIOUS
    <3>2. x \in Int /\ y \in Int
      BY <2>8, <3>0, <3>1
    <3>3. CASE i <= k
      <4>1. i \in 1 .. k /\ i - 1 \in 1 .. k /\ i - 1 \in 0 .. k
        BY <2>1, <3>3
      <4>2. PICK z : z = c[i - 1]
        OBVIOUS
      <4>3. Near(x, z, 1) /\ Near(y, z, 1) /\ z \in Int
        BY <2>6, <2>9, <3>1, <4>1, <4>2
      <4>4. QED
        BY <2>11, <3>1, <3>2, <4>3 DEF Near
    <3>4. CASE i = k + 1
      <4>1. k \in 1 .. k /\ k \in 0 .. k /\ k < n /\ i - 1 = k /\ i \in k + 1 .. n
        BY <2>1, <2>3, <3>4
      <4>2. PICK z : z = c[k]
        OBVIOUS
      <4>3. Near(y, z, 1) /\ z \in Int
        BY <2>6, <2>9, <3>1, <4>1, <4>2
      <4>4. book'[i] = book[k + 1]
        BY <2>10, <3>4, <4>1
      <4>5. Near(x, z, 5 * (k - 1) + 15)
        BY <2>4, <3>1, <4>1, <4>2, <4>4
      <4>6. PICK d, e : d = 1 /\ e = 5 * (k - 1) + 15
        OBVIOUS
      <4>7. d \in Int /\ e \in Int /\ d + e <= slack
        BY <2>1, <2>11, <4>6
      <4>8. Near(y, z, d) /\ Near(x, z, e)
        BY <4>3, <4>5, <4>6
      <4>9. Near(x, y, slack)
        BY <2>11, <3>2, <4>3, <4>7, <4>8, NearChain
      <4>10. QED
        BY <3>1, <4>9
    <3>5. CASE i > k + 1
      <4>1. i \in k + 2 .. n /\ i \in k + 1 .. n /\ i - 1 \in k + 1 .. n
        BY <2>1, <3>5
      <4>2. x = y
        BY <2>4, <2>10, <3>1, <4>1
      <4>3. QED
        BY <2>11, <3>1, <3>2, <4>2 DEF Near
    <3>6. QED
      BY <2>1, <3>3, <3>4, <3>5
  <2>14. Last(book') = book'[n]
    BY <2>2 DEF Last
  <2>15. QED
    BY <2>2, <2>12, <2>13, <2>14
<1>2. IndInv /\ [Next]_vars => [Step]_vars
  BY <1>1
<1>3. QED
  BY <1>2, Inductive, PTL DEF Spec, RebalanceIsContinuous
=============================================================================
