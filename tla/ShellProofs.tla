---------------------------- MODULE ShellProofs -----------------------------
(***************************************************************************)
(* The shell's buffer, for every size of it: the line in it is the one the  *)
(* user sees, only a line that fills it reaches the bytes around it, the    *)
(* arguments of a command are the words of its line, and argv is overrun    *)
(* only by a line more than twice as long.                                  *)
(***************************************************************************)
EXTENDS Shell, FiniteSetTheorems, WellFoundedInduction, TLAPS

Printable == Letters \cup {Space}

(* The line has no NUL in it, so that shell_command stops where it ends.    *)
LineTyped == \A k \in 0..Cursor - 1 : memory[k] \in Printable
Measured == longest \in Nat /\ Cursor <= longest

Inv == TypeOK /\ LineTyped /\ Measured /\ ArgsAreWords /\ ShellSurvives

LEMMA PrintableIsNotNul == Nul \notin Printable /\ Nul \notin 32..126
  BY ShellSizes DEF Printable, Nul, Space

(* Strings stop at the NUL after the line.                                  *)
LEMMA EndOfLine ==
  ASSUME NEW m, NEW c \in 0..MaxLine, m[c] = Nul, \A k \in 0..c - 1 : m[k] # Nul
  PROVE  EndOf(m, 0) = c
<1> DEFINE Stops(e) == m[e] = Nul /\ \A k \in 0..e - 1 : m[k] # Nul
<1>1. Stops(c)
    OBVIOUS
<1>2. ASSUME NEW e \in 0..MaxLine, Stops(e) PROVE e = c
    BY <1>2, ShellSizes
<1>3. EndOf(m, 0) = CHOOSE e \in 0..MaxLine : Stops(e)
    BY DEF EndOf
<1> QED
    BY <1>1, <1>2, <1>3

(* The line as a sequence.                                                  *)
LEMMA TextIsSequence ==
  ASSUME TypeOK
  PROVE  text \in Seq(Letters \cup {Space, Nul}) /\ Len(text) = Cursor
<1>1. \A k \in 1..Cursor : memory[k - 1] \in Letters \cup {Space, Nul}
    BY ShellSizes DEF TypeOK, Bytes
<1>2. Cursor \in Nat /\ text \in [1..Cursor -> Letters \cup {Space, Nul}]
    BY <1>1, ShellSizes DEF TypeOK
<1> QED
    BY <1>2

-----------------------------------------------------------------------------
(* A set of naturals has a least element.                                   *)
LEMMA LeastNumber ==
  ASSUME NEW T \in SUBSET Nat, T # {}
  PROVE  \E m \in T : \A k \in T : m <= k
<1> DEFINE R == {ss \in Nat \X Nat : ss[1] < ss[2]}
<1>1. IsWellFoundedOn(R, Nat)
    BY NatLessThanWellFounded DEF OpToRel
<1> HIDE DEF R
<1>2. PICK m \in T : \A k \in T : ~(<<k, m>> \in R)
    BY <1>1, WFMin, Zenon
<1>3. ASSUME NEW k \in T PROVE m <= k
  <2>1. <<k, m>> \in Nat \X Nat /\ ~(<<k, m>> \in R)
      BY <1>2
  <2>2. ~(k < m)
      BY <2>1 DEF R
  <2> QED
      BY <2>1, <2>2
<1> QED
    BY <1>3

(* Ascending numbers the elements of a finite set: each has a rank of its   *)
(* own, and each rank below the size an element.                            *)
Less(S, s) == {r \in S : r < s}
Rank(S, s) == Cardinality(Less(S, s))

LEMMA RankIncreases ==
  ASSUME NEW S \in SUBSET Int, IsFiniteSet(S), NEW s \in S
  PROVE  /\ Rank(S, s) \in 0..Cardinality(S) - 1
         /\ \A t \in S : t < s => Rank(S, t) < Rank(S, s)
<1>1. Cardinality(S) \in Nat
    BY FS_CardinalityType
<1>2. IsFiniteSet(Less(S, s)) /\ Rank(S, s) \in Nat
  <2>1. Less(S, s) \in SUBSET S
      BY DEF Less
  <2> QED
      BY <2>1, FS_Subset, FS_CardinalityType DEF Rank
<1>3. Rank(S, s) < Cardinality(S)
  <2>1. Less(S, s) \in SUBSET S /\ s \notin Less(S, s)
      BY DEF Less
  <2>2. Rank(S, s) <= Cardinality(S) /\ (Cardinality(S) = Rank(S, s) => S = Less(S, s))
      BY <2>1, FS_Subset, Zenon DEF Rank
  <2> QED
      BY <1>1, <1>2, <2>1, <2>2
<1>4. ASSUME NEW t \in S, t < s PROVE Rank(S, t) < Rank(S, s)
  <2>1. Less(S, t) \in SUBSET Less(S, s) /\ t \in Less(S, s) /\ t \notin Less(S, t)
    <3>1. t \in Int /\ s \in Int /\ \A r \in S : r \in Int
        OBVIOUS
    <3>2. \A r \in S : r < t => r < s
        BY <1>4, <3>1
    <3>3. t < s /\ ~(t < t)
        BY <1>4, <3>1
    <3> QED
        BY <3>2, <3>3 DEF Less
  <2>2. Rank(S, t) <= Rank(S, s) /\ (Rank(S, s) = Rank(S, t) => Less(S, s) = Less(S, t))
      BY <1>2, <2>1, FS_Subset, Zenon DEF Rank
  <2>3. Rank(S, t) \in Nat
      BY <1>2, <2>1, FS_Subset, FS_CardinalityType DEF Rank
  <2> QED
      BY <1>2, <2>1, <2>2, <2>3
<1> QED
    BY <1>1, <1>2, <1>3, <1>4

LEMMA RankFound ==
  ASSUME NEW S \in SUBSET Int, IsFiniteSet(S), NEW n \in 0..Cardinality(S) - 1
  PROVE  \E s \in S : Rank(S, s) = n /\ \A t \in S : Rank(S, t) = n => t = s
<1> DEFINE f == [s \in S |-> Rank(S, s)]
           D == 0..Cardinality(S) - 1
<1>1. Cardinality(S) \in Nat
    BY FS_CardinalityType
<1>2. IsFiniteSet(D) /\ Cardinality(D) = Cardinality(S)
    BY <1>1, FS_Interval
<1>3. ASSUME NEW s \in S, NEW t \in S, Rank(S, s) = Rank(S, t) PROVE s = t
  <2>1. /\ Rank(S, s) \in Int /\ (t < s => Rank(S, t) < Rank(S, s))
        /\ (s < t => Rank(S, s) < Rank(S, t))
      BY RankIncreases
  <2>2. s \in Int /\ t \in Int
      OBVIOUS
  <2> QED
      BY <1>3, <2>1, <2>2
<1>4. f \in Injection(S, D)
  <2>1. f \in [S -> D] /\ \A s \in S : f[s] = Rank(S, s)
      BY RankIncreases
  <2>2. \A s, t \in S : f[s] = f[t] => s = t
      BY <1>3, <2>1
  <2> HIDE DEF f, D
  <2> QED
      BY <2>1, <2>2 DEF Injection, IsInjective
<1> HIDE DEF f, D
<1>5. f \in Surjection(S, D)
    BY <1>2, <1>4, FS_Injection
<1>6. PICK s \in S : f[s] = n
    BY <1>5 DEF Surjection, D
<1> QED
    BY <1>3, <1>6 DEF f

LEMMA AscendingRanks ==
  ASSUME NEW S \in SUBSET Int, IsFiniteSet(S), NEW k \in 1..Cardinality(S)
  PROVE  /\ Ascending(S)[k] \in S
         /\ \A s \in S : Rank(S, s) = k - 1 <=> s = Ascending(S)[k]
<1>1. Cardinality(S) \in Nat
    BY FS_CardinalityType
<1>2. k - 1 \in 0..Cardinality(S) - 1
    BY <1>1
<1>3. PICK s \in S : Rank(S, s) = k - 1 /\ \A t \in S : Rank(S, t) = k - 1 => t = s
    BY <1>2, RankFound
<1>4. Ascending(S)[k] = CHOOSE t \in S : Rank(S, t) = k - 1
    BY DEF Ascending, Rank, Less
<1> QED
    BY <1>3, <1>4

(* The same elements one further on.                                        *)
LEMMA AscendingShifts ==
  ASSUME NEW S \in SUBSET Int, IsFiniteSet(S), NEW F, F = {i + 1 : i \in S}
  PROVE  /\ IsFiniteSet(F) /\ Cardinality(F) = Cardinality(S)
         /\ \A k \in 1..Cardinality(S) : Ascending(F)[k] = Ascending(S)[k] + 1
<1>1. ASSUME NEW A \in SUBSET S, NEW B, B = {i + 1 : i \in A}
      PROVE  IsFiniteSet(B) /\ Cardinality(B) = Cardinality(A)
  <2> DEFINE g == [i \in A |-> i + 1]
  <2>1. g \in [A -> B] /\ \A i \in A : g[i] = i + 1 /\ i \in Int
      BY <1>1
  <2>2. \A i, j \in A : g[i] = g[j] => i = j
      BY <2>1
  <2>3. \A b \in B : \E i \in A : g[i] = b
      BY <1>1
  <2> HIDE DEF g
  <2>4. g \in Bijection(A, B)
      BY <2>1, <2>2, <2>3 DEF Bijection, Injection, IsInjective, Surjection
  <2>5. ExistsBijection(A, B)
      BY <2>4 DEF ExistsBijection
  <2> QED
      BY <2>5, FS_Bijection, FS_Subset
<1>2. IsFiniteSet(F) /\ Cardinality(F) = Cardinality(S)
    BY <1>1
<1>3. F \in SUBSET Int
    OBVIOUS
<1>4. ASSUME NEW s \in S PROVE s + 1 \in F /\ Rank(F, s + 1) = Rank(S, s)
  <2>1. Less(F, s + 1) = {i + 1 : i \in Less(S, s)} /\ Less(S, s) \in SUBSET S
      BY DEF Less
  <2> QED
      BY <1>1, <2>1 DEF Rank
<1>5. ASSUME NEW k \in 1..Cardinality(S) PROVE Ascending(F)[k] = Ascending(S)[k] + 1
  <2> DEFINE s == Ascending(S)[k]
  <2>1. s \in S /\ Rank(S, s) = k - 1
      BY AscendingRanks
  <2> HIDE DEF s
  <2>2. s + 1 \in F /\ Rank(F, s + 1) = k - 1
      BY <1>4, <2>1
  <2>3. s + 1 = Ascending(F)[k]
      BY <1>2, <1>3, <2>2, AscendingRanks
  <2> QED
      BY <2>3 DEF s
<1> QED
    BY <1>2, <1>5

-----------------------------------------------------------------------------
(* The line as shell_command finds it: N characters, none of them a NUL,    *)
(* with a NUL after them; s is the same line as the user typed it.          *)
Entered(m, N, s) ==
  /\ N \in 0..MaxLine /\ m \in [Bytes -> Letters \cup {Space, Nul}]
  /\ m[N] = Nul /\ EndOf(m, 0) = N
  /\ \A k \in 0..N - 1 : m[k] # Nul
  /\ s \in Seq(Letters \cup {Space, Nul}) /\ Len(s) = N
  /\ \A k \in 1..N : s[k] = m[k - 1]

FirstOfRuns(s) == {a \in DOMAIN s : \E b \in a..Len(s) : IsRun(s, a, b)}

LEMMA RunEndsOnce ==
  ASSUME NEW s, Len(s) \in Nat, NEW a \in Nat, NEW b \in a..Len(s), NEW d \in a..Len(s),
         IsRun(s, a, b), IsRun(s, a, d)
  PROVE  b = d
<1>1. b \in Int /\ d \in Int
    OBVIOUS
<1>2. CASE b < d
  <2>1. b + 1 \in a..d /\ b # Len(s)
      BY <1>1, <1>2
  <2> QED
      BY <2>1 DEF IsRun
<1>3. CASE d < b
  <2>1. d + 1 \in a..b /\ d # Len(s)
      BY <1>1, <1>3
  <2> QED
      BY <2>1 DEF IsRun
<1> QED
    BY <1>1, <1>2, <1>3

(* Every start of an argument begins a run of the line: it ends before the  *)
(* next space, or with the line.                                            *)
LEMMA StartBeginsRun ==
  ASSUME NEW m, NEW N, NEW s, Entered(m, N, s), NEW i \in Starts(m)
  PROVE  \E b \in i + 1..N : IsRun(s, i + 1, b)
<1>1. /\ i \in 0..N - 1 /\ N \in Nat /\ m[i] # Space /\ (i = 0 \/ m[i - 1] = Space)
      /\ Len(s) = N /\ \A k \in 1..N : s[k] = m[k - 1]
    BY ShellSizes DEF Entered, Starts
<1> DEFINE T == {e \in i + 1..N : e = N \/ m[e] = Space}
<1>2. N \in T /\ T \in SUBSET Nat
    BY <1>1
<1>3. PICK b \in T : \A k \in T : b <= k
    BY <1>2, LeastNumber
<1>4. b \in i + 1..N /\ b \in Int
    BY <1>1, <1>3
<1>5. ASSUME NEW k \in i + 1..b PROVE s[k] # Space
  <2>1. k \in 1..N /\ s[k] = m[k - 1]
      BY <1>1, <1>4
  <2>2. CASE k = i + 1
      BY <1>1, <2>1, <2>2
  <2>3. CASE k # i + 1
    <3>1. k - 1 \in i + 1..N /\ k - 1 < b /\ ~(b <= k - 1)
        BY <1>1, <1>4, <2>3
    <3> QED
        BY <1>3, <2>1, <3>1
  <2> QED
      BY <2>2, <2>3
<1>6. i + 1 = 1 \/ s[(i + 1) - 1] = Space
    BY <1>1
<1>7. b = Len(s) \/ s[b + 1] = Space
    BY <1>1, <1>3, <1>4
<1>8. IsRun(s, i + 1, b)
    BY <1>5, <1>6, <1>7 DEF IsRun
<1> QED
    BY <1>4, <1>8

LEMMA RunsStartAtStarts ==
  ASSUME NEW m, NEW N, NEW s, Entered(m, N, s)
  PROVE  FirstOfRuns(s) = {i + 1 : i \in Starts(m)}
<1>1. /\ N \in Nat /\ Len(s) = N /\ DOMAIN s = 1..N /\ EndOf(m, 0) = N
      /\ \A k \in 1..N : s[k] = m[k - 1]
    BY ShellSizes DEF Entered
<1>2. ASSUME NEW i \in Starts(m) PROVE i + 1 \in FirstOfRuns(s)
  <2>1. i + 1 \in 1..N
      BY <1>1 DEF Starts
  <2> QED
      BY <1>1, <2>1, StartBeginsRun DEF FirstOfRuns
<1>3. ASSUME NEW a \in FirstOfRuns(s) PROVE \E i \in Starts(m) : a = i + 1
  <2>1. PICK b \in a..N : IsRun(s, a, b)
      BY <1>1 DEF FirstOfRuns
  <2>2. a \in 1..N
      BY <1>1 DEF FirstOfRuns
  <2>3. s[a] # Space /\ (a = 1 \/ s[a - 1] = Space)
      BY <2>1, <2>2 DEF IsRun
  <2>4. a - 1 \in 0..N - 1 /\ m[a - 1] # Space
      BY <1>1, <2>2, <2>3
  <2>5. a - 1 = 0 \/ m[a - 1 - 1] = Space
      BY <1>1, <2>2, <2>3
  <2>6. a - 1 \in Starts(m) /\ a = a - 1 + 1
      BY <1>1, <2>2, <2>4, <2>5 DEF Starts
  <2> QED
      BY <2>6
<1> QED
    BY <1>2, <1>3

(* After Split the string at the start of a run is that run.                *)
LEMMA StringIsRun ==
  ASSUME NEW m, NEW N, NEW s, Entered(m, N, s), NEW i \in 0..N - 1,
         NEW b \in i + 1..N, IsRun(s, i + 1, b)
  PROVE  StringAt(Split(m), i) = SubSeq(s, i + 1, b)
<1>1. /\ N \in Nat /\ N <= MaxLine /\ MaxLine \in Nat /\ Len(s) = N /\ EndOf(m, 0) = N
      /\ m[N] = Nul /\ i \in Nat /\ b \in Nat
      /\ s \in Seq(Letters \cup {Space, Nul})
      /\ \A k \in 1..N : s[k] = m[k - 1]
      /\ \A k \in 0..N - 1 : m[k] # Nul
    BY ShellSizes DEF Entered
<1> DEFINE n == Split(m)
<1>2. \A k \in 0..N : n[k] = IF k < N /\ m[k] = Space THEN Nul ELSE m[k]
    BY <1>1 DEF Split, Bytes
<1> HIDE DEF n
<1>3. ASSUME NEW k \in i..b - 1 PROVE n[k] = s[k + 1] /\ n[k] # Nul
  <2>1. k \in 0..N - 1 /\ k + 1 \in i + 1..b /\ k + 1 \in 1..N /\ k + 1 - 1 = k
      BY <1>1
  <2>2. s[k + 1] # Space /\ s[k + 1] = m[k]
      BY <1>1, <2>1 DEF IsRun
  <2> QED
      BY <1>1, <1>2, <2>1, <2>2
<1>4. n[b] = Nul
  <2>1. CASE b = N
      BY <1>1, <1>2, <2>1
  <2>2. CASE b # N
    <3>1. b + 1 \in 1..N /\ b + 1 - 1 = b /\ b < N /\ b \in 0..N
        BY <1>1, <2>2
    <3>2. s[b + 1] = Space
        BY <1>1, <2>2 DEF IsRun
    <3> QED
        BY <1>1, <1>2, <3>1, <3>2, SMTT(60)
  <2> QED
      BY <2>1, <2>2
<1>5. EndOf(n, i) = b
  <2> DEFINE Stops(e) == n[e] = Nul /\ \A k \in i..e - 1 : n[k] # Nul
  <2>1. b \in i..MaxLine /\ Stops(b)
      BY <1>1, <1>3, <1>4
  <2>2. ASSUME NEW e \in i..MaxLine, Stops(e) PROVE e = b
    <3>1. ~(e < b)
        BY <1>1, <1>3, <2>2
    <3>2. ~(b < e)
        BY <1>1, <1>4, <2>2
    <3> QED
        BY <1>1, <3>1, <3>2
  <2>3. EndOf(n, i) = CHOOSE e \in i..MaxLine : Stops(e)
      BY DEF EndOf
  <2> QED
      BY <2>1, <2>2, <2>3
<1>6. StringAt(n, i) = [k \in 1..b - i |-> n[i + k - 1]]
    BY <1>5 DEF StringAt
<1>7. SubSeq(s, i + 1, b) = [k \in 1..b - i |-> s[i + k]]
    BY <1>1
<1>8. \A k \in 1..b - i : n[i + k - 1] = s[i + k]
  <2> TAKE k \in 1..b - i
  <2>1. i + k - 1 \in i..b - 1 /\ i + k - 1 + 1 = i + k
      BY <1>1
  <2> QED
      BY <1>3, <2>1
<1> QED
    BY <1>6, <1>7, <1>8 DEF n

(* The strings shell_command prints are the words of the line.              *)
LEMMA StringsAreWords ==
  ASSUME NEW m, NEW N, NEW s, Entered(m, N, s)
  PROVE  [k \in DOMAIN Ascending(Starts(m)) |-> StringAt(Split(m), Ascending(Starts(m))[k])]
           = Words(s)
<1> DEFINE S == Starts(m)
           F == FirstOfRuns(s)
           count == Cardinality(S)
<1>1. N \in Nat /\ Len(s) = N /\ EndOf(m, 0) = N
    BY ShellSizes DEF Entered
<1>2. S \in SUBSET (0..N - 1)
    BY <1>1 DEF Starts
<1>3. IsFiniteSet(S) /\ S \in SUBSET Int
  <2>1. IsFiniteSet(0..N - 1) /\ 0..N - 1 \in SUBSET Int
      BY <1>1, FS_Interval
  <2>2. IsFiniteSet(S)
      BY <1>2, <2>1, FS_Subset
  <2> QED
      BY <1>2, <2>1, <2>2, Zenon
<1>4. F = {i + 1 : i \in S}
    BY RunsStartAtStarts
<1> HIDE DEF S, F
<1>5. Cardinality(F) = count /\ \A k \in 1..count : Ascending(F)[k] = Ascending(S)[k] + 1
    BY <1>3, <1>4, AscendingShifts
<1>6. DOMAIN Ascending(S) = 1..count /\ DOMAIN Ascending(F) = 1..count
    BY <1>5 DEF Ascending
<1> DEFINE End(a) == CHOOSE b \in a..Len(s) : IsRun(s, a, b)
<1>7. ASSUME NEW k \in 1..count
      PROVE  StringAt(Split(m), Ascending(S)[k])
               = SubSeq(s, Ascending(F)[k], End(Ascending(F)[k]))
  <2> DEFINE i == Ascending(S)[k]
  <2>1. i \in S /\ Ascending(F)[k] = i + 1
      BY <1>3, <1>5, AscendingRanks
  <2> HIDE DEF i
  <2>2. i \in 0..N - 1 /\ i + 1 \in Nat
      BY <1>2, <2>1
  <2>3. PICK b \in i + 1..N : IsRun(s, i + 1, b)
      BY <2>1, StartBeginsRun DEF S
  <2>4. End(i + 1) = b
      BY <1>1, <2>2, <2>3, RunEndsOnce
  <2>5. StringAt(Split(m), i) = SubSeq(s, i + 1, b)
      BY <2>2, <2>3, StringIsRun
  <2> QED
      BY <2>1, <2>4, <2>5 DEF i
<1>8. Words(s) = [n \in DOMAIN Ascending(F) |->
                    SubSeq(s, Ascending(F)[n], End(Ascending(F)[n]))]
    BY DEF Words, F, FirstOfRuns
<1>9. [k \in DOMAIN Ascending(S) |-> StringAt(Split(m), Ascending(S)[k])] = Words(s)
    BY <1>6, <1>7, <1>8
<1> QED
    BY <1>9 DEF S

(* Between two arguments lies a space, so that a line has at most half as   *)
(* many arguments as characters, rounded up.                                *)
LEMMA FewStarts ==
  ASSUME NEW m, NEW N, NEW s, Entered(m, N, s)
  PROVE  /\ Cardinality(Starts(m)) \in Nat
         /\ Len(Ascending(Starts(m))) = Cardinality(Starts(m))
         /\ 2 * Cardinality(Starts(m)) <= N + 1
<1> DEFINE S == Starts(m)
           F == {i + 1 : i \in S}
<1>1. N \in Nat /\ EndOf(m, 0) = N
    BY ShellSizes DEF Entered
<1>2. S \in SUBSET (0..N - 1)
    BY <1>1 DEF Starts
<1>3. IsFiniteSet(S) /\ S \in SUBSET Int /\ IsFiniteSet(0..N) /\ Cardinality(0..N) = N + 1
  <2>1. /\ IsFiniteSet(0..N - 1) /\ 0..N - 1 \in SUBSET Int
        /\ IsFiniteSet(0..N) /\ Cardinality(0..N) = N + 1
      BY <1>1, FS_Interval
  <2>2. IsFiniteSet(S)
      BY <1>2, <2>1, FS_Subset
  <2> QED
      BY <1>2, <2>1, <2>2, Zenon
<1>4. S \cap F = {}
  <2> SUFFICES ASSUME NEW i \in S, i + 1 \in S PROVE FALSE
      OBVIOUS
  <2>1. i \in 0..N - 1 /\ i + 1 # 0 /\ i + 1 - 1 = i
      BY <1>2
  <2> QED
      BY <2>1 DEF Starts
<1>5. S \cup F \in SUBSET (0..N)
    BY <1>1, <1>2
<1> HIDE DEF S
<1>6. IsFiniteSet(F) /\ Cardinality(F) = Cardinality(S)
    BY <1>3, AscendingShifts, Zenon
<1>7. Cardinality(S) \in Nat
    BY <1>3, FS_CardinalityType
<1> HIDE DEF F
<1>8. Cardinality(S \cup F) = Cardinality(S) + Cardinality(F)
  <2>1. Cardinality(S \cap F) = 0
      BY <1>4, FS_EmptySet
  <2>2. Cardinality(S \cup F) = Cardinality(S) + Cardinality(F) - Cardinality(S \cap F)
      BY <1>3, <1>6, FS_Union
  <2> QED
      BY <1>6, <1>7, <2>1, <2>2
<1>9. Cardinality(S \cup F) <= Cardinality(0..N)
    BY <1>3, <1>5, FS_Subset
<1>10. Len(Ascending(S)) = Cardinality(S)
    BY <1>7 DEF Ascending
<1> QED
    BY <1>3, <1>6, <1>7, <1>8, <1>9, <1>10 DEF S

(* An argument is a sequence of letters, and there are no more of them than *)
(* characters.                                                              *)
LEMMA ArgumentsAreLetters ==
  ASSUME NEW m, NEW N, NEW s, Entered(m, N, s), NEW p,
         p = [k \in DOMAIN Ascending(Starts(m)) |-> StringAt(Split(m), Ascending(Starts(m))[k])]
  PROVE  p \in Seq(Seq(Letters)) /\ Len(p) <= MaxLine
<1> DEFINE S == Starts(m)
           count == Cardinality(S)
<1>1. /\ N \in Nat /\ N <= MaxLine /\ MaxLine \in Nat /\ Len(s) = N /\ EndOf(m, 0) = N
      /\ s \in Seq(Letters \cup {Space, Nul}) /\ \A k \in 1..N : s[k] = m[k - 1] /\ m[k - 1] # Nul
    BY ShellSizes DEF Entered
<1>2. S \subseteq 0..N - 1 /\ S \subseteq Int /\ IsFiniteSet(S)
  <2>1. S \subseteq 0..N - 1
      BY <1>1 DEF Starts
  <2>2. IsFiniteSet(0..N - 1)
      BY <1>1, FS_Interval
  <2>3. 0..N - 1 \subseteq Int
      BY <1>1
  <2>4. IsFiniteSet(S)
      BY <2>1, <2>2, FS_Subset, Zenon
  <2> QED
      BY <2>1, <2>3, <2>4
<1>3. count \in Nat /\ 2 * count <= N + 1 /\ DOMAIN Ascending(S) = 1..count
    BY FewStarts, Zenon DEF Ascending
<1>4. ASSUME NEW k \in 1..count PROVE StringAt(Split(m), Ascending(S)[k]) \in Seq(Letters)
  <2> DEFINE i == Ascending(S)[k]
  <2>1. i \in S
      BY <1>2, AscendingRanks
  <2> HIDE DEF i
  <2>2. PICK b \in i + 1..N : IsRun(s, i + 1, b)
      BY <2>1, StartBeginsRun
  <2>3. i \in 0..N - 1
      BY <1>2, <2>1
  <2>4. StringAt(Split(m), i) = SubSeq(s, i + 1, b)
      BY <2>2, <2>3, StringIsRun
  <2>5. \A j \in i + 1..b : s[j] \in Letters
    <3> SUFFICES ASSUME NEW j \in i + 1..b PROVE s[j] \in Letters
        OBVIOUS
    <3>1. j \in 1..N /\ j \in DOMAIN s
        BY <1>1, <2>2, <2>3
    <3>2. s[j] # Space
        BY <2>2, Zenon DEF IsRun
    <3>3. s[j] # Nul
        BY <1>1, <3>1
    <3>4. s[j] \in Letters \cup {Space, Nul}
        BY <1>1, <3>1
    <3> QED
        BY <3>2, <3>3, <3>4, Zenon
  <2>6. SubSeq(s, i + 1, b) \in Seq(Letters)
    <3> DEFINE q == SubSeq(s, i + 1, b)
    <3>1. q = [j \in 1..b - i |-> s[j + i]]
        BY <1>1, <2>2, <2>3
    <3> QED
        BY <2>2, <2>3, <2>5, <3>1
  <2> QED
      BY <2>4, <2>6 DEF i
<1> HIDE DEF S
<1>5. p \in [1..count -> Seq(Letters)]
    BY <1>3, <1>4 DEF S
<1> HIDE DEF count
<1>6. p \in Seq(Seq(Letters)) /\ Len(p) = count
    BY <1>3, <1>5
<1> QED
    BY <1>1, <1>3, <1>6

-----------------------------------------------------------------------------
LEMMA NoWords == Words(<<>>) = <<>>
<1> DEFINE F == {a \in DOMAIN <<>> : \E b \in a..Len(<<>>) : IsRun(<<>>, a, b)}
<1>1. F = {}
    OBVIOUS
<1>2. Cardinality(F) = 0
    BY <1>1, FS_EmptySet
<1>3. DOMAIN Ascending(F) = {}
    BY <1>2 DEF Ascending
<1> HIDE DEF F
<1>4. [n \in DOMAIN Ascending(F) |-> SubSeq(<<>>, Ascending(F)[n],
         CHOOSE b \in Ascending(F)[n]..Len(<<>>) : IsRun(<<>>, Ascending(F)[n], b))] = <<>>
    BY <1>3
<1> QED
    BY <1>4 DEF Words, F

LEMMA InitInv == Init => Inv
<1> SUFFICES ASSUME Init PROVE Inv
    OBVIOUS
<1>1. PICK c \in Letters \cup {Space, Nul} : memory = [i \in Bytes |-> c]
    BY DEF Init
<1>2. memory \in [Bytes -> Letters \cup {Space, Nul}]
    BY <1>1
<1>3. Cursor = 0 /\ text = <<>> /\ longest = 0 /\ lost \in BOOLEAN
    BY DEF Init
<1>4. text = [k \in 1..Cursor |-> memory[k - 1]]
    BY <1>3
<1>5. ArgsAreWords /\ ShellSurvives
    BY NoWords DEF Init, ArgsAreWords, ShellSurvives
<1> QED
    BY <1>2, <1>3, <1>4, <1>5, ShellSizes DEF Inv, TypeOK, LineTyped, Measured

(* What an event may do to the bytes around the buffer.                     *)
Spared == longest' < Size => \A i \in Bytes \ Own : memory'[i] = memory[i]

LEMMA PrintKeyStep ==
  ASSUME Inv, NEW c \in Keys, PrintKey(c), ~lost
  PROVE  Inv' /\ Spared
<1>1. /\ isprint(c) /\ Cursor < MaxLine /\ Cursor' = Cursor + 1
      /\ memory' = [memory EXCEPT ![Cursor] = c]
      /\ text' = Append(text, c)
      /\ longest' = IF longest < Len(text') THEN Len(text') ELSE longest
    BY DEF PrintKey
<1>2. lost' \in BOOLEAN
    BY DEF PrintKey, MayLose
<1>3. c \in Printable
    BY <1>1 DEF Keys, Printable, isprint, Bell
<1>4. /\ Cursor \in 0..MaxLine /\ Cursor \in Bytes /\ MaxLine \in Nat
      /\ memory \in [Bytes -> Letters \cup {Space, Nul}]
      /\ text = [k \in 1..Cursor |-> memory[k - 1]]
    BY ShellSizes DEF Inv, TypeOK, Bytes
<1>5. memory' \in [Bytes -> Letters \cup {Space, Nul}]
    BY <1>1, <1>3, <1>4 DEF Printable
<1>6. text \in Seq(Letters \cup {Space, Nul}) /\ Len(text) = Cursor
    BY TextIsSequence DEF Inv
<1>7. text' = [k \in 1..Cursor + 1 |-> IF k = Cursor + 1 THEN c ELSE text[k]]
    BY <1>1, <1>4, <1>6
<1>8. ASSUME NEW k \in 1..Cursor + 1
      PROVE  memory'[k - 1] = IF k = Cursor + 1 THEN c ELSE text[k]
    BY <1>1, <1>4 DEF Bytes
<1>9. text' = [k \in 1..Cursor' |-> memory'[k - 1]]
    BY <1>1, <1>7, <1>8
<1>10. longest' \in Nat /\ Cursor' <= longest' /\ Len(text') = Cursor + 1
    BY <1>1, <1>4, <1>7 DEF Inv, Measured
<1>11. LineTyped'
    BY <1>1, <1>3, <1>4 DEF Inv, LineTyped, Bytes
<1>12. Spared
    BY <1>1, <1>4, <1>10, ShellSizes DEF Spared, Own, Bytes
<1>13. ArgsAreWords' /\ ShellSurvives'
  <2>1. printed' = printed /\ line' = line
      BY DEF PrintKey
  <2>2. lost' => Cursor \notin Own
      BY DEF PrintKey, MayLose
  <2>3. Cursor \in Nat /\ Cursor' = Cursor + 1 /\ longest' \in Nat /\ Cursor' <= longest'
    <3>1. Cursor' = Cursor + 1
        BY <1>1, Zenon
    <3>2. Cursor \in Nat
        BY <1>4
    <3> QED
        BY <1>10, <3>1, <3>2
  <2>4. Cursor \notin Own => longest' >= Size
      BY <2>3, ShellSizes DEF Own
  <2>5. ShellSurvives'
      BY <2>2, <2>4 DEF ShellSurvives
  <2> QED
      BY <2>1, <2>5 DEF Inv, ArgsAreWords
<1> QED
    BY <1>1, <1>2, <1>4, <1>5, <1>9, <1>10, <1>11, <1>12, <1>13 DEF Inv, TypeOK, Measured

LEMMA LineEntered ==
  ASSUME Inv
  PROVE  Entered([memory EXCEPT ![Cursor] = Nul], Cursor, text)
<1> DEFINE m == [memory EXCEPT ![Cursor] = Nul]
<1>1. /\ Cursor \in 0..MaxLine /\ Cursor \in Bytes /\ MaxLine \in Nat
      /\ memory \in [Bytes -> Letters \cup {Space, Nul}]
      /\ text = [k \in 1..Cursor |-> memory[k - 1]]
    BY ShellSizes DEF Inv, TypeOK, Bytes
<1>2. m \in [Bytes -> Letters \cup {Space, Nul}] /\ m[Cursor] = Nul
    BY <1>1
<1>3. \A k \in Bytes : k # Cursor => m[k] = memory[k]
    BY <1>1
<1>4. ASSUME NEW k \in 0..Cursor - 1 PROVE m[k] # Nul /\ m[k] = memory[k]
  <2>1. k \in Bytes /\ k # Cursor
      BY <1>1 DEF Bytes
  <2>2. memory[k] \in Printable
      BY DEF Inv, LineTyped
  <2> QED
      BY <1>3, <2>1, <2>2, PrintableIsNotNul
<1>5. EndOf(m, 0) = Cursor
    BY <1>1, <1>2, <1>4, EndOfLine
<1> HIDE DEF m
<1>6. text \in Seq(Letters \cup {Space, Nul}) /\ Len(text) = Cursor
    BY TextIsSequence DEF Inv
<1>7. \A k \in 1..Cursor : text[k] = m[k - 1]
    BY <1>1, <1>4
<1>8. Entered(m, Cursor, text)
    BY <1>1, <1>2, <1>4, <1>5, <1>6, <1>7 DEF Entered
<1> QED
    BY <1>8 DEF m

LEMMA EnterStep ==
  ASSUME Inv, NEW c, shell_enter(c), ~lost
  PROVE  Inv' /\ Spared
<1> DEFINE m == [memory EXCEPT ![Cursor] = Nul]
<1>1. /\ memory' = Split(m) /\ Cursor' = 0 /\ text' = <<>> /\ longest' = longest
      /\ argv' = Ascending(Starts(m)) /\ line' = text
      /\ printed' = [k \in DOMAIN argv' |-> StringAt(memory', argv'[k])]
    BY DEF shell_enter, shell_command
<1>2. lost' \in BOOLEAN /\ (lost' => Cursor \notin Own \/ Len(argv') > MaxArgs)
    BY DEF shell_enter, MayLose
<1>3. Entered(m, Cursor, text)
    BY LineEntered
<1>4. \A k \in Bytes : k # Cursor => m[k] = memory[k]
    BY DEF Inv, TypeOK
<1> HIDE DEF m
<1>5. Cursor \in 0..MaxLine /\ MaxLine \in Nat /\ longest \in Nat /\ Cursor <= longest
    BY ShellSizes DEF Inv, TypeOK, Measured
<1>6. memory' = [k \in Bytes |-> IF k \in 0..Cursor - 1 /\ m[k] = Space THEN Nul ELSE m[k]]
    BY <1>1, <1>3 DEF Split, Entered
<1>7. memory' \in [Bytes -> Letters \cup {Space, Nul}]
    BY <1>3, <1>6 DEF Entered
<1>8. text' = [k \in 1..Cursor' |-> memory'[k - 1]]
    BY <1>1
<1>9. Measured' /\ LineTyped'
    BY <1>1, <1>5 DEF Measured, LineTyped
<1>10. ArgsAreWords'
    BY <1>1, <1>3, StringsAreWords, Zenon DEF ArgsAreWords
<1>11. ShellSurvives'
  <2>1. /\ Cardinality(Starts(m)) \in Nat /\ Len(argv') = Cardinality(Starts(m))
        /\ 2 * Cardinality(Starts(m)) <= Cursor + 1
      BY <1>1, <1>3, FewStarts, Zenon
  <2> QED
      BY <1>1, <1>2, <1>5, <2>1, ShellSizes DEF ShellSurvives, Own
<1>12. Spared
    BY <1>1, <1>4, <1>5, <1>6, ShellSizes DEF Spared, Own, Bytes
<1> QED
    BY <1>1, <1>2, <1>5, <1>7, <1>8, <1>9, <1>10, <1>11, <1>12 DEF Inv, TypeOK

(* What a command prints, as module Console needs it.                       *)
LEMMA EnterPrints ==
  Inv => \A c : shell_enter(c) => printed' \in Seq(Seq(Letters)) /\ Len(printed') <= MaxLine
<1> SUFFICES ASSUME Inv, NEW c, shell_enter(c)
             PROVE  printed' \in Seq(Seq(Letters)) /\ Len(printed') <= MaxLine
    OBVIOUS
<1> DEFINE m == [memory EXCEPT ![Cursor] = Nul]
<1>1. printed' = [k \in DOMAIN Ascending(Starts(m)) |-> StringAt(Split(m), Ascending(Starts(m))[k])]
    BY Zenon DEF shell_enter, shell_command
<1>2. Entered(m, Cursor, text)
    BY LineEntered
<1> QED
    BY <1>1, <1>2, ArgumentsAreLetters, Zenon

LEMMA EraseStep ==
  ASSUME Inv, NEW c, Erase(c), ~lost
  PROVE  Inv' /\ Spared
<1>1. /\ Cursor > 0 /\ Cursor' = Cursor - 1
      /\ memory' = [memory EXCEPT ![Cursor - 1] = Nul]
      /\ text' = SubSeq(text, 1, Len(text) - 1) /\ longest' = longest
    BY DEF Erase
<1>2. lost' \in BOOLEAN
    BY DEF Erase, MayLose
<1>3. /\ Cursor \in 0..MaxLine /\ MaxLine \in Nat
      /\ memory \in [Bytes -> Letters \cup {Space, Nul}]
      /\ text = [k \in 1..Cursor |-> memory[k - 1]]
    BY ShellSizes DEF Inv, TypeOK
<1>4. memory' \in [Bytes -> Letters \cup {Space, Nul}]
    BY <1>1, <1>3
<1>5. text \in Seq(Letters \cup {Space, Nul}) /\ Len(text) = Cursor
    BY TextIsSequence DEF Inv
<1>6. text' = [k \in 1..Cursor - 1 |-> text[k]]
    BY <1>1, <1>3, <1>5
<1>7. \A k \in 1..Cursor - 1 : memory'[k - 1] = text[k]
    BY <1>1, <1>3 DEF Bytes
<1>8. text' = [k \in 1..Cursor' |-> memory'[k - 1]]
    BY <1>1, <1>6, <1>7
<1>9. LineTyped' /\ Measured'
    BY <1>1, <1>3 DEF Inv, LineTyped, Measured, Bytes
<1>10. Spared
    BY <1>1, <1>3, ShellSizes DEF Inv, Measured, Spared, Own, Bytes
<1>11. ArgsAreWords' /\ ShellSurvives'
  <2>1. printed' = printed /\ line' = line
      BY DEF Erase
  <2>2. lost' => Cursor - 1 \notin Own
      BY DEF Erase, MayLose
  <2>3. ShellSurvives'
      BY <1>1, <1>3, <2>2, ShellSizes DEF Inv, Measured, ShellSurvives, Own
  <2> QED
      BY <2>1, <2>3 DEF Inv, ArgsAreWords
<1> QED
    BY <1>1, <1>2, <1>3, <1>4, <1>8, <1>9, <1>10, <1>11 DEF Inv, TypeOK

LEMMA StutterStep == Inv /\ UNCHANGED vars => Inv' /\ Spared
  BY DEF Inv, TypeOK, LineTyped, Measured, ArgsAreWords, ShellSurvives, Spared, vars, history

LEMMA StepInv == Inv /\ [Next]_vars => Inv' /\ Spared
<1> SUFFICES ASSUME Inv, Next PROVE Inv' /\ Spared
    BY StutterStep
<1>1. PICK c \in Keys, released \in BOOLEAN : event_key(c, released)
    BY DEF Next
<1>2. CASE UNCHANGED vars
    BY <1>2, StutterStep
<1>3. ~lost
    BY <1>1 DEF event_key
<1>4. CASE PrintKey(c)
    BY <1>4, <1>3, PrintKeyStep
<1>5. CASE shell_enter(c)
    BY <1>5, <1>3, EnterStep
<1>6. CASE Erase(c)
    BY <1>6, <1>3, EraseStep
<1> QED
    BY <1>1, <1>2, <1>4, <1>5, <1>6 DEF event_key, Ignore

(* The line edited in place is the one the user typed and erased, for every *)
(* size of the buffer and every line (main.c:85-99).                        *)
THEOREM ShellTypeCorrect == Spec => []TypeOK
<1>1. Inv => TypeOK
    BY DEF Inv
<1>2. Inv /\ [Next]_vars => Inv'
    BY StepInv
<1> QED
    BY <1>1, <1>2, InitInv, PTL DEF Spec

(* The arguments printed are the words of the line entered, for every line  *)
(* and whatever earlier lines left in the buffer (main.c:27-60, 92).        *)
THEOREM ShellArgsAreWords == Spec => []ArgsAreWords
<1>1. Inv => ArgsAreWords
    BY DEF Inv
<1>2. Inv /\ [Next]_vars => Inv'
    BY StepInv
<1> QED
    BY <1>1, <1>2, InitInv, PTL DEF Spec

(* The shell is lost only to a line that fills the buffer or is longer than *)
(* twice argv, for all sizes of both (main.c:29, 47, 87).                   *)
THEOREM ShellSurvivesHolds == Spec => []ShellSurvives
<1>1. Inv => ShellSurvives
    BY DEF Inv
<1>2. Inv /\ [Next]_vars => Inv'
    BY StepInv
<1> QED
    BY <1>1, <1>2, InitInv, PTL DEF Spec

(* Until a line fills the buffer, no event writes outside it: the erasing   *)
(* key stops at its start, and the splitting at the end of the line.        *)
THEOREM ShellOwnMemory == Spec => OwnMemory
<1>1. Inv /\ [Next]_vars => [Spared]_vars
    BY StepInv
<1>2. Inv /\ [Next]_vars => Inv'
    BY StepInv
<1>3. [Spared]_vars <=> [longest' < Size => \A i \in Bytes \ Own : memory'[i] = memory[i]]_vars
    BY DEF Spared
<1> QED
    BY <1>1, <1>2, <1>3, InitInv, PTL DEF Spec, OwnMemory
=============================================================================
