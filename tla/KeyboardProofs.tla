--------------------------- MODULE KeyboardProofs ---------------------------
(***************************************************************************)
(* The keyboard driver for every set of keys and any number of transitions: *)
(* what is on the wire, read to its end, gives the modifiers of the keys    *)
(* that are down; reports have characters of their own; and the driver      *)
(* implements KeyEvents.                                                    *)
(***************************************************************************)
EXTENDS Keyboard, SequenceTheorems, WellFoundedInduction, TLAPS

Byte == 0..255

(* The modifier a scan code stands for, with and without a prefix.          *)
ModOfCode(c, prefix) ==
  CASE c = 29 /\ ~prefix -> "CTRL"
    [] c \in {42, 54} /\ ~prefix -> "SHIFT"
    [] c = 56 -> IF prefix THEN "ALT_GR" ELSE "ALT"
    [] c = 91 /\ ~prefix -> "OS"
    [] OTHER -> "none"

LEMMA CodeMods ==
  ASSUME NEW c \in 0..127, NEW prefix \in BOOLEAN
  PROVE  ModOf(scancode_to_key(c, prefix)) = ModOfCode(c, prefix)
  BY DEF ModOf, scancode_to_key, MainKeys, KEY_UNKNOWN, KEY_L_CTRL, KEY_L_SHIFT, KEY_L_ALT, KEY_L_GUI,
         KEY_R_CTRL, KEY_R_SHIFT, KEY_R_ALT, KEY_R_GUI, ModOfCode

ModAt(flag, bytes, i) == ModOfCode(bytes[i] % 128, Prefixed(flag, bytes, i))

IsMake(b) == b < 128

(* Whether a modifier will be in force when the bytes have been read: the   *)
(* last of them that stands for it decides.                                 *)
Untouched(X, flag, bytes) == \A i \in 1..Len(bytes) : ModAt(flag, bytes, i) # X
Pressed(X, flag, bytes) ==
  \E i \in 1..Len(bytes) : /\ ModAt(flag, bytes, i) = X /\ IsMake(bytes[i])
                           /\ \A j \in i + 1..Len(bytes) : ModAt(flag, bytes, j) # X
InForce(X, m, flag, bytes) ==
  Pressed(X, flag, bytes) \/ (X \in m /\ Untouched(X, flag, bytes))

LEMMA ByteMods ==
  ASSUME NEW b \in Byte, NEW prefix \in BOOLEAN
  PROVE  ModOf(scancode_to_key(b % 128, prefix)) = ModOfCode(b % 128, prefix)
<1>1. b % 128 \in 0..127
    BY DEF Byte
<1> QED
    BY <1>1, CodeMods

(* Reading a byte changes nothing of what will be.                          *)
LEMMA ReadOne ==
  ASSUME NEW w \in Seq(Byte), w # << >>, NEW e \in BOOLEAN, NEW m, NEW X, X # "none",
         NEW n, n = IF ModAt(e, w, 1) = "none" THEN m
                    ELSE IF w[1] >= 128 THEN m \ {ModAt(e, w, 1)} ELSE m \cup {ModAt(e, w, 1)}
  PROVE  InForce(X, n, w[1] = EscapePrefix, Tail(w)) <=> InForce(X, m, e, w)
<1> DEFINE f == w[1] = EscapePrefix
           t == Tail(w)
           N == Len(w)
<1>1. /\ N \in Nat \ {0} /\ Len(t) = N - 1
      /\ \A i \in 1..N - 1 : t[i] = w[i + 1] /\ w[i] \in Byte /\ w[i + 1] \in Byte
      /\ w[1] \in Byte
    OBVIOUS
<1>2. \A i \in 1..N - 1 : ModAt(f, t, i) = ModAt(e, w, i + 1)
    BY <1>1 DEF ModAt, Prefixed
<1> DEFINE M(i) == ModAt(e, w, i)
           K(i) == ModAt(f, t, i)
<1>3. Untouched(X, e, w) <=> (M(1) # X /\ Untouched(X, f, t))
  <2>1. ASSUME Untouched(X, e, w) PROVE M(1) # X /\ Untouched(X, f, t)
      BY <1>1, <1>2, <2>1 DEF Untouched
  <2>2. ASSUME M(1) # X, Untouched(X, f, t), NEW i \in 1..N PROVE M(i) # X
    <3>1. CASE i = 1
        BY <2>2, <3>1
    <3>2. CASE i # 1
      <4> DEFINE k == i - 1
      <4>1. k \in 1..N - 1 /\ k + 1 = i
          BY <1>1, <3>2
      <4> HIDE DEF k, M, K
      <4>2. K(k) = M(k + 1)
          BY <4>1, <1>2 DEF M, K
      <4>3. K(k) # X
          BY <4>1, <2>2, <1>1 DEF Untouched, K
      <4> QED
          BY <4>1, <4>2, <4>3
    <3> QED
        BY <3>1, <3>2
  <2> QED
      BY <2>1, <2>2 DEF Untouched
<1>4. Pressed(X, e, w) <=> (Pressed(X, f, t) \/ (M(1) = X /\ IsMake(w[1]) /\ Untouched(X, f, t)))
  <2>1. ASSUME NEW i \in 1..N, M(i) = X, IsMake(w[i]), \A j \in i + 1..N : M(j) # X
        PROVE  Pressed(X, f, t) \/ (M(1) = X /\ IsMake(w[1]) /\ Untouched(X, f, t))
    <3>1. CASE i = 1
      <4>1. \A j \in 1..N - 1 : j + 1 \in i + 1..N
          BY <1>1, <3>1
      <4>2. Untouched(X, f, t)
          BY <4>1, <2>1, <1>1, <1>2 DEF Untouched
      <4> QED
          BY <2>1, <3>1, <4>2
    <3>2. CASE i # 1
      <4> DEFINE k == i - 1
      <4>1. k \in 1..N - 1 /\ k + 1 = i
          BY <1>1, <3>2
      <4>2. K(k) = X /\ IsMake(t[k])
          BY <4>1, <1>1, <1>2, <2>1
      <4>3. \A j \in k + 1..N - 1 : j + 1 \in i + 1..N /\ j \in 1..N - 1
          BY <4>1, <1>1
      <4>4. \A j \in k + 1..N - 1 : K(j) # X
          BY <4>3, <1>2, <2>1
      <4> HIDE DEF k
      <4> QED
          BY <4>1, <4>2, <4>4, <1>1 DEF Pressed
    <3> QED
        BY <3>1, <3>2
  <2>2. ASSUME NEW i \in 1..N - 1, K(i) = X, IsMake(t[i]), \A j \in i + 1..N - 1 : K(j) # X
        PROVE  Pressed(X, e, w)
    <3> DEFINE k == i + 1
    <3>1. k \in 1..N /\ M(k) = X /\ IsMake(w[k])
        BY <1>1, <1>2, <2>2
    <3>2. ASSUME NEW j \in k + 1..N PROVE M(j) # X
      <4> DEFINE h == j - 1
      <4>1. h \in i + 1..N - 1 /\ h \in 1..N - 1 /\ h + 1 = j
          BY <1>1
      <4> HIDE DEF h, M, K
      <4>2. K(h) = M(h + 1) /\ K(h) # X
          BY <4>1, <1>2, <2>2 DEF M, K
      <4> QED
          BY <4>1, <4>2
    <3> HIDE DEF k
    <3> QED
        BY <3>1, <3>2 DEF Pressed
  <2>3. ASSUME M(1) = X, IsMake(w[1]), Untouched(X, f, t) PROVE Pressed(X, e, w)
    <3>1. ASSUME NEW j \in 1 + 1..N PROVE M(j) # X
      <4> DEFINE h == j - 1
      <4>1. h \in 1..N - 1 /\ h + 1 = j
          BY <1>1
      <4> HIDE DEF h, M, K
      <4>2. K(h) = M(h + 1) /\ K(h) # X
          BY <4>1, <1>1, <1>2, <2>3 DEF Untouched, M, K
      <4> QED
          BY <4>1, <4>2
    <3> QED
        BY <3>1, <2>3, <1>1 DEF Pressed
  <2>4. Pressed(X, f, t) =>
          \E i \in 1..N - 1 : K(i) = X /\ IsMake(t[i]) /\ \A j \in i + 1..N - 1 : K(j) # X
      BY <1>1 DEF Pressed
  <2> HIDE DEF M, K
  <2>5. Pressed(X, f, t) => Pressed(X, e, w)
      BY <2>2, <2>4
  <2>6. Pressed(X, e, w) =>
          \E i \in 1..N : M(i) = X /\ IsMake(w[i]) /\ \A j \in i + 1..N : M(j) # X
      BY DEF Pressed, M
  <2> QED
      BY <2>1, <2>3, <2>5, <2>6
<1>5. (IsMake(w[1]) \/ w[1] >= 128) /\ ~(IsMake(w[1]) /\ w[1] >= 128)
  <2>1. \A b \in Byte : (IsMake(b) \/ b >= 128) /\ ~(IsMake(b) /\ b >= 128)
      BY DEF Byte, IsMake
  <2> QED
      BY <1>1, <2>1, Zenon
<1>6. /\ M(1) = X /\ IsMake(w[1]) => X \in n
      /\ M(1) = X /\ w[1] >= 128 => X \notin n
      /\ M(1) # X => (X \in n <=> X \in m)
    BY <1>5
<1> HIDE DEF f, t, M
<1>7. InForce(X, n, f, t) <=> InForce(X, m, e, w)
    BY <1>3, <1>4, <1>5, <1>6 DEF InForce
<1> QED
    BY <1>7 DEF f, t

(* Bytes put behind others that do not end in a prefix.                     *)
LEMMA ReadMore ==
  ASSUME NEW w \in Seq(Byte), NEW c \in Seq(Byte), NEW e \in BOOLEAN, NEW m, NEW X,
         ~Prefixed(e, w, Len(w) + 1),
         NEW v, v = w \o c
  PROVE  InForce(X, m, e, v) <=>
           Pressed(X, FALSE, c) \/ (Untouched(X, FALSE, c) /\ InForce(X, m, e, w))
<1> DEFINE N == Len(w)
           L == Len(c)
           W(i) == ModAt(e, w, i)
           C(i) == ModAt(FALSE, c, i)
           V(i) == ModAt(e, v, i)
<1>1. /\ N \in Nat /\ L \in Nat /\ Len(v) = N + L
      /\ \A i \in 1..N : v[i] = w[i]
      /\ \A i \in 1..L : v[N + i] = c[i]
    OBVIOUS
<1>2. \A i \in 1..N : V(i) = W(i)
  <2>1. \A i \in 1..N : i # 1 => i - 1 \in 1..N
      BY <1>1
  <2> QED
      BY <1>1, <2>1 DEF ModAt, Prefixed
<1>3. \A i \in 1..L : V(N + i) = C(i)
  <2>1. ASSUME NEW i \in 1..L PROVE Prefixed(e, v, N + i) <=> Prefixed(FALSE, c, i)
    <3>1. CASE i = 1
      <4>1. CASE N = 0
        <5>1. N + i = 1 /\ N + 1 = 1
            BY <3>1, <4>1
        <5> QED
            BY <3>1, <5>1 DEF Prefixed
      <4>2. CASE N # 0
        <5>1. N + i # 1 /\ N + 1 # 1 /\ (N + i) - 1 = N /\ (N + 1) - 1 = N /\ N \in 1..N
            BY <3>1, <4>2, <1>1
        <5> QED
            BY <3>1, <5>1, <1>1 DEF Prefixed
      <4> QED
          BY <4>1, <4>2
    <3>2. CASE i # 1
      <4>1. i - 1 \in 1..L /\ N + i # 1 /\ (N + i) - 1 = N + (i - 1)
          BY <3>2, <1>1
      <4>2. v[(N + i) - 1] = c[i - 1]
          BY <4>1, <1>1
      <4> QED
          BY <3>2, <4>1, <4>2 DEF Prefixed
    <3> QED
        BY <3>1, <3>2
  <2> QED
      BY <1>1, <2>1, ZenonT(60) DEF ModAt, ModOfCode
<1>4. \A i \in 1..N + L : i \in 1..N \/ \E k \in 1..L : i = N + k
  <2>1. ASSUME NEW i \in 1..N + L, i \notin 1..N PROVE i - N \in 1..L /\ i = N + (i - N)
      BY <1>1, <2>1
  <2> QED
      BY <2>1
<1>5. \A i \in 1..L : N + i \in 1..N + L
    BY <1>1
<1>6. \A i \in 1..N : i \in 1..N + L
    BY <1>1
<1> HIDE DEF V, W, C
<1>7. Untouched(X, e, v) <=> (Untouched(X, e, w) /\ Untouched(X, FALSE, c))
  <2>1. Untouched(X, e, v) => Untouched(X, e, w)
      BY <1>1, <1>2, <1>6 DEF Untouched, V, W
  <2>2. Untouched(X, e, v) => Untouched(X, FALSE, c)
      BY <1>1, <1>3, <1>5 DEF Untouched, V, C
  <2>3. ASSUME Untouched(X, e, w), Untouched(X, FALSE, c) PROVE Untouched(X, e, v)
    <3>1. \A i \in 1..N : V(i) # X
        BY <1>2, <2>3 DEF Untouched, W
    <3>2. \A i \in 1..L : V(N + i) # X
        BY <1>3, <2>3 DEF Untouched, C
    <3>3. \A i \in 1..N + L : V(i) # X
        BY <1>4, <3>1, <3>2
    <3> QED
        BY <1>1, <3>3 DEF Untouched, V
  <2> QED
      BY <2>1, <2>2, <2>3
<1>8. ASSUME Untouched(X, FALSE, c) PROVE Pressed(X, e, v) <=> Pressed(X, e, w)
  <2>1. ASSUME NEW i \in 1..N + L, V(i) = X, IsMake(v[i]), \A j \in i + 1..N + L : V(j) # X
        PROVE  Pressed(X, e, w)
    <3>1. i \in 1..N
        BY <1>3, <1>4, <1>8, <2>1 DEF Untouched, C
    <3>2. \A j \in i + 1..N : j \in 1..N /\ j \in i + 1..N + L
        BY <1>1
    <3> QED
        BY <1>1, <1>2, <2>1, <3>1, <3>2 DEF Pressed, W
  <2>2. ASSUME NEW i \in 1..N, W(i) = X, IsMake(w[i]), \A j \in i + 1..N : W(j) # X
        PROVE  Pressed(X, e, v)
    <3>1. ASSUME NEW j \in i + 1..N + L PROVE V(j) # X
      <4>1. j \in 1..N + L
          BY <1>1
      <4>2. CASE j \in 1..N
        <5>1. j \in i + 1..N
            BY <4>2
        <5> QED
            BY <4>2, <5>1, <1>2, <2>2
      <4>3. CASE \E k \in 1..L : j = N + k
          BY <4>3, <1>3, <1>8 DEF Untouched, C
      <4> QED
          BY <4>1, <4>2, <4>3, <1>4
    <3> QED
        BY <1>1, <1>2, <1>6, <2>2, <3>1 DEF Pressed, V
  <2>3. Pressed(X, e, v) =>
          \E i \in 1..N + L : V(i) = X /\ IsMake(v[i]) /\ \A j \in i + 1..N + L : V(j) # X
      BY <1>1 DEF Pressed, V
  <2>4. Pressed(X, e, w) =>
          \E i \in 1..N : W(i) = X /\ IsMake(w[i]) /\ \A j \in i + 1..N : W(j) # X
      BY DEF Pressed, W
  <2> QED
      BY <2>1, <2>2, <2>3, <2>4
<1>9. Pressed(X, FALSE, c) => Pressed(X, e, v)
  <2>1. ASSUME NEW i \in 1..L, C(i) = X, IsMake(c[i]), \A j \in i + 1..L : C(j) # X
        PROVE  Pressed(X, e, v)
    <3> DEFINE k == N + i
    <3>1. k \in 1..N + L /\ V(k) = X /\ IsMake(v[k])
        BY <1>1, <1>3, <1>5, <2>1
    <3>2. ASSUME NEW j \in k + 1..N + L PROVE V(j) # X
      <4> DEFINE h == j - N
      <4>1. h \in i + 1..L /\ h \in 1..L /\ j = N + h
          BY <1>1
      <4> HIDE DEF h
      <4> QED
          BY <4>1, <1>3, <2>1
    <3> HIDE DEF k
    <3> QED
        BY <1>1, <3>1, <3>2 DEF Pressed, V
  <2>2. Pressed(X, FALSE, c) =>
          \E i \in 1..L : C(i) = X /\ IsMake(c[i]) /\ \A j \in i + 1..L : C(j) # X
      BY DEF Pressed, C
  <2> QED
      BY <2>1, <2>2
<1>10. Pressed(X, e, v) => (Pressed(X, FALSE, c) \/ Untouched(X, FALSE, c))
  <2>1. ASSUME NEW i \in 1..N + L, V(i) = X, IsMake(v[i]), \A j \in i + 1..N + L : V(j) # X
        PROVE  Pressed(X, FALSE, c) \/ Untouched(X, FALSE, c)
    <3>1. CASE i \in 1..N
      <4>1. \A k \in 1..L : N + k \in i + 1..N + L
          BY <1>1, <3>1
      <4> QED
          BY <4>1, <1>3, <2>1 DEF Untouched, C
    <3>2. ASSUME NEW k \in 1..L, i = N + k PROVE Pressed(X, FALSE, c)
      <4>1. \A j \in k + 1..L : N + j \in i + 1..N + L /\ j \in 1..L
          BY <1>1, <3>2
      <4>2. C(k) = X /\ IsMake(c[k])
          BY <1>1, <1>3, <2>1, <3>2
      <4>3. \A j \in k + 1..L : C(j) # X
          BY <4>1, <1>3, <2>1
      <4> QED
          BY <4>2, <4>3, <3>2 DEF Pressed, C
    <3> QED
        BY <3>1, <3>2, <1>4
  <2>2. Pressed(X, e, v) =>
          \E i \in 1..N + L : V(i) = X /\ IsMake(v[i]) /\ \A j \in i + 1..N + L : V(j) # X
      BY <1>1 DEF Pressed, V
  <2> QED
      BY <2>1, <2>2
<1> QED
    BY <1>7, <1>8, <1>9, <1>10 DEF InForce

(* What the bytes of a key do to the modifiers.                             *)
LEMMA Bare ==
  ASSUME NEW c, NEW i, ~Prefixed(FALSE, c, i)
  PROVE  ModAt(FALSE, c, i) = ModOfCode(c[i] % 128, FALSE)
  BY DEF ModAt, ModOfCode

LEMMA Marked ==
  ASSUME NEW c, NEW i, Prefixed(FALSE, c, i)
  PROVE  ModAt(FALSE, c, i) = ModOfCode(c[i] % 128, TRUE)
  BY DEF ModAt, ModOfCode

LEMMA LastDecides ==
  ASSUME NEW c, NEW X, NEW n \in Nat \ {0}, Len(c) = n,
         \A i \in 1..n - 1 : ModAt(FALSE, c, i) # X
  PROVE  /\ Pressed(X, FALSE, c) <=> (ModAt(FALSE, c, n) = X /\ IsMake(c[n]))
         /\ Untouched(X, FALSE, c) <=> ModAt(FALSE, c, n) # X
<1> DEFINE C(i) == ModAt(FALSE, c, i)
           D(i) == IsMake(c[i])
<1>1. Pressed(X, FALSE, c) <=> \E i \in 1..n : C(i) = X /\ D(i) /\ \A j \in i + 1..n : C(j) # X
    BY DEF Pressed
<1>2. Untouched(X, FALSE, c) <=> \A i \in 1..n : C(i) # X
    BY DEF Untouched
<1>3. \A i \in 1..n - 1 : C(i) # X
    OBVIOUS
<1> HIDE DEF C, D
<1>4. n \in 1..n /\ n + 1..n = {} /\ \A i \in 1..n : i \in 1..n - 1 \/ i = n
    OBVIOUS
<1>5. Pressed(X, FALSE, c) <=> (C(n) = X /\ D(n))
    BY <1>1, <1>3, <1>4
<1>6. Untouched(X, FALSE, c) <=> C(n) # X
    BY <1>2, <1>3, <1>4
<1> QED
    BY <1>5, <1>6 DEF C, D

LEMMA OneByte ==
  ASSUME NEW b \in Byte, NEW X
  PROVE  /\ Pressed(X, FALSE, <<b>>) <=> (ModOfCode(b % 128, FALSE) = X /\ IsMake(b))
         /\ Untouched(X, FALSE, <<b>>) <=> ModOfCode(b % 128, FALSE) # X
<1> DEFINE c == <<b>>
<1>1. Len(c) = 1 /\ c[1] = b /\ 1..1 - 1 = {} /\ 1 \in Nat \ {0}
    OBVIOUS
<1>2. ~Prefixed(FALSE, c, 1)
    BY DEF Prefixed
<1> HIDE DEF c
<1>3. ModAt(FALSE, c, 1) = ModOfCode(b % 128, FALSE)
    BY <1>1, <1>2, Bare, Marked, ZenonT(60)
<1>4. /\ Pressed(X, FALSE, c) <=> (ModAt(FALSE, c, 1) = X /\ IsMake(c[1]))
      /\ Untouched(X, FALSE, c) <=> ModAt(FALSE, c, 1) # X
    BY <1>1, LastDecides, Zenon
<1>5. /\ Pressed(X, FALSE, c) <=> (ModOfCode(b % 128, FALSE) = X /\ IsMake(b))
      /\ Untouched(X, FALSE, c) <=> ModOfCode(b % 128, FALSE) # X
    BY <1>1, <1>3, <1>4, Zenon
<1> QED
    BY <1>5 DEF c

LEMMA TwoBytes ==
  ASSUME NEW b \in Byte, NEW X, X # "none"
  PROVE  /\ Pressed(X, FALSE, <<224, b>>) <=> (ModOfCode(b % 128, TRUE) = X /\ IsMake(b))
         /\ Untouched(X, FALSE, <<224, b>>) <=> ModOfCode(b % 128, TRUE) # X
<1> DEFINE c == <<224, b>>
<1>1. Len(c) = 2 /\ c[1] = 224 /\ c[2] = b /\ 2 \in Nat \ {0} /\ 2 - 1 = 1
    OBVIOUS
<1>2. ~Prefixed(FALSE, c, 1) /\ Prefixed(FALSE, c, 2)
    BY DEF Prefixed, EscapePrefix
<1> HIDE DEF c
<1>3. /\ ModAt(FALSE, c, 1) = ModOfCode(224 % 128, FALSE)
      /\ ModAt(FALSE, c, 2) = ModOfCode(b % 128, TRUE)
  <2>1. ModAt(FALSE, c, 1) = ModOfCode(c[1] % 128, FALSE)
      BY <1>2, Bare, Zenon
  <2>2. ModAt(FALSE, c, 2) = ModOfCode(c[2] % 128, TRUE)
      BY <1>2, Marked, Zenon
  <2> QED
      BY <1>1, <2>1, <2>2, Zenon
<1>4. ModOfCode(224 % 128, FALSE) = "none"
    BY DEF ModOfCode
<1>5. \A i \in 1..2 - 1 : ModAt(FALSE, c, i) # X
  <2>1. \A i \in 1..2 - 1 : i = 1
      OBVIOUS
  <2> QED
      BY <1>3, <1>4, <2>1, Zenon
<1>6. /\ Pressed(X, FALSE, c) <=> (ModAt(FALSE, c, 2) = X /\ IsMake(c[2]))
      /\ Untouched(X, FALSE, c) <=> ModAt(FALSE, c, 2) # X
  <2>1. Len(c) = 2 /\ 2 \in Nat \ {0}
      BY <1>1
  <2> QED
      BY <1>5, <2>1, LastDecides, ZenonT(60)
<1>7. /\ Pressed(X, FALSE, c) <=> (ModOfCode(b % 128, TRUE) = X /\ IsMake(b))
      /\ Untouched(X, FALSE, c) <=> ModOfCode(b % 128, TRUE) # X
    BY <1>1, <1>3, <1>6, ZenonT(60)
<1> QED
    BY <1>7 DEF c

(* An arrow key in a false release or press of Shift.                       *)
LEMMA FourBytes ==
  ASSUME NEW a \in Byte, NEW b \in Byte, NEW X, X # "none",
         ModOfCode(a % 128, TRUE) = "none", ModOfCode(b % 128, TRUE) = "none"
  PROVE  Untouched(X, FALSE, <<224, a, 224, b>>) /\ ~Pressed(X, FALSE, <<224, a, 224, b>>)
<1> DEFINE c == <<224, a, 224, b>>
<1>1. Len(c) = 4 /\ c[1] = 224 /\ c[2] = a /\ c[3] = 224 /\ c[4] = b /\ 4 \in Nat \ {0}
    OBVIOUS
<1>2. Prefixed(FALSE, c, 2) /\ Prefixed(FALSE, c, 4)
    BY DEF Prefixed, EscapePrefix
<1> HIDE DEF c
<1>3. /\ ModAt(FALSE, c, 1) = "none" /\ ModAt(FALSE, c, 3) = "none"
    BY <1>1 DEF ModAt, ModOfCode
<1>4. ModAt(FALSE, c, 2) = "none" /\ ModAt(FALSE, c, 4) = "none"
  <2>1. ModAt(FALSE, c, 2) = ModOfCode(c[2] % 128, TRUE)
      BY <1>2, Marked, ZenonT(60)
  <2>2. ModAt(FALSE, c, 4) = ModOfCode(c[4] % 128, TRUE)
      BY <1>2, Marked, ZenonT(60)
  <2> QED
      BY <1>1, <2>1, <2>2, ZenonT(60)
<1>5. \A i \in 1..4 - 1 : i = 1 \/ i = 2 \/ i = 3
    OBVIOUS
<1>6. \A i \in 1..4 - 1 : ModAt(FALSE, c, i) # X
    BY <1>3, <1>4, <1>5, Zenon
<1>7. /\ Pressed(X, FALSE, c) <=> (ModAt(FALSE, c, 4) = X /\ IsMake(c[4]))
      /\ Untouched(X, FALSE, c) <=> ModAt(FALSE, c, 4) # X
  <2> DEFINE n == 4
  <2>1. n \in Nat \ {0} /\ Len(c) = n /\ \A i \in 1..n - 1 : ModAt(FALSE, c, i) # X
      BY <1>1, <1>6
  <2> HIDE DEF n
  <2>2. /\ Pressed(X, FALSE, c) <=> (ModAt(FALSE, c, n) = X /\ IsMake(c[n]))
        /\ Untouched(X, FALSE, c) <=> ModAt(FALSE, c, n) # X
      BY <2>1, LastDecides, ZenonT(60)
  <2> QED
      BY <2>2 DEF n
<1>8. Untouched(X, FALSE, c) /\ ~Pressed(X, FALSE, c)
    BY <1>4, <1>7, Zenon
<1> QED
    BY <1>8 DEF c

(* Pause presses and releases a control key on its way.                     *)
LEMMA PauseBytes ==
  ASSUME NEW X, X # "none"
  PROVE  /\ ~Pressed(X, FALSE, MakeCode["Pause"])
         /\ X # "CTRL" => Untouched(X, FALSE, MakeCode["Pause"])
<1> DEFINE c == MakeCode["Pause"]
           C(i) == ModAt(FALSE, c, i)
<1>1. c = <<225, 29, 69, 225, 157, 197>>
    BY DEF MakeCode
<1>2. /\ Len(c) = 6 /\ c[1] = 225 /\ c[2] = 29 /\ c[3] = 69
      /\ c[4] = 225 /\ c[5] = 157 /\ c[6] = 197 /\ 6 \in Nat \ {0}
    BY <1>1
<1> HIDE DEF c
<1>3. ~Prefixed(FALSE, c, 2) /\ ~Prefixed(FALSE, c, 5)
    BY <1>2 DEF Prefixed, EscapePrefix
<1>4. C(2) = "CTRL" /\ C(5) = "CTRL"
  <2>1. C(2) = ModOfCode(c[2] % 128, FALSE) /\ C(5) = ModOfCode(c[5] % 128, FALSE)
      BY <1>3, Bare, ZenonT(60)
  <2>2. c[2] % 128 = 29 /\ c[5] % 128 = 29
      BY <1>2
  <2>3. ModOfCode(29, FALSE) = "CTRL"
      BY DEF ModOfCode
  <2> QED
      BY <2>1, <2>2, <2>3, Zenon
<1>5. C(1) = "none" /\ C(3) = "none" /\ C(4) = "none" /\ C(6) = "none"
    BY <1>2 DEF ModAt, ModOfCode
<1>6. /\ Untouched(X, FALSE, c) <=> \A i \in 1..6 : C(i) # X
      /\ Pressed(X, FALSE, c) <=>
           \E i \in 1..6 : C(i) = X /\ IsMake(c[i]) /\ \A j \in i + 1..6 : C(j) # X
  <2>1. Len(c) = 6
      BY <1>2
  <2> QED
      BY <2>1, Zenon DEF Untouched, Pressed
<1> HIDE DEF C
<1>7. \A i \in 1..6 : i = 1 \/ i = 2 \/ i = 3 \/ i = 4 \/ i = 5 \/ i = 6
    OBVIOUS
<1>8. X # "CTRL" => \A i \in 1..6 : C(i) # X
    BY <1>4, <1>5, <1>7, Zenon
<1>9. X # "CTRL" => Untouched(X, FALSE, c) /\ ~Pressed(X, FALSE, c)
    BY <1>6, <1>8, Zenon
<1>10. ASSUME X = "CTRL", NEW i \in 1..6, C(i) = X, IsMake(c[i]), \A j \in i + 1..6 : C(j) # X
      PROVE  FALSE
  <2>1. i = 2
    <3>1. i = 2 \/ i = 5
        BY <1>5, <1>7, <1>10, Zenon
    <3>2. ~IsMake(157)
        BY DEF IsMake
    <3>3. c[5] = 157 /\ IsMake(c[i])
        BY <1>2, <1>10
    <3>4. i # 5
        BY <3>2, <3>3
    <3> QED
        BY <3>1, <3>4
  <2>2. 5 \in i + 1..6
      BY <2>1
  <2> QED
      BY <2>2, <1>4, <1>10, Zenon
<1>11. X = "CTRL" => ~Pressed(X, FALSE, c)
    BY <1>6, <1>10, Zenon
<1> QED
    BY <1>9, <1>11 DEF c

LEMMA KeyNames ==
  ASSUME NEW k \in Keys
  PROVE  k \in {"A", "LShift", "RShift", "LCtrl", "RCtrl", "LAlt", "AltGr", "Up", "Pause"}
  BY KeysAssumption DEF MakeCode

(* The codes of the keys.                                                   *)
LEMMA TwoAndTwo ==
  ASSUME NEW a \in Int, NEW b \in Int, NEW c \in Int, NEW d \in Int
  PROVE  <<a, b>> \o <<c, d>> = <<a, b, c, d>>
<1> DEFINE s == <<a, b>> \o <<c, d>>
           t == <<a, b, c, d>>
<1>1. s \in Seq(Int) /\ t \in Seq(Int) /\ Len(s) = 4 /\ Len(t) = 4
    OBVIOUS
<1>2. s[1] = t[1] /\ s[2] = t[2] /\ s[3] = t[3] /\ s[4] = t[4]
    OBVIOUS
<1> HIDE DEF s, t
<1>3. \A i \in 1..4 : i = 1 \/ i = 2 \/ i = 3 \/ i = 4
    OBVIOUS
<1>4. \A i \in 1..4 : s[i] = t[i]
    BY <1>2, <1>3, Zenon
<1>5. s = t
    BY <1>1, <1>4, SeqEqual, Zenon
<1> QED
    BY <1>5 DEF s, t

LEMMA PressCodes ==
  /\ PressCode("A") = <<30>> /\ PressCode("LShift") = <<42>> /\ PressCode("RShift") = <<54>>
  /\ PressCode("LCtrl") = <<29>> /\ PressCode("LAlt") = <<56>>
  /\ PressCode("RCtrl") = <<224, 29>> /\ PressCode("AltGr") = <<224, 56>>
  /\ PressCode("Up") \in {<<224, 72>>, <<224, 170, 224, 72>>}
  /\ PressCode("Pause") = MakeCode["Pause"] /\ MakeCode["Pause"] = <<225, 29, 69, 225, 157, 197>>
<1>1. <<224, 170>> \o <<224, 72>> = <<224, 170, 224, 72>>
    BY TwoAndTwo
<1> QED
    BY <1>1 DEF PressCode, MakeCode

LEMMA ReleaseCodes ==
  /\ ReleaseCode("A") = <<158>> /\ ReleaseCode("LShift") = <<170>> /\ ReleaseCode("RShift") = <<182>>
  /\ ReleaseCode("LCtrl") = <<157>> /\ ReleaseCode("LAlt") = <<184>>
  /\ ReleaseCode("RCtrl") = <<224, 157>> /\ ReleaseCode("AltGr") = <<224, 184>>
  /\ ReleaseCode("Up") \in {<<224, 200>>, <<224, 200, 224, 42>>}
  /\ ReleaseCode("Pause") = << >>
<1>1. <<224, 200>> \o <<224, 42>> = <<224, 200, 224, 42>>
    BY TwoAndTwo
<1>2. \A b \in Int : Break(<<b>>) = <<b + 128>>
    BY DEF Break
<1>3. \A b \in Int : Break(<<224, b>>) = <<224, b + 128>>
    BY DEF Break
<1>4. /\ Break(<<30>>) = <<158>> /\ Break(<<42>>) = <<170>> /\ Break(<<54>>) = <<182>>
      /\ Break(<<29>>) = <<157>> /\ Break(<<56>>) = <<184>>
    BY <1>2
<1>5. /\ Break(<<224, 29>>) = <<224, 157>> /\ Break(<<224, 56>>) = <<224, 184>>
      /\ Break(<<224, 72>>) = <<224, 200>>
    BY <1>3
<1> QED
    BY <1>1, <1>4, <1>5, ZenonT(60) DEF ReleaseCode, MakeCode

KeyMod(k) ==
  CASE k = "LAlt" -> "ALT" [] k = "AltGr" -> "ALT_GR" [] k \in {"LShift", "RShift"} -> "SHIFT"
    [] k = "LCtrl" -> "CTRL" [] OTHER -> "none"

(* A code is bytes and does not end in a prefix.                            *)
IsCode(c) == c \in Seq(Byte) /\ (c # << >> => c[Len(c)] # EscapePrefix)

LEMMA PressEffect ==
  ASSUME NEW k \in Keys, NEW X \in Modifiers
  PROVE  /\ IsCode(PressCode(k))
         /\ Pressed(X, FALSE, PressCode(k)) <=> KeyMod(k) = X
         /\ KeyMod(k) # X /\ X # "CTRL" => Untouched(X, FALSE, PressCode(k))
<1>1. X # "none" /\ X \in {"SHIFT", "CTRL", "OS", "ALT", "ALT_GR"}
    BY DEF Modifiers
<1> DEFINE Good(c) == /\ IsCode(c) /\ (Pressed(X, FALSE, c) <=> KeyMod(k) = X)
                      /\ (KeyMod(k) # X /\ X # "CTRL" => Untouched(X, FALSE, c))
<1>2. ASSUME NEW b \in 0..127, ModOfCode(b, FALSE) = KeyMod(k) PROVE Good(<<b>>)
  <2>1. b \in Byte /\ b % 128 = b /\ IsMake(b) /\ b # 224
      BY DEF Byte, IsMake
  <2>2. /\ Pressed(X, FALSE, <<b>>) <=> (ModOfCode(b % 128, FALSE) = X /\ IsMake(b))
        /\ Untouched(X, FALSE, <<b>>) <=> ModOfCode(b % 128, FALSE) # X
      BY <2>1, OneByte, Zenon
  <2>3. IsCode(<<b>>)
      BY <2>1 DEF IsCode, EscapePrefix
  <2> QED
      BY <1>2, <2>1, <2>2, <2>3
<1>3. ASSUME NEW b \in 0..127, ModOfCode(b, TRUE) = KeyMod(k) PROVE Good(<<224, b>>)
  <2>1. b \in Byte /\ b % 128 = b /\ IsMake(b) /\ b # 224
      BY DEF Byte, IsMake
  <2>2. /\ Pressed(X, FALSE, <<224, b>>) <=> (ModOfCode(b % 128, TRUE) = X /\ IsMake(b))
        /\ Untouched(X, FALSE, <<224, b>>) <=> ModOfCode(b % 128, TRUE) # X
      BY <1>1, <2>1, TwoBytes, ZenonT(60)
  <2>3. IsCode(<<224, b>>)
      BY <2>1 DEF IsCode, EscapePrefix, Byte
  <2> QED
      BY <1>3, <2>1, <2>2, <2>3
<1>4. k = "Up" => Good(<<224, 170, 224, 72>>)
  <2>1. ModOfCode(170 % 128, TRUE) = "none" /\ ModOfCode(72 % 128, TRUE) = "none"
      BY DEF ModOfCode
  <2>2. 170 \in Byte /\ 72 \in Byte
      BY DEF Byte
  <2>3. Untouched(X, FALSE, <<224, 170, 224, 72>>) /\ ~Pressed(X, FALSE, <<224, 170, 224, 72>>)
      BY <1>1, <2>1, <2>2, FourBytes, ZenonT(60)
  <2>4. IsCode(<<224, 170, 224, 72>>)
      BY DEF IsCode, EscapePrefix, Byte
  <2> QED
      BY <1>1, <2>3, <2>4 DEF KeyMod
<1>5. k = "Pause" => Good(MakeCode["Pause"])
  <2>1. IsCode(MakeCode["Pause"])
      BY PressCodes DEF IsCode, EscapePrefix, Byte
  <2> QED
      BY <1>1, <2>1, PauseBytes DEF KeyMod
<1>6. /\ 30 \in 0..127 /\ 42 \in 0..127 /\ 54 \in 0..127 /\ 29 \in 0..127 /\ 56 \in 0..127
      /\ 72 \in 0..127
    OBVIOUS
<1>7. /\ k = "A" => ModOfCode(30, FALSE) = KeyMod(k)
      /\ k = "LShift" => ModOfCode(42, FALSE) = KeyMod(k)
      /\ k = "RShift" => ModOfCode(54, FALSE) = KeyMod(k)
      /\ k = "LCtrl" => ModOfCode(29, FALSE) = KeyMod(k)
      /\ k = "LAlt" => ModOfCode(56, FALSE) = KeyMod(k)
      /\ k = "RCtrl" => ModOfCode(29, TRUE) = KeyMod(k)
      /\ k = "AltGr" => ModOfCode(56, TRUE) = KeyMod(k)
      /\ k = "Up" => ModOfCode(72, TRUE) = KeyMod(k)
    BY DEF ModOfCode, KeyMod
<1> HIDE DEF Good
<1>8. Good(PressCode(k))
  <2>1. CASE k = "A"
    <3>1. Good(<<30>>)
        BY <2>1, <1>2, <1>6, <1>7
    <3> QED
        BY <2>1, <3>1, PressCodes, Zenon
  <2>2. CASE k = "LShift"
    <3>1. Good(<<42>>)
        BY <2>2, <1>2, <1>6, <1>7
    <3> QED
        BY <2>2, <3>1, PressCodes, Zenon
  <2>3. CASE k = "RShift"
    <3>1. Good(<<54>>)
        BY <2>3, <1>2, <1>6, <1>7
    <3> QED
        BY <2>3, <3>1, PressCodes, Zenon
  <2>4. CASE k = "LCtrl"
    <3>1. Good(<<29>>)
        BY <2>4, <1>2, <1>6, <1>7
    <3> QED
        BY <2>4, <3>1, PressCodes, Zenon
  <2>5. CASE k = "LAlt"
    <3>1. Good(<<56>>)
        BY <2>5, <1>2, <1>6, <1>7
    <3> QED
        BY <2>5, <3>1, PressCodes, Zenon
  <2>6. CASE k = "RCtrl"
    <3>1. Good(<<224, 29>>)
        BY <2>6, <1>3, <1>6, <1>7
    <3> QED
        BY <2>6, <3>1, PressCodes, ZenonT(60)
  <2>7. CASE k = "AltGr"
    <3>1. Good(<<224, 56>>)
        BY <2>7, <1>3, <1>6, <1>7
    <3> QED
        BY <2>7, <3>1, PressCodes, Zenon
  <2>8. CASE k = "Up"
    <3>1. Good(<<224, 72>>)
        BY <2>8, <1>3, <1>6, <1>7
    <3> QED
        BY <2>8, <3>1, <1>4, PressCodes
  <2>9. CASE k = "Pause"
      BY <2>9, <1>5, PressCodes
  <2> QED
      BY <2>1, <2>2, <2>3, <2>4, <2>5, <2>6, <2>7, <2>8, <2>9, KeyNames
<1> QED
    BY <1>8 DEF Good

LEMMA ReleaseEffect ==
  ASSUME NEW k \in Keys, NEW X \in Modifiers
  PROVE  /\ IsCode(ReleaseCode(k))
         /\ ~Pressed(X, FALSE, ReleaseCode(k))
         /\ Untouched(X, FALSE, ReleaseCode(k)) <=> KeyMod(k) # X
<1>1. X # "none" /\ X \in {"SHIFT", "CTRL", "OS", "ALT", "ALT_GR"}
    BY DEF Modifiers
<1> DEFINE Good(c) == /\ IsCode(c) /\ ~Pressed(X, FALSE, c)
                      /\ (Untouched(X, FALSE, c) <=> KeyMod(k) # X)
<1>2. ASSUME NEW b \in 128..255, b # 224, ModOfCode(b % 128, FALSE) = KeyMod(k) PROVE Good(<<b>>)
  <2>1. b \in Byte /\ ~IsMake(b)
      BY DEF Byte, IsMake
  <2>2. /\ Pressed(X, FALSE, <<b>>) <=> (ModOfCode(b % 128, FALSE) = X /\ IsMake(b))
        /\ Untouched(X, FALSE, <<b>>) <=> ModOfCode(b % 128, FALSE) # X
      BY <2>1, OneByte, Zenon
  <2>3. IsCode(<<b>>)
      BY <1>2, <2>1 DEF IsCode, EscapePrefix
  <2> QED
      BY <1>2, <2>1, <2>2, <2>3
<1>3. ASSUME NEW b \in 128..255, b # 224, ModOfCode(b % 128, TRUE) = KeyMod(k)
      PROVE  Good(<<224, b>>)
  <2>1. b \in Byte /\ ~IsMake(b)
      BY DEF Byte, IsMake
  <2>2. /\ Pressed(X, FALSE, <<224, b>>) <=> (ModOfCode(b % 128, TRUE) = X /\ IsMake(b))
        /\ Untouched(X, FALSE, <<224, b>>) <=> ModOfCode(b % 128, TRUE) # X
      BY <1>1, <2>1, TwoBytes, ZenonT(60)
  <2>3. IsCode(<<224, b>>)
      BY <1>3, <2>1 DEF IsCode, EscapePrefix, Byte
  <2> QED
      BY <1>3, <2>1, <2>2, <2>3
<1>4. k = "Up" => Good(<<224, 200, 224, 42>>)
  <2>1. ModOfCode(200 % 128, TRUE) = "none" /\ ModOfCode(42 % 128, TRUE) = "none"
      BY DEF ModOfCode
  <2>2. 200 \in Byte /\ 42 \in Byte
      BY DEF Byte
  <2>3. Untouched(X, FALSE, <<224, 200, 224, 42>>) /\ ~Pressed(X, FALSE, <<224, 200, 224, 42>>)
      BY <1>1, <2>1, <2>2, FourBytes, ZenonT(60)
  <2>4. IsCode(<<224, 200, 224, 42>>)
      BY DEF IsCode, EscapePrefix, Byte
  <2> QED
      BY <1>1, <2>3, <2>4 DEF KeyMod
<1>5. k = "Pause" => Good(<< >>)
    BY <1>1 DEF KeyMod, IsCode, Pressed, Untouched
<1>6. /\ 158 \in 128..255 /\ 170 \in 128..255 /\ 182 \in 128..255 /\ 157 \in 128..255 /\ 184 \in 128..255
      /\ 200 \in 128..255 /\ 158 # 224 /\ 170 # 224 /\ 182 # 224 /\ 157 # 224 /\ 184 # 224 /\ 200 # 224
    OBVIOUS
<1>7. /\ k = "A" => ModOfCode(158 % 128, FALSE) = KeyMod(k)
      /\ k = "LShift" => ModOfCode(170 % 128, FALSE) = KeyMod(k)
      /\ k = "RShift" => ModOfCode(182 % 128, FALSE) = KeyMod(k)
      /\ k = "LCtrl" => ModOfCode(157 % 128, FALSE) = KeyMod(k)
      /\ k = "LAlt" => ModOfCode(184 % 128, FALSE) = KeyMod(k)
      /\ k = "RCtrl" => ModOfCode(157 % 128, TRUE) = KeyMod(k)
      /\ k = "AltGr" => ModOfCode(184 % 128, TRUE) = KeyMod(k)
      /\ k = "Up" => ModOfCode(200 % 128, TRUE) = KeyMod(k)
    BY DEF ModOfCode, KeyMod
<1> HIDE DEF Good
<1>8. Good(ReleaseCode(k))
  <2>1. CASE k = "A"
    <3>1. Good(<<158>>)
        BY <2>1, <1>2, <1>6, <1>7
    <3> QED
        BY <2>1, <3>1, ReleaseCodes, ZenonT(60)
  <2>2. CASE k = "LShift"
    <3>1. Good(<<170>>)
        BY <2>2, <1>2, <1>6, <1>7
    <3> QED
        BY <2>2, <3>1, ReleaseCodes, Zenon
  <2>3. CASE k = "RShift"
    <3>1. Good(<<182>>)
        BY <2>3, <1>2, <1>6, <1>7
    <3> QED
        BY <2>3, <3>1, ReleaseCodes, ZenonT(60)
  <2>4. CASE k = "LCtrl"
    <3>1. Good(<<157>>)
        BY <2>4, <1>2, <1>6, <1>7
    <3> QED
        BY <2>4, <3>1, ReleaseCodes, ZenonT(60)
  <2>5. CASE k = "LAlt"
    <3>1. Good(<<184>>)
        BY <2>5, <1>2, <1>6, <1>7
    <3> QED
        BY <2>5, <3>1, ReleaseCodes, ZenonT(60)
  <2>6. CASE k = "RCtrl"
    <3>1. Good(<<224, 157>>)
        BY <2>6, <1>3, <1>6, <1>7
    <3> QED
        BY <2>6, <3>1, ReleaseCodes, ZenonT(60)
  <2>7. CASE k = "AltGr"
    <3>1. Good(<<224, 184>>)
        BY <2>7, <1>3, <1>6, <1>7
    <3> QED
        BY <2>7, <3>1, ReleaseCodes, ZenonT(60)
  <2>8. CASE k = "Up"
    <3>1. Good(<<224, 200>>)
        BY <2>8, <1>3, <1>6, <1>7
    <3> QED
        BY <2>8, <3>1, <1>4, ReleaseCodes
  <2>9. CASE k = "Pause"
      BY <2>9, <1>5, ReleaseCodes
  <2> QED
      BY <2>1, <2>2, <2>3, <2>4, <2>5, <2>6, <2>7, <2>8, <2>9, KeyNames
<1> QED
    BY <1>8 DEF Good

(* What will be in force when everything sent has been read.                *)
Ahead(X) == InForce(X, mods, esc, wire)

TypeInv == wire \in Seq(Byte) /\ esc \in BOOLEAN /\ mods \subseteq Modifiers
Complete == ~Prefixed(esc, wire, Len(wire) + 1)
(* The wire ends in no prefix, and with all of it read modifiers match.     *)
AheadMatches ==
  /\ Ahead("ALT") <=> "LAlt" \in held
  /\ Ahead("ALT_GR") <=> "AltGr" \in held
  /\ Ahead("SHIFT") => "LShift" \in held \/ "RShift" \in held
  /\ Ahead("CTRL") => "LCtrl" \in held
  /\ ~Ahead("OS")

Inv == TypeInv /\ Complete /\ AheadMatches

LEMMA InitInv == Init => Inv
<1> SUFFICES ASSUME Init PROVE Inv
    OBVIOUS
<1>1. wire = << >> /\ esc = FALSE /\ mods = {} /\ held = {} /\ Len(wire) = 0
    BY DEF Init
<1>2. \A X : ~Ahead(X)
    BY <1>1 DEF Ahead, InForce, Pressed
<1>3. TypeInv
  <2>1. << >> \in Seq(Byte)
      OBVIOUS
  <2> QED
      BY <1>1, <2>1, Zenon DEF TypeInv
<1>4. Complete
  <2>1. Len(wire) + 1 = 1
      BY <1>1
  <2> QED
      BY <1>1, <2>1 DEF Complete, Prefixed
<1> QED
    BY <1>1, <1>2, <1>3, <1>4, Zenon DEF Inv, AheadMatches, Ahead

LEMMA InvMatches == Inv => ModifiersMatchKeys
<1> SUFFICES ASSUME Inv, wire = << >> PROVE ModifiersMatchKeys
    BY DEF ModifiersMatchKeys
<1>1. \A X : Ahead(X) <=> X \in mods
    BY DEF Ahead, InForce, Pressed, Untouched
<1> QED
    BY <1>1 DEF Inv, AheadMatches, ModifiersMatchKeys

(* Bytes sent leave the wire complete.                                      *)
LEMMA SendComplete ==
  ASSUME TypeInv, Complete, NEW c, IsCode(c), wire' = wire \o c, esc' = esc, mods' = mods
  PROVE  /\ TypeInv' /\ Complete'
         /\ \A X : InForce(X, mods', esc', wire')
                  <=> (Pressed(X, FALSE, c) \/ (Untouched(X, FALSE, c) /\ Ahead(X)))
<1>1. c \in Seq(Byte) /\ (c # << >> => c[Len(c)] # EscapePrefix)
    BY DEF IsCode
<1>2. TypeInv'
    BY <1>1 DEF TypeInv
<1>3. Complete'
  <2>1. CASE c = << >>
      BY <2>1 DEF TypeInv, Complete
  <2>2. CASE c # << >>
    <3>1. Len(c) > 0 /\ Len(c) \in Nat /\ Len(wire') = Len(wire) + Len(c) /\ Len(wire) \in Nat
        BY <1>1, <2>2 DEF TypeInv
    <3>2. wire'[Len(wire')] = c[Len(c)]
        BY <1>1, <3>1 DEF TypeInv
    <3>3. (Len(wire') + 1) - 1 = Len(wire') /\ Len(wire') + 1 # 1
        BY <3>1
    <3> QED
        BY <1>1, <2>2, <3>2, <3>3 DEF Complete, Prefixed
  <2> QED
      BY <2>1, <2>2
<1>4. ASSUME NEW X PROVE InForce(X, mods', esc', wire')
                  <=> (Pressed(X, FALSE, c) \/ (Untouched(X, FALSE, c) /\ Ahead(X)))
  <2>1. InForce(X, mods, esc, wire')
          <=> (Pressed(X, FALSE, c) \/ (Untouched(X, FALSE, c) /\ InForce(X, mods, esc, wire)))
      BY <1>1, ReadMore, Zenon DEF TypeInv, Complete
  <2> QED
      BY <2>1 DEF Ahead
<1> QED
    BY <1>2, <1>3, <1>4

Mods == /\ "ALT" \in Modifiers /\ "ALT_GR" \in Modifiers /\ "SHIFT" \in Modifiers
        /\ "CTRL" \in Modifiers /\ "OS" \in Modifiers
LEMMA ModifierNames == Mods
  BY DEF Mods, Modifiers

LEMMA PressStep == ASSUME Inv, NEW k \in Keys, Press(k) PROVE Inv'
<1> DEFINE c == PressCode(k)
<1>1. wire' = wire \o c /\ esc' = esc /\ mods' = mods /\ held' = held \cup {k}
    BY DEF Press, Hit
<1>2. /\ IsCode(c)
      /\ \A X \in Modifiers : /\ Pressed(X, FALSE, c) <=> KeyMod(k) = X
                              /\ KeyMod(k) # X /\ X # "CTRL" => Untouched(X, FALSE, c)
    BY PressEffect, ModifierNames DEF Mods
<1> HIDE DEF c
<1>3. /\ TypeInv' /\ Complete'
      /\ \A X : InForce(X, mods', esc', wire')
                  <=> (Pressed(X, FALSE, c) \/ (Untouched(X, FALSE, c) /\ Ahead(X)))
    BY <1>1, <1>2, SendComplete, Zenon DEF Inv
<1>4. \A X \in Modifiers : /\ InForce(X, mods', esc', wire') => (KeyMod(k) = X \/ Ahead(X))
                           /\ X # "CTRL" => (InForce(X, mods', esc', wire') <=> (KeyMod(k) = X \/ Ahead(X)))
    BY <1>2, <1>3, Zenon
<1>5. /\ InForce("ALT", mods', esc', wire') <=> (KeyMod(k) = "ALT" \/ Ahead("ALT"))
      /\ InForce("ALT_GR", mods', esc', wire') <=> (KeyMod(k) = "ALT_GR" \/ Ahead("ALT_GR"))
      /\ InForce("SHIFT", mods', esc', wire') <=> (KeyMod(k) = "SHIFT" \/ Ahead("SHIFT"))
      /\ InForce("OS", mods', esc', wire') <=> (KeyMod(k) = "OS" \/ Ahead("OS"))
      /\ InForce("CTRL", mods', esc', wire') => (KeyMod(k) = "CTRL" \/ Ahead("CTRL"))
    BY <1>4, ModifierNames DEF Mods
<1>6. /\ KeyMod(k) = "ALT" <=> k = "LAlt"
      /\ KeyMod(k) = "ALT_GR" <=> k = "AltGr"
      /\ KeyMod(k) = "SHIFT" <=> k \in {"LShift", "RShift"}
      /\ KeyMod(k) = "CTRL" <=> k = "LCtrl"
      /\ KeyMod(k) # "OS"
    BY DEF KeyMod
<1>7. AheadMatches'
    BY <1>1, <1>5, <1>6 DEF Inv, AheadMatches, Ahead
<1> QED
    BY <1>3, <1>7 DEF Inv

LEMMA ReleaseStep == ASSUME Inv, NEW k \in Keys, Release(k) PROVE Inv'
<1> DEFINE c == ReleaseCode(k)
<1>1. wire' = wire \o c /\ esc' = esc /\ mods' = mods /\ held' = held \ {k}
    BY DEF Release, Hit
<1>2. /\ IsCode(c)
      /\ \A X \in Modifiers : /\ ~Pressed(X, FALSE, c)
                              /\ Untouched(X, FALSE, c) <=> KeyMod(k) # X
    BY ReleaseEffect, ModifierNames DEF Mods
<1> HIDE DEF c
<1>3. /\ TypeInv' /\ Complete'
      /\ \A X : InForce(X, mods', esc', wire')
                  <=> (Pressed(X, FALSE, c) \/ (Untouched(X, FALSE, c) /\ Ahead(X)))
    BY <1>1, <1>2, SendComplete, Zenon DEF Inv
<1>4. \A X \in Modifiers : InForce(X, mods', esc', wire') <=> (KeyMod(k) # X /\ Ahead(X))
  <2> TAKE X \in Modifiers
  <2>1. ~Pressed(X, FALSE, c) /\ (Untouched(X, FALSE, c) <=> KeyMod(k) # X)
      BY <1>2
  <2>2. InForce(X, mods', esc', wire')
                  <=> (Pressed(X, FALSE, c) \/ (Untouched(X, FALSE, c) /\ Ahead(X)))
      BY <1>3
  <2> QED
      BY <2>1, <2>2
<1>5. /\ InForce("ALT", mods', esc', wire') <=> (KeyMod(k) # "ALT" /\ Ahead("ALT"))
      /\ InForce("ALT_GR", mods', esc', wire') <=> (KeyMod(k) # "ALT_GR" /\ Ahead("ALT_GR"))
      /\ InForce("SHIFT", mods', esc', wire') <=> (KeyMod(k) # "SHIFT" /\ Ahead("SHIFT"))
      /\ InForce("OS", mods', esc', wire') <=> (KeyMod(k) # "OS" /\ Ahead("OS"))
      /\ InForce("CTRL", mods', esc', wire') <=> (KeyMod(k) # "CTRL" /\ Ahead("CTRL"))
    BY <1>4, ModifierNames DEF Mods
<1>6. /\ KeyMod(k) = "ALT" <=> k = "LAlt"
      /\ KeyMod(k) = "ALT_GR" <=> k = "AltGr"
      /\ KeyMod(k) = "SHIFT" <=> k \in {"LShift", "RShift"}
      /\ KeyMod(k) = "CTRL" <=> k = "LCtrl"
    BY DEF KeyMod
<1>7. AheadMatches'
    BY <1>1, <1>5, <1>6 DEF Inv, AheadMatches, Ahead
<1> QED
    BY <1>3, <1>7 DEF Inv

(* A further key is no modifier.                                            *)
LEMMA OtherEffect ==
  ASSUME NEW b \in Others, NEW X \in Modifiers
  PROVE  IsCode(<<b>>) /\ Untouched(X, FALSE, <<b>>) /\ ~Pressed(X, FALSE, <<b>>)
<1>1. b \in 1..127 /\ ModOf(scancode_to_key(b, FALSE)) = "none"
    BY OthersAssumption
<1>2. b \in 0..127 /\ b \in Byte /\ b % 128 = b /\ b # 224
    BY <1>1 DEF Byte
<1>3. ModOfCode(b % 128, FALSE) = "none"
    BY <1>1, <1>2, CodeMods, Zenon
<1>4. X # "none"
    BY DEF Modifiers
<1>5. Untouched(X, FALSE, <<b>>) /\ ~Pressed(X, FALSE, <<b>>)
    BY <1>2, <1>3, <1>4, OneByte, Zenon
<1>6. IsCode(<<b>>)
    BY <1>2 DEF IsCode, EscapePrefix
<1> QED
    BY <1>5, <1>6

LEMMA OtherStep == ASSUME Inv, PressOther PROVE Inv'
<1>1. PICK b \in Others : Hit(<<b>>)
    BY DEF PressOther
<1> DEFINE c == <<b>>
<1>2. wire' = wire \o c /\ esc' = esc /\ mods' = mods /\ held' = held
    BY <1>1 DEF PressOther, Hit
<1>3. IsCode(c) /\ \A X \in Modifiers : ~Pressed(X, FALSE, c) /\ Untouched(X, FALSE, c)
    BY OtherEffect, ModifierNames DEF Mods
<1> HIDE DEF c
<1>4. /\ TypeInv' /\ Complete'
      /\ \A X : InForce(X, mods', esc', wire')
                  <=> (Pressed(X, FALSE, c) \/ (Untouched(X, FALSE, c) /\ Ahead(X)))
    BY <1>2, <1>3, SendComplete DEF Inv
<1>5. \A X \in Modifiers : InForce(X, mods', esc', wire') <=> Ahead(X)
    BY <1>3, <1>4
<1>6. AheadMatches'
    BY <1>2, <1>5, ModifierNames DEF Inv, AheadMatches, Ahead, Mods
<1> QED
    BY <1>4, <1>6 DEF Inv

LEMMA ReadStep == ASSUME Inv, KeyboardIrqHandler PROVE Inv'
<1> DEFINE byte == wire[1]
           key  == scancode_to_key(byte % 128, esc)
<1>1. wire # << >> /\ wire' = Tail(wire) /\ esc' = (byte = EscapePrefix) /\ held' = held
    BY DEF KeyboardIrqHandler, EscAfter
<1>2. mods' = IF byte = EscapePrefix THEN mods ELSE ModsAfter(key, byte >= 128)
    BY DEF KeyboardIrqHandler
<1>3. byte \in Byte /\ esc \in BOOLEAN /\ wire \in Seq(Byte) /\ mods \subseteq Modifiers
    BY <1>1 DEF Inv, TypeInv
<1>4. ModOf(key) = ModAt(esc, wire, 1)
  <2>1. ModOf(key) = ModOfCode(byte % 128, esc)
      BY <1>3, ByteMods, ZenonT(60)
  <2> QED
      BY <2>1 DEF ModAt, Prefixed
<1>5. byte = EscapePrefix => ModAt(esc, wire, 1) = "none"
    BY DEF ModAt, ModOfCode, EscapePrefix
<1>6. mods' = IF ModAt(esc, wire, 1) = "none" THEN mods
              ELSE IF byte >= 128 THEN mods \ {ModAt(esc, wire, 1)}
              ELSE mods \cup {ModAt(esc, wire, 1)}
    BY <1>2, <1>4, <1>5 DEF ModsAfter
<1>7. \A X \in Modifiers : InForce(X, mods', esc', wire') <=> Ahead(X)
  <2> TAKE X \in Modifiers
  <2>1. X # "none"
      BY DEF Modifiers
  <2>2. InForce(X, mods', byte = EscapePrefix, Tail(wire)) <=> InForce(X, mods, esc, wire)
      BY <1>1, <1>3, <1>6, <2>1, ReadOne, ZenonT(60)
  <2> QED
      BY <1>1, <2>2, Zenon DEF Ahead
<1>8. mods' \subseteq Modifiers
  <2>1. ModAt(esc, wire, 1) # "none" => ModAt(esc, wire, 1) \in Modifiers
      BY DEF ModAt, ModOfCode, Modifiers
  <2> QED
      BY <1>3, <1>6, <2>1
<1>9. TypeInv'
    BY <1>1, <1>3, <1>8 DEF TypeInv
<1>10. Complete'
  <2> DEFINE n == Len(wire)
  <2>1. n \in Nat \ {0} /\ Len(wire') = n - 1 /\ \A i \in 1..n - 1 : wire'[i] = wire[i + 1]
      BY <1>1, <1>3
  <2>2. wire[n] # EscapePrefix
      BY <2>1 DEF Inv, Complete, Prefixed
  <2>3. CASE n = 1
    <3>1. Len(wire') + 1 = 1
        BY <2>1, <2>3
    <3> QED
        BY <1>1, <2>2, <2>3, <3>1 DEF Complete, Prefixed
  <2>4. CASE n # 1
    <3>1. Len(wire') + 1 # 1 /\ (Len(wire') + 1) - 1 = n - 1 /\ n - 1 \in 1..n - 1 /\ (n - 1) + 1 = n
        BY <2>1, <2>4
    <3>2. wire'[(Len(wire') + 1) - 1] = wire[n]
        BY <2>1, <3>1
    <3> QED
        BY <2>2, <3>1, <3>2 DEF Complete, Prefixed
  <2> QED
      BY <2>3, <2>4
<1>11. AheadMatches'
    BY <1>1, <1>7, ModifierNames DEF Inv, AheadMatches, Ahead, Mods
<1> QED
    BY <1>9, <1>10, <1>11 DEF Inv

LEMMA StepInv == Inv /\ [Next]_vars => Inv'
<1> SUFFICES ASSUME Inv, [Next]_vars PROVE Inv'
    OBVIOUS
<1>1. CASE UNCHANGED vars
    BY <1>1 DEF vars, Inv, TypeInv, Complete, AheadMatches, Ahead
<1> QED
    BY <1>1, PressStep, ReleaseStep, OtherStep, ReadStep DEF Next

(* When every byte has been read, modifiers match the keys that are down,   *)
(* however many keys went down and up, in any order, and however far the    *)
(* driver was behind in between (ps2.c:172-210).                            *)
THEOREM ModifiersMatchKeysHolds == Spec => []ModifiersMatchKeys
  BY InitInv, StepInv, InvMatches, PTL DEF Spec

-----------------------------------------------------------------------------
(* The two tables.                                                          *)

LEMMA PlainKeys ==
  ASSUME NEW e \in PlainChars, NEW m
  PROVE  key_to_codepoint(e[1], m) = e[2]
<1> DEFINE t == CHOOSE a \in PlainChars : a[1] = e[1]
<1>1. t \in PlainChars /\ t[1] = e[1]
    BY Zenon
<1>2. \A a, b \in PlainChars : a[1] = b[1] => a[2] = b[2]
    BY DEF PlainChars
<1>3. PlainChar(e[1]) = t[2]
    BY DEF PlainChar
<1>4. key_to_codepoint(e[1], m) = PlainChar(e[1])
  <2>1. \E a \in PlainChars : a[1] = e[1]
      OBVIOUS
  <2>2. ~\E a \in ExactChars : a[1] = e[1] /\ a[2] = m
      BY DEF PlainChars, ExactChars
  <2>3. e[1] \notin 4..29 /\ e[1] \notin 30..39
      BY DEF PlainChars
  <2> QED
      BY <2>1, <2>2, <2>3 DEF key_to_codepoint
<1> HIDE DEF t
<1> QED
    BY <1>1, <1>2, <1>3, <1>4

LEMMA ExactKeys ==
  ASSUME NEW e \in ExactChars
  PROVE  key_to_codepoint(e[1], e[2]) = e[3]
<1> DEFINE t == CHOOSE a \in ExactChars : a[1] = e[1] /\ a[2] = e[2]
<1>1. t \in ExactChars /\ t[1] = e[1] /\ t[2] = e[2]
    BY Zenon
<1>2. \A a, b \in ExactChars : a[1] = b[1] /\ a[2] = b[2] => a[3] = b[3]
    BY DEF ExactChars
<1>3. \A a \in PlainChars : a[1] # e[1]
    BY DEF PlainChars, ExactChars
<1>4. ExactChar(e[1], e[2]) = t[3]
    BY DEF ExactChar
<1>5. key_to_codepoint(e[1], e[2]) = ExactChar(e[1], e[2])
  <2>1. ~\E a \in PlainChars : a[1] = e[1]
      BY <1>3
  <2>2. \E a \in ExactChars : a[1] = e[1] /\ a[2] = e[2]
      OBVIOUS
  <2>3. e[1] \notin 4..29 /\ e[1] \notin 30..39
      BY DEF ExactChars
  <2> QED
      BY <2>1, <2>2, <2>3 DEF key_to_codepoint
<1> HIDE DEF t
<1> QED
    BY <1>1, <1>2, <1>4, <1>5

LEMMA LetterKeys ==
  ASSUME NEW k \in 4..29, NEW m
  PROVE  key_to_codepoint(k, m) = LetterChar(k, m)
<1>1. \A a \in PlainChars : a[1] # k
    BY DEF PlainChars
<1>2. \A a \in ExactChars : a[1] # k
    BY DEF ExactChars
<1> QED
    BY <1>1, <1>2 DEF key_to_codepoint

LEMMA DigitKeys ==
  ASSUME NEW k \in 30..39, NEW m
  PROVE  key_to_codepoint(k, m) = DigitChar(k, m)
<1>1. \A a \in PlainChars : a[1] # k
    BY DEF PlainChars
<1>2. \A a \in ExactChars : a[1] # k
    BY DEF ExactChars
<1>3. k \notin 4..29
    OBVIOUS
<1> QED
    BY <1>1, <1>2, <1>3 DEF key_to_codepoint

(* No other key and set of modifiers gives a character.                     *)
LEMMA OtherKeys ==
  ASSUME NEW k \in Key, NEW m, key_to_codepoint(k, m) # 0
  PROVE  \/ k \in 4..39
         \/ \E e \in PlainChars : k = e[1]
         \/ \E e \in ExactChars : k = e[1] /\ m = e[2]
<1> SUFFICES ASSUME k \notin 4..39, \A e \in PlainChars : k # e[1],
                    \A e \in ExactChars : ~(k = e[1] /\ m = e[2])
             PROVE  key_to_codepoint(k, m) = 0
    OBVIOUS
<1>1. k \notin 4..29 /\ k \notin 30..39
    OBVIOUS
<1> QED
    BY <1>1 DEF key_to_codepoint

LetterOf(k, v) == /\ v \in {64} \cup 65..90 \cup 97..122
                  /\ v = 64 => k = 20
                  /\ v \in 65..90 => Letter(k) = v + 32
                  /\ v \in 97..122 => Letter(k) = v

LEMMA LetterChars ==
  ASSUME NEW k \in 4..29, NEW m
  PROVE  LetterOf(k, LetterChar(k, m))
<1>1. Letter(k) \in 97..122
    BY DEF Letter
<1>2. Letter(k) = 113 => k = 20
    BY DEF Letter
<1> QED
    BY <1>1, <1>2 DEF LetterChar, LetterOf

LEMMA LetterInjective ==
  ASSUME NEW k \in 4..29, NEW n \in 4..29, Letter(k) = Letter(n)
  PROVE  k = n
  BY DEF Letter

(* The characters of the keys that are no letters.                          *)
OtherPairs ==
  {<<43, 9>>, <<42, 8>>, <<40, 10>>, <<44, 32>>, <<54, 59>>, <<54, 44>>, <<55, 58>>, <<55, 46>>,
   <<56, 95>>, <<56, 45>>, <<49, 39>>, <<49, 35>>, <<48, 42>>, <<48, 126>>, <<48, 43>>,
   <<100, 62>>, <<100, 124>>, <<100, 60>>, <<45, 63>>, <<45, 92>>, <<46, 96>>, <<53, 94>>,
   <<30, 49>>, <<31, 50>>, <<32, 51>>, <<33, 52>>, <<34, 53>>, <<35, 54>>, <<36, 55>>, <<37, 56>>,
   <<38, 57>>, <<39, 48>>, <<30, 33>>, <<31, 34>>, <<33, 36>>, <<34, 37>>, <<35, 38>>, <<36, 47>>,
   <<37, 40>>, <<38, 41>>, <<39, 61>>, <<36, 123>>, <<37, 91>>, <<38, 93>>, <<39, 125>>}

LEMMA OthersApart ==
  /\ \A a \in OtherPairs : a[2] \notin {64} \cup 65..90 \cup 97..122
  /\ \A a, b \in OtherPairs : a[2] = b[2] => a[1] = b[1]
<1>1. \A a \in OtherPairs : a[2] \notin {64} \cup 65..90 \cup 97..122
    BY DEF OtherPairs
<1>2. \A a, b \in OtherPairs : a[2] = b[2] => a[1] = b[1]
    BY SMTT(60) DEF OtherPairs
<1> QED
    BY <1>1, <1>2

LEMMA DigitChars ==
  ASSUME NEW k \in 30..39, NEW m, DigitChar(k, m) # 0
  PROVE  <<k, DigitChar(k, m)>> \in OtherPairs
  BY DEF DigitChar, Numbers, NumbersShift, NumbersAltGr, OtherPairs

LEMMA OtherChars ==
  ASSUME NEW k \in Key, k \notin 4..29, NEW m, key_to_codepoint(k, m) # 0
  PROVE  <<k, key_to_codepoint(k, m)>> \in OtherPairs
<1>1. CASE k \in 30..39
    BY <1>1, DigitKeys, DigitChars
<1>2. ASSUME NEW e \in PlainChars, k = e[1] PROVE <<k, key_to_codepoint(k, m)>> \in OtherPairs
  <2>1. key_to_codepoint(k, m) = e[2]
      BY <1>2, PlainKeys
  <2> QED
      BY <1>2, <2>1 DEF PlainChars, OtherPairs
<1>3. ASSUME NEW e \in ExactChars, k = e[1], m = e[2]
      PROVE  <<k, key_to_codepoint(k, m)>> \in OtherPairs
  <2>1. key_to_codepoint(k, m) = e[3]
      BY <1>3, ExactKeys
  <2>2. <<e[1], e[3]>> \in OtherPairs
      BY DEF ExactChars, OtherPairs
  <2> QED
      BY <1>3, <2>1, <2>2
<1>4. k \in 4..39 => k \in 30..39
    OBVIOUS
<1> QED
    BY <1>1, <1>2, <1>3, <1>4, OtherKeys

(* Two keys never give the same character, with any modifiers.              *)
LEMMA OneKey ==
  ASSUME NEW k \in Key, NEW n \in Key, NEW m, NEW l,
         key_to_codepoint(k, m) = key_to_codepoint(n, l), key_to_codepoint(k, m) # 0
  PROVE  k = n
<1> DEFINE v == key_to_codepoint(k, m)
<1>1. CASE k \in 4..29 /\ n \in 4..29
  <2>1. v = LetterChar(k, m) /\ v = LetterChar(n, l)
      BY <1>1, LetterKeys
  <2> HIDE DEF v
  <2>2. LetterOf(k, v) /\ LetterOf(n, v)
      BY <1>1, <2>1, LetterChars
  <2>3. (k = 20 /\ n = 20) \/ Letter(k) = Letter(n)
      BY <2>2 DEF LetterOf
  <2> QED
      BY <1>1, <2>3, LetterInjective
<1>2. \A i \in Key : \A s : i \in 4..29 => key_to_codepoint(i, s) \in {64} \cup 65..90 \cup 97..122
    BY LetterKeys, LetterChars DEF LetterOf
<1>3. \A i \in Key : \A s :
        i \notin 4..29 /\ key_to_codepoint(i, s) # 0 => <<i, key_to_codepoint(i, s)>> \in OtherPairs
    BY OtherChars
<1>4. CASE k \notin 4..29 /\ n \notin 4..29
  <2>1. <<k, v>> \in OtherPairs /\ <<n, v>> \in OtherPairs
      BY <1>3, <1>4
  <2> HIDE DEF v
  <2> QED
      BY <2>1, OthersApart
<1>5. CASE k \notin 4..29 /\ n \in 4..29
  <2>1. <<k, v>> \in OtherPairs /\ v \in {64} \cup 65..90 \cup 97..122
      BY <1>2, <1>3, <1>5
  <2> HIDE DEF v
  <2> QED
      BY <2>1, OthersApart
<1>6. CASE k \in 4..29 /\ n \notin 4..29
  <2>1. <<n, v>> \in OtherPairs /\ v \in {64} \cup 65..90 \cup 97..122
      BY <1>2, <1>3, <1>6
  <2> HIDE DEF v
  <2> QED
      BY <2>1, OthersApart
<1> QED
    BY <1>1, <1>4, <1>5, <1>6

(* Where the keys that print are in the table of scan codes.                *)
Printing ==
  {<<30, 4>>, <<48, 5>>, <<46, 6>>, <<32, 7>>, <<18, 8>>, <<33, 9>>, <<34, 10>>, <<35, 11>>,
   <<23, 12>>, <<36, 13>>, <<37, 14>>, <<38, 15>>, <<50, 16>>, <<49, 17>>, <<24, 18>>,
   <<25, 19>>, <<16, 20>>, <<19, 21>>, <<31, 22>>, <<20, 23>>, <<22, 24>>, <<47, 25>>,
   <<17, 26>>, <<45, 27>>, <<21, 28>>, <<44, 29>>, <<2, 30>>, <<3, 31>>, <<4, 32>>, <<5, 33>>,
   <<6, 34>>, <<7, 35>>, <<8, 36>>, <<9, 37>>, <<10, 38>>, <<11, 39>>, <<57, 44>>, <<12, 45>>,
   <<13, 46>>, <<27, 48>>, <<43, 49>>, <<41, 53>>, <<51, 54>>, <<52, 55>>, <<53, 56>>}

LEMMA KnownKeys ==
  /\ \A k \in 4..39 : k \in Known
  /\ {44, 45, 46, 48, 49, 53, 54, 55, 56, 100} \subseteq Known
<1>1. \A p \in Printing : p[1] \in 1..57 /\ MainKeys[p[1]] = p[2]
    BY SMTT(60) DEF Printing, MainKeys
<1>2. DOMAIN MainKeys = 1..57
    BY DEF MainKeys
<1>3. ASSUME NEW p \in Printing PROVE p[2] \in Known
  <2>1. p[1] \in 1..57 /\ MainKeys[p[1]] = p[2] /\ p[1] \in DOMAIN MainKeys
      BY <1>1, <1>2
  <2>2. p[1] \in 1..127 /\ p[1] # 86 /\ p[1] # 91
      BY <2>1
  <2>3. scancode_to_key(p[1], FALSE) = p[2]
      BY <2>1, <2>2 DEF scancode_to_key
  <2> QED
      BY <2>2, <2>3 DEF Known
<1>4. scancode_to_key(86, FALSE) = 100
    BY <1>2 DEF scancode_to_key
<1>5. 100 \in Known
  <2>1. 86 \in 1..127
      OBVIOUS
  <2> QED
      BY <1>4, <2>1 DEF Known
<1>6. \A k \in 4..39 \cup {44, 45, 46, 48, 49, 53, 54, 55, 56} : \E p \in Printing : p[2] = k
    BY SMTT(60) DEF Printing
<1>7. \A k \in 4..39 \cup {44, 45, 46, 48, 49, 53, 54, 55, 56} : k \in Known
    BY <1>3, <1>6
<1> QED
    BY <1>5, <1>7

LEMMA TypeableIf ==
  ASSUME NEW k \in Known, NEW m \in Levels, NEW v, key_to_codepoint(k, m) = v
  PROVE  v \in Typeable
  BY DEF Typeable

LEMMA LettersTyped ==
  ASSUME NEW v \in 97..122
  PROVE  v \in Typeable /\ v - 32 \in Typeable
<1>1. \E k \in 4..29 : Letter(k) = v
  <2>1. CASE v = 122
      BY <2>1 DEF Letter
  <2>2. CASE v = 121
      BY <2>2 DEF Letter
  <2>3. CASE v < 121
    <3>1. v - 93 \in 4..29 /\ Letter(v - 93) = v
        BY <2>3 DEF Letter
    <3> QED
        BY <3>1
  <2> QED
      BY <2>1, <2>2, <2>3
<1>2. PICK k \in 4..29 : Letter(k) = v
    BY <1>1
<1>3. k \in Known
  <2>1. k \in 4..39
      OBVIOUS
  <2> QED
      BY <2>1, KnownKeys
<1>4. key_to_codepoint(k, {}) = v /\ key_to_codepoint(k, {"SHIFT"}) = v - 32
    BY <1>2, LetterKeys DEF LetterChar
<1>5. {} \in Levels /\ {"SHIFT"} \in Levels
    BY DEF Levels
<1> QED
    BY <1>3, <1>4, <1>5, TypeableIf, Zenon

LEMMA ExactTyped ==
  ASSUME NEW e \in ExactChars
  PROVE  e[3] \in Typeable
<1>1. e[1] \in Known
  <2>1. e[1] \in {44, 45, 46, 48, 49, 53, 54, 55, 56, 100}
      BY DEF ExactChars
  <2> QED
      BY <2>1, KnownKeys
<1>2. e[2] \in Levels
    BY DEF ExactChars, Levels
<1> QED
    BY <1>1, <1>2, ExactKeys, TypeableIf, Zenon

LEMMA DigitsTyped ==
  ASSUME NEW i \in 1..10
  PROVE  Numbers[i] \in Typeable /\ NumbersShift[i] \in Typeable /\ NumbersAltGr[i] \in Typeable
<1> DEFINE k == i + 29
<1>1. k \in 30..39 /\ k \in 4..39 /\ k - 29 = i
    OBVIOUS
<1>2. k \in Known
    BY <1>1, KnownKeys
<1> HIDE DEF k
<1>3. /\ DigitChar(k, {}) = Numbers[i] /\ DigitChar(k, {"SHIFT"}) = NumbersShift[i]
      /\ DigitChar(k, {"ALT_GR"}) = NumbersAltGr[i]
    BY <1>1 DEF DigitChar
<1>4. {} \in Levels /\ {"SHIFT"} \in Levels /\ {"ALT_GR"} \in Levels
    BY DEF Levels
<1>5. \A m : key_to_codepoint(k, m) = DigitChar(k, m)
    BY <1>1, DigitKeys
<1> QED
    BY <1>2, <1>3, <1>4, <1>5, TypeableIf, Zenon

(* Every printable ASCII character can be typed.                            *)
LEMMA CharsTyped == 32..126 \subseteq Typeable
<1>1. {59, 44, 58, 46, 95, 45, 39, 35, 42, 126, 43, 62, 124, 60, 63, 92, 96, 94} \subseteq Typeable
  <2>1. \A v \in {59, 44, 58, 46, 95, 45, 39, 35, 42, 126, 43, 62, 124, 60, 63, 92, 96, 94} :
          \E e \in ExactChars : e[3] = v
      BY DEF ExactChars
  <2> QED
      BY <2>1, ExactTyped
<1>2. {48, 49, 50, 51, 52, 53, 54, 55, 56, 57} \subseteq Typeable
  <2>1. \A v \in {48, 49, 50, 51, 52, 53, 54, 55, 56, 57} : \E i \in 1..10 : Numbers[i] = v
      BY DEF Numbers
  <2> QED
      BY <2>1, DigitsTyped
<1>3. {33, 34, 36, 37, 38, 47, 40, 41, 61} \subseteq Typeable
  <2>1. \A v \in {33, 34, 36, 37, 38, 47, 40, 41, 61} : \E i \in 1..10 : NumbersShift[i] = v
      BY DEF NumbersShift
  <2> QED
      BY <2>1, DigitsTyped
<1>4. {123, 91, 93, 125} \subseteq Typeable
  <2>1. \A v \in {123, 91, 93, 125} : \E i \in 1..10 : NumbersAltGr[i] = v
      BY DEF NumbersAltGr
  <2> QED
      BY <2>1, DigitsTyped
<1>5. 32 \in Typeable
  <2>1. <<44, 32>> \in PlainChars /\ {} \in Levels /\ 44 \in Known
      BY KnownKeys DEF PlainChars, Levels
  <2>2. key_to_codepoint(44, {}) = 32
      BY <2>1, PlainKeys
  <2> QED
      BY <2>1, <2>2, TypeableIf, Zenon
<1>6. 64 \in Typeable
  <2>1. 20 \in Known /\ {"ALT_GR"} \in Levels
      BY KnownKeys DEF Levels
  <2>2. key_to_codepoint(20, {"ALT_GR"}) = 64
      BY LetterKeys DEF LetterChar, Letter
  <2> QED
      BY <2>1, <2>2, TypeableIf
<1>7. \A v \in 65..90 : v \in Typeable
  <2>1. ASSUME NEW v \in 65..90 PROVE v \in Typeable
    <3>1. v + 32 \in 97..122 /\ (v + 32) - 32 = v
        OBVIOUS
    <3>2. (v + 32) - 32 \in Typeable
        BY <3>1, LettersTyped
    <3> QED
        BY <3>1, <3>2
  <2> QED
      BY <2>1
<1>8. \A v \in 97..122 : v \in Typeable
    BY LettersTyped
<1>9. \A v \in 32..126 : \/ v \in 65..90 \/ v \in 97..122 \/ v = 32 \/ v = 64
        \/ v \in {59, 44, 58, 46, 95, 45, 39, 35, 42, 126, 43, 62, 124, 60, 63, 92, 96, 94}
        \/ v \in {48, 49, 50, 51, 52, 53, 54, 55, 56, 57}
        \/ v \in {33, 34, 36, 37, 38, 47, 40, 41, 61} \/ v \in {123, 91, 93, 125}
    OBVIOUS
<1>10. ASSUME NEW v \in 32..126 PROVE v \in Typeable
    BY <1>1, <1>2, <1>3, <1>4, <1>5, <1>6, <1>7, <1>8, <1>9
<1> QED
    BY <1>10

Chars == {key_to_codepoint(k, m) : k \in Key, m \in SUBSET Modifiers}
Reports == [key : Key, released : BOOLEAN, mods : SUBSET Modifiers, codepoint : Chars]

(* Every report has the character of its key and modifiers.                 *)
Reported ==
  /\ events \in Seq(Reports)
  /\ \A i \in 1..Len(events) :
       events[i].codepoint = key_to_codepoint(events[i].key, events[i].mods)

LEMMA KeysDecoded ==
  ASSUME NEW c \in 0..127, NEW prefix \in BOOLEAN
  PROVE  scancode_to_key(c, prefix) \in Key
  BY DEF scancode_to_key, MainKeys, Key, KEY_UNKNOWN, KEY_L_CTRL, KEY_L_SHIFT, KEY_L_ALT, KEY_L_GUI,
         KEY_R_SHIFT, KEY_R_ALT

LEMMA ReportStep == ASSUME Inv, Inv', Reported, KeyboardIrqHandler PROVE Reported'
<1> DEFINE byte == wire[1]
           key  == scancode_to_key(byte % 128, esc)
           e == [key |-> key, released |-> byte >= 128, mods |-> mods',
                 codepoint |-> key_to_codepoint(key, mods')]
<1>1. wire # << >> /\ (events' = events \/ events' = Append(events, e))
    BY DEF KeyboardIrqHandler
<1>2. byte \in Byte /\ byte % 128 \in 0..127 /\ esc \in BOOLEAN
  <2>1. byte \in Byte /\ esc \in BOOLEAN
      BY <1>1 DEF Inv, TypeInv
  <2>2. \A b \in Byte : b % 128 \in 0..127
      BY DEF Byte
  <2> QED
      BY <2>1, <2>2, Zenon
<1>3. key \in Key
    BY <1>2, KeysDecoded
<1>4. mods' \in SUBSET Modifiers
    BY DEF Inv, TypeInv
<1>5. e \in Reports /\ e.codepoint = key_to_codepoint(e.key, e.mods)
  <2>1. key_to_codepoint(key, mods') \in Chars
      BY <1>3, <1>4 DEF Chars
  <2> HIDE DEF key
  <2> QED
      BY <1>3, <1>4, <2>1 DEF Reports
<1> HIDE DEF e
<1>6. CASE events' = Append(events, e)
    BY <1>5, <1>6 DEF Reported
<1>7. CASE events' = events
    BY <1>7 DEF Reported
<1> QED
    BY <1>1, <1>6, <1>7

LEMMA ReportedStep == Inv /\ Inv' /\ Reported /\ [Next]_vars => Reported'
<1> SUFFICES ASSUME Inv, Inv', Reported, [Next]_vars PROVE Reported'
    OBVIOUS
<1>1. KeyboardIrqHandler \/ events' = events
    BY DEF Next, Press, Release, PressOther, vars
<1> QED
    BY <1>1, ReportStep DEF Reported

LEMMA ReportedOneKey == Reported => CharsHaveOneKey
<1> SUFFICES ASSUME Reported PROVE CharsHaveOneKey
    OBVIOUS
<1>1. EveryCharTyped
    BY CharsTyped DEF EveryCharTyped
<1>2. ASSUME events # << >>, events[Len(events)].codepoint # 0,
             NEW t \in Typed, t[2] = events[Len(events)].codepoint
      PROVE  t[1] = events[Len(events)].key
  <2> DEFINE e == events[Len(events)]
  <2>1. Len(events) \in 1..Len(events) /\ e \in Reports
      BY <1>2 DEF Reported
  <2>2. e.key \in Key /\ e.codepoint = key_to_codepoint(e.key, e.mods)
      BY <2>1 DEF Reported, Reports
  <2>3. PICK k \in Key, m \in SUBSET Modifiers : t = <<k, key_to_codepoint(k, m)>>
      BY DEF Typed
  <2>4. key_to_codepoint(k, m) = key_to_codepoint(e.key, e.mods) /\ key_to_codepoint(k, m) # 0
      BY <1>2, <2>2, <2>3
  <2> HIDE DEF e
  <2>5. k = e.key
      BY <2>2, <2>4, OneKey
  <2> QED
      BY <2>3, <2>5 DEF e
<1>3. OneKeyPerChar
    BY <1>2 DEF OneKeyPerChar
<1> QED
    BY <1>1, <1>3 DEF CharsHaveOneKey

(* Every printable character can be typed, and whatever was typed before,   *)
(* the character of a key press is that of no other key with any set of     *)
(* modifiers (ps2.c:8-157).                                                 *)
THEOREM CharsHaveOneKeyHolds == Spec => []CharsHaveOneKey
<1>1. Init => Reported
    BY DEF Init, Reported
<1> QED
    BY <1>1, InitInv, StepInv, ReportedStep, ReportedOneKey, PTL DEF Spec

-----------------------------------------------------------------------------
(* The driver implements KeyEvents.                                         *)

LEMMA LeastNumber ==
  ASSUME NEW T \in SUBSET Nat, T # {}
  PROVE  \E m \in T : \A k \in T : m <= k
<1> DEFINE R == {ss \in Nat \X Nat : ss[1] < ss[2]}
<1>1. IsWellFoundedOn(R, Nat)
    BY NatLessThanWellFounded DEF OpToRel
<1> HIDE DEF R
<1>2. PICK m \in T : \A k \in T : ~(<<k, m>> \in R)
    BY <1>1, WFMin, Zenon
<1>3. ASSUME NEW k \in T PROVE m <= k
  <2>1. <<k, m>> \in Nat \X Nat /\ ~(<<k, m>> \in R)
      BY <1>2
  <2>2. ~(k < m)
      BY <2>1 DEF R
  <2> QED
      BY <2>1, <2>2
<1> QED
    BY <1>3

(* Induction up to a number, over a set instead of a predicate.             *)
LEMMA Induct ==
  ASSUME NEW L \in Nat, NEW S, 0 \in S, \A n \in 1..L : n - 1 \in S => n \in S
  PROVE  \A n \in 0..L : n \in S
<1> SUFFICES ASSUME NEW z \in 0..L, z \notin S PROVE FALSE
    OBVIOUS
<1> DEFINE T == {n \in 0..L : n \notin S}
<1>1. T \in SUBSET Nat /\ T # {}
    OBVIOUS
<1>2. PICK m \in T : \A k \in T : m <= k
    BY <1>1, LeastNumber
<1>3. m \in 1..L /\ m - 1 \in 0..L /\ ~(m <= m - 1)
    BY <1>2
<1>4. m - 1 \in S
    BY <1>2, <1>3
<1> QED
    BY <1>2, <1>3, <1>4

(* What the first n bytes are read as, one step of it at a time.            *)
Trans == [key : Key, released : BOOLEAN]
Body(e, w, f, n) ==
  IF n = 0 THEN << >>
  ELSE IF w[n] = EscapePrefix THEN f[n - 1] ELSE Append(f[n - 1], Transition(e, w, n))
Reads(e, w, n) == Decoded(e, w)[n]

LEMMA ElementIs ==
  ASSUME NEW S, NEW q \in Seq(S), NEW n \in 1..Len(q)
  PROVE  q[n] \in S
  OBVIOUS

LEMMA TransitionIs ==
  ASSUME NEW e \in BOOLEAN, NEW w \in Seq(Byte), NEW n \in 1..Len(w)
  PROVE  Transition(e, w, n) \in Trans
<1>1. w[n] \in Byte
    BY ElementIs, Zenon
<1>2. Prefixed(e, w, n) \in BOOLEAN
  <2>1. CASE n = 1
      BY <2>1 DEF Prefixed
  <2>2. CASE n # 1
    <3>1. Prefixed(e, w, n) = (w[n - 1] = EscapePrefix)
        BY <2>2 DEF Prefixed
    <3> QED
        BY <3>1, Zenon
  <2> QED
      BY <2>1, <2>2
<1>3. \A b \in Byte : b % 128 \in 0..127
    BY DEF Byte
<1>4. KeyAt(e, w, n) \in Key
    BY <1>1, <1>2, <1>3, KeysDecoded, Zenon DEF KeyAt
<1>5. \A b \in Byte : (b >= 128) \in BOOLEAN
    BY DEF Byte
<1> HIDE DEF KeyAt
<1> QED
    BY <1>1, <1>4, <1>5, Zenon DEF Transition, Trans

LEMMA DecodedExists ==
  ASSUME NEW e \in BOOLEAN, NEW w \in Seq(Byte)
  PROVE  \E f : f = [n \in 0..Len(w) |-> Body(e, w, f, n)]
<1> DEFINE L == Len(w)
           Good(n, f) == f \in [0..n -> Seq(Trans)] /\ \A k \in 0..n : f[k] = Body(e, w, f, k)
           S == {n \in Nat : \E f : Good(n, f)}
<1>1. L \in Nat
    OBVIOUS
<1>2. 0 \in S
  <2> DEFINE f == [k \in 0..0 |-> << >>]
  <2>1. Good(0, f)
      BY DEF Body
  <2> HIDE DEF f
  <2> QED
      BY <2>1
<1>3. ASSUME NEW n \in 1..L, n - 1 \in S PROVE n \in S
  <2>1. PICK f : Good(n - 1, f)
      BY <1>3
  <2> DEFINE s == Body(e, w, f, n)
             g == [k \in 0..n |-> IF k = n THEN s ELSE f[k]]
  <2>2. n - 1 \in 0..n - 1 /\ n \in Nat /\ n # 0
      BY <1>1
  <2>3. s \in Seq(Trans)
    <3>1. f[n - 1] \in Seq(Trans) /\ Transition(e, w, n) \in Trans
        BY <2>1, <2>2, TransitionIs
    <3> QED
        BY <3>1, <2>2 DEF Body
  <2> HIDE DEF s
  <2>4. g \in [0..n -> Seq(Trans)]
    <3>1. ASSUME NEW k \in 0..n, k # n PROVE f[k] \in Seq(Trans)
      <4>1. k \in 0..n - 1
          BY <3>1, <1>1
      <4> QED
          BY <2>1, <4>1
    <3> QED
        BY <2>3, <3>1
  <2>5. ASSUME NEW k \in 0..n PROVE g[k] = Body(e, w, g, k)
    <3>1. k = 0 \/ (k - 1 \in 0..n /\ k - 1 # n)
        BY <1>1
    <3>2. k # 0 => g[k - 1] = f[k - 1]
        BY <3>1
    <3>3. Body(e, w, g, k) = Body(e, w, f, k)
        BY <3>2 DEF Body
    <3>4. k # n => k \in 0..n - 1
        BY <1>1
    <3> QED
        BY <2>1, <3>3, <3>4 DEF s
  <2> HIDE DEF g
  <2>6. Good(n, g)
      BY <2>4, <2>5
  <2> QED
      BY <2>2, <2>6
<1> HIDE DEF S
<1>4. L \in S
  <2>1. \A n \in 0..L : n \in S
      BY <1>1, <1>2, <1>3, Induct
  <2> QED
      BY <1>1, <2>1
<1>5. PICK f : Good(L, f)
    BY <1>4 DEF S
<1>6. f = [n \in 0..L |-> Body(e, w, f, n)]
    BY <1>5
<1> QED
    BY <1>6

LEMMA ChosenIs ==
  ASSUME NEW e \in BOOLEAN, NEW w \in Seq(Byte),
         NEW t, t = CHOOSE f : f = [n \in 0..Len(w) |-> Body(e, w, f, n)]
  PROVE  t = [n \in 0..Len(w) |-> Body(e, w, t, n)]
  BY DecodedExists, Zenon

LEMMA ReadsIs ==
  ASSUME NEW e \in BOOLEAN, NEW w \in Seq(Byte)
  PROVE  /\ Reads(e, w, 0) = << >>
         /\ \A n \in 1..Len(w) :
              Reads(e, w, n) = IF w[n] = EscapePrefix THEN Reads(e, w, n - 1)
                               ELSE Append(Reads(e, w, n - 1), Transition(e, w, n))
         /\ \A n \in 0..Len(w) : Reads(e, w, n) \in Seq(Trans)
<1> DEFINE t == Decoded(e, w)
           L == Len(w)
<1>1. L \in Nat
    OBVIOUS
<1>2. t = CHOOSE f : f = [n \in 0..Len(w) |-> Body(e, w, f, n)]
    BY DEF Decoded, Body
<1> HIDE DEF t
<1>3. t = [n \in 0..L |-> Body(e, w, t, n)]
    BY <1>2, ChosenIs, SMTT(60)
<1>4. \A n \in 0..L : t[n] = Body(e, w, t, n)
    BY <1>3
<1>5. t[0] = << >>
    BY <1>1, <1>4 DEF Body
<1>6. \A n \in 1..L : t[n] = IF w[n] = EscapePrefix THEN t[n - 1]
                              ELSE Append(t[n - 1], Transition(e, w, n))
    BY <1>1, <1>4 DEF Body
<1> DEFINE S == {n \in Nat : t[n] \in Seq(Trans)}
<1>7. 0 \in S
  <2>1. << >> \in Seq(Trans) /\ 0 \in Nat
      OBVIOUS
  <2> QED
      BY <1>5, <2>1
<1>8. ASSUME NEW n \in 1..L, n - 1 \in S PROVE n \in S
  <2>1. n \in Nat /\ n \in 1..Len(w)
      BY <1>1
  <2>2. Transition(e, w, n) \in Trans
      BY <2>1, TransitionIs, Zenon
  <2>3. t[n - 1] \in Seq(Trans)
      BY <1>8
  <2>4. Append(t[n - 1], Transition(e, w, n)) \in Seq(Trans)
      BY <2>2, <2>3
  <2>5. t[n] = IF w[n] = EscapePrefix THEN t[n - 1] ELSE Append(t[n - 1], Transition(e, w, n))
      BY <1>6
  <2>6. t[n] \in Seq(Trans)
    <3>1. CASE w[n] = EscapePrefix
        BY <3>1, <2>3, <2>5
    <3>2. CASE w[n] # EscapePrefix
        BY <3>2, <2>4, <2>5, Zenon
    <3> QED
        BY <3>1, <3>2
  <2> QED
      BY <2>1, <2>6
<1>9. \A n \in 0..L : n \in S
  <2> HIDE DEF S
  <2> QED
      BY <1>1, <1>7, <1>8, Induct
<1> QED
    BY <1>5, <1>6, <1>9 DEF t, Reads

(* What stands after the first n bytes does not change what they are read   *)
(* as.                                                                      *)
Joined(w, c, u) ==
  /\ u \in Seq(Byte) /\ Len(u) = Len(w) + Len(c)
  /\ \A i \in 1..Len(w) : u[i] = w[i]
  /\ \A i \in 1..Len(c) : u[Len(w) + i] = c[i]

LEMMA JoinedIs ==
  ASSUME NEW w \in Seq(Byte), NEW c \in Seq(Byte)
  PROVE  Joined(w, c, w \o c)
  BY DEF Joined

LEMMA PrefixReads ==
  ASSUME NEW e \in BOOLEAN, NEW w \in Seq(Byte), NEW c \in Seq(Byte),
         NEW u, Joined(w, c, u)
  PROVE  \A n \in 0..Len(w) : Reads(e, u, n) = Reads(e, w, n)
<1> DEFINE L == Len(w)
           S == {n \in 0..L : Reads(e, u, n) = Reads(e, w, n)}
<1>1. L \in Nat /\ Len(u) \in Nat /\ L <= Len(u) /\ u \in Seq(Byte)
    BY DEF Joined
<1>2. 0 \in S
  <2>1. Reads(e, u, 0) = << >> /\ Reads(e, w, 0) = << >>
      BY <1>1, ReadsIs, Zenon
  <2> QED
      BY <1>1, <2>1
<1>3. ASSUME NEW n \in 1..L, n - 1 \in S PROVE n \in S
  <2>1. n \in 1..Len(u) /\ n \in 1..Len(w)
      BY <1>1
  <2>2. u[n] = w[n]
      BY DEF Joined
  <2>3. n # 1 => u[n - 1] = w[n - 1]
    <3>1. n # 1 => n - 1 \in 1..Len(w)
        BY <1>1
    <3> QED
        BY <3>1 DEF Joined
  <2>4. Transition(e, u, n) = Transition(e, w, n)
    <3>1. Prefixed(e, u, n) = Prefixed(e, w, n)
        BY <2>3 DEF Prefixed
    <3> QED
        BY <2>2, <3>1, Zenon DEF Transition, KeyAt
  <2>5. Reads(e, u, n) = IF u[n] = EscapePrefix THEN Reads(e, u, n - 1)
                         ELSE Append(Reads(e, u, n - 1), Transition(e, u, n))
      BY <1>1, <2>1, ReadsIs, Zenon
  <2>6. Reads(e, w, n) = IF w[n] = EscapePrefix THEN Reads(e, w, n - 1)
                         ELSE Append(Reads(e, w, n - 1), Transition(e, w, n))
      BY <2>1, ReadsIs, Zenon
  <2>7. Reads(e, u, n - 1) = Reads(e, w, n - 1)
      BY <1>3
  <2>8. Reads(e, u, n) = Reads(e, w, n)
      BY <2>2, <2>4, <2>5, <2>6, <2>7, Zenon
  <2> QED
      BY <1>1, <2>8
<1> HIDE DEF S
<1>4. \A n \in 0..L : n \in S
    BY <1>1, <1>2, <1>3, Induct
<1> QED
    BY <1>4 DEF S

(* Bytes that come later only add transitions, one at least when the last   *)
(* of them is no prefix.                                                    *)
Grown(r, q) == Len(r) <= Len(q) /\ \A i \in 1..Len(r) : q[i] = r[i]

LEMMA AppendGrows ==
  ASSUME NEW r \in Seq(Trans), NEW q \in Seq(Trans), NEW t \in Trans, Grown(r, q)
  PROVE  Grown(r, Append(q, t)) /\ Len(Append(q, t)) > Len(r)
<1>1. Len(Append(q, t)) = Len(q) + 1 /\ \A i \in 1..Len(q) : Append(q, t)[i] = q[i]
    OBVIOUS
<1>2. Len(r) \in Nat /\ Len(q) \in Nat
    OBVIOUS
<1> QED
    BY <1>1, <1>2 DEF Grown

LEMMA GrownPrefix ==
  ASSUME NEW r \in Seq(Trans), NEW q \in Seq(Trans), Grown(r, q)
  PROVE  SubSeq(q, 1, Len(r)) = r
  BY DEF Grown

LEMMA MoreReads ==
  ASSUME NEW e \in BOOLEAN, NEW w \in Seq(Byte), NEW c \in Seq(Byte),
         c # << >>, c[Len(c)] # EscapePrefix, NEW u, Joined(w, c, u)
  PROVE  /\ Grown(Reads(e, w, Len(w)), Reads(e, u, Len(u)))
         /\ Len(Reads(e, u, Len(u))) > Len(Reads(e, w, Len(w)))
<1> DEFINE L == Len(c)
           r == Reads(e, w, Len(w))
           R(n) == Reads(e, u, Len(w) + n)
           S == {n \in 0..L : Grown(r, R(n))}
<1>1. L \in Nat /\ L # 0 /\ Len(w) \in Nat /\ Len(u) = Len(w) + L /\ u \in Seq(Byte)
    BY DEF Joined
<1>2. r \in Seq(Trans)
  <2>1. Len(w) \in 0..Len(w)
      BY <1>1
  <2> QED
      BY <2>1, ReadsIs, Zenon
<1>3. \A n \in 0..L : R(n) \in Seq(Trans)
  <2>1. \A n \in 0..L : Len(w) + n \in 0..Len(u)
      BY <1>1
  <2> QED
      BY <1>1, <2>1, ReadsIs, Zenon
<1>4. 0 \in S
  <2>1. Len(w) \in 0..Len(w) /\ Len(w) + 0 = Len(w)
      BY <1>1
  <2>2. R(0) = r
    <3>1. \A n \in 0..Len(w) : Reads(e, u, n) = Reads(e, w, n)
        BY PrefixReads, ZenonT(60)
    <3>2. Reads(e, u, Len(w)) = Reads(e, w, Len(w))
        BY <2>1, <3>1, Zenon
    <3> QED
        BY <2>1, <3>2, Zenon
  <2>3. Grown(r, r)
      BY <1>2 DEF Grown
  <2> HIDE DEF R, r
  <2> QED
      BY <1>1, <2>2, <2>3
<1>5. ASSUME NEW n \in 1..L
      PROVE  /\ n - 1 \in 0..L
             /\ R(n) = IF c[n] = EscapePrefix THEN R(n - 1)
                       ELSE Append(R(n - 1), Transition(e, u, Len(w) + n))
             /\ Transition(e, u, Len(w) + n) \in Trans
  <2>1. /\ Len(w) + n \in 1..Len(u)
        /\ (Len(w) + n) - 1 = Len(w) + (n - 1)
        /\ n - 1 \in 0..L
      BY <1>1
  <2>2. u[Len(w) + n] = c[n]
      BY DEF Joined
  <2>3. Reads(e, u, Len(w) + n) =
          IF u[Len(w) + n] = EscapePrefix THEN Reads(e, u, (Len(w) + n) - 1)
          ELSE Append(Reads(e, u, (Len(w) + n) - 1), Transition(e, u, Len(w) + n))
      BY <1>1, <2>1, ReadsIs, Zenon
  <2>4. Transition(e, u, Len(w) + n) \in Trans
      BY <1>1, <2>1, TransitionIs, Zenon
  <2> QED
      BY <2>1, <2>2, <2>3, <2>4, Zenon
<1> HIDE DEF R, r
<1>6. ASSUME NEW n \in 1..L, Grown(r, R(n - 1)), c[n] # EscapePrefix
      PROVE  Grown(r, R(n)) /\ Len(R(n)) > Len(r)
  <2>1. /\ R(n) = Append(R(n - 1), Transition(e, u, Len(w) + n))
        /\ R(n - 1) \in Seq(Trans) /\ Transition(e, u, Len(w) + n) \in Trans
      BY <1>3, <1>5, <1>6, Zenon
  <2> QED
      BY <1>2, <1>6, <2>1, AppendGrows, Zenon
<1>7. ASSUME NEW n \in 1..L, n - 1 \in S PROVE n \in S
  <2>1. Grown(r, R(n - 1))
      BY <1>7
  <2>2. Grown(r, R(n))
      BY <1>5, <1>6, <2>1, Zenon
  <2> QED
      BY <1>1, <2>2
<1>8. \A n \in 0..L : n \in S
  <2> HIDE DEF S
  <2> QED
      BY <1>1, <1>4, <1>7, Induct
<1>9. L \in 1..L /\ L - 1 \in 0..L
    BY <1>1
<1>10. Grown(r, R(L)) /\ Len(R(L)) > Len(r)
  <2>1. Grown(r, R(L - 1))
      BY <1>8, <1>9
  <2> QED
      BY <1>6, <1>9, <2>1, Zenon
<1> QED
    BY <1>1, <1>10, Zenon DEF R, r

(* Reading a byte: a prefix leaves what is read as it is, any other byte is *)
(* the first transition.                                                    *)
Rest(w, v) == v \in Seq(Byte) /\ Len(v) = Len(w) - 1 /\ \A i \in 1..Len(v) : v[i] = w[i + 1]

LEMMA RestIs ==
  ASSUME NEW w \in Seq(Byte), w # << >>
  PROVE  Rest(w, Tail(w)) /\ Len(w) \in Nat \ {0}
  BY DEF Rest

LEMMA RestTransition ==
  ASSUME NEW e, NEW w \in Seq(Byte), NEW v, Rest(w, v),
         NEW n \in 2..Len(w)
  PROVE  v[n - 1] = w[n] /\ Transition(EscAfter(w[1]), v, n - 1) = Transition(e, w, n)
<1>1. Len(w) \in Nat /\ Len(v) = Len(w) - 1 /\ n - 1 \in 1..Len(v) /\ (n - 1) + 1 = n
    BY DEF Rest
<1>2. v[n - 1] = w[n]
    BY <1>1 DEF Rest
<1>3. Prefixed(EscAfter(w[1]), v, n - 1) = Prefixed(e, w, n)
  <2>1. CASE n = 2
    <3>1. n - 1 = 1 /\ n # 1
        BY <2>1
    <3> QED
        BY <3>1, Zenon DEF Prefixed, EscAfter
  <2>2. CASE n # 2
    <3>1. n - 1 # 1 /\ n # 1 /\ (n - 1) - 1 \in 1..Len(v) /\ ((n - 1) - 1) + 1 = n - 1
        BY <1>1, <2>2
    <3>2. v[(n - 1) - 1] = w[n - 1]
        BY <3>1 DEF Rest
    <3> QED
        BY <3>1, <3>2, Zenon DEF Prefixed
  <2> QED
      BY <2>1, <2>2
<1> QED
    BY <1>2, <1>3, Zenon DEF Transition, KeyAt

First(t, r) == <<t>> \o r

LEMMA FirstAppend ==
  ASSUME NEW t \in Trans, NEW x \in Trans, NEW r \in Seq(Trans)
  PROVE  Append(First(t, r), x) = First(t, Append(r, x))
  BY DEF First

LEMMA FirstOf ==
  ASSUME NEW t \in Trans, NEW r \in Seq(Trans)
  PROVE  First(t, r) # << >> /\ Head(First(t, r)) = t /\ Tail(First(t, r)) = r
  BY DEF First

LEMMA TailReads ==
  ASSUME NEW e \in BOOLEAN, NEW w \in Seq(Byte), w # << >>, NEW v, Rest(w, v)
  PROVE  Reads(e, w, Len(w)) =
           IF w[1] = EscapePrefix THEN Reads(EscAfter(w[1]), v, Len(v))
           ELSE First(Transition(e, w, 1), Reads(EscAfter(w[1]), v, Len(v)))
<1> DEFINE L == Len(v)
           f == EscAfter(w[1])
           t == Transition(e, w, 1)
           Q(n) == Reads(e, w, n + 1)
           R(n) == Reads(f, v, n)
           Same(n) == Q(n) = IF w[1] = EscapePrefix THEN R(n) ELSE First(t, R(n))
           S == {n \in 0..L : Same(n)}
<1>1. L \in Nat /\ L + 1 = Len(w) /\ v \in Seq(Byte) /\ 1 \in 1..Len(w)
    BY DEF Rest
<1>2. f \in BOOLEAN
  <2>1. f = (w[1] = EscapePrefix)
      BY DEF EscAfter
  <2> QED
      BY <2>1, Zenon
<1>3. t \in Trans
    BY <1>1, TransitionIs, Zenon
<1>4. \A n \in 0..L : R(n) \in Seq(Trans)
    BY <1>1, <1>2, ReadsIs, Zenon
<1>5. R(0) = << >>
    BY <1>1, <1>2, ReadsIs, Zenon
<1>6. 0 \in S
  <2>1. Reads(e, w, 1) = IF w[1] = EscapePrefix THEN Reads(e, w, 1 - 1)
                         ELSE Append(Reads(e, w, 1 - 1), t)
      BY <1>1, ReadsIs, Zenon
  <2>2. Reads(e, w, 0) = << >>
      BY ReadsIs, Zenon
  <2>3. Q(0) = IF w[1] = EscapePrefix THEN << >> ELSE Append(<< >>, t)
    <3>1. 0 + 1 = 1 /\ 1 - 1 = 0
        OBVIOUS
    <3> QED
        BY <2>1, <2>2, <3>1, Zenon
  <2>4. Append(<< >>, t) = First(t, << >>)
    <3> HIDE DEF t
    <3> QED
        BY <1>3 DEF First
  <2> HIDE DEF Q, R, t
  <2>5. Same(0)
      BY <1>5, <2>3, <2>4, Zenon
  <2> QED
      BY <1>1, <2>5
<1>7. ASSUME NEW n \in 1..L, n - 1 \in S PROVE n \in S
  <2>1. /\ n + 1 \in 1..Len(w) /\ n + 1 \in 2..Len(w) /\ (n + 1) - 1 = n /\ (n - 1) + 1 = n
        /\ n \in 1..Len(v) /\ n - 1 \in 0..L
      BY <1>1
  <2> DEFINE x == Transition(f, v, n)
  <2>2. v[n] = w[n + 1] /\ x = Transition(e, w, n + 1)
    <3>1. /\ v[(n + 1) - 1] = w[n + 1]
          /\ Transition(EscAfter(w[1]), v, (n + 1) - 1) = Transition(e, w, n + 1)
        BY <2>1, RestTransition, Zenon
    <3> QED
        BY <2>1, <3>1, Zenon
  <2>3. x \in Trans
      BY <1>1, <1>2, <2>1, TransitionIs, Zenon
  <2>4. R(n) = IF v[n] = EscapePrefix THEN R(n - 1) ELSE Append(R(n - 1), x)
      BY <1>1, <1>2, <2>1, ReadsIs, Zenon
  <2>5. Q(n) = IF v[n] = EscapePrefix THEN Q(n - 1) ELSE Append(Q(n - 1), x)
    <3>1. Reads(e, w, n + 1) =
            IF w[n + 1] = EscapePrefix THEN Reads(e, w, (n + 1) - 1)
            ELSE Append(Reads(e, w, (n + 1) - 1), Transition(e, w, n + 1))
        BY <2>1, ReadsIs, Zenon
    <3> QED
        BY <2>1, <2>2, <3>1, Zenon
  <2> HIDE DEF Q, R, t, x, f
  <2>6. Same(n - 1)
      BY <1>7
  <2>7. Append(First(t, R(n - 1)), x) = First(t, Append(R(n - 1), x))
      BY <1>3, <1>4, <2>1, <2>3, FirstAppend, Zenon
  <2>8. Same(n)
    <3>1. CASE w[1] = EscapePrefix
        BY <3>1, <2>4, <2>5, <2>6, Zenon
    <3>2. CASE w[1] # EscapePrefix
        BY <3>2, <2>4, <2>5, <2>6, <2>7, Zenon
    <3> QED
        BY <3>1, <3>2
  <2> QED
      BY <1>1, <2>8
<1>8. \A n \in 0..L : n \in S
  <2> HIDE DEF S
  <2> QED
      BY <1>1, <1>6, <1>7, Induct
<1>9. L \in 0..L
    BY <1>1
<1>10. Same(L)
    BY <1>8, <1>9
<1> QED
    BY <1>1, <1>10, Zenon

Pending == Decode(esc, wire)

LEMMA PendingIs == Inv => Pending \in Seq(Trans)
<1> SUFFICES ASSUME Inv PROVE Pending \in Seq(Trans)
    OBVIOUS
<1>1. wire \in Seq(Byte) /\ esc \in BOOLEAN
    BY DEF Inv, TypeInv
<1>2. Len(wire) \in 0..Len(wire)
    BY <1>1
<1> QED
    BY <1>1, <1>2, ReadsIs, Zenon DEF Pending, Decode, Reads

(* Codes put on the wire are transitions that happen, or nothing.           *)
LEMMA SendHappens ==
  ASSUME Inv, NEW c, IsCode(c), wire' = wire \o c, UNCHANGED <<esc, mods, events>>
  PROVE  Abstract!Happen \/ UNCHANGED <<Pending, mods, events>>
<1>1. wire \in Seq(Byte) /\ esc \in BOOLEAN /\ esc' = esc /\ c \in Seq(Byte)
    BY DEF Inv, TypeInv, IsCode
<1>2. CASE c = << >>
  <2>1. wire' = wire
      BY <1>1, <1>2
  <2> QED
      BY <1>1, <2>1 DEF Pending
<1>3. CASE c # << >>
  <2>1. c[Len(c)] # EscapePrefix
      BY <1>3 DEF IsCode
  <2>2. Joined(wire, c, wire')
      BY <1>1, JoinedIs, Zenon
  <2> DEFINE r == Reads(esc, wire, Len(wire))
             q == Reads(esc, wire', Len(wire'))
  <2>3. Grown(r, q) /\ Len(q) > Len(r)
      BY <1>1, <1>3, <2>1, <2>2, MoreReads, Zenon
  <2>4. wire' \in Seq(Byte) /\ Len(wire) \in 0..Len(wire) /\ Len(wire') \in 0..Len(wire')
      BY <1>1, <2>2 DEF Joined
  <2>5. r \in Seq(Trans) /\ q \in Seq(Trans)
      BY <1>1, <2>4, ReadsIs, Zenon
  <2>6. SubSeq(q, 1, Len(r)) = r
      BY <2>3, <2>5, GrownPrefix, Zenon
  <2>7. Decode(esc, wire) = r /\ Decode(esc, wire)' = q
      BY <1>1 DEF Decode, Reads
  <2> HIDE DEF r, q
  <2> QED
      BY <2>3, <2>6, <2>7 DEF Abstract!Happen
<1> QED
    BY <1>2, <1>3

(* A byte read is the report of the oldest transition, or a prefix.         *)
LEMMA ReadReports ==
  ASSUME Inv, KeyboardIrqHandler
  PROVE  Abstract!Report \/ UNCHANGED <<Pending, mods, events>>
<1> DEFINE b == wire[1]
           r == Reads(EscAfter(b), wire', Len(wire'))
           t == Transition(esc, wire, 1)
<1>1. wire \in Seq(Byte) /\ esc \in BOOLEAN /\ wire # << >>
    BY DEF Inv, TypeInv, KeyboardIrqHandler
<1>2. wire' = Tail(wire) /\ Head(wire) = b /\ esc' = EscAfter(b)
    BY <1>1 DEF KeyboardIrqHandler
<1>3. Rest(wire, wire') /\ Len(wire) \in Nat \ {0}
    BY <1>1, <1>2, RestIs, Zenon
<1>4. Decode(esc, wire) = IF b = EscapePrefix THEN r ELSE First(t, r)
    BY <1>1, <1>3, TailReads, Zenon DEF Decode, Reads
<1>5. Decode(esc, wire)' = r
    BY <1>2 DEF Decode, Reads
<1>6. CASE b = EscapePrefix
  <2>1. UNCHANGED <<mods, events>>
      BY <1>2, <1>6 DEF KeyboardIrqHandler
  <2> QED
      BY <1>4, <1>5, <1>6, <2>1 DEF Pending
<1>7. CASE b # EscapePrefix
  <2>1. /\ mods' = ModsAfter(t.key, t.released)
        /\ events' = Append(events, [key |-> t.key, released |-> t.released, mods |-> mods',
                                    codepoint |-> key_to_codepoint(t.key, mods')])
    <3>1. t.key = scancode_to_key(b % 128, esc) /\ t.released = (b >= 128)
        BY DEF Transition, KeyAt, Prefixed
    <3> HIDE DEF b, t
    <3> QED
        BY <1>2, <1>7, <3>1, Zenon DEF KeyboardIrqHandler
  <2>2. t \in Trans /\ r \in Seq(Trans)
    <3>1. /\ 1 \in 1..Len(wire) /\ wire' \in Seq(Byte) /\ Len(wire') \in 0..Len(wire')
        BY <1>3 DEF Rest
    <3>2. EscAfter(b) \in BOOLEAN
      <4>1. EscAfter(b) = (b = EscapePrefix)
          BY DEF EscAfter
      <4> QED
          BY <4>1, Zenon
    <3> QED
        BY <1>1, <3>1, <3>2, TransitionIs, ReadsIs, Zenon
  <2> HIDE DEF b, r, t
  <2>3. /\ Decode(esc, wire) # << >> /\ Head(Decode(esc, wire)) = t
        /\ Decode(esc, wire)' = Tail(Decode(esc, wire))
      BY <1>4, <1>5, <1>7, <2>2, FirstOf, Zenon
  <2>4. mods' = Abstract!ModsAfter(t)
      BY <2>1, Zenon DEF ModsAfter, Abstract!ModsAfter
  <2> QED
      BY <2>1, <2>3, <2>4, Zenon DEF Abstract!Report
<1> QED
    BY <1>6, <1>7

LEMMA StepReports == Inv /\ [Next]_vars => [Abstract!Next]_(Abstract!vars)
<1> SUFFICES ASSUME Inv, [Next]_vars
             PROVE  Abstract!Happen \/ Abstract!Report \/ UNCHANGED <<Pending, mods, events>>
    BY DEF Abstract!Next, Abstract!vars, Pending
<1>1. "ALT" \in Modifiers
    BY ModifierNames DEF Mods
<1>2. ASSUME NEW k \in Keys, Press(k) PROVE Abstract!Happen \/ UNCHANGED <<Pending, mods, events>>
  <2>1. IsCode(PressCode(k))
      BY <1>1, PressEffect, Zenon
  <2>2. wire' = wire \o PressCode(k) /\ UNCHANGED <<esc, mods, events>>
      BY <1>2 DEF Press, Hit
  <2> QED
      BY <2>1, <2>2, SendHappens, Zenon
<1>3. ASSUME NEW k \in Keys, Release(k) PROVE Abstract!Happen \/ UNCHANGED <<Pending, mods, events>>
  <2>1. IsCode(ReleaseCode(k))
      BY <1>1, ReleaseEffect, Zenon
  <2>2. wire' = wire \o ReleaseCode(k) /\ UNCHANGED <<esc, mods, events>>
      BY <1>3 DEF Release, Hit
  <2> QED
      BY <2>1, <2>2, SendHappens, Zenon
<1>4. ASSUME PressOther PROVE Abstract!Happen \/ UNCHANGED <<Pending, mods, events>>
  <2>1. PICK b \in Others : Hit(<<b>>)
      BY <1>4 DEF PressOther
  <2>2. IsCode(<<b>>)
      BY <1>1, OtherEffect, Zenon
  <2>3. wire' = wire \o <<b>> /\ UNCHANGED <<esc, mods, events>>
      BY <1>4, <2>1 DEF PressOther, Hit
  <2> QED
      BY <2>2, <2>3, SendHappens, Zenon
<1>5. CASE UNCHANGED vars
    BY <1>5 DEF vars, Pending, Decode
<1> QED
    BY <1>2, <1>3, <1>4, <1>5, ReadReports, Zenon DEF Next

(* The driver, one byte per interrupt, reports the transitions of the keys  *)
(* one by one in the order they happened, each once and as the key it was,  *)
(* whatever the prefix that was read before it (ps2.c:172-210).             *)
THEOREM ReportsTransitionsHolds == Spec => ReportsTransitions
<1>1. Init => Abstract!Init
  <2> SUFFICES ASSUME Init PROVE Abstract!Init
      OBVIOUS
  <2>1. << >> \in Seq(Byte) /\ FALSE \in BOOLEAN /\ Len(<< >>) = 0
      OBVIOUS
  <2>2. Reads(FALSE, << >>, 0) = << >>
      BY <2>1, ReadsIs, Zenon
  <2>3. Decode(esc, wire) = << >>
      BY <2>1, <2>2 DEF Init, Decode, Reads
  <2> QED
      BY <2>3 DEF Init, Abstract!Init
<1> QED
    BY <1>1, InitInv, StepInv, StepReports, PTL DEF Spec, ReportsTransitions, Abstract!Spec
=============================================================================
