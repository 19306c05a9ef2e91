------------------------ MODULE UnicodeEscapesProofs ------------------------
(***************************************************************************)
(* Proofs about the scan for unpaired surrogates, for every set of         *)
(* documents:                                                              *)
(*                                                                         *)
(*   1. FlattenSeq, which the community modules define by recursion, puts  *)
(*      its pieces one behind the other (Flatten);                         *)
(*   2. so the strings and the items of a document have places in its text *)
(*      (Placed), and the text reads there what they say (Items);          *)
(*   3. the invariant says which of these places the scan is at, and that  *)
(*      all surrogates before it are paired (Inv).                         *)
(***************************************************************************)
EXTENDS UnicodeEscapes, TLAPS, SequenceTheorems, WellFoundedInduction

(* Induction over the naturals, for a set.                                 *)
LEMMA Induction ==
    ASSUME NEW S, 0 \in S, \A n \in Nat : n \in S => n + 1 \in S
    PROVE  Nat \subseteq S
  <1>. SUFFICES ASSUME Nat \ S # {} PROVE FALSE
    OBVIOUS
  <1>1. PICK x \in Nat \ S : \A y \in Nat \ S : ~(<<y, x>> \in OpToRel(<, Nat))
    <2>. HIDE DEF OpToRel
    <2>. QED
      BY NatLessThanWellFounded, WFMin
  <1>2. x # 0 /\ x - 1 \in Nat \ S
    OBVIOUS
  <1>3. x - 1 < x
    BY <1>2
  <1>4. <<x - 1, x>> \in OpToRel(<, Nat)
    BY <1>2, <1>3, Zenon DEF OpToRel
  <1>. QED
    BY <1>1, <1>2, <1>4, Zenon

(* What FlattenSeq defines by recursion, up to n.                          *)
IsFlat(f, seqs, n) ==
    f = [k \in 1..n |-> IF k = 1 THEN seqs[k] ELSE f[k - 1] \o seqs[k]]

(* The recursion's function exists up to every n.                          *)
LEMMA FlatExists ==
    ASSUME NEW seqs
    PROVE  \A n \in Nat : \E f : IsFlat(f, seqs, n)
  <1>. DEFINE S == {n \in Nat : \E f : IsFlat(f, seqs, n)}
  <1>1. 0 \in S
    <2>1. IsFlat([k \in 1..0 |-> 0], seqs, 0)
      BY DEF IsFlat
    <2>. QED
      BY <2>1
  <1>2. ASSUME NEW n \in Nat, n \in S PROVE n + 1 \in S
    <2>1. PICK f : IsFlat(f, seqs, n)
      BY <1>2
    <2>. DEFINE last == IF n + 1 = 1 THEN seqs[n + 1] ELSE f[n] \o seqs[n + 1]
                g == [k \in 1..(n + 1) |-> IF k = n + 1 THEN last ELSE f[k]]
                Turn(k) == IF k = 1 THEN seqs[k] ELSE g[k - 1] \o seqs[k]
    <2>. HIDE DEF last
    <2>2. ASSUME NEW k \in 1..(n + 1)
          PROVE  g[k] = Turn(k)
      <3>1. CASE k = n + 1
        BY <3>1 DEF last
      <3>2. CASE k # n + 1
        <4>1. k \in 1..n /\ g[k] = f[k]
          BY <3>2
        <4>2. f[k] = IF k = 1 THEN seqs[k] ELSE f[k - 1] \o seqs[k]
          BY <2>1, <4>1 DEF IsFlat
        <4>3. k # 1 => g[k - 1] = f[k - 1]
          BY <3>2
        <4>. HIDE DEF g
        <4>. QED
          BY <4>1, <4>2, <4>3
      <3>. QED
        BY <3>1, <3>2
    <2>3. g = [k \in 1..(n + 1) |-> Turn(k)]
      <3>1. g = [k \in 1..(n + 1) |-> g[k]]
        OBVIOUS
      <3>. HIDE DEF g, Turn
      <3>. QED
        BY <2>2, <3>1
    <2>4. IsFlat(g, seqs, n + 1)
      BY <2>3 DEF IsFlat
    <2>. QED
      BY <2>4
  <1>. HIDE DEF S
  <1>3. Nat \subseteq S
    BY <1>1, <1>2, Induction
  <1>. QED
    BY <1>3 DEF S

(* What FlattenSeq chooses is that function.                               *)
LEMMA FlattenIsFlat ==
    ASSUME NEW T, NEW seqs \in Seq(T), Len(seqs) # 0
    PROVE  \E f : IsFlat(f, seqs, Len(seqs)) /\ FlattenSeq(seqs) = f[Len(seqs)]
  <1>. DEFINE f == CHOOSE h : IsFlat(h, seqs, Len(seqs))
  <1>1. FlattenSeq(seqs) = f[Len(seqs)]
    BY DEF FlattenSeq, IsFlat
  <1>2. Len(seqs) \in Nat
    BY LenProperties
  <1>3. \E h : IsFlat(h, seqs, Len(seqs))
    BY <1>2, FlatExists
  <1>. QED
    BY <1>1, <1>3

(* Where the pieces of a flattened sequence are: piece k comes after the   *)
(* first ends[k - 1] elements.                                             *)
IsLaidOut(ends, seqs, flat) ==
    /\ ends \in [0..Len(seqs) -> Nat]
    /\ ends[0] = 0 /\ ends[Len(seqs)] = Len(flat)
    /\ \A k \in 1..Len(seqs) :
          /\ ends[k] = ends[k - 1] + Len(seqs[k]) /\ ends[k] <= Len(flat)
          /\ \A j \in 1..Len(seqs[k]) : flat[ends[k - 1] + j] = seqs[k][j]

(* The same of the recursion up to n.                                      *)
End(f, n) == IF n = 0 THEN 0 ELSE Len(f[n])

AreSeqs(f, n, T) == \A k \in 1..n : f[k] \in Seq(T)

IsLaid(f, seqs, n) ==
    \A k \in 1..n :
       /\ End(f, k) = End(f, k - 1) + Len(seqs[k])
       /\ End(f, k) <= End(f, n)
       /\ \A j \in 1..Len(seqs[k]) : f[n][End(f, k - 1) + j] = seqs[k][j]

(* Every value of it is the one before with one more piece.                *)
LEMMA FlatSteps ==
    ASSUME NEW T, NEW seqs \in Seq(Seq(T)), NEW f, IsFlat(f, seqs, Len(seqs))
    PROVE  /\ Len(seqs) # 0 => f[1] = seqs[1]
           /\ \A k \in 1..Len(seqs) : k + 1 \in 1..Len(seqs) => f[k + 1] = f[k] \o seqs[k + 1]
  <1>1. Len(seqs) \in Nat
    BY LenProperties
  <1>2. \A k \in 1..Len(seqs) : f[k] = IF k = 1 THEN seqs[k] ELSE f[k - 1] \o seqs[k]
    BY DEF IsFlat
  <1>3. ASSUME NEW k \in 1..Len(seqs), k + 1 \in 1..Len(seqs)
        PROVE  f[k + 1] = f[k] \o seqs[k + 1]
    <2>1. k + 1 # 1 /\ (k + 1) - 1 = k
      BY <1>1
    <2>2. f[k + 1] = IF k + 1 = 1 THEN seqs[k + 1] ELSE f[(k + 1) - 1] \o seqs[k + 1]
      BY <1>2, <1>3, Zenon
    <2>. QED
      BY <2>1, <2>2, Zenon
  <1>4. Len(seqs) # 0 => 1 \in 1..Len(seqs)
    BY <1>1
  <1>. QED
    BY <1>2, <1>3, <1>4, Zenon

(* One more piece leaves the earlier ones where they are.                  *)
LEMMA FlatNext ==
    ASSUME NEW T, NEW seqs \in Seq(Seq(T)), NEW f, IsFlat(f, seqs, Len(seqs)),
           NEW m \in 1..Len(seqs), m + 1 \in 1..Len(seqs),
           AreSeqs(f, m, T), IsLaid(f, seqs, m)
    PROVE  AreSeqs(f, m + 1, T) /\ IsLaid(f, seqs, m + 1)
  <1>1. Len(seqs) \in Nat /\ \A k \in 1..Len(seqs) : seqs[k] \in Seq(T) /\ Len(seqs[k]) \in Nat
    BY LenProperties, ElementOfSeq
  <1>2. f[m + 1] = f[m] \o seqs[m + 1] /\ f[m] \in Seq(T) /\ seqs[m + 1] \in Seq(T)
    <2>1. m \in 1..m
      BY <1>1
    <2>2. f[m + 1] = f[m] \o seqs[m + 1]
      BY FlatSteps
    <2>. QED
      BY <1>1, <2>1, <2>2 DEF AreSeqs
  <1>3. \A b \in 1..(Len(f[m]) + Len(seqs[m + 1])) :
           f[m + 1][b] = IF b <= Len(f[m]) THEN f[m][b] ELSE seqs[m + 1][b - Len(f[m])]
    BY <1>2, ConcatProperties
  <1>4. /\ f[m + 1] \in Seq(T)
        /\ Len(f[m + 1]) = Len(f[m]) + Len(seqs[m + 1])
        /\ Len(f[m]) \in Nat /\ Len(seqs[m + 1]) \in Nat
    BY <1>2, ConcatProperties, LenProperties
  <1>. DEFINE x == Len(f[m])
              y == Len(seqs[m + 1])
  <1>. HIDE DEF x, y
  <1>0. x \in Nat /\ y \in Nat
    BY <1>4 DEF x, y
  <1>5. /\ \A b \in 1..x : f[m + 1][b] = f[m][b]
        /\ \A j \in 1..y : f[m + 1][x + j] = seqs[m + 1][j]
    <2>1. \A b \in 1..x : b \in 1..(x + y) /\ b <= x
      BY <1>0
    <2>2. ASSUME NEW j \in 1..y
          PROVE  f[m + 1][x + j] = seqs[m + 1][j]
      <3>1. /\ x + j \in 1..(x + y)
            /\ ~(x + j <= x) /\ (x + j) - x = j
        BY <1>0
      <3>2. f[m + 1][x + j] =
               IF x + j <= x THEN f[m][x + j]
               ELSE seqs[m + 1][(x + j) - x]
        BY <1>3, <3>1, Zenon DEF x, y
      <3>. QED
        BY <3>1, <3>2, Zenon
    <2>. QED
      BY <1>3, <2>1, <2>2, Zenon DEF x, y
  <1>6. End(f, m) = x /\ End(f, m + 1) = x + y /\ (m + 1) - 1 = m
    <2>1. m # 0 /\ m + 1 # 0 /\ (m + 1) - 1 = m
      BY <1>1
    <2>2. Len(f[m + 1]) = x + y
      BY <1>4, Zenon DEF x, y
    <2>. QED
      BY <2>1, <2>2, Zenon DEF End, x
  <1>7. \A k \in 0..m : End(f, k) \in Nat
    BY LenProperties DEF End, AreSeqs
  <1>8. ASSUME NEW k \in 1..m
        PROVE  /\ End(f, k) = End(f, k - 1) + Len(seqs[k])
               /\ End(f, k) <= End(f, m + 1)
               /\ \A j \in 1..Len(seqs[k]) : f[m + 1][End(f, k - 1) + j] = seqs[k][j]
    <2>1. /\ End(f, k) = End(f, k - 1) + Len(seqs[k])
          /\ End(f, k) <= End(f, m)
          /\ \A j \in 1..Len(seqs[k]) : f[m][End(f, k - 1) + j] = seqs[k][j]
      BY DEF IsLaid
    <2>2. End(f, k - 1) \in Nat /\ End(f, k) \in Nat /\ Len(seqs[k]) \in Nat
      BY <1>1, <1>7
    <2>3. End(f, k) <= End(f, m + 1)
      BY <1>0, <1>6, <2>1, <2>2
    <2>4. ASSUME NEW j \in 1..Len(seqs[k])
          PROVE  f[m + 1][End(f, k - 1) + j] = seqs[k][j]
      <3>1. End(f, k - 1) + j <= End(f, k - 1) + Len(seqs[k])
        BY <2>2
      <3>2. End(f, k - 1) + j <= x
        BY <1>0, <1>6, <2>1, <2>2, <3>1
      <3>3. End(f, k - 1) + j \in 1..x
        BY <1>0, <2>2, <3>2
      <3>. QED
        BY <1>5, <2>1, <3>3, Zenon
    <2>. QED
      BY <2>1, <2>3, <2>4
  <1>9. \A k \in 1..(m + 1) : k \in 1..m \/ k = m + 1
    OBVIOUS
  <1>10. /\ End(f, m + 1) = End(f, (m + 1) - 1) + Len(seqs[m + 1])
         /\ End(f, m + 1) <= End(f, m + 1)
         /\ \A j \in 1..Len(seqs[m + 1]) : f[m + 1][End(f, (m + 1) - 1) + j] = seqs[m + 1][j]
    <2>1. End(f, (m + 1) - 1) = x
      BY <1>6, Zenon
    <2>. QED
      BY <1>0, <1>5, <1>6, <2>1 DEF y
  <1>. QED
    BY <1>4, <1>8, <1>9, <1>10, Zenon DEF IsLaid, AreSeqs

(* FlattenSeq yields a sequence in which every piece has its place.        *)
LEMMA Flatten ==
    ASSUME NEW T, NEW seqs \in Seq(Seq(T))
    PROVE  /\ FlattenSeq(seqs) \in Seq(T)
           /\ \E ends : IsLaidOut(ends, seqs, FlattenSeq(seqs))
  <1>1. Len(seqs) \in Nat /\ \A k \in 1..Len(seqs) : seqs[k] \in Seq(T) /\ Len(seqs[k]) \in Nat
    BY LenProperties, ElementOfSeq
  <1>2. CASE Len(seqs) = 0
    <2>1. FlattenSeq(seqs) = seqs /\ seqs = <<>>
      BY <1>2, EmptySeq DEF FlattenSeq
    <2>2. IsLaidOut([k \in 0..0 |-> 0], seqs, seqs)
      BY <1>2 DEF IsLaidOut
    <2>. QED
      BY <2>1, <2>2, EmptySeq
  <1>3. CASE Len(seqs) # 0
    <2>1. PICK f : IsFlat(f, seqs, Len(seqs)) /\ FlattenSeq(seqs) = f[Len(seqs)]
      BY <1>3, FlattenIsFlat
    <2>. DEFINE S == {n \in Nat : n + 1 \in 1..Len(seqs)
                                     => /\ AreSeqs(f, n + 1, T)
                                        /\ IsLaid(f, seqs, n + 1)}
    <2>2. f[1] = seqs[1] /\ seqs[1] \in Seq(T) /\ Len(seqs[1]) \in Nat
      <3>1. f[1] = seqs[1]
        BY <1>3, <2>1, FlatSteps
      <3>. QED
        BY <1>1, <1>3, <3>1
    <2>3. 0 \in S
      <3>1. IsLaid(f, seqs, 1)
        BY <2>2 DEF IsLaid, End
      <3>. QED
        BY <2>2, <3>1 DEF AreSeqs
    <2>4. ASSUME NEW n \in Nat, n \in S PROVE n + 1 \in S
      <3>1. SUFFICES ASSUME (n + 1) + 1 \in 1..Len(seqs)
                     PROVE  /\ AreSeqs(f, (n + 1) + 1, T)
                            /\ IsLaid(f, seqs, (n + 1) + 1)
        OBVIOUS
      <3>2. n + 1 \in 1..Len(seqs)
        BY <1>1, <3>1
      <3>3. AreSeqs(f, n + 1, T) /\ IsLaid(f, seqs, n + 1)
        BY <2>4, <3>2
      <3>4. AreSeqs(f, (n + 1) + 1, T) /\ IsLaid(f, seqs, (n + 1) + 1)
        BY <2>1, <3>1, <3>2, <3>3, FlatNext
      <3>. QED
        BY <3>4
    <2>5. Nat \subseteq S
      <3>. HIDE DEF S
      <3>. QED
        BY <2>3, <2>4, Induction
    <2>6. Len(seqs) - 1 \in S /\ (Len(seqs) - 1) + 1 = Len(seqs) /\ Len(seqs) \in 1..Len(seqs)
      <3>. HIDE DEF S
      <3>. QED
        BY <1>1, <1>3, <2>5
    <2>7. AreSeqs(f, Len(seqs), T) /\ IsLaid(f, seqs, Len(seqs))
      BY <2>6
    <2>. DEFINE ends == [n \in 0..Len(seqs) |-> End(f, n)]
    <2>8. \A n \in 0..Len(seqs) : End(f, n) \in Nat
      BY <2>7, LenProperties DEF End, AreSeqs
    <2>9. /\ ends[0] = 0 /\ ends[Len(seqs)] = Len(f[Len(seqs)])
          /\ \A k \in 1..Len(seqs) : ends[k] = End(f, k) /\ ends[k - 1] = End(f, k - 1)
      BY <1>1, <1>3 DEF End
    <2>10. ends \in [0..Len(seqs) -> Nat]
      BY <2>8
    <2>11. IsLaidOut(ends, seqs, f[Len(seqs)])
      <3>. HIDE DEF ends
      <3>1. \A k \in 1..Len(seqs) :
               /\ ends[k] = ends[k - 1] + Len(seqs[k]) /\ ends[k] <= Len(f[Len(seqs)])
               /\ \A j \in 1..Len(seqs[k]) : f[Len(seqs)][ends[k - 1] + j] = seqs[k][j]
        <4>1. End(f, Len(seqs)) = Len(f[Len(seqs)])
          BY <1>3 DEF End
        <4>. QED
          BY <2>7, <2>9, <4>1, Zenon DEF IsLaid
      <3>. QED
        BY <2>9, <2>10, <3>1, Zenon DEF IsLaidOut
    <2>. QED
      BY <2>1, <2>6, <2>7, <2>11 DEF AreSeqs
  <1>. QED
    BY <1>2, <1>3

(* Sequences from functions, and of one element.                           *)
LEMMA FunctionSeq ==
    ASSUME NEW S, NEW n \in Nat, NEW f \in [1..n -> S]
    PROVE  f \in Seq(S) /\ Len(f) = n
  OBVIOUS

LEMMA OneSeq ==
    ASSUME NEW S, NEW c \in S
    PROVE  /\ <<c>> \in Seq(S) /\ Len(<<c>>) = 1 /\ <<c>>[1] = c
           /\ DOMAIN <<c>> = 1..1
  OBVIOUS

(* A concatenation, piece by piece.                                        *)
LEMMA Concat ==
    ASSUME NEW S, NEW p \in Seq(S), NEW q \in Seq(S)
    PROVE  /\ p \o q \in Seq(S) /\ Len(p \o q) = Len(p) + Len(q)
           /\ \A j \in 1..Len(p) : (p \o q)[j] = p[j]
           /\ \A j \in 1..Len(q) : (p \o q)[Len(p) + j] = q[j]
  <1>. DEFINE x == Len(p)
              y == Len(q)
              r == p \o q
  <1>1. x \in Nat /\ y \in Nat
    BY LenProperties
  <1>2. /\ r \in Seq(S) /\ Len(r) = x + y
        /\ \A b \in 1..(x + y) : r[b] = IF b <= x THEN p[b] ELSE q[b - x]
    BY ConcatProperties
  <1>. HIDE DEF x, y, r
  <1>3. ASSUME NEW j \in 1..x PROVE r[j] = p[j]
    <2>1. j \in 1..(x + y) /\ j <= x
      BY <1>1
    <2>. QED
      BY <1>2, <2>1, Zenon
  <1>4. ASSUME NEW j \in 1..y PROVE r[x + j] = q[j]
    <2>1. x + j \in 1..(x + y) /\ ~(x + j <= x) /\ (x + j) - x = j
      BY <1>1
    <2>2. r[x + j] = IF x + j <= x THEN p[x + j] ELSE q[(x + j) - x]
      BY <1>2, <2>1, Zenon
    <2>. QED
      BY <2>1, <2>2, Zenon
  <1>. QED
    BY <1>2, <1>3, <1>4 DEF x, y, r

(* The same, for all sequences at once.                                    *)
LEMMA Concats ==
    ASSUME NEW S
    PROVE  \A u \in Seq(S), v \in Seq(S) :
              /\ u \o v \in Seq(S) /\ Len(u \o v) = Len(u) + Len(v)
              /\ \A j \in 1..Len(u) : (u \o v)[j] = u[j]
              /\ \A j \in 1..Len(v) : (u \o v)[Len(u) + j] = v[j]
  BY Concat

(* What stands for an item in the text.                                    *)
LEMMA Escapes ==
    ASSUME NEW item, IsItem(item), NEW T, Range(item) \cup {Quote, Backslash, "u"} \subseteq T
    PROVE  /\ Escape(item) \in Seq(T)
           /\ \/ /\ Len(item) = 4 /\ Len(Escape(item)) = 6
                 /\ Escape(item)[1] = Backslash /\ Escape(item)[2] = "u"
                 /\ \A j \in 1..4 : /\ Escape(item)[2 + j] = item[j]
                                    /\ item[j] \in DOMAIN Digit
              \/ /\ Len(item) = 1 /\ Len(Escape(item)) = 2
                 /\ Escape(item)[1] = Backslash /\ Escape(item)[2] \in {Quote, Backslash}
              \/ /\ Len(item) = 1 /\ Len(Escape(item)) = 1
                 /\ Escape(item)[1] \notin {Quote, Backslash}
  <1>. USE DEF Escape
  <1>1. CASE item = <<item[1]>>
    <2>. DEFINE c == item[1]
    <2>1. item = <<c>>
      BY <1>1
    <2>. HIDE DEF c
    <2>2. c \in T
      <3>1. 1 \in DOMAIN item
        BY <2>1
      <3>. QED
        BY <3>1 DEF Range, c
    <2>3. item \in Seq(T) /\ Len(item) = 1 /\ item[1] = c
      BY <2>1, <2>2, OneSeq
    <2>4. CASE c \in {Quote, Backslash}
      <3>1. Escape(item) = <<Backslash>> \o <<c>>
        BY <2>1, <2>3, <2>4
      <3>. HIDE DEF Escape
      <3>2. <<Backslash>> \in Seq(T) /\ Len(<<Backslash>>) = 1 /\ <<Backslash>>[1] = Backslash
        OBVIOUS
      <3>3. <<c>> \in Seq(T) /\ Len(<<c>>) = 1 /\ <<c>>[1] = c
        BY <2>2, OneSeq
      <3>. DEFINE p == <<Backslash>>
                  q == <<c>>
      <3>. HIDE DEF p, q
      <3>4. p \in Seq(T) /\ Len(p) = 1 /\ p[1] = Backslash
        BY <3>2 DEF p
      <3>5. q \in Seq(T) /\ Len(q) = 1 /\ q[1] = c
        BY <3>3 DEF q
      <3>6. p \o q \in Seq(T) /\ Len(p \o q) = 2 /\ (p \o q)[1] = Backslash /\ (p \o q)[2] = c
        BY <3>4, <3>5, Concat
      <3>. QED
        BY <2>3, <2>4, <3>1, <3>6 DEF p, q
    <2>5. CASE c \notin {Quote, Backslash}
      <3>1. Escape(item) = item
        BY <2>3, <2>5
      <3>. HIDE DEF Escape
      <3>. QED
        BY <2>3, <2>5, <3>1
    <2>. QED
      BY <2>4, <2>5
  <1>2. CASE item \in [1..4 -> DOMAIN Digit]
    <2>1. Len(item) = 4 /\ \A j \in 1..4 : item[j] \in DOMAIN Digit
      <3>. DEFINE D == DOMAIN Digit
      <3>. HIDE DEF D
      <3>1. 4 \in Nat /\ item \in [1..4 -> D]
        BY <1>2 DEF D
      <3>2. Len(item) = 4
        BY <3>1, FunctionSeq
      <3>. QED
        BY <3>1, <3>2 DEF D
    <2>2. item \in Seq(T)
      <3>1. item \in [1..4 -> T]
        BY <1>2 DEF Range
      <3>. QED
        BY <3>1, FunctionSeq
    <2>3. Escape(item) = <<Backslash, "u">> \o item
      BY <2>1
    <2>. HIDE DEF Escape
    <2>. DEFINE p == <<Backslash, "u">>
    <2>4. p \in Seq(T) /\ Len(p) = 2 /\ p[1] = Backslash /\ p[2] = "u"
      OBVIOUS
    <2>. HIDE DEF p
    <2>5. /\ p \o item \in Seq(T) /\ Len(p \o item) = 6
          /\ (p \o item)[1] = Backslash /\ (p \o item)[2] = "u"
          /\ \A j \in 1..4 : (p \o item)[2 + j] = item[j]
      <3>1. /\ p \o item \in Seq(T) /\ Len(p \o item) = 2 + 4
            /\ \A j \in 1..2 : (p \o item)[j] = p[j]
            /\ \A j \in 1..4 : (p \o item)[2 + j] = item[j]
        <4>. HIDE DEF Escape
        <4>1. /\ p \o item \in Seq(T) /\ Len(p \o item) = Len(p) + Len(item)
              /\ \A j \in 1..Len(p) : (p \o item)[j] = p[j]
              /\ \A j \in 1..Len(item) : (p \o item)[Len(p) + j] = item[j]
          BY <2>2, <2>4, Concat
        <4>. QED
          BY <2>1, <2>4, <4>1, Zenon
      <3>. QED
        BY <2>4, <3>1
    <2>6. /\ Escape(item) \in Seq(T) /\ Len(Escape(item)) = 6
          /\ Escape(item)[1] = Backslash /\ Escape(item)[2] = "u"
          /\ \A j \in 1..4 : Escape(item)[2 + j] = item[j]
      BY <2>3, <2>5, Zenon DEF p
    <2>. QED
      BY <2>1, <2>6
  <1>. QED
    BY <1>1, <1>2 DEF IsItem

(* Where the escaped items of a string are, after the quote it begins with. *)
IsWritten(at, items) ==
    /\ at \in [0..Len(items) -> Nat]
    /\ at[0] = 1 /\ 1 <= at[Len(items)] /\ Len(Render(items)) = at[Len(items)] + 1
    /\ Render(items)[1] = Quote /\ Render(items)[at[Len(items)] + 1] = Quote
    /\ \A k \in 1..Len(items) :
          /\ at[k] = at[k - 1] + Len(Escape(items[k])) /\ at[k] <= at[Len(items)]
          /\ \A j \in 1..Len(Escape(items[k])) :
                Render(items)[at[k - 1] + j] = Escape(items[k])[j]

(* Something between brackets.                                             *)
LEMMA Bracket ==
    ASSUME NEW S, NEW a \in S, NEW b \in S, NEW f \in Seq(S)
    PROVE  LET r == <<a>> \o f \o <<b>> IN
           /\ r \in Seq(S) /\ Len(f) \in Nat /\ Len(r) = Len(f) + 2
           /\ r[1] = a /\ r[Len(f) + 2] = b
           /\ \A j \in 1..Len(f) : r[1 + j] = f[j]
  <1>. DEFINE p == <<a>>
              q == <<b>>
              g == p \o f
              r == g \o q
              n == Len(f)
  <1>1. p \in Seq(S) /\ Len(p) = 1 /\ p[1] = a
    BY OneSeq
  <1>2. q \in Seq(S) /\ Len(q) = 1 /\ q[1] = b
    BY OneSeq
  <1>3. n \in Nat
    BY LenProperties
  <1>4. r = <<a>> \o f \o <<b>> /\ g \o q = r
    OBVIOUS
  <1>. HIDE DEF p, q, n, g, r
  <1>5. /\ g \in Seq(S) /\ Len(g) = Len(p) + n
        /\ \A j \in 1..Len(p) : g[j] = p[j]
        /\ \A j \in 1..n : g[Len(p) + j] = f[j]
    <2>1. /\ p \o f \in Seq(S) /\ Len(p \o f) = Len(p) + Len(f)
          /\ \A j \in 1..Len(p) : (p \o f)[j] = p[j]
          /\ \A j \in 1..Len(f) : (p \o f)[Len(p) + j] = f[j]
      <3>1. \A u \in Seq(S), v \in Seq(S) :
               /\ u \o v \in Seq(S) /\ Len(u \o v) = Len(u) + Len(v)
               /\ \A j \in 1..Len(u) : (u \o v)[j] = u[j]
               /\ \A j \in 1..Len(v) : (u \o v)[Len(u) + j] = v[j]
        BY Concats
      <3>. QED
        BY <1>1, <3>1, Zenon
    <2>. QED
      BY <2>1, Zenon DEF n, g
  <1>6. /\ r \in Seq(S) /\ Len(r) = Len(g) + Len(q)
        /\ \A j \in 1..Len(g) : r[j] = g[j]
        /\ \A j \in 1..Len(q) : r[Len(g) + j] = q[j]
    <2>1. /\ g \o q \in Seq(S) /\ Len(g \o q) = Len(g) + Len(q)
          /\ \A j \in 1..Len(g) : (g \o q)[j] = g[j]
          /\ \A j \in 1..Len(q) : (g \o q)[Len(g) + j] = q[j]
      BY <1>2, <1>5, Concat
    <2>. QED
      BY <2>1, Zenon DEF r
  <1>7. /\ g \in Seq(S) /\ Len(g) = 1 + n /\ g[1] = a
        /\ \A j \in 1..n : g[1 + j] = f[j]
    BY <1>1, <1>3, <1>5
  <1>8. Len(r) = n + 2 /\ r[1] = a /\ r[n + 2] = b
    <2>1. Len(r) = n + 2 /\ r[1] = g[1]
      BY <1>2, <1>3, <1>6, <1>7
    <2>2. r[(1 + n) + 1] = q[1] /\ (1 + n) + 1 = n + 2
      BY <1>2, <1>3, <1>6, <1>7
    <2>. QED
      BY <1>2, <1>7, <2>1, <2>2, Zenon
  <1>9. ASSUME NEW j \in 1..n PROVE r[1 + j] = f[j]
    <2>1. 1 + j \in 1..(1 + n)
      BY <1>3
    <2>. QED
      BY <1>6, <1>7, <2>1, Zenon
  <1>. QED
    BY <1>3, <1>4, <1>6, <1>8, <1>9, Zenon DEF n

(* A string is rendered as bytes in which every item has its place.        *)
LEMMA Renders ==
    ASSUME NEW items, items \in Seq(Range(items)), \A item \in Range(items) : IsItem(item),
           NEW T, {Quote, Backslash, "u"} \subseteq T,
           \A item \in Range(items) : Range(item) \subseteq T
    PROVE  /\ Render(items) \in Seq(T)
           /\ \E at : IsWritten(at, items)
  <1>. DEFINE pieces == [n \in DOMAIN items |-> Escape(items[n])]
              flat == FlattenSeq(pieces)
              size == Len(items)
  <1>1. size \in Nat /\ DOMAIN items = 1..size
    BY LenProperties
  <1>2. \A k \in 1..size : IsItem(items[k]) /\ Range(items[k]) \subseteq T
    BY <1>1 DEF Range
  <1>3. \A k \in 1..size : Escape(items[k]) \in Seq(T) /\ Len(Escape(items[k])) \in Nat
    <2>1. ASSUME NEW k \in 1..size
          PROVE  Escape(items[k]) \in Seq(T)
      <3>1. Range(items[k]) \cup {Quote, Backslash, "u"} \subseteq T
        BY <1>2
      <3>. QED
        BY <1>2, <3>1, Escapes
    <2>. QED
      BY <2>1, LenProperties
  <1>4. pieces \in Seq(Seq(T)) /\ Len(pieces) = size
    <2>1. pieces \in [1..size -> Seq(T)]
      BY <1>1, <1>3
    <2>. HIDE DEF pieces, size
    <2>. QED
      BY <1>1, <2>1, FunctionSeq
  <1>5. \A k \in 1..size : pieces[k] = Escape(items[k])
    BY <1>1
  <1>. HIDE DEF pieces, size
  <1>6. flat \in Seq(T)
    BY <1>4, Flatten
  <1>7. PICK ends : IsLaidOut(ends, pieces, flat)
    BY <1>4, Flatten
  <1>8. /\ ends \in [0..size -> Nat] /\ ends[0] = 0 /\ ends[size] = Len(flat)
        /\ \A k \in 1..size :
              /\ ends[k] = ends[k - 1] + Len(Escape(items[k])) /\ ends[k] <= Len(flat)
              /\ \A j \in 1..Len(Escape(items[k])) : flat[ends[k - 1] + j] = Escape(items[k])[j]
    <2>1. /\ ends \in [0..size -> Nat] /\ ends[0] = 0 /\ ends[size] = Len(flat)
          /\ \A k \in 1..size :
                /\ ends[k] = ends[k - 1] + Len(pieces[k]) /\ ends[k] <= Len(flat)
                /\ \A j \in 1..Len(pieces[k]) : flat[ends[k - 1] + j] = pieces[k][j]
      BY <1>4, <1>7, Zenon DEF IsLaidOut
    <2>. HIDE DEF flat
    <2>. QED
      BY <1>5, <2>1
  <1>9. Render(items) = <<Quote>> \o flat \o <<Quote>>
    BY DEF Render, pieces
  <1>. HIDE DEF flat
  <1>. DEFINE text == Render(items)
              length == Len(flat)
  <1>10. /\ text \in Seq(T) /\ length \in Nat /\ Len(text) = length + 2
         /\ text[1] = Quote /\ text[length + 2] = Quote
         /\ \A j \in 1..length : text[1 + j] = flat[j]
    <2>1. Quote \in T
      OBVIOUS
    <2>. QED
      BY <1>6, <1>9, <2>1, Bracket
  <1>. HIDE DEF text, length
  <1>. DEFINE at == [k \in 0..size |-> ends[k] + 1]
  <1>11. /\ at \in [0..size -> Nat] /\ at[0] = 1 /\ at[size] = length + 1
         /\ \A k \in 1..size : at[k] = ends[k] + 1 /\ at[k - 1] = ends[k - 1] + 1
    BY <1>1, <1>8 DEF length
  <1>. HIDE DEF at
  <1>12. ASSUME NEW k \in 1..size
         PROVE  /\ at[k] = at[k - 1] + Len(Escape(items[k])) /\ at[k] <= at[size]
                /\ \A j \in 1..Len(Escape(items[k])) : text[at[k - 1] + j] = Escape(items[k])[j]
    <2>. DEFINE m == Len(Escape(items[k]))
    <2>1. m \in Nat /\ ends[k - 1] \in Nat /\ ends[k] \in Nat
      BY <1>1, <1>3, <1>8
    <2>2. ends[k] = ends[k - 1] + m /\ ends[k] <= length
      BY <1>8 DEF length
    <2>3. \A j \in 1..m : flat[ends[k - 1] + j] = Escape(items[k])[j]
      BY <1>8
    <2>. HIDE DEF m
    <2>4. at[k] = at[k - 1] + m /\ at[k] <= at[size]
      <3>1. /\ at[k] = ends[k] + 1 /\ at[k - 1] = ends[k - 1] + 1
            /\ at[size] = length + 1 /\ length \in Nat
        BY <1>10, <1>11, Zenon
      <3>. QED
        BY <2>1, <2>2, <3>1
    <2>5. ASSUME NEW j \in 1..m PROVE text[at[k - 1] + j] = Escape(items[k])[j]
      <3>1. ends[k - 1] + j \in 1..length /\ at[k - 1] + j = 1 + (ends[k - 1] + j)
        <4>1. at[k - 1] = ends[k - 1] + 1
          BY <1>11
        <4>2. ends[k - 1] + j <= ends[k - 1] + m /\ ends[k - 1] + m <= length
          BY <1>10, <2>1, <2>2
        <4>. DEFINE e == ends[k - 1]
        <4>3. e \in Nat /\ m \in Nat /\ e + j <= length /\ at[k - 1] = e + 1
          BY <1>10, <2>1, <2>2, <4>1, <4>2
        <4>. HIDE DEF e
        <4>4. e + j \in 1..length /\ at[k - 1] + j = 1 + (e + j)
          BY <1>10, <4>3
        <4>. QED
          BY <4>4 DEF e
      <3>. QED
        BY <1>10, <2>3, <3>1, Zenon
    <2>. QED
      BY <2>4, <2>5 DEF m
  <1>13. 1 <= at[size] /\ Len(text) = at[size] + 1 /\ text[1] = Quote /\ text[at[size] + 1] = Quote
    BY <1>10, <1>11
  <1>14. IsWritten(at, items)
    BY <1>11, <1>12, <1>13, Zenon DEF IsWritten, text, size
  <1>. QED
    BY <1>10, <1>14, Zenon DEF text

-----------------------------------------------------------------------------
Comma == ","
Opening == "["
Closing == "]"

Separator(n) == IF n = 1 THEN <<>> ELSE <<Comma>>

(* The bytes that the scan tells apart.                                    *)
LEMMA Distinct ==
    /\ Comma # Quote /\ Opening # Quote /\ Closing # Quote
    /\ Backslash # Quote /\ Backslash # "u" /\ Quote # "u"
  BY Zenon DEF Comma, Opening, Closing, Quote, Backslash

(* What stands before a string.                                            *)
LEMMA Separators ==
    ASSUME NEW T, Comma \in T, NEW n
    PROVE  /\ Separator(n) \in Seq(T)
           /\ Len(Separator(n)) = IF n = 1 THEN 0 ELSE 1
           /\ Len(Separator(n)) = 1 => Separator(n)[1] = Comma
  <1>1. /\ <<>> \in Seq(T) /\ Len(<<>>) = 0
        /\ <<Comma>> \in Seq(T) /\ Len(<<Comma>>) = 1 /\ <<Comma>>[1] = Comma
    BY OneSeq, EmptySeq
  <1>. QED
    BY <1>1 DEF Separator

(* Where a document's strings are in its text: string n begins at          *)
(* start[n][0] and ends with a quote at stop[n]; its item k + 1 is at      *)
(* start[n][k].                                                            *)
IsPlacedString(start, from, stop, items, bytes) ==
    /\ start \in [0..Len(items) -> Nat]
    /\ from + 1 < start[0]
    /\ bytes[start[0] - 1] = Quote
    /\ \A b \in Nat : from < b /\ b < start[0] - 1 => bytes[b] # Quote
    /\ stop = start[Len(items)] /\ bytes[stop] = Quote
    /\ \A k \in 0..Len(items) : 1 <= start[k] /\ start[k] <= stop
    /\ \A k \in 1..Len(items) :
          /\ start[k] = start[k - 1] + Len(Escape(items[k]))
          /\ \A j \in 1..Len(Escape(items[k])) :
                bytes[start[k - 1] + j - 1] = Escape(items[k])[j]

IsPlaced(start, stop, document, bytes) ==
    /\ stop \in [0..Len(document) -> Nat] /\ stop[0] = 0 /\ Len(bytes) \in Nat
    /\ \A n \in 0..Len(document) : stop[n] <= Len(bytes)
    /\ \A n \in 1..Len(document) :
          IsPlacedString(start[n], stop[n - 1], stop[n], document[n], bytes)
    /\ \A b \in Nat : stop[Len(document)] < b /\ b <= Len(bytes) => bytes[b] # Quote

(* String n in the flattened text, and in the text.                        *)
IsPiece(n, r, piece, b, flat, size, text, s, T) ==
    /\ Comma \in T /\ n \in Nat \ {0} /\ r \in Seq(T) /\ piece = Separator(n) \o r
    /\ b \in Nat /\ size \in Nat /\ b + Len(piece) <= size
    /\ \A j \in 1..Len(piece) : flat[b + j] = piece[j]
    /\ \A j \in 1..size : text[1 + j] = flat[j]
    /\ s = Len(Separator(n))

(* The text reads as the string says where the string is.                  *)
LEMMA Strings ==
    ASSUME NEW T, NEW n, NEW r, NEW piece, NEW b, NEW flat, NEW size, NEW text, NEW s,
           IsPiece(n, r, piece, b, flat, size, text, s, T)
    PROVE  /\ s = IF n = 1 THEN 0 ELSE 1
           /\ piece \in Seq(T) /\ Len(r) \in Nat /\ Len(piece) = s + Len(r)
           /\ s = 1 => text[1 + b + 1] = Comma
           /\ \A j \in 1..Len(r) : text[1 + b + s + j] = r[j]
  <1>. USE DEF IsPiece
  <1>. DEFINE p == Separator(n)
              x == Len(r)
  <1>1. p \in Seq(T) /\ s = (IF n = 1 THEN 0 ELSE 1) /\ (s = 1 => p[1] = Comma)
    BY Separators
  <1>2. x \in Nat /\ s \in 0..1
    BY <1>1, LenProperties
  <1>. HIDE DEF p
  <1>3. /\ piece \in Seq(T) /\ Len(piece) = s + x
        /\ \A j \in 1..s : piece[j] = p[j]
        /\ \A j \in 1..x : piece[s + j] = r[j]
    <2>1. \A u \in Seq(T), v \in Seq(T) :
             /\ u \o v \in Seq(T) /\ Len(u \o v) = Len(u) + Len(v)
             /\ \A j \in 1..Len(u) : (u \o v)[j] = u[j]
             /\ \A j \in 1..Len(v) : (u \o v)[Len(u) + j] = v[j]
      <3>. HIDE DEF IsPiece
      <3>. QED
        BY Concats
    <2>2. piece = p \o r
      BY DEF p
    <2>3. p \in Seq(T) /\ r \in Seq(T)
      BY <1>1
    <2>4. /\ p \o r \in Seq(T) /\ Len(p \o r) = Len(p) + Len(r)
          /\ \A j \in 1..Len(p) : (p \o r)[j] = p[j]
          /\ \A j \in 1..Len(r) : (p \o r)[Len(p) + j] = r[j]
      BY <2>1, <2>3, Zenon
    <2>. QED
      BY <2>2, <2>4, Zenon DEF p
  <1>. HIDE DEF x
  <1>4. ASSUME NEW j \in 1..(s + x)
        PROVE  text[1 + b + j] = piece[j]
    <2>1. j \in 1..Len(piece) /\ b + j \in 1..size /\ 1 + b + j = 1 + (b + j)
      BY <1>2, <1>3
    <2>2. text[1 + (b + j)] = flat[b + j] /\ flat[b + j] = piece[j]
      BY <2>1
    <2>. QED
      BY <2>1, <2>2, Zenon
  <1>5. s = 1 => text[1 + b + 1] = Comma
    <2>1. s = 1 => 1 \in 1..(s + x) /\ 1 \in 1..s
      BY <1>2
    <2>. QED
      BY <1>1, <1>3, <1>4, <2>1, Zenon
  <1>6. ASSUME NEW j \in 1..x PROVE text[1 + b + s + j] = r[j]
    <2>1. s + j \in 1..(s + x) /\ 1 + b + s + j = 1 + b + (s + j)
      BY <1>2
    <2>. QED
      BY <1>3, <1>4, <2>1, Zenon
  <1>. QED
    BY <1>1, <1>2, <1>3, <1>5, <1>6, Zenon DEF x, p

(* Where that string and its items are.                                    *)
IsPlaceable(items, at, b, s, text, from) ==
    /\ IsWritten(at, items) /\ Len(items) \in Nat
    /\ \A k \in 1..Len(items) : Len(Escape(items[k])) \in Nat
    /\ b \in Nat /\ s \in 0..1 /\ from \in Nat
    /\ \/ from = 0 /\ b = 0 /\ s = 0 /\ text[1] # Quote
       \/ from = b + 1 /\ s = 1
    /\ s = 1 => text[1 + b + 1] # Quote
    /\ \A j \in 1..Len(Render(items)) : text[1 + b + s + j] = Render(items)[j]

(* The places of the items, in the text as a whole.                        *)
LEMMA StringPlaced ==
    ASSUME NEW items, NEW at, NEW b, NEW s, NEW text, NEW from,
           IsPlaceable(items, at, b, s, text, from)
    PROVE  IsPlacedString([k \in 0..Len(items) |-> b + s + 2 + at[k]], from,
                          1 + b + s + Len(Render(items)), items, text)
  <1>. USE DEF IsPlaceable
  <1>. DEFINE size == Len(items)
              start == [k \in 0..size |-> b + s + 2 + at[k]]
              r == Render(items)
              x == Len(r)
              stop == 1 + b + s + x
  <1>1. /\ at \in [0..size -> Nat] /\ at[0] = 1 /\ 1 <= at[size] /\ x = at[size] + 1
        /\ r[1] = Quote /\ r[at[size] + 1] = Quote
        /\ \A k \in 1..size :
              /\ at[k] = at[k - 1] + Len(Escape(items[k])) /\ at[k] <= at[size]
              /\ \A j \in 1..Len(Escape(items[k])) : r[at[k - 1] + j] = Escape(items[k])[j]
    BY DEF IsWritten
  <1>2. size \in Nat /\ \A k \in 1..size : Len(Escape(items[k])) \in Nat
    OBVIOUS
  <1>3. \A j \in 1..x : text[1 + b + s + j] = r[j]
    OBVIOUS
  <1>4. b \in Nat /\ s \in 0..1 /\ from \in Nat
    OBVIOUS
  <1>5. (from = 0 /\ b = 0 /\ s = 0 /\ text[1] # Quote) \/ (from = b + 1 /\ s = 1)
    OBVIOUS
  <1>6. s = 1 => text[1 + b + 1] # Quote
    OBVIOUS
  <1>. HIDE DEF size, r, x, IsPlaceable
  <1>7. start \in [0..size -> Nat] /\ start[0] = b + s + 3 /\ start[size] = b + s + 2 + at[size]
    BY <1>4, <1>1, <1>2
  <1>8. \A k \in 0..size : start[k] = b + s + 2 + at[k] /\ at[k] \in Nat
    BY <1>4, <1>1
  <1>. HIDE DEF start
  <1>9. from + 1 < start[0] /\ start[0] - 1 = 1 + b + s + 1
    BY <1>4, <1>7, <1>5
  <1>10. stop = start[size] /\ stop = 1 + b + s + (at[size] + 1) /\ at[size] \in Nat
    BY <1>4, <1>1, <1>2, <1>7, <1>8
  <1>11. text[start[0] - 1] = Quote /\ text[stop] = Quote
    <2>1. 1 \in 1..x /\ at[size] + 1 \in 1..x
      BY <1>1, <1>10
    <2>2. text[1 + b + s + 1] = r[1] /\ text[1 + b + s + (at[size] + 1)] = r[at[size] + 1]
      BY <1>3, <2>1
    <2>. HIDE DEF stop
    <2>. QED
      BY <1>1, <1>9, <1>10, <2>2, Zenon
  <1>12. ASSUME NEW c \in Nat, from < c, c < start[0] - 1
        PROVE  text[c] # Quote
    <2>1. \/ c = 1 /\ text[1] # Quote
          \/ c = 1 + b + 1 /\ s = 1
      BY <1>4, <1>9, <1>12, <1>5
    <2>. QED
      BY <1>6, <2>1
  <1>13. ASSUME NEW k \in 0..size PROVE 1 <= start[k] /\ start[k] <= stop
    <2>1. k = 0 \/ k \in 1..size
      BY <1>2
    <2>2. at[k] <= at[size] /\ at[k] \in Nat /\ at[size] \in Nat
      BY <1>1, <1>8, <1>10, <2>1
    <2>3. start[k] = b + s + 2 + at[k]
      BY <1>8
    <2>. QED
      BY <1>4, <1>10, <2>2, <2>3
  <1>14. ASSUME NEW k \in 1..size
         PROVE  /\ start[k] = start[k - 1] + Len(Escape(items[k]))
                /\ \A j \in 1..Len(Escape(items[k])) :
                      text[start[k - 1] + j - 1] = Escape(items[k])[j]
    <2>. DEFINE m == Len(Escape(items[k]))
                a == at[k - 1]
    <2>1. k - 1 \in 0..size /\ k \in 0..size /\ m \in Nat
      BY <1>2
    <2>2. /\ a \in Nat /\ at[k] = a + m /\ a + m <= at[size] /\ at[size] \in Nat
          /\ start[k - 1] = b + s + 2 + a /\ start[k] = b + s + 2 + at[k]
      BY <1>1, <1>8, <1>10, <2>1
    <2>3. \A j \in 1..m : r[a + j] = Escape(items[k])[j]
      BY <1>1
    <2>. HIDE DEF m, a
    <2>4. start[k] = start[k - 1] + m
      BY <1>4, <2>1, <2>2
    <2>5. ASSUME NEW j \in 1..m PROVE text[start[k - 1] + j - 1] = Escape(items[k])[j]
      <3>1. a + j \in 1..x /\ start[k - 1] + j - 1 = 1 + b + s + (a + j)
        BY <1>4, <1>1, <2>1, <2>2
      <3>2. text[1 + b + s + (a + j)] = r[a + j]
        BY <1>3, <3>1, Zenon
      <3>. QED
        BY <2>3, <3>1, <3>2, Zenon
    <2>. QED
      BY <2>4, <2>5 DEF m
  <1>15. IsPlacedString(start, from, stop, items, text)
    <2>. HIDE DEF stop
    <2>. QED
      BY <1>7, <1>9, <1>10, <1>11, <1>12, <1>13, <1>14, Zenon DEF IsPlacedString, size
  <1>. QED
    BY <1>15 DEF start, size, x, r

Pieces(document) == [n \in DOMAIN document |-> Separator(n) \o Render(document[n])]

(* The text, in the terms of the lemmas.                                   *)
LEMMA TextOf ==
    ASSUME NEW document
    PROVE  AsText(document) = <<Opening>> \o FlattenSeq(Pieces(document)) \o <<Closing>>
  BY Zenon DEF AsText, Pieces, Separator, Opening, Closing, Comma

(* Every document has its places in its text.                              *)
LEMMA Placed ==
    ASSUME NEW document, IsDocument(document)
    PROVE  \E start, stop : IsPlaced(start, stop, document, AsText(document))
  <1>. DEFINE T == (UNION {UNION {Range(item) : item \in Range(items)} : items \in Range(document)})
                     \cup {Quote, Backslash, "u", Comma, Opening, Closing}
              N == Len(document)
              At == [n \in 1..N |-> CHOOSE at : IsWritten(at, document[n])]
              pieces == Pieces(document)
              flat == FlattenSeq(pieces)
              text == AsText(document)
              s == [n \in 1..N |-> Len(Separator(n))]
  <1>1. N \in Nat /\ DOMAIN document = 1..N
    BY LenProperties DEF IsDocument
  <1>2. \A n \in 1..N : /\ document[n] \in Range(document)
                        /\ document[n] \in Seq(Range(document[n]))
                        /\ \A item \in Range(document[n]) : IsItem(item)
    BY <1>1 DEF IsDocument, Range
  <1>3. /\ {Quote, Backslash, "u"} \subseteq T /\ Comma \in T /\ Opening \in T /\ Closing \in T
        /\ \A n \in 1..N : \A item \in Range(document[n]) : Range(item) \subseteq T
    <2>1. ASSUME NEW n \in 1..N, NEW item \in Range(document[n]), NEW c \in Range(item)
          PROVE  c \in T
      <3>. DEFINE Bytes(items) == UNION {Range(x) : x \in Range(items)}
      <3>1. c \in Bytes(document[n])
        BY Zenon
      <3>2. Bytes(document[n]) \in {Bytes(items) : items \in Range(document)}
        BY <1>2, Zenon
      <3>. QED
        BY <3>1, <3>2, Zenon
    <2>2. /\ {Quote, Backslash, "u"} \subseteq T
          /\ Comma \in T /\ Opening \in T /\ Closing \in T
      OBVIOUS
    <2>. HIDE DEF T
    <2>. QED
      BY <2>1, <2>2
  <1>. HIDE DEF T
  <1>4. \A n \in 1..N : Render(document[n]) \in Seq(T) /\ IsWritten(At[n], document[n])
    <2>1. ASSUME NEW n \in 1..N
          PROVE  Render(document[n]) \in Seq(T) /\ \E at : IsWritten(at, document[n])
      <3>. DEFINE items == document[n]
      <3>1. /\ items \in Seq(Range(items)) /\ \A item \in Range(items) : IsItem(item)
            /\ \A item \in Range(items) : Range(item) \subseteq T
        BY <1>2, <1>3
      <3>. HIDE DEF items
      <3>2. Render(items) \in Seq(T) /\ \E at : IsWritten(at, items)
        BY <1>3, <3>1, Renders
      <3>. QED
        BY <3>2 DEF items
    <2>2. \A n \in 1..N : At[n] = CHOOSE at : IsWritten(at, document[n])
      OBVIOUS
    <2>. HIDE DEF At
    <2>. QED
      BY <2>1, <2>2
  <1>5. \A n \in 1..N : /\ Len(document[n]) \in Nat
                        /\ \A k \in 1..Len(document[n]) : Len(Escape(document[n][k])) \in Nat
    <2>. SUFFICES ASSUME NEW n \in 1..N
                  PROVE  /\ Len(document[n]) \in Nat
                         /\ \A k \in 1..Len(document[n]) : Len(Escape(document[n][k])) \in Nat
      OBVIOUS
    <2>. DEFINE items == document[n]
    <2>1. /\ items \in Seq(Range(items)) /\ \A item \in Range(items) : IsItem(item)
          /\ \A item \in Range(items) : Range(item) \subseteq T
      BY <1>2, <1>3
    <2>. HIDE DEF items
    <2>2. Len(items) \in Nat /\ DOMAIN items = 1..Len(items)
      BY <2>1, LenProperties
    <2>3. ASSUME NEW k \in 1..Len(items)
          PROVE  Len(Escape(items[k])) \in Nat
      <3>1. items[k] \in Range(items)
        BY <2>2 DEF Range
      <3>2. IsItem(items[k]) /\ Range(items[k]) \cup {Quote, Backslash, "u"} \subseteq T
        BY <1>3, <2>1, <3>1
      <3>3. Escape(items[k]) \in Seq(T)
        BY <3>2, Escapes
      <3>. QED
        BY <3>3, LenProperties
    <2>. QED
      BY <2>2, <2>3 DEF items
  <1>. HIDE DEF At
  <1>6. \A n \in 1..N : pieces[n] = Separator(n) \o Render(document[n])
    BY <1>1 DEF Pieces
  <1>7. pieces \in Seq(Seq(T)) /\ Len(pieces) = N
    <2>1. \A n \in 1..N : Separator(n) \o Render(document[n]) \in Seq(T)
      BY <1>3, <1>4, Separators, ConcatProperties
    <2>2. pieces \in [1..N -> Seq(T)]
      BY <1>1, <2>1 DEF Pieces
    <2>. HIDE DEF pieces, N
    <2>. QED
      BY <1>1, <2>2, FunctionSeq
  <1>. HIDE DEF pieces
  <1>8. flat \in Seq(T)
    BY <1>7, Flatten
  <1>9. PICK ends : IsLaidOut(ends, pieces, flat)
    BY <1>7, Flatten
  <1>. HIDE DEF flat, N
  <1>. DEFINE size == Len(flat)
  <1>10. /\ ends \in [0..N -> Nat] /\ ends[0] = 0 /\ ends[N] = size
         /\ \A n \in 1..N :
               /\ ends[n] = ends[n - 1] + Len(pieces[n]) /\ ends[n] <= size
               /\ \A j \in 1..Len(pieces[n]) : flat[ends[n - 1] + j] = pieces[n][j]
    BY <1>7, <1>9, Zenon DEF IsLaidOut
  <1>11. /\ text \in Seq(T) /\ size \in Nat /\ Len(text) = size + 2
         /\ text[1] = Opening /\ text[size + 2] = Closing
         /\ \A j \in 1..size : text[1 + j] = flat[j]
    <2>1. text = <<Opening>> \o flat \o <<Closing>>
      BY TextOf, Zenon DEF flat, pieces
    <2>. HIDE DEF text
    <2>. QED
      BY <1>3, <1>8, <2>1, Bracket
  <1>. HIDE DEF size, text
  <1>. DEFINE start == [n \in 1..N |->
                         [k \in 0..Len(document[n]) |-> ends[n - 1] + s[n] + 2 + At[n][k]]]
              stop == [n \in 0..N |-> IF n = 0 THEN 0 ELSE ends[n] + 1]
  <1>12. /\ stop \in [0..N -> Nat] /\ stop[0] = 0
         /\ \A n \in 1..N : /\ stop[n] = ends[n] + 1
                            /\ stop[n - 1] = IF n = 1 THEN 0 ELSE ends[n - 1] + 1
    BY <1>1, <1>10
  <1>13. Len(text) \in Nat /\ \A n \in 0..N : stop[n] <= Len(text)
    BY <1>1, <1>10, <1>11
  <1>14. ASSUME NEW c \in Nat, stop[N] < c, c <= Len(text)
         PROVE  text[c] # Quote
    <2>1. \/ c = 1 \/ c = size + 2
      BY <1>1, <1>10, <1>11, <1>14
    <2>. QED
      BY <1>11, <2>1, Distinct
  <1>15. ASSUME NEW n \in 1..N
         PROVE  IsPlacedString(start[n], stop[n - 1], stop[n], document[n], text)
    <2>. DEFINE b == ends[n - 1]
                r == Render(document[n])
                m == s[n]
                from == stop[n - 1]
                items == document[n]
                at == At[n]
    <2>1. /\ start[n] = [k \in 0..Len(items) |-> b + m + 2 + at[k]]
          /\ m = Len(Separator(n))
      OBVIOUS
    <2>2. /\ b \in Nat /\ n \in Nat \ {0} /\ b + Len(pieces[n]) <= size
          /\ ends[n] = b + Len(pieces[n]) /\ (n = 1 => b = 0)
          /\ \A j \in 1..Len(pieces[n]) : flat[b + j] = pieces[n][j]
      BY <1>1, <1>10
    <2>3. r \in Seq(T) /\ pieces[n] = Separator(n) \o r
      BY <1>4, <1>6
    <2>4. from = (IF n = 1 THEN 0 ELSE b + 1) /\ stop[n] = ends[n] + 1
      BY <1>12
    <2>5. /\ IsWritten(at, items) /\ Len(items) \in Nat
          /\ \A k \in 1..Len(items) : Len(Escape(items[k])) \in Nat
          /\ r = Render(items)
      BY <1>4, <1>5
    <2>. HIDE DEF b, r, m, s, from, items, at, start, stop
    <2>6. /\ m = IF n = 1 THEN 0 ELSE 1
          /\ Len(r) \in Nat /\ Len(pieces[n]) = m + Len(r)
          /\ m = 1 => text[1 + b + 1] = Comma
          /\ \A j \in 1..Len(r) : text[1 + b + m + j] = r[j]
      <3>. DEFINE piece == pieces[n]
      <3>1. /\ piece = Separator(n) \o r /\ b + Len(piece) <= size
            /\ \A j \in 1..Len(piece) : flat[b + j] = piece[j]
        BY <2>2, <2>3
      <3>. HIDE DEF piece
      <3>2. /\ Comma \in T /\ n \in Nat \ {0} /\ r \in Seq(T) /\ b \in Nat /\ size \in Nat
            /\ m = Len(Separator(n)) /\ \A j \in 1..size : text[1 + j] = flat[j]
        BY <1>3, <1>11, <2>1, <2>2, <2>3
      <3>3. /\ m = IF n = 1 THEN 0 ELSE 1
            /\ piece \in Seq(T) /\ Len(r) \in Nat /\ Len(piece) = m + Len(r)
            /\ m = 1 => text[1 + b + 1] = Comma
            /\ \A j \in 1..Len(r) : text[1 + b + m + j] = r[j]
        <4>1. IsPiece(n, r, piece, b, flat, size, text, m, T)
          BY <3>1, <3>2, Zenon DEF IsPiece
        <4>. QED
          BY <4>1, Strings
      <3>. QED
        BY <3>3, Zenon DEF piece
    <2>7. /\ m \in 0..1 /\ from \in Nat /\ stop[n] = 1 + b + m + Len(r)
          /\ (from = 0 /\ b = 0 /\ m = 0) \/ (from = b + 1 /\ m = 1)
      <3>1. /\ b \in Nat /\ ends[n] = b + Len(pieces[n]) /\ (n = 1 => b = 0)
            /\ m = (IF n = 1 THEN 0 ELSE 1)
            /\ Len(r) \in Nat /\ Len(pieces[n]) = m + Len(r)
        BY <2>2, <2>6, Zenon
      <3>. DEFINE x == Len(r)
                  e == ends[n]
                  p == Len(pieces[n])
      <3>. HIDE DEF x, e, p
      <3>2. /\ b \in Nat /\ x \in Nat /\ e = b + p /\ p = m + x /\ stop[n] = e + 1
            /\ m = (IF n = 1 THEN 0 ELSE 1) /\ (n = 1 => b = 0)
            /\ from = (IF n = 1 THEN 0 ELSE b + 1)
        BY <2>4, <3>1, Zenon DEF x, e, p
      <3>3. /\ m \in 0..1 /\ from \in Nat
            /\ (from = 0 /\ b = 0 /\ m = 0) \/ (from = b + 1 /\ m = 1)
        BY <3>2
      <3>. QED
        BY <3>2, <3>3 DEF x
    <2>8. text[1] # Quote /\ (m = 1 => text[1 + b + 1] # Quote)
      BY <1>11, <2>6, Distinct
    <2>9. IsPlacedString([k \in 0..Len(items) |-> b + m + 2 + at[k]], from,
                         1 + b + m + Len(Render(items)), items, text)
      <3>1. /\ IsWritten(at, items) /\ Len(items) \in Nat
            /\ \A k \in 1..Len(items) : Len(Escape(items[k])) \in Nat
            /\ b \in Nat /\ m \in 0..1 /\ from \in Nat
            /\ \/ from = 0 /\ b = 0 /\ m = 0 /\ text[1] # Quote
               \/ from = b + 1 /\ m = 1
            /\ m = 1 => text[1 + b + 1] # Quote
        BY <2>2, <2>5, <2>7, <2>8
      <3>2. \A j \in 1..Len(Render(items)) : text[1 + b + m + j] = Render(items)[j]
        BY <2>5, <2>6, Zenon
      <3>3. IsPlaceable(items, at, b, m, text, from)
        BY <3>1, <3>2, Zenon DEF IsPlaceable
      <3>. QED
        BY <3>3, StringPlaced
    <2>10. IsPlacedString(start[n], from, stop[n], items, text)
      BY <2>1, <2>5, <2>7, <2>9, Zenon
    <2>. QED
      BY <2>10 DEF from, items
  <1>16. IsPlaced(start, stop, document, text)
    <2>. HIDE DEF start, stop
    <2>. QED
      BY <1>12, <1>13, <1>14, <1>15, Zenon DEF IsPlaced, N
  <1>. QED
    <2>. HIDE DEF start, stop
    <2>. QED
      BY <1>16, Zenon DEF text

-----------------------------------------------------------------------------
(* A layout of a document's text, chosen once and for all.                 *)
IsLayout(layout, document) == IsPlaced(layout[1], layout[2], document, AsText(document))

Layout(document) == CHOOSE layout : IsLayout(layout, document)

Start(document) == Layout(document)[1]
Stop(document) == Layout(document)[2]

(* The chosen layout is one.                                               *)
LEMMA LayoutPlaced ==
    ASSUME NEW document, IsDocument(document)
    PROVE  IsPlaced(Start(document), Stop(document), document, AsText(document))
  <1>1. PICK start, stop : IsPlaced(start, stop, document, AsText(document))
    BY Placed
  <1>2. <<start, stop>>[1] = start /\ <<start, stop>>[2] = stop
    OBVIOUS
  <1>3. IsLayout(<<start, stop>>, document)
    BY <1>1, <1>2, Zenon DEF IsLayout
  <1>4. IsLayout(Layout(document), document)
    BY <1>3, Zenon DEF Layout
  <1>. QED
    BY <1>4 DEF IsLayout, Start, Stop

(* Every hexadecimal digit has a value.                                    *)
LEMMA Digits ==
    \A d \in DOMAIN Digit : Digit[d] \in Nat
  <1>1. ASSUME NEW d \in DOMAIN Digit
        PROVE  \E n \in 1..16 : HexDigits[n] = d
    <2>1. d \in Range(HexDigits)
      BY Zenon DEF Digit
    <2>2. DOMAIN HexDigits = 1..16
      BY DEF HexDigits
    <2>. QED
      BY <2>1, <2>2, Zenon DEF Range
  <1>2. ASSUME NEW d \in DOMAIN Digit
        PROVE  Digit[d] \in Nat
    <2>. DEFINE c == CHOOSE n \in 1..16 : HexDigits[n] = d
    <2>1. c \in 1..16
      BY <1>1, Zenon
    <2>2. Digit[d] = c - 1
      BY Zenon DEF Digit
    <2>. HIDE DEF c
    <2>. QED
      BY <2>1, <2>2
  <1>. QED
    BY <1>2

(* No unit is both halves of a pair, and 0 is neither.                     *)
LEMMA Halves ==
    /\ \A unit \in Nat : ~(High(unit) /\ Low(unit))
    /\ ~High(0) /\ ~Low(0)
  BY DEF High, Low

(* Every item has a code unit.                                             *)
LEMMA Units ==
    ASSUME NEW item, IsItem(item), Len(item) = 1 \/ \A j \in 1..4 : item[j] \in DOMAIN Digit
    PROVE  Unit(item) \in Nat
  <1>1. CASE Len(item) # 4
    BY <1>1 DEF Unit
  <1>2. CASE Len(item) = 4
    <2>1. \A j \in 1..4 : item[j] \in DOMAIN Digit
      BY <1>2
    <2>2. /\ Digit[item[1]] \in Nat /\ Digit[item[1 + 1]] \in Nat
          /\ Digit[item[1 + 2]] \in Nat /\ Digit[item[1 + 3]] \in Nat
      BY <2>1, Digits
    <2>. HIDE DEF Digit
    <2>. QED
      BY <1>2, <2>2 DEF Unit, CodeUnit
  <1>. QED
    BY <1>1, <1>2

(* An item between two positions of the text.                              *)
IsUnitAt(text, from, next, item) ==
    /\ next = from + 6 /\ text[from] = Backslash /\ text[from + 1] = "u"
    /\ \A j \in 2..5 : text[from + j] \in DOMAIN Digit
    /\ CodeUnit(text, from + 2) = Unit(item)

IsEscapedAt(text, from, next, item) ==
    /\ next = from + 2 /\ text[from] = Backslash /\ text[from + 1] # "u"
    /\ Unit(item) = 0

IsCharacterAt(text, from, next, item) ==
    /\ next = from + 1 /\ text[from] # Backslash /\ text[from] # Quote
    /\ Unit(item) = 0

(* Between its two positions the text reads as the item says.              *)
LEMMA Items ==
    ASSUME NEW items, NEW start, NEW from, NEW stop, NEW text,
           IsPlacedString(start, from, stop, items, text),
           Len(items) \in Nat, NEW k \in 1..Len(items), IsItem(items[k])
    PROVE  /\ start[k - 1] \in Nat /\ start[k] \in Nat /\ Unit(items[k]) \in Nat
           /\ \/ IsUnitAt(text, start[k - 1], start[k], items[k])
              \/ IsEscapedAt(text, start[k - 1], start[k], items[k])
              \/ IsCharacterAt(text, start[k - 1], start[k], items[k])
  <1>. DEFINE item == items[k]
              bytes == Escape(item)
              a == start[k - 1]
              z == start[k]
  <1>1. /\ a \in Nat /\ z \in Nat /\ z = a + Len(bytes)
        /\ \A j \in 1..Len(bytes) : text[a + j - 1] = bytes[j]
    <2>1. k \in 0..Len(items) /\ k - 1 \in 0..Len(items)
      OBVIOUS
    <2>2. /\ start \in [0..Len(items) -> Nat] /\ start[k] = start[k - 1] + Len(Escape(items[k]))
          /\ \A j \in 1..Len(Escape(items[k])) :
                text[start[k - 1] + j - 1] = Escape(items[k])[j]
      BY Zenon DEF IsPlacedString
    <2>3. start[k - 1] \in Nat /\ start[k] \in Nat
      BY <2>1, <2>2
    <2>. QED
      BY <2>2, <2>3, Zenon
  <1>2. \/ /\ Len(item) = 4 /\ Len(bytes) = 6
           /\ bytes[1] = Backslash /\ bytes[2] = "u"
           /\ \A j \in 1..4 : bytes[2 + j] = item[j] /\ item[j] \in DOMAIN Digit
        \/ /\ Len(item) = 1 /\ Len(bytes) = 2
           /\ bytes[1] = Backslash /\ bytes[2] \in {Quote, Backslash}
        \/ /\ Len(item) = 1 /\ Len(bytes) = 1
           /\ bytes[1] \notin {Quote, Backslash}
    <2>. DEFINE T == Range(item) \cup {Quote, Backslash, "u"}
    <2>1. IsItem(item) /\ Range(item) \cup {Quote, Backslash, "u"} \subseteq T
      OBVIOUS
    <2>. HIDE DEF T, item
    <2>. QED
      BY <2>1, Escapes
  <1>3. IsItem(item)
    OBVIOUS
  <1>. HIDE DEF item, bytes, a, z
  <1>4. Unit(item) \in Nat
    BY <1>2, <1>3, Units
  <1>5. CASE Len(item) = 4
    <2>1. /\ Len(bytes) = 6 /\ bytes[1] = Backslash /\ bytes[2] = "u"
          /\ \A j \in 1..4 : bytes[2 + j] = item[j] /\ item[j] \in DOMAIN Digit
      BY <1>2, <1>5
    <2>2. z = a + 6 /\ \A j \in 1..6 : text[a + j - 1] = bytes[j]
      BY <1>1, <2>1
    <2>3. text[a] = Backslash /\ text[a + 1] = "u"
      <3>1. 1 \in 1..6 /\ 2 \in 1..6 /\ a + 1 - 1 = a /\ a + 2 - 1 = a + 1
        BY <1>1
      <3>. QED
        BY <2>1, <2>2, <3>1, Zenon
    <2>4. ASSUME NEW j \in 1..4 PROVE text[a + (j + 1)] = item[j] /\ item[j] \in DOMAIN Digit
      <3>1. 2 + j \in 1..6 /\ a + (2 + j) - 1 = a + (j + 1)
        BY <1>1
      <3>. QED
        BY <2>1, <2>2, <3>1, Zenon
    <2>5. ASSUME NEW j \in 2..5 PROVE text[a + j] \in DOMAIN Digit
      <3>1. j - 1 \in 1..4 /\ (j - 1) + 1 = j
        OBVIOUS
      <3>. QED
        BY <2>4, <3>1, Zenon
    <2>6. CodeUnit(text, a + 2) = CodeUnit(item, 1)
      <3>1. /\ a + (1 + 1) = a + 2 /\ a + (2 + 1) = a + 2 + 1
            /\ a + (3 + 1) = a + 2 + 2 /\ a + (4 + 1) = a + 2 + 3
            /\ 1 \in 1..4 /\ 2 \in 1..4 /\ 3 \in 1..4 /\ 4 \in 1..4
        BY <1>1
      <3>2. /\ text[a + 2] = item[1] /\ text[a + 2 + 1] = item[2]
            /\ text[a + 2 + 2] = item[3] /\ text[a + 2 + 3] = item[4]
        BY <2>4, <3>1, Zenon
      <3>3. item[2] = item[1 + 1] /\ item[3] = item[1 + 2] /\ item[4] = item[1 + 3]
        OBVIOUS
      <3>. QED
        BY <3>2, <3>3, Zenon DEF CodeUnit
    <2>7. IsUnitAt(text, a, z, item)
      BY <1>5, <2>2, <2>3, <2>5, <2>6, Zenon DEF IsUnitAt, Unit
    <2>. QED
      BY <1>1, <1>4, <2>7 DEF item, a, z
  <1>6. CASE Len(item) # 4
    <2>1. Unit(item) = 0
      BY <1>6 DEF Unit
    <2>2. text[a] = bytes[1] /\ (Len(bytes) = 2 => text[a + 1] = bytes[2])
      <3>1. /\ a + 1 - 1 = a /\ a + 2 - 1 = a + 1
            /\ 1 \in 1..Len(bytes) /\ (Len(bytes) = 2 => 2 \in 1..Len(bytes))
        BY <1>1, <1>2, <1>6
      <3>. QED
        BY <1>1, <3>1, Zenon
    <2>3. IsEscapedAt(text, a, z, item) \/ IsCharacterAt(text, a, z, item)
      BY <1>1, <1>2, <1>6, <2>1, <2>2, Distinct DEF IsEscapedAt, IsCharacterAt
    <2>. QED
      BY <1>1, <1>4, <2>3 DEF item, a, z
  <1>. QED
    BY <1>5, <1>6

-----------------------------------------------------------------------------
(* The first count items are paired among themselves.                      *)
PairedTo(items, count) ==
    \A n \in 1..count :
       /\ High(Unit(items[n])) => n < count /\ Low(Unit(items[n + 1]))
       /\ Low(Unit(items[n])) => n > 1 /\ High(Unit(items[n - 1]))

PairedBefore(document, n) == \A m \in 1..n : Paired(document[m])

(* The scan is at item count + 1 of string n, or at its closing quote.     *)
AtItem(document, at, n, count) ==
    /\ n \in 1..Len(document) /\ count \in 0..Len(document[n])
    /\ at = Start(document)[n][count]
    /\ PairedBefore(document, n - 1) /\ PairedTo(document[n], count)

(* The scan is behind string n and not in the next one yet.                *)
Behind(document, at, n) ==
    /\ n \in 0..Len(document)
    /\ Stop(document)[n] < at
    /\ IF n < Len(document) THEN at < Start(document)[n + 1][0] ELSE at <= Len(AsText(document)) + 1
    /\ PairedBefore(document, n)

Within == \E n, count : AtItem(strings, i, n, count)
Without == \E n : Behind(strings, i, n)

ReadText == strings \in Documents /\ raw = AsText(strings)

Scans == verdict = "scanning" => IF inside THEN Within ELSE Without

Inv == ReadText /\ ScanTypeOK /\ Scans /\ VerdictRight

-----------------------------------------------------------------------------
(* What is paired up to an item stays so when an unsuspicious item or a    *)
(* pair follows.                                                           *)
LEMMA Grows ==
    ASSUME NEW items, NEW count \in Nat, PairedTo(items, count)
    PROVE  /\ (~High(Unit(items[count + 1])) /\ ~Low(Unit(items[count + 1])))
                 => PairedTo(items, count + 1)
           /\ (/\ High(Unit(items[count + 1])) /\ ~Low(Unit(items[count + 1]))
               /\ Low(Unit(items[count + 2])) /\ ~High(Unit(items[count + 2])))
                 => PairedTo(items, count + 2)
  <1>. DEFINE H(n) == High(Unit(items[n]))
              L(n) == Low(Unit(items[n]))
  <1>1. \A n \in 1..count : (H(n) => n < count /\ L(n + 1)) /\ (L(n) => n > 1 /\ H(n - 1))
    BY DEF PairedTo
  <1>. HIDE DEF H, L
  <1>2. ASSUME ~H(count + 1), ~L(count + 1)
        PROVE  \A n \in 1..(count + 1) :
                  (H(n) => n < count + 1 /\ L(n + 1)) /\ (L(n) => n > 1 /\ H(n - 1))
    BY <1>1, <1>2
  <1>3. ASSUME H(count + 1), ~L(count + 1), L(count + 2), ~H(count + 2)
        PROVE  \A n \in 1..(count + 2) :
                  (H(n) => n < count + 2 /\ L(n + 1)) /\ (L(n) => n > 1 /\ H(n - 1))
    <2>. SUFFICES ASSUME NEW n \in 1..(count + 2)
                  PROVE  (H(n) => n < count + 2 /\ L(n + 1)) /\ (L(n) => n > 1 /\ H(n - 1))
      OBVIOUS
    <2>1. CASE n \in 1..count
      BY <1>1, <2>1
    <2>2. CASE n = count + 1
      <3>1. n + 1 = count + 2 /\ n < count + 2
        BY <2>2
      <3>. QED
        BY <1>3, <2>2, <3>1
    <2>3. CASE n = count + 2
      <3>1. n - 1 = count + 1 /\ n > 1
        BY <2>3
      <3>. QED
        BY <1>3, <2>3, <3>1
    <2>. QED
      BY <2>1, <2>2, <2>3
  <1>4. (~H(count + 1) /\ ~L(count + 1)) => PairedTo(items, count + 1)
    BY <1>2, Zenon DEF PairedTo, H, L
  <1>5. (H(count + 1) /\ ~L(count + 1) /\ L(count + 2) /\ ~H(count + 2))
           => PairedTo(items, count + 2)
    BY <1>3, Zenon DEF PairedTo, H, L
  <1>. QED
    BY <1>4, <1>5, Zenon DEF H, L

(* Paired to the end is paired.                                            *)
LEMMA AllPaired ==
    ASSUME NEW items, NEW S, items \in Seq(S), PairedTo(items, Len(items))
    PROVE  Paired(items)
  <1>1. DOMAIN items = 1..Len(items)
    BY LenProperties
  <1>. QED
    BY <1>1, Zenon DEF Paired, PairedTo

(* A unit that its neighbours do not complete.                             *)
LEMMA Unpaired ==
    ASSUME NEW items, NEW S, items \in Seq(S), NEW k \in 1..Len(items), Unit(items[k]) \in Nat,
           PairedTo(items, k - 1),
           \/ Low(Unit(items[k]))
           \/ High(Unit(items[k])) /\ (k < Len(items) => ~Low(Unit(items[k + 1])))
    PROVE  ~Paired(items)
  <1>1. k \in DOMAIN items /\ Len(items) \in Nat
    BY LenProperties
  <1>2. SUFFICES ASSUME Paired(items) PROVE FALSE
    OBVIOUS
  <1>3. /\ High(Unit(items[k])) => k < Len(items) /\ Low(Unit(items[k + 1]))
        /\ Low(Unit(items[k])) => k > 1 /\ High(Unit(items[k - 1]))
    BY <1>1, <1>2, Zenon DEF Paired
  <1>4. k > 1 /\ High(Unit(items[k - 1])) /\ Low(Unit(items[k]))
    BY <1>3
  <1>5. k - 1 \in 1..(k - 1) /\ ~(k - 1 < k - 1)
    BY <1>1, <1>4
  <1>. QED
    BY <1>4, <1>5, Zenon DEF PairedTo

-----------------------------------------------------------------------------
(* What is known of string n of a document.                                *)
LEMMA StringFacts ==
    ASSUME NEW document, IsDocument(document), NEW n \in 1..Len(document)
    PROVE  /\ Len(document) \in Nat /\ Len(document[n]) \in Nat
           /\ n \in DOMAIN document /\ document[n] \in Seq(Range(document[n]))
           /\ \A k \in 1..Len(document[n]) : IsItem(document[n][k])
           /\ IsPlacedString(Start(document)[n], Stop(document)[n - 1], Stop(document)[n],
                             document[n], AsText(document))
           /\ Stop(document)[n] \in Nat /\ Stop(document)[n - 1] \in Nat
           /\ Stop(document)[n] <= Len(AsText(document))
  <1>1. Len(document) \in Nat /\ DOMAIN document = 1..Len(document)
    BY LenProperties DEF IsDocument
  <1>2. /\ document[n] \in Seq(Range(document[n]))
        /\ \A item \in Range(document[n]) : IsItem(item)
    BY <1>1 DEF IsDocument, Range
  <1>3. Len(document[n]) \in Nat /\ DOMAIN document[n] = 1..Len(document[n])
    BY <1>2, LenProperties
  <1>4. \A k \in 1..Len(document[n]) : IsItem(document[n][k])
    BY <1>2, <1>3 DEF Range
  <1>5. n \in 0..Len(document) /\ n - 1 \in 0..Len(document)
    BY <1>1
  <1>6. IsPlaced(Start(document), Stop(document), document, AsText(document))
    BY LayoutPlaced
  <1>7. /\ Stop(document) \in [0..Len(document) -> Nat]
        /\ \A m \in 0..Len(document) : Stop(document)[m] <= Len(AsText(document))
        /\ IsPlacedString(Start(document)[n], Stop(document)[n - 1], Stop(document)[n],
                          document[n], AsText(document))
    BY <1>6, Zenon DEF IsPlaced
  <1>. QED
    BY <1>1, <1>2, <1>3, <1>4, <1>5, <1>7

(* Item k of string n is the next in a text.                               *)
ItemFollows(document, text, at, n, k) ==
    LET next == Start(document)[n][k]
        item == document[n][k]
    IN  /\ k \in 1..Len(document[n]) /\ IsItem(item) /\ Unit(item) \in Nat
        /\ next \in Nat /\ next <= Len(text)
        /\ \/ IsUnitAt(text, at, next, item)
           \/ IsEscapedAt(text, at, next, item)
           \/ IsCharacterAt(text, at, next, item)

(* The next item, or the closing quote.                                    *)
LEMMA AtItemReads ==
    ASSUME NEW document, IsDocument(document), Len(AsText(document)) \in Nat,
           NEW at, NEW n, NEW count, AtItem(document, at, n, count)
    PROVE  /\ at \in Nat /\ at >= 1 /\ at <= Len(AsText(document)) /\ count \in Nat
           /\ count = Len(document[n]) =>
                 AsText(document)[at] = Quote /\ at = Stop(document)[n]
           /\ count # Len(document[n]) =>
                 ItemFollows(document, AsText(document), at, n, count + 1)
  <1>. DEFINE items == document[n]
              start == Start(document)[n]
              from == Stop(document)[n - 1]
              stop == Stop(document)[n]
              text == AsText(document)
  <1>1. n \in 1..Len(document) /\ count \in 0..Len(items) /\ at = start[count]
    BY DEF AtItem
  <1>2. /\ Len(items) \in Nat /\ stop \in Nat /\ from \in Nat /\ stop <= Len(text)
        /\ \A k \in 1..Len(items) : IsItem(items[k])
        /\ IsPlacedString(start, from, stop, items, text)
    BY <1>1, StringFacts
  <1>. HIDE DEF items, start, from, stop, text
  <1>3. /\ start \in [0..Len(items) -> Nat]
        /\ from + 1 < start[0] /\ text[stop] = Quote /\ stop = start[Len(items)]
        /\ \A k \in 0..Len(items) : 1 <= start[k] /\ start[k] <= stop
    BY <1>2, Zenon DEF IsPlacedString
  <1>4. at \in Nat /\ at >= 1 /\ at <= stop /\ at <= Len(text) /\ count \in Nat
    <2>1. Len(text) \in Nat
      BY DEF text
    <2>. QED
      BY <1>1, <1>2, <1>3, <2>1
  <1>5. CASE count = Len(items)
    <2>1. at = stop /\ text[at] = Quote
      BY <1>1, <1>3, <1>5
    <2>. QED
      BY <1>4, <1>5, <2>1, Zenon DEF items, stop, text
  <1>6. CASE count # Len(items)
    <2>. DEFINE k == count + 1
    <2>1. k \in 1..Len(items) /\ k - 1 = count /\ k \in 0..Len(items)
      BY <1>1, <1>2, <1>6
    <2>. HIDE DEF k
    <2>2. /\ start[k] \in Nat /\ Unit(items[k]) \in Nat
          /\ \/ IsUnitAt(text, start[k - 1], start[k], items[k])
             \/ IsEscapedAt(text, start[k - 1], start[k], items[k])
             \/ IsCharacterAt(text, start[k - 1], start[k], items[k])
      <3>1. IsItem(items[k])
        BY <1>2, <2>1
      <3>. QED
        BY <1>2, <2>1, <3>1, Items
    <2>3. start[k] <= Len(text)
      <3>1. Len(text) \in Nat
        BY DEF text
      <3>. QED
        BY <1>2, <1>3, <2>1, <2>2, <3>1
    <2>4. \/ IsUnitAt(text, at, start[k], items[k])
          \/ IsEscapedAt(text, at, start[k], items[k])
          \/ IsCharacterAt(text, at, start[k], items[k])
      BY <1>1, <2>1, <2>2
    <2>5. ItemFollows(document, text, at, n, k)
      <3>1. IsItem(items[k])
        BY <1>2, <2>1
      <3>. QED
        BY <2>1, <2>2, <2>3, <2>4, <3>1, Zenon DEF ItemFollows, items, start
    <2>. QED
      BY <1>4, <1>6, <2>5, Zenon DEF items, text, k
  <1>. QED
    BY <1>5, <1>6, Zenon

-----------------------------------------------------------------------------
(* Between strings the next quote opens the next string.                   *)
LEMMA BehindReads ==
    ASSUME NEW document, IsDocument(document), Len(AsText(document)) \in Nat,
           NEW at \in Nat, NEW n, Behind(document, at, n)
    PROVE  /\ n \in Nat /\ Len(document) \in Nat /\ n <= Len(document)
           /\ n < Len(document) =>
                 /\ at <= Len(AsText(document)) /\ Start(document)[n + 1][0] \in Nat
                 /\ at + 1 = Start(document)[n + 1][0] => AsText(document)[at] = Quote
                 /\ at + 1 # Start(document)[n + 1][0] =>
                       AsText(document)[at] # Quote /\ Behind(document, at + 1, n)
           /\ n = Len(document) /\ at <= Len(AsText(document)) =>
                 AsText(document)[at] # Quote /\ Behind(document, at + 1, n)
  <1>. DEFINE N == Len(document)
              text == AsText(document)
              stop == Stop(document)
              start == Start(document)
  <1>1. N \in Nat
    BY LenProperties DEF IsDocument
  <1>2. /\ n \in 0..N /\ stop[n] < at /\ PairedBefore(document, n)
        /\ n < N => at < start[n + 1][0]
        /\ n = N => at <= Len(text) + 1
    BY <1>1 DEF Behind
  <1>3. n \in Nat /\ n <= N /\ n + 1 - 1 = n
    BY <1>1, <1>2
  <1>4. IsPlaced(start, stop, document, text)
    BY LayoutPlaced
  <1>5. stop[n] \in Nat /\ Len(text) \in Nat
    BY <1>2, <1>4 DEF IsPlaced
  <1>6. ASSUME n < N
        PROVE  /\ at <= Len(text) /\ start[n + 1][0] \in Nat
               /\ at + 1 = start[n + 1][0] => text[at] = Quote
               /\ at + 1 # start[n + 1][0] => text[at] # Quote /\ Behind(document, at + 1, n)
    <2>. DEFINE m == n + 1
                first == start[m][0]
    <2>1. m \in 1..N /\ m - 1 = n
      BY <1>1, <1>3, <1>6
    <2>2. /\ IsPlacedString(start[m], stop[m - 1], stop[m], document[m], text)
          /\ Len(document[m]) \in Nat /\ stop[m] \in Nat /\ stop[m] <= Len(text)
      <3>. HIDE DEF m
      <3>. QED
        BY <2>1, StringFacts
    <2>3. /\ start[m] \in [0..Len(document[m]) -> Nat]
          /\ text[first - 1] = Quote
          /\ \A b \in Nat : stop[n] < b /\ b < first - 1 => text[b] # Quote
          /\ \A k \in 0..Len(document[m]) : 1 <= start[m][k] /\ start[m][k] <= stop[m]
      <3>. HIDE DEF m
      <3>. QED
        BY <2>1, <2>2, Zenon DEF IsPlacedString
    <2>4. 0 \in 0..Len(document[m])
      BY <2>2
    <2>5. first \in Nat /\ first <= stop[m]
      BY <2>3, <2>4
    <2>6. at < first
      BY <1>2, <1>6
    <2>. HIDE DEF first, text, stop, m
    <2>7. at <= Len(text)
      BY <1>5, <2>2, <2>5, <2>6
    <2>8. at + 1 = first => text[at] = Quote
      <3>1. at + 1 = first => first - 1 = at
        BY <2>5
      <3>. QED
        BY <2>3, <3>1, Zenon
    <2>9. at + 1 # first => text[at] # Quote /\ stop[n] < at + 1 /\ at + 1 < first
      <3>1. at + 1 # first => at < first - 1 /\ stop[n] < at + 1 /\ at + 1 < first
        BY <1>2, <1>5, <2>5, <2>6
      <3>. QED
        BY <1>2, <2>3, <3>1, Zenon
    <2>10. at + 1 # first => Behind(document, at + 1, n)
      BY <1>2, <1>6, <2>9, Zenon DEF Behind, stop, first, m
    <2>. QED
      BY <2>5, <2>7, <2>8, <2>9, <2>10, Zenon DEF first, m
  <1>7. ASSUME n = N, at <= Len(text)
        PROVE  text[at] # Quote /\ Behind(document, at + 1, n)
    <2>1. text[at] # Quote
      BY <1>2, <1>4, <1>7, Zenon DEF IsPlaced
    <2>2. stop[n] < at + 1 /\ at + 1 <= Len(text) + 1 /\ ~(n < N)
      BY <1>1, <1>2, <1>5, <1>7
    <2>3. Behind(document, at + 1, n)
      BY <1>2, <2>2, Zenon DEF Behind
    <2>. QED
      BY <2>1, <2>3
  <1>. QED
    BY <1>1, <1>3, <1>6, <1>7, Zenon

(* The scan begins before the first string.                                *)
LEMMA Begins ==
    ASSUME NEW document, IsDocument(document), Len(AsText(document)) \in Nat
    PROVE  Behind(document, 1, 0)
  <1>1. Len(document) \in Nat
    BY LenProperties DEF IsDocument
  <1>2. IsPlaced(Start(document), Stop(document), document, AsText(document))
    BY LayoutPlaced
  <1>3. Stop(document)[0] = 0
    BY <1>2, Zenon DEF IsPlaced
  <1>4. 0 < Len(document) => 1 < Start(document)[1][0]
    <2>1. SUFFICES ASSUME 0 < Len(document) PROVE 1 < Start(document)[1][0]
      OBVIOUS
    <2>2. 1 \in 1..Len(document) /\ 1 - 1 = 0
      BY <1>1, <2>1
    <2>3. /\ IsPlacedString(Start(document)[1], Stop(document)[0], Stop(document)[1],
                            document[1], AsText(document))
      BY <1>2, <2>2, Zenon DEF IsPlaced
    <2>4. 0 + 1 < Start(document)[1][0]
      BY <1>3, <2>3, Zenon DEF IsPlacedString
    <2>. QED
      BY <2>4
  <1>5. 0 \in 0..Len(document) /\ 0 + 1 = 1 /\ 0 < 1 /\ 1 <= Len(AsText(document)) + 1
    BY <1>1
  <1>6. PairedBefore(document, 0)
    BY DEF PairedBefore
  <1>. QED
    BY <1>3, <1>4, <1>5, <1>6 DEF Behind

(* From a closing quote behind the string, and from an opening one into it. *)
LEMMA Closes ==
    ASSUME NEW document, IsDocument(document), Len(AsText(document)) \in Nat,
           NEW at, NEW n, AtItem(document, at, n, Len(document[n]))
    PROVE  Behind(document, at + 1, n)
  <1>1. /\ n \in 1..Len(document) /\ PairedBefore(document, n - 1)
        /\ PairedTo(document[n], Len(document[n]))
    BY DEF AtItem
  <1>2. at \in Nat /\ at <= Len(AsText(document)) /\ at = Stop(document)[n]
    BY AtItemReads
  <1>3. Len(document) \in Nat /\ document[n] \in Seq(Range(document[n]))
    BY <1>1, StringFacts
  <1>4. Paired(document[n])
    BY <1>1, <1>3, AllPaired
  <1>5. PairedBefore(document, n)
    <2>1. \A m \in 1..n : m = n \/ m \in 1..(n - 1)
      BY <1>1, <1>3
    <2>. QED
      BY <1>1, <1>4, <2>1, Zenon DEF PairedBefore
  <1>6. n < Len(document) => at + 1 < Start(document)[n + 1][0]
    <2>1. SUFFICES ASSUME n < Len(document) PROVE at + 1 < Start(document)[n + 1][0]
      OBVIOUS
    <2>2. n + 1 \in 1..Len(document) /\ (n + 1) - 1 = n
      BY <1>1, <1>3, <2>1
    <2>3. IsPlacedString(Start(document)[n + 1], Stop(document)[(n + 1) - 1],
                         Stop(document)[n + 1], document[n + 1], AsText(document))
      BY <2>2, StringFacts
    <2>4. Stop(document)[(n + 1) - 1] + 1 < Start(document)[n + 1][0]
      BY <2>3, Zenon DEF IsPlacedString
    <2>. QED
      BY <1>2, <2>2, <2>4, Zenon
  <1>7. n \in 0..Len(document) /\ Stop(document)[n] < at + 1 /\ at + 1 <= Len(AsText(document)) + 1
    BY <1>1, <1>2, <1>3
  <1>. QED
    BY <1>5, <1>6, <1>7, Zenon DEF Behind

LEMMA Opens ==
    ASSUME NEW document, IsDocument(document), NEW at \in Nat, NEW n, Behind(document, at, n),
           n < Len(document), at + 1 = Start(document)[n + 1][0]
    PROVE  AtItem(document, at + 1, n + 1, 0)
  <1>1. Len(document) \in Nat
    BY LenProperties DEF IsDocument
  <1>2. n \in 0..Len(document) /\ PairedBefore(document, n)
    BY DEF Behind
  <1>3. n + 1 \in 1..Len(document) /\ (n + 1) - 1 = n
    BY <1>1, <1>2
  <1>4. Len(document[n + 1]) \in Nat
    BY <1>3, StringFacts
  <1>5. 0 \in 0..Len(document[n + 1]) /\ PairedTo(document[n + 1], 0)
    BY <1>4 DEF PairedTo
  <1>. QED
    BY <1>2, <1>3, <1>5, Zenon DEF AtItem

(* Texts are finite.                                                       *)
LEMMA Lengths ==
    ASSUME NEW document, IsDocument(document)
    PROVE  Len(AsText(document)) \in Nat
  BY LayoutPlaced, Zenon DEF IsPlaced

(* The invariant holds at the beginning, and every action keeps it.        *)
LEMMA InitInv ==
    ASSUME ScanInit
    PROVE  Inv
  <1>1. /\ strings \in Documents /\ raw = AsText(strings) /\ i = 1 /\ inside = FALSE
        /\ verdict = "scanning"
    BY DEF ScanInit
  <1>2. IsDocument(strings) /\ Len(raw) \in Nat
    BY <1>1, Lengths, DocumentsAssumption
  <1>3. Behind(strings, i, 0)
    BY <1>1, <1>2, Begins
  <1>4. ScanTypeOK
    <2>1. 1 \in 1..(Len(raw) + 1)
      BY <1>2
    <2>. QED
      BY <1>1, <2>1 DEF ScanTypeOK, Reads
  <1>5. Scans
    <2>1. Without
      BY <1>3, Zenon DEF Without
    <2>. QED
      BY <1>1, <2>1 DEF Scans
  <1>6. VerdictRight
    BY <1>1 DEF VerdictRight
  <1>. QED
    BY <1>1, <1>4, <1>5, <1>6 DEF Inv, ReadText

(* What the scan's moves leave to show.                                    *)
LEMMA MoveInv ==
    ASSUME Inv, verdict = "scanning", NEW next, NEW within, Moves(next, within),
           within \in BOOLEAN, next \in Nat, next >= 1,
           IF within THEN \E n, count : AtItem(strings, next, n, count)
           ELSE next <= Len(raw) + 1 /\ \E n : Behind(strings, next, n)
    PROVE  Inv'
  <1>1. /\ i' = next /\ inside' = within /\ strings' = strings /\ raw' = raw
        /\ verdict' = "scanning"
    BY DEF Moves
  <1>2. ReadText'
    BY <1>1 DEF Inv, ReadText
  <1>3. IsDocument(strings) /\ raw = AsText(strings) /\ Len(raw) \in Nat
    BY Lengths, DocumentsAssumption DEF Inv, ReadText
  <1>4. within => next <= Len(raw)
    BY <1>3, AtItemReads
  <1>5. ScanTypeOK'
    <2>1. next \in 1..(Len(raw) + 1) /\ (~(next <= Len(raw)) => ~within)
      BY <1>3, <1>4
    <2>. QED
      BY <1>1, <2>1 DEF ScanTypeOK, Reads
  <1>6. Scans'
    <2>1. CASE within
      BY <1>1, <2>1, Zenon DEF Scans, Within
    <2>2. CASE ~within
      BY <1>1, <2>2, Zenon DEF Scans, Without
    <2>. QED
      BY <2>1, <2>2
  <1>7. VerdictRight'
    BY <1>1 DEF VerdictRight
  <1>. QED
    BY <1>2, <1>5, <1>6, <1>7 DEF Inv

(* What a verdict leaves to show.                                          *)
LEMMA StopInv ==
    ASSUME Inv, verdict = "scanning", NEW with, Stops(with),
           \/ with = "accepted" /\ \A n \in DOMAIN strings : Paired(strings[n])
           \/ with = "rejected" /\ \E n \in DOMAIN strings : ~Paired(strings[n])
    PROVE  Inv'
  <1>1. /\ i' = i /\ inside' = inside /\ strings' = strings /\ raw' = raw /\ verdict' = with
    BY DEF Stops
  <1>2. ReadText' /\ ScanTypeOK'
    BY <1>1 DEF Inv, ReadText, ScanTypeOK, Reads
  <1>3. Scans'
    BY <1>1 DEF Scans
  <1>4. VerdictRight'
    BY <1>1, Zenon DEF VerdictRight
  <1>. QED
    BY <1>2, <1>3, <1>4 DEF Inv

(* A byte between strings.                                                 *)
LEMMA OutsideInv ==
    ASSUME Inv, Outside
    PROVE  Inv'
  <1>1. /\ verdict = "scanning" /\ ~inside /\ i <= Len(raw)
        /\ Moves(i + 1, raw[i] = Quote)
    BY DEF Outside, Reads
  <1>2. /\ IsDocument(strings) /\ raw = AsText(strings) /\ Len(raw) \in Nat
        /\ i \in Nat /\ i >= 1
    BY Lengths, DocumentsAssumption DEF Inv, ReadText, ScanTypeOK
  <1>3. PICK n : Behind(strings, i, n)
    BY <1>1, Zenon DEF Inv, Scans, Without
  <1>4. /\ n \in Nat /\ Len(strings) \in Nat /\ n <= Len(strings)
        /\ n < Len(strings) =>
              /\ i + 1 = Start(strings)[n + 1][0] => raw[i] = Quote
              /\ i + 1 # Start(strings)[n + 1][0] => raw[i] # Quote /\ Behind(strings, i + 1, n)
        /\ n = Len(strings) => raw[i] # Quote /\ Behind(strings, i + 1, n)
    BY <1>1, <1>2, <1>3, BehindReads
  <1>5. i + 1 \in Nat /\ i + 1 >= 1 /\ i + 1 <= Len(raw) + 1
    BY <1>1, <1>2
  <1>6. CASE n < Len(strings) /\ i + 1 = Start(strings)[n + 1][0]
    <2>1. raw[i] = Quote /\ AtItem(strings, i + 1, n + 1, 0)
      BY <1>2, <1>3, <1>4, <1>6, Opens
    <2>. QED
      BY <1>1, <1>5, <2>1, MoveInv
  <1>7. CASE raw[i] # Quote /\ Behind(strings, i + 1, n)
    BY <1>1, <1>5, <1>7, MoveInv
  <1>8. n < Len(strings) \/ n = Len(strings)
    BY <1>4
  <1>. QED
    BY <1>4, <1>6, <1>7, <1>8

(* The scan is within a string.                                            *)
LEMMA WithinFacts ==
    ASSUME Inv, verdict = "scanning", inside
    PROVE  \E n, count :
              /\ AtItem(strings, i, n, count)
              /\ IsDocument(strings) /\ raw = AsText(strings) /\ Len(raw) \in Nat
              /\ i \in Nat /\ i >= 1 /\ i <= Len(raw) /\ count \in Nat
              /\ n \in 1..Len(strings) /\ n \in DOMAIN strings
              /\ strings[n] \in Seq(Range(strings[n])) /\ Len(strings[n]) \in Nat
              /\ count \in 0..Len(strings[n])
              /\ PairedBefore(strings, n - 1) /\ PairedTo(strings[n], count)
              /\ count = Len(strings[n]) => raw[i] = Quote
              /\ count # Len(strings[n]) =>
                    ItemFollows(strings, raw, i, n, count + 1)
  <1>1. IsDocument(strings) /\ raw = AsText(strings) /\ Len(raw) \in Nat
    BY Lengths, DocumentsAssumption DEF Inv, ReadText
  <1>2. PICK n, count : AtItem(strings, i, n, count)
    BY Zenon DEF Inv, Scans, Within
  <1>3. /\ n \in 1..Len(strings) /\ count \in 0..Len(strings[n])
        /\ PairedBefore(strings, n - 1) /\ PairedTo(strings[n], count)
    BY <1>2 DEF AtItem
  <1>4. /\ n \in DOMAIN strings /\ strings[n] \in Seq(Range(strings[n]))
        /\ Len(strings[n]) \in Nat
    BY <1>1, <1>3, StringFacts
  <1>5. /\ i \in Nat /\ i >= 1 /\ i <= Len(raw) /\ count \in Nat
        /\ count = Len(strings[n]) => raw[i] = Quote
        /\ count # Len(strings[n]) =>
              ItemFollows(strings, raw, i, n, count + 1)
    <2>1. Len(AsText(strings)) \in Nat
      BY <1>1
    <2>2. /\ i \in Nat /\ i >= 1 /\ i <= Len(AsText(strings)) /\ count \in Nat
          /\ count = Len(strings[n]) => AsText(strings)[i] = Quote
          /\ count # Len(strings[n]) => ItemFollows(strings, AsText(strings), i, n, count + 1)
      BY <1>1, <1>2, <2>1, AtItemReads
    <2>. QED
      BY <1>1, <2>2
  <1>. QED
    BY <1>1, <1>2, <1>3, <1>4, <1>5, Zenon

-----------------------------------------------------------------------------
(* A byte of a string that is no backslash: a character or the closing     *)
(* quote.                                                                  *)
LEMMA CharacterInv ==
    ASSUME Inv, Character
    PROVE  Inv'
  <1>1. /\ verdict = "scanning" /\ inside /\ i <= Len(raw) /\ raw[i] # Backslash
        /\ Moves(i + 1, raw[i] # Quote)
    BY DEF Character, Reads
  <1>2. PICK n, count :
           /\ AtItem(strings, i, n, count)
           /\ IsDocument(strings) /\ raw = AsText(strings) /\ Len(raw) \in Nat
           /\ i \in Nat /\ i >= 1 /\ i <= Len(raw) /\ count \in Nat
           /\ n \in 1..Len(strings) /\ n \in DOMAIN strings
           /\ strings[n] \in Seq(Range(strings[n])) /\ Len(strings[n]) \in Nat
           /\ count \in 0..Len(strings[n])
           /\ PairedBefore(strings, n - 1) /\ PairedTo(strings[n], count)
           /\ count = Len(strings[n]) => raw[i] = Quote
           /\ count # Len(strings[n]) => ItemFollows(strings, raw, i, n, count + 1)
    BY <1>1, WithinFacts
  <1>3. i + 1 \in Nat /\ i + 1 >= 1 /\ i + 1 <= Len(raw) + 1
    BY <1>2
  <1>4. CASE count = Len(strings[n])
    <2>1. raw[i] = Quote /\ Behind(strings, i + 1, n)
      BY <1>2, <1>4, Closes
    <2>. QED
      BY <1>1, <1>3, <2>1, MoveInv
  <1>5. CASE count # Len(strings[n])
    <2>. DEFINE item == strings[n][count + 1]
                next == Start(strings)[n][count + 1]
    <2>1. /\ count + 1 \in 1..Len(strings[n])
          /\ IsUnitAt(raw, i, next, item) \/ IsEscapedAt(raw, i, next, item)
             \/ IsCharacterAt(raw, i, next, item)
      BY <1>2, <1>5 DEF ItemFollows
    <2>. HIDE DEF item, next
    <2>2. next = i + 1 /\ raw[i] # Quote /\ Unit(item) = 0
      BY <1>1, <2>1, Zenon DEF IsUnitAt, IsEscapedAt, IsCharacterAt
    <2>3. PairedTo(strings[n], count + 1)
      BY <1>2, <2>2, Halves, Grows DEF item
    <2>4. AtItem(strings, i + 1, n, count + 1)
      <3>1. count + 1 \in 0..Len(strings[n])
        BY <1>2, <2>1
      <3>. QED
        BY <1>2, <2>2, <2>3, <3>1, Zenon DEF AtItem, next
    <2>. QED
      BY <1>1, <1>3, <2>2, <2>4, MoveInv
  <1>. QED
    BY <1>4, <1>5

(* A backslash and the byte behind it.                                     *)
LEMMA EscapedCharacterInv ==
    ASSUME Inv, EscapedCharacter
    PROVE  Inv'
  <1>1. /\ verdict = "scanning" /\ inside /\ raw[i] = Backslash /\ raw[i + 1] # "u"
        /\ Moves(i + 2, TRUE)
    BY DEF EscapedCharacter
  <1>2. PICK n, count :
           /\ IsDocument(strings) /\ raw = AsText(strings) /\ Len(raw) \in Nat
           /\ i \in Nat /\ i >= 1 /\ i <= Len(raw) /\ count \in Nat
           /\ n \in 1..Len(strings) /\ Len(strings[n]) \in Nat
           /\ PairedBefore(strings, n - 1) /\ PairedTo(strings[n], count)
           /\ count = Len(strings[n]) => raw[i] = Quote
           /\ count # Len(strings[n]) => ItemFollows(strings, raw, i, n, count + 1)
    BY <1>1, WithinFacts
  <1>3. ItemFollows(strings, raw, i, n, count + 1)
    BY <1>1, <1>2, Distinct
  <1>. DEFINE item == strings[n][count + 1]
              next == Start(strings)[n][count + 1]
  <1>4. /\ count + 1 \in 1..Len(strings[n])
        /\ IsUnitAt(raw, i, next, item) \/ IsEscapedAt(raw, i, next, item)
           \/ IsCharacterAt(raw, i, next, item)
    BY <1>3 DEF ItemFollows
  <1>. HIDE DEF item, next
  <1>5. next = i + 2 /\ Unit(item) = 0
    BY <1>1, <1>4, Zenon DEF IsUnitAt, IsEscapedAt, IsCharacterAt
  <1>6. PairedTo(strings[n], count + 1)
    BY <1>2, <1>5, Halves, Grows DEF item
  <1>7. AtItem(strings, i + 2, n, count + 1)
    <2>1. count + 1 \in 0..Len(strings[n])
      BY <1>2, <1>4
    <2>. QED
      BY <1>2, <1>5, <1>6, <2>1, Zenon DEF AtItem, next
  <1>8. i + 2 \in Nat /\ i + 2 >= 1
    BY <1>2
  <1>. QED
    BY <1>1, <1>7, <1>8, MoveInv

(* An escaped code unit, with the one behind it if they are a pair.        *)
LEMMA EscapedUnitInv ==
    ASSUME Inv, EscapedUnit
    PROVE  Inv'
  <1>. DEFINE unit == CodeUnit(raw, i + 2)
  <1>1. /\ verdict = "scanning" /\ inside /\ raw[i] = Backslash /\ raw[i + 1] = "u"
        /\ \/ High(unit) /\ SecondHalf(i + 5) /\ Moves(i + 12, TRUE)
           \/ High(unit) /\ ~SecondHalf(i + 5) /\ Stops("rejected")
           \/ Low(unit) /\ Stops("rejected")
           \/ ~High(unit) /\ ~Low(unit) /\ Moves(i + 6, TRUE)
    BY Zenon DEF EscapedUnit
  <1>2. PICK n, count :
           /\ IsDocument(strings) /\ raw = AsText(strings) /\ Len(raw) \in Nat
           /\ i \in Nat /\ i >= 1 /\ i <= Len(raw) /\ count \in Nat
           /\ n \in 1..Len(strings) /\ n \in DOMAIN strings
           /\ strings[n] \in Seq(Range(strings[n])) /\ Len(strings[n]) \in Nat
           /\ PairedBefore(strings, n - 1) /\ PairedTo(strings[n], count)
           /\ count = Len(strings[n]) => raw[i] = Quote
           /\ count # Len(strings[n]) => ItemFollows(strings, raw, i, n, count + 1)
    BY <1>1, WithinFacts
  <1>3. ItemFollows(strings, raw, i, n, count + 1)
    BY <1>1, <1>2, Distinct
  <1>. DEFINE items == strings[n]
              k == count + 1
              next == Start(strings)[n][k]
  <1>4. /\ k \in 1..Len(items) /\ k - 1 = count /\ Unit(items[k]) \in Nat
        /\ next \in Nat /\ next <= Len(raw)
        /\ IsUnitAt(raw, i, next, items[k]) \/ IsEscapedAt(raw, i, next, items[k])
           \/ IsCharacterAt(raw, i, next, items[k])
    BY <1>2, <1>3 DEF ItemFollows
  <1>. HIDE DEF items, k, next, unit
  <1>5. next = i + 6 /\ unit = Unit(items[k])
    BY <1>1, <1>4, Zenon DEF IsUnitAt, IsEscapedAt, IsCharacterAt, unit
  <1>6. ASSUME PairedTo(items, k)
        PROVE  AtItem(strings, next, n, k)
    <2>1. k \in 0..Len(items)
      BY <1>2, <1>4
    <2>. QED
      BY <1>2, <1>6, <2>1, Zenon DEF AtItem, next, items
  <1>7. CASE ~High(unit) /\ ~Low(unit) /\ Moves(i + 6, TRUE)
    <2>1. PairedTo(items, k)
      BY <1>2, <1>5, <1>7, Grows DEF items, k
    <2>2. AtItem(strings, i + 6, n, k) /\ i + 6 \in Nat /\ i + 6 >= 1
      BY <1>2, <1>5, <1>6, <2>1
    <2>. QED
      BY <1>1, <1>7, <2>2, MoveInv
  <1>8. ASSUME Stops("rejected"),
               Low(unit) \/ (High(unit) /\ (k < Len(items) => ~Low(Unit(items[k + 1]))))
        PROVE  Inv'
    <2>1. ~Paired(items)
      <3>1. items \in Seq(Range(items)) /\ PairedTo(items, k - 1)
        BY <1>2, <1>4 DEF items
      <3>. QED
        BY <1>4, <1>5, <1>8, <3>1, Unpaired
    <2>. QED
      BY <1>1, <1>2, <1>8, <2>1, StopInv DEF items
  (* What stands behind the escape. *)
  <1>9. CASE High(unit) /\ k = Len(items)
    <2>1. raw[i + 6] = Quote
      <3>1. PICK start, from, stop :
               /\ IsPlacedString(start, from, stop, items, raw)
               /\ start = Start(strings)[n]
        BY <1>2, StringFacts DEF items
      <3>2. raw[start[Len(items)]] = Quote
        BY <3>1, Zenon DEF IsPlacedString
      <3>. QED
        BY <1>5, <1>9, <3>1, <3>2, Zenon DEF next
    <2>2. ~SecondHalf(i + 5)
      <3>1. i + 5 + 1 = i + 6
        BY <1>2
      <3>. QED
        BY <2>1, <3>1, Distinct, Zenon DEF SecondHalf
    <2>3. Stops("rejected")
      BY <1>1, <1>2, <1>4, <1>5, <1>9, <2>2, Halves
    <2>4. ~(k < Len(items))
      BY <1>2, <1>4, <1>9
    <2>. QED
      BY <1>8, <1>9, <2>3, <2>4
  <1>10. CASE High(unit) /\ k # Len(items)
    <2>. DEFINE item == items[k + 1]
                after == Start(strings)[n][k + 1]
    <2>1. /\ k + 1 \in 1..Len(items) /\ (k + 1) - 1 = k /\ IsItem(item)
      BY <1>2, <1>4, <1>10, StringFacts DEF items
    <2>2. /\ after \in Nat /\ after <= Len(raw) /\ Unit(item) \in Nat
          /\ \/ IsUnitAt(raw, i + 6, after, item)
             \/ IsEscapedAt(raw, i + 6, after, item)
             \/ IsCharacterAt(raw, i + 6, after, item)
      <3>. DEFINE start == Start(strings)[n]
                  stop == Stop(strings)[n]
                  from == Stop(strings)[n - 1]
                  l == k + 1
      <3>1. /\ IsPlacedString(start, from, stop, items, raw) /\ Len(items) \in Nat
            /\ stop \in Nat /\ stop <= Len(raw)
        BY <1>2, StringFacts DEF items
      <3>2. start[k] = i + 6
        BY <1>5 DEF next
      <3>. HIDE DEF start, stop, from, l
      <3>3. l \in 1..Len(items) /\ l - 1 = k /\ IsItem(items[l])
        BY <2>1 DEF l
      <3>4. /\ start[l] \in Nat /\ Unit(items[l]) \in Nat
            /\ \/ IsUnitAt(raw, start[l - 1], start[l], items[l])
               \/ IsEscapedAt(raw, start[l - 1], start[l], items[l])
               \/ IsCharacterAt(raw, start[l - 1], start[l], items[l])
        BY <3>1, <3>3, Items
      <3>5. start[l] <= Len(raw)
        <4>1. start[l] <= stop
          <5>1. l \in 0..Len(items)
            BY <3>1, <3>3
          <5>. QED
            BY <3>1, <5>1, Zenon DEF IsPlacedString
        <4>. QED
          BY <1>2, <3>1, <3>4, <4>1
      <3>. QED
        BY <3>2, <3>3, <3>4, <3>5, Zenon DEF start, l
    <2>. HIDE DEF item, after
    <2>3. SecondHalf(i + 5) <=> Low(Unit(item))
      <3>1. /\ i + 5 + 1 = i + 6 /\ i + 5 + 2 = i + 6 + 1 /\ i + 5 + 3 = i + 6 + 2
            /\ i + 5 + 6 = i + 11
        BY <1>2
      <3>2. CASE IsUnitAt(raw, i + 6, after, item)
        <4>1. /\ after = i + 6 + 6 /\ raw[i + 6] = Backslash /\ raw[i + 6 + 1] = "u"
              /\ CodeUnit(raw, i + 6 + 2) = Unit(item)
          BY <3>2, Zenon DEF IsUnitAt
        <4>2. i + 5 + 6 <= Len(raw)
          BY <1>2, <2>2, <4>1
        <4>. QED
          BY <3>1, <4>1, <4>2, Zenon DEF SecondHalf
      <3>3. CASE IsEscapedAt(raw, i + 6, after, item)
        <4>1. raw[i + 6 + 1] # "u" /\ ~Low(Unit(item))
          BY <3>3, Halves, Zenon DEF IsEscapedAt
        <4>. QED
          BY <3>1, <4>1, Zenon DEF SecondHalf
      <3>4. CASE IsCharacterAt(raw, i + 6, after, item)
        <4>1. raw[i + 6] # Backslash /\ ~Low(Unit(item))
          BY <3>4, Halves, Zenon DEF IsCharacterAt
        <4>. QED
          BY <3>1, <4>1, Zenon DEF SecondHalf
      <3>. QED
        BY <2>2, <3>2, <3>3, <3>4
    <2>4. CASE Low(Unit(item))
      <3>1. ~Low(unit) /\ ~High(Unit(item))
        BY <1>4, <1>5, <1>10, <2>2, <2>4, Halves
      <3>2. Moves(i + 12, TRUE)
        BY <1>1, <1>10, <2>3, <2>4, <3>1
      <3>3. IsUnitAt(raw, i + 6, after, item)
        BY <2>2, <2>4, Halves, Zenon DEF IsEscapedAt, IsCharacterAt
      <3>4. after = i + 12
        BY <1>2, <3>3 DEF IsUnitAt
      <3>5. PairedTo(items, k + 1)
        <4>1. count + 1 + 1 = count + 2
          BY <1>2
        <4>2. /\ PairedTo(items, count) /\ High(Unit(items[count + 1])) /\ ~Low(Unit(items[count + 1]))
              /\ Low(Unit(items[count + 2])) /\ ~High(Unit(items[count + 2]))
          BY <1>2, <1>5, <1>10, <2>4, <3>1, <4>1 DEF items, item, k
        <4>. QED
          BY <1>2, <4>1, <4>2, Grows DEF k
      <3>6. AtItem(strings, i + 12, n, k + 1)
        <4>1. k + 1 \in 0..Len(items)
          BY <1>2, <2>1 DEF items
        <4>. QED
          BY <1>2, <3>4, <3>5, <4>1, Zenon DEF AtItem, items, after
      <3>7. i + 12 \in Nat /\ i + 12 >= 1
        BY <1>2
      <3>. QED
        BY <1>1, <3>2, <3>6, <3>7, MoveInv
    <2>5. CASE ~Low(Unit(item))
      <3>1. ~Low(unit)
        BY <1>4, <1>5, <1>10, Halves
      <3>2. Stops("rejected")
        BY <1>1, <1>10, <2>3, <2>5, <3>1
      <3>. QED
        BY <1>8, <1>10, <2>5, <3>2 DEF item
    <2>. QED
      BY <2>4, <2>5
  <1>11. CASE Low(unit) /\ Stops("rejected")
    BY <1>8, <1>11
  <1>. QED
    BY <1>1, <1>7, <1>9, <1>10, <1>11

(* The end of the text.                                                    *)
LEMMA EndsInv ==
    ASSUME Inv, Ends
    PROVE  Inv'
  <1>1. verdict = "scanning" /\ ~(i <= Len(raw)) /\ Stops("accepted")
    BY DEF Ends, Reads
  <1>2. /\ IsDocument(strings) /\ raw = AsText(strings) /\ Len(raw) \in Nat
        /\ i \in Nat /\ ~inside
    BY <1>1, Lengths, DocumentsAssumption DEF Inv, ReadText, ScanTypeOK, Reads
  <1>3. PICK n : Behind(strings, i, n)
    BY <1>1, <1>2, Zenon DEF Inv, Scans, Without
  <1>4. n = Len(strings)
    <2>1. /\ n \in Nat /\ Len(strings) \in Nat /\ n <= Len(strings)
          /\ n < Len(strings) => i <= Len(raw)
      BY <1>2, <1>3, BehindReads
    <2>. QED
      BY <1>1, <2>1
  <1>5. \A m \in DOMAIN strings : Paired(strings[m])
    <2>1. DOMAIN strings = 1..Len(strings)
      BY <1>2, LenProperties DEF IsDocument
    <2>. QED
      BY <1>3, <1>4, <2>1, Zenon DEF Behind, PairedBefore
  <1>. QED
    BY <1>1, <1>5, StopInv

(* Every step keeps the invariant.                                         *)
LEMMA NextInv ==
    ASSUME Inv, [ScanNext]_scanned
    PROVE  Inv'
  <1>1. CASE ScanNext
    BY <1>1, OutsideInv, CharacterInv, EscapedCharacterInv, EscapedUnitInv, EndsInv DEF ScanNext
  <1>2. CASE UNCHANGED scanned
    <2>1. /\ strings' = strings /\ raw' = raw /\ i' = i /\ inside' = inside
          /\ verdict' = verdict
      BY <1>2 DEF scanned
    <2>2. ReadText' /\ ScanTypeOK' /\ VerdictRight'
      BY <2>1 DEF Inv, ReadText, ScanTypeOK, Reads, VerdictRight
    <2>3. Scans'
      BY <2>1 DEF Inv, Scans, Within, Without
    <2>. QED
      BY <2>2, <2>3 DEF Inv
  <1>. QED
    BY <1>1, <1>2

(* The scan accepts exactly the documents all of whose strings are made of *)
(* Unicode scalar values: for every set of documents, and every length of  *)
(* them, not only for those that a run enumerates                          *)
(* (validateUnicodeScalarEscapes, attestation.go:349-385).                 *)
THEOREM Verdict == ScanSpec => [](ScanTypeOK /\ VerdictRight)
  <1>1. ScanInit => Inv
    BY InitInv
  <1>2. Inv /\ [ScanNext]_scanned => Inv'
    BY NextInv
  <1>3. Inv => ScanTypeOK /\ VerdictRight
    BY DEF Inv
  <1>. QED
    BY <1>1, <1>2, <1>3, PTL DEF ScanSpec

(* What the scan takes for an escape is a whole one: it never slices       *)
(* beyond the end of the text (attestation.go:363-375).                    *)
THEOREM WithinTheText == ScanSpec => []NeverPastEnd
  <1>1. ScanInit => Inv
    BY InitInv
  <1>2. Inv /\ [ScanNext]_scanned => Inv'
    BY NextInv
  <1>3. Inv => NeverPastEnd
    <2>. SUFFICES ASSUME Inv, verdict = "scanning", inside, raw[i] = Backslash
                  PROVE  /\ Reads(i + 1)
                         /\ raw[i + 1] = "u" =>
                               Reads(i + 5) /\ \A n \in (i + 2)..(i + 5) : raw[n] \in DOMAIN Digit
      BY DEF NeverPastEnd
    <2>1. PICK n, count :
             /\ Len(raw) \in Nat /\ i \in Nat
             /\ count = Len(strings[n]) => raw[i] = Quote
             /\ count # Len(strings[n]) => ItemFollows(strings, raw, i, n, count + 1)
      BY WithinFacts
    <2>2. ItemFollows(strings, raw, i, n, count + 1)
      BY <2>1, Distinct
    <2>3. PICK next, item :
             /\ next \in Nat /\ next <= Len(raw)
             /\ IsUnitAt(raw, i, next, item) \/ IsEscapedAt(raw, i, next, item)
                \/ IsCharacterAt(raw, i, next, item)
      BY <2>2 DEF ItemFollows
    <2>4. CASE IsUnitAt(raw, i, next, item)
      <3>1. next = i + 6 /\ \A j \in 2..5 : raw[i + j] \in DOMAIN Digit
        BY <2>4, Zenon DEF IsUnitAt
      <3>2. i + 1 <= Len(raw) /\ i + 5 <= Len(raw)
        BY <2>1, <2>3, <3>1
      <3>3. ASSUME NEW m \in (i + 2)..(i + 5) PROVE raw[m] \in DOMAIN Digit
        <4>1. m - i \in 2..5 /\ i + (m - i) = m
          BY <2>1
        <4>. QED
          BY <3>1, <4>1, Zenon
      <3>. QED
        BY <3>2, <3>3, Zenon DEF Reads
    <2>5. CASE IsEscapedAt(raw, i, next, item)
      <3>1. next = i + 2 /\ raw[i + 1] # "u"
        BY <2>5, Zenon DEF IsEscapedAt
      <3>2. i + 1 <= Len(raw)
        BY <2>1, <2>3, <3>1
      <3>. QED
        BY <3>1, <3>2, Zenon DEF Reads
    <2>. QED
      BY <2>3, <2>4, <2>5, Zenon DEF IsCharacterAt
  <1>. QED
    BY <1>1, <1>2, <1>3, PTL DEF ScanSpec

=============================================================================
