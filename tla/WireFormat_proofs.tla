-------------------------- MODULE WireFormat_proofs --------------------------
(***************************************************************************)
(* A frame is decoded as what was sent or refused, for frames of every     *)
(* kind, texts, names and lists of any length, cut anywhere or followed by *)
(* something else; and the chunks of a transfer are the file.              *)
(*                                                                         *)
(* An encoding is a wire that begins with known cells; Ends gives the byte *)
(* each cell ends at, so that what a decoder reads at an offset is what    *)
(* the encoder wrote there.  Lists of files need an induction over their   *)
(* length: UpTo makes one over the set of numbers that have the property,  *)
(* and Recursion gives the function a recursive definition defines.        *)
(*                                                                         *)
(* And the answers of devices on the local network say what the devices    *)
(* advertise, however their names are compressed.                          *)
(***************************************************************************)
EXTENDS WireFormat, MdnsDiscovery, WellFoundedInduction, FiniteSetTheorems, TLAPS

(* Every set of numbers has a least one.                                   *)
LEMMA LeastIs ==
  ASSUME NEW S \in SUBSET Nat, S # {}
  PROVE  \E x \in S : \A y \in S : x <= y
<1> DEFINE R == {p \in Nat \X Nat : p[1] < p[2]}
<1>1. IsWellFoundedOn(R, Nat)
  BY NatLessThanWellFounded DEF OpToRel
<1>2. \A x, y \in Nat : <<y, x>> \in R <=> y < x
  OBVIOUS
<1> HIDE DEF R
<1>3. PICK x \in S : \A y \in S : ~ (<<y, x>> \in R)
  BY <1>1, WFMin
<1>4. ASSUME NEW y \in S PROVE x <= y
  <2>1. x \in Nat /\ y \in Nat
    OBVIOUS
  <2>2. ~ (y < x)
    BY <1>2, <1>3, <2>1
  <2> QED BY <2>1, <2>2
<1> QED BY <1>4

(* Induction up to a bound, over the set of numbers that have the property. *)
LEMMA UpTo ==
  ASSUME NEW N \in Nat, NEW S, 0 \in S,
         \A n \in 0..(N - 1) : n \in S => n + 1 \in S
  PROVE  \A n \in 0..N : n \in S
<1> SUFFICES ASSUME NEW m \in 0..N, m \notin S PROVE FALSE
  OBVIOUS
<1> DEFINE Rest == {n \in 0..N : n \notin S}
<1>1. Rest \in SUBSET Nat /\ Rest # {}
  OBVIOUS
<1>2. PICK x \in Rest : \A y \in Rest : x <= y
  BY <1>1, LeastIs
<1>3. x \in 0..N /\ x # 0 /\ x - 1 \in 0..(N - 1) /\ x - 1 \notin Rest
  BY <1>2
<1>4. x - 1 \in S
  BY <1>3
<1> QED BY <1>2, <1>3, <1>4

(* What is defined by recursion up to a bound exists.                      *)
LEMMA Recursion ==
  ASSUME NEW T, NEW first \in T, NEW N \in Nat, NEW step \in [1..N -> [T -> T]]
  PROVE  \E f \in [0..N -> T] : f[0] = first /\ \A n \in 1..N : f[n] = step[n][f[n - 1]]
<1> DEFINE Begun(n) == {f \in [0..n -> T] : f[0] = first
                                          /\ \A i \in 1..n : f[i] = step[i][f[i - 1]]}
           S == {n \in 0..N : Begun(n) # {}}
<1>1. 0 \in S
  <2>1. [i \in 0..0 |-> first] \in Begun(0)
    OBVIOUS
  <2> HIDE DEF Begun
  <2> QED BY <2>1
<1>2. ASSUME NEW n \in 0..(N - 1), n \in S PROVE n + 1 \in S
  <2>1. PICK f \in Begun(n) : TRUE
    BY <1>2
  <2> DEFINE g == [i \in 0..(n + 1) |-> IF i = n + 1 THEN step[n + 1][f[n]] ELSE f[i]]
  <2>2. step[n + 1] \in [T -> T] /\ f[n] \in T
    BY <2>1
  <2>3. g \in [0..(n + 1) -> T] /\ g[0] = first
    BY <2>1, <2>2
  <2>4. ASSUME NEW i \in 1..(n + 1) PROVE g[i] = step[i][g[i - 1]]
    <3>1. g[i - 1] = f[i - 1]
      OBVIOUS
    <3>2. CASE i = n + 1
      BY <3>1, <3>2
    <3>3. CASE i \in 1..n
      BY <2>1, <3>1, <3>3
    <3> QED BY <3>2, <3>3
  <2> HIDE DEF g
  <2>5. g \in Begun(n + 1) /\ n + 1 \in 0..N
    BY <2>3, <2>4
  <2> HIDE DEF Begun
  <2> QED BY <2>5
<1> HIDE DEF Begun
<1>3. \A n \in 0..(N - 1) : n \in S => n + 1 \in S
  BY <1>2
<1> HIDE DEF S
<1>4. N \in S
  <2>1. \A n \in 0..N : n \in S
    BY <1>1, <1>3, UpTo
  <2> QED BY <2>1
<1>5. PICK f \in Begun(N) : TRUE
  BY <1>4 DEF S
<1> QED BY <1>5 DEF Begun

Recursions(T, first, N, step) ==
  {f \in [0..N -> T] : f[0] = first /\ \A n \in 1..N : f[n] = step[n][f[n - 1]]}

LEMMA RecursionIs ==
  ASSUME NEW T, NEW first \in T, NEW N \in Nat, NEW step \in [1..N -> [T -> T]]
  PROVE  Recursions(T, first, N, step) # {}
<1>1. PICK f \in [0..N -> T] : f[0] = first /\ \A n \in 1..N : f[n] = step[n][f[n - 1]]
  BY Recursion
<1>2. f \in Recursions(T, first, N, step)
  BY <1>1 DEF Recursions
<1> QED BY <1>2

-----------------------------------------------------------------------------
(* A sequence of cells that take space.                                    *)
IsWire(ws) == ws \in Seq(ToSet(ws)) /\ \A i \in DOMAIN ws : ws[i].w \in Nat \ {0}

(* Where the cells end: each its width behind the one before it.           *)
LEMMA EndsAre ==
  ASSUME NEW ws, IsWire(ws)
  PROVE  /\ Ends(ws) \in [0..Len(ws) -> Nat] /\ Ends(ws)[0] = 0
         /\ \A i \in 1..Len(ws) : Ends(ws)[i] = Ends(ws)[i - 1] + ws[i].w
<1> DEFINE N == Len(ws)
           step == [i \in 1..N |-> [x \in Nat |-> x + ws[i].w]]
           E == CHOOSE end : end = [i \in 0..N |-> IF i = 0 THEN 0 ELSE end[i - 1] + ws[i].w]
<1>1. N \in Nat /\ \A i \in 1..N : ws[i].w \in Nat
  BY DEF IsWire
<1>2. step \in [1..N -> [Nat -> Nat]]
  BY <1>1
<1>s. \A n \in 1..N, x \in Nat : step[n][x] = x + ws[n].w
  OBVIOUS
<1>3. PICK f \in [0..N -> Nat] : f[0] = 0 /\ \A n \in 1..N : f[n] = step[n][f[n - 1]]
  <2> HIDE DEF step, N
  <2> DEFINE T == Nat
  <2>1. 0 \in T /\ step \in [1..N -> [T -> T]]
    BY <1>2
  <2> HIDE DEF T
  <2>2. \E f \in [0..N -> T] : f[0] = 0 /\ \A n \in 1..N : f[n] = step[n][f[n - 1]]
    BY <1>1, <2>1, Recursion
  <2> QED BY <2>2 DEF T
<1>4. \A n \in 1..N : f[n] = f[n - 1] + ws[n].w
  <2> HIDE DEF step, N
  <2>1. \A n \in 1..N : f[n - 1] \in Nat
    BY <1>1
  <2> QED BY <1>3, <1>s, <2>1
<1>5. f = [i \in 0..N |-> IF i = 0 THEN 0 ELSE f[i - 1] + ws[i].w]
  BY <1>1, <1>3, <1>4
<1>6. E = [i \in 0..N |-> IF i = 0 THEN 0 ELSE E[i - 1] + ws[i].w]
  <2> HIDE DEF N
  <2> QED BY <1>5
<1>7. Ends(ws) = E
  BY DEF Ends
<1> DEFINE S == {i \in 0..N : E[i] \in Nat}
<1>8. \A n \in 0..N : n \in S
  <2> HIDE DEF E
  <2>1. 0 \in S
    BY <1>1, <1>6
  <2>2. ASSUME NEW n \in 0..(N - 1), n \in S PROVE n + 1 \in S
    BY <1>1, <1>6, <2>2
  <2> HIDE DEF S
  <2> QED BY <1>1, <2>1, <2>2, UpTo
<1>9. DOMAIN E = 0..N
  <2> HIDE DEF E, N
  <2> QED BY <1>6
<1>10. E \in [0..N -> Nat]
  <2> HIDE DEF E
  <2> QED BY <1>6, <1>8, <1>9
<1>11. E[0] = 0 /\ \A i \in 1..N : E[i] = E[i - 1] + ws[i].w
  <2> HIDE DEF E
  <2> QED BY <1>1, <1>6
<1> HIDE DEF E
<1> QED BY <1>7, <1>10, <1>11

(* A later cell ends later.                                                *)
LEMMA EndsGrow ==
  ASSUME NEW ws, IsWire(ws), NEW i \in 0..Len(ws), NEW j \in 0..Len(ws), i < j
  PROVE  Ends(ws)[i] < Ends(ws)[j]
<1> DEFINE N == Len(ws)
           E == Ends(ws)
           S == {n \in 0..N : \A m \in 0..N : m < n => E[m] < E[n]}
<1>1. N \in Nat /\ E \in [0..N -> Nat] /\ \A n \in 1..N : E[n] = E[n - 1] + ws[n].w
  BY EndsAre DEF IsWire
<1>2. \A n \in 1..N : ws[n].w \in Nat \ {0}
  BY DEF IsWire
<1> HIDE DEF N, E
<1>3. 0 \in S
  BY <1>1
<1>4. ASSUME NEW n \in 0..(N - 1), n \in S PROVE n + 1 \in S
  <2>1. n + 1 \in 1..N /\ (n + 1) - 1 = n
    BY <1>1
  <2>2. E[n + 1] = E[n] + ws[n + 1].w /\ ws[n + 1].w \in Nat \ {0} /\ E[n] \in Nat
    BY <1>1, <1>2, <2>1
  <2>3. E[n] < E[n + 1] /\ E[n + 1] \in Nat
    BY <2>2
  <2>4. ASSUME NEW m \in 0..N, m < n + 1 PROVE E[m] < E[n + 1]
    <3>1. m = n \/ m < n
      BY <1>1, <2>4
    <3>2. m < n => E[m] < E[n]
      BY <1>4
    <3>3. E[m] \in Nat
      BY <1>1
    <3> QED BY <2>2, <2>3, <3>1, <3>2, <3>3
  <2> QED BY <1>1, <2>1, <2>4
<1> HIDE DEF S
<1>5. \A n \in 0..N : n \in S
  BY <1>1, <1>3, <1>4, UpTo
<1> QED BY <1>5 DEF S, N, E

(* The cells of a lie in ws behind p others.                               *)
Lies(ws, p, a) == p + Len(a) <= Len(ws) /\ \A i \in 1..Len(a) : ws[p + i] = a[i]

(* The cells of a part end where they do alone, moved by what is before    *)
(* it.                                                                     *)
LEMMA EndsOfPart ==
  ASSUME NEW ws, NEW a, IsWire(ws), IsWire(a), NEW p \in Nat, Lies(ws, p, a)
  PROVE  \A i \in 0..Len(a) : Ends(ws)[p + i] = Ends(ws)[p] + Ends(a)[i]
<1> DEFINE N == Len(a)
           M == Len(ws)
           E == Ends(ws)
           F == Ends(a)
           S == {n \in 0..N : E[p + n] = E[p] + F[n]}
<1>1. /\ N \in Nat /\ F \in [0..N -> Nat] /\ F[0] = 0
      /\ \A n \in 1..N : F[n] = F[n - 1] + a[n].w
  BY EndsAre DEF IsWire
<1>2. /\ M \in Nat /\ E \in [0..M -> Nat]
      /\ \A n \in 1..M : E[n] = E[n - 1] + ws[n].w
  BY EndsAre DEF IsWire
<1>3. p + N <= M /\ \A n \in 1..N : ws[p + n] = a[n] /\ a[n].w \in Nat
  BY DEF Lies, IsWire
<1> HIDE DEF N, M, E, F
<1>4. 0 \in S
  BY <1>1, <1>2, <1>3
<1>5. ASSUME NEW n \in 0..(N - 1), n \in S PROVE n + 1 \in S
  <2>1. n + 1 \in 1..N /\ (n + 1) - 1 = n /\ p + (n + 1) \in 1..M /\ (p + (n + 1)) - 1 = p + n
    BY <1>1, <1>2, <1>3
  <2>2. E[p + (n + 1)] = E[p + n] + ws[p + (n + 1)].w
    BY <1>2, <2>1
  <2>3. F[n + 1] = F[n] + a[n + 1].w /\ ws[p + (n + 1)] = a[n + 1] /\ a[n + 1].w \in Nat
    BY <1>1, <1>3, <2>1
  <2>4. F[n] \in Nat /\ E[p] \in Nat /\ E[p + n] = E[p] + F[n]
    BY <1>1, <1>2, <1>3, <1>5
  <2>5. E[p + (n + 1)] = E[p] + F[n + 1]
    BY <2>2, <2>3, <2>4
  <2> QED BY <1>1, <2>1, <2>5
<1> HIDE DEF S
<1>6. \A n \in 0..N : n \in S
  BY <1>1, <1>4, <1>5, UpTo
<1> QED BY <1>6 DEF S, N, E, F

(* A part of a wire is a wire.                                             *)
LEMMA PartIs ==
  ASSUME NEW ws, IsWire(ws), NEW p \in 0..Len(ws), NEW q \in 0..Len(ws), p <= q
  PROVE  LET a == SubSeq(ws, p + 1, q)
         IN  IsWire(a) /\ Len(a) = q - p /\ Lies(ws, p, a)
<1> DEFINE a == SubSeq(ws, p + 1, q)
<1>1. ws \in Seq(ToSet(ws)) /\ Len(ws) \in Nat /\ DOMAIN ws = 1..Len(ws)
      /\ \A i \in 1..Len(ws) : ws[i].w \in Nat \ {0}
  BY DEF IsWire
<1>2. a = [i \in 1..(q - p) |-> ws[p + i]]
  BY <1>1
<1>3. Len(a) = q - p /\ \A i \in 1..(q - p) : a[i] = ws[p + i]
  <2>1. q - p \in Nat
    OBVIOUS
  <2> QED BY <1>2, <2>1
<1>4. a \in Seq(ToSet(a))
  <2>1. DOMAIN a = 1..(q - p) /\ q - p \in Nat
    BY <1>2
  <2>2. \A i \in 1..(q - p) : a[i] \in ToSet(a)
    BY <2>1 DEF ToSet
  <2>3. a = [i \in 1..(q - p) |-> a[i]]
    BY <1>2
  <2> HIDE DEF a
  <2> QED BY <2>1, <2>2, <2>3
<1>5. \A i \in DOMAIN a : a[i].w \in Nat \ {0}
  BY <1>1, <1>2
<1> HIDE DEF a
<1>6. IsWire(a)
  BY <1>4, <1>5 DEF IsWire
<1>7. Lies(ws, p, a)
  BY <1>1, <1>3 DEF Lies
<1> QED BY <1>3, <1>6, <1>7 DEF a

(* What lies between the ends of two cells are the cells between them.     *)
LEMMA BetweenIs ==
  ASSUME NEW ws, IsWire(ws), NEW p \in 0..Len(ws), NEW q \in 0..Len(ws), p <= q
  PROVE  Between(ws, Ends(ws)[p], Ends(ws)[q]) = SubSeq(ws, p + 1, q)
<1> DEFINE E == Ends(ws)
           N == Len(ws)
           inside == {i \in DOMAIN ws : E[i - 1] >= E[p] /\ E[i] <= E[q]}
           least == CHOOSE i \in inside : \A j \in inside : i <= j
           last == CHOOSE i \in inside : \A j \in inside : i >= j
<1>1. N \in Nat /\ DOMAIN ws = 1..N /\ E \in [0..N -> Nat]
  BY EndsAre DEF IsWire
<1>2. \A i, j \in 0..N : i < j => E[i] < E[j]
  BY EndsGrow
<1>3. Between(ws, E[p], E[q]) = IF inside = {} THEN <<>> ELSE SubSeq(ws, least, last)
  BY DEF Between
<1> HIDE DEF E, N
<1>4. inside = (p + 1)..q
  <2>1. ASSUME NEW i \in 1..N PROVE (E[i - 1] >= E[p] /\ E[i] <= E[q]) <=> (i >= p + 1 /\ i <= q)
    <3>1. i - 1 \in 0..N /\ i \in 0..N /\ p \in 0..N /\ q \in 0..N
      BY <1>1 DEF N
    <3>2. E[i - 1] \in Nat /\ E[i] \in Nat /\ E[p] \in Nat /\ E[q] \in Nat
      BY <1>1, <3>1
    <3>3. E[i - 1] >= E[p] <=> i - 1 >= p
      BY <1>2, <3>1, <3>2
    <3>4. E[i] <= E[q] <=> i <= q
      BY <1>2, <3>1, <3>2
    <3> QED BY <3>1, <3>3, <3>4
  <2> QED BY <1>1, <2>1 DEF N
<1>5. CASE p = q
  <2>1. inside = {}
    BY <1>4, <1>5
  <2>2. SubSeq(ws, p + 1, q) = <<>>
    BY <1>5
  <2> QED BY <1>3, <2>1, <2>2 DEF E
<1>6. CASE p < q
  <2> HIDE DEF inside
  <2>0. p \in Nat /\ q \in Nat
    BY <1>1
  <2>1. p + 1 \in inside /\ q \in inside /\ \A j \in inside : j \in Int /\ p + 1 <= j /\ q >= j
    BY <1>4, <1>6, <2>0
  <2>2. least = p + 1
    <3>1. least \in inside /\ \A j \in inside : least <= j
      BY <2>1
    <3> HIDE DEF least
    <3> QED BY <2>0, <2>1, <3>1
  <2>3. last = q
    <3>1. last \in inside /\ \A j \in inside : last >= j
      BY <2>1
    <3> HIDE DEF last
    <3> QED BY <2>0, <2>1, <3>1
  <2> QED BY <1>3, <2>1, <2>2, <2>3 DEF E
<1> QED BY <1>5, <1>6

(* What is read from the end of a cell on are the cells after it.          *)
LEMMA TailIs ==
  ASSUME NEW ws, IsWire(ws), NEW p \in 0..Len(ws)
  PROVE  LET a == From(ws, Ends(ws)[p])
         IN  IsWire(a) /\ Len(a) = Len(ws) - p /\ Lies(ws, p, a)
<1> DEFINE N == Len(ws)
<1>1. N \in 0..Len(ws) /\ p <= N
  BY EndsAre DEF IsWire
<1>2. \A q \in 0..Len(ws) : p <= q =>
        /\ Between(ws, Ends(ws)[p], Ends(ws)[q]) = SubSeq(ws, p + 1, q)
        /\ IsWire(SubSeq(ws, p + 1, q)) /\ Len(SubSeq(ws, p + 1, q)) = q - p
        /\ Lies(ws, p, SubSeq(ws, p + 1, q))
  BY BetweenIs, PartIs
<1>3. From(ws, Ends(ws)[p]) = Between(ws, Ends(ws)[p], Ends(ws)[N])
  BY DEF From, Width
<1> HIDE DEF N
<1>4. /\ Between(ws, Ends(ws)[p], Ends(ws)[N]) = SubSeq(ws, p + 1, N)
      /\ IsWire(SubSeq(ws, p + 1, N)) /\ Len(SubSeq(ws, p + 1, N)) = N - p
      /\ Lies(ws, p, SubSeq(ws, p + 1, N))
  BY <1>1, <1>2
<1> QED BY <1>3, <1>4 DEF N

(* What is read where a cell lies is its value.                            *)
LEMMA ReadIs ==
  ASSUME NEW ws, IsWire(ws), NEW i \in 1..Len(ws)
  PROVE  ReadAt(ws, Ends(ws)[i - 1], ws[i].w) = ws[i].v
<1> DEFINE c == SubSeq(ws, i, i)
<1>1. i - 1 \in 0..Len(ws) /\ i \in 0..Len(ws) /\ i - 1 <= i /\ (i - 1) + 1 = i
      /\ Ends(ws)[i] = Ends(ws)[i - 1] + ws[i].w
  BY EndsAre DEF IsWire
<1>2. Between(ws, Ends(ws)[i - 1], Ends(ws)[i - 1] + ws[i].w) = SubSeq(ws, (i - 1) + 1, i)
  BY <1>1, BetweenIs
<1>3. Len(c) = 1 /\ c[1] = ws[i]
  BY DEF IsWire
<1> HIDE DEF c
<1> QED BY <1>1, <1>2, <1>3 DEF ReadAt, c

(* Two wires joined are a wire in which both lie.                          *)
LEMMA JoinIs ==
  ASSUME NEW a, NEW b, IsWire(a), IsWire(b)
  PROVE  /\ IsWire(a \o b) /\ Len(a \o b) = Len(a) + Len(b)
         /\ Lies(a \o b, 0, a) /\ Lies(a \o b, Len(a), b)
<1> DEFINE S == ToSet(a) \cup ToSet(b)
           c == a \o b
<1>1. /\ a \in Seq(S) /\ b \in Seq(S) /\ DOMAIN a = 1..Len(a) /\ DOMAIN b = 1..Len(b)
      /\ Len(a) \in Nat /\ Len(b) \in Nat
      /\ \A i \in 1..Len(a) : a[i].w \in Nat \ {0}
      /\ \A i \in 1..Len(b) : b[i].w \in Nat \ {0}
  BY DEF IsWire
<1> HIDE DEF S
<1>2. c \in Seq(S) /\ Len(c) = Len(a) + Len(b) /\ DOMAIN c = 1..(Len(a) + Len(b))
  BY <1>1
<1>3. /\ \A i \in 1..Len(a) : c[i] = a[i]
      /\ \A i \in 1..Len(b) : c[Len(a) + i] = b[i]
  BY <1>1
<1> HIDE DEF c
<1>4. \A i \in DOMAIN c : c[i].w \in Nat \ {0}
  <2> SUFFICES ASSUME NEW i \in 1..(Len(a) + Len(b)) PROVE c[i].w \in Nat \ {0}
    BY <1>2
  <2>1. CASE i <= Len(a)
    BY <1>1, <1>3, <2>1
  <2>2. CASE i > Len(a)
    <3>1. i - Len(a) \in 1..Len(b) /\ Len(a) + (i - Len(a)) = i
      BY <1>1, <2>2
    <3> QED BY <1>1, <1>3, <3>1
  <2> QED BY <1>1, <2>1, <2>2
<1>5. c \in Seq(ToSet(c))
  <2>1. \A i \in 1..Len(c) : c[i] \in ToSet(c)
    BY <1>2 DEF ToSet
  <2> QED BY <1>2, <2>1
<1>6. IsWire(c)
  BY <1>4, <1>5 DEF IsWire
<1>7. Lies(c, 0, a) /\ Lies(c, Len(a), b)
  BY <1>1, <1>2, <1>3 DEF Lies
<1> QED BY <1>2, <1>6, <1>7 DEF c

(* A text is a wire of one byte a character.                               *)
LEMMA BytesAre ==
  ASSUME NEW s, IsText(s)
  PROVE  /\ IsWire(Bytes(s)) /\ Len(Bytes(s)) = Len(s) /\ Width(Bytes(s)) = Len(s)
         /\ \A i \in 1..Len(s) : Bytes(s)[i].w = 1 /\ Bytes(s)[i].v = s[i]
<1> DEFINE b == Bytes(s)
           N == Len(s)
<1>1. N \in Nat /\ DOMAIN s = 1..N
  BY DEF IsText
<1>2. b = [i \in 1..N |-> [w |-> 1, v |-> s[i]]]
  BY <1>1 DEF Bytes, Cell
<1> HIDE DEF b
<1>3. Len(b) = N /\ \A i \in 1..N : b[i].w = 1 /\ b[i].v = s[i]
  BY <1>1, <1>2
<1>4. IsWire(b)
  <2>1. DOMAIN b = 1..N /\ \A i \in 1..N : b[i] \in ToSet(b)
    BY <1>2 DEF ToSet
  <2>2. b = [i \in 1..N |-> b[i]]
    BY <1>2
  <2>3. b \in Seq(ToSet(b))
    BY <1>1, <2>1, <2>2
  <2> QED BY <1>3, <2>1, <2>3 DEF IsWire
<1> HIDE DEF N
<1> DEFINE E == Ends(b)
           S == {n \in 0..N : E[n] = n}
<1>5. E[0] = 0 /\ E \in [0..N -> Nat] /\ \A n \in 1..N : E[n] = E[n - 1] + 1
  BY <1>3, <1>4, EndsAre
<1> HIDE DEF E
<1>6. 0 \in S
  BY <1>1, <1>5
<1>7. ASSUME NEW n \in 0..(N - 1), n \in S PROVE n + 1 \in S
  BY <1>1, <1>5, <1>7
<1> HIDE DEF S
<1>8. \A n \in 0..N : n \in S
  BY <1>1, <1>6, <1>7, UpTo
<1>9. E[N] = N
  BY <1>1, <1>8 DEF S
<1> QED BY <1>3, <1>4, <1>9 DEF E, N, b, Width

(* What a decoder takes for a text.                                        *)
LEMMA TextIs ==
  ASSUME NEW ws, NEW s, IsWire(ws), IsText(s), NEW p \in Nat, Lies(ws, p, Bytes(s))
  PROVE  /\ Ends(ws)[p + Len(s)] = Ends(ws)[p] + Len(s)
         /\ TextAt(ws, Ends(ws)[p], Ends(ws)[p] + Len(s)) = s
<1> DEFINE N == Len(s)
           c == SubSeq(ws, p + 1, p + N)
<1>1. N \in Nat /\ DOMAIN s = 1..N /\ s \in Seq(ToSet(s))
  BY DEF IsText
<1>2. /\ IsWire(Bytes(s)) /\ Len(Bytes(s)) = N /\ Ends(Bytes(s))[N] = N
      /\ \A i \in 1..N : Bytes(s)[i].w = 1 /\ Bytes(s)[i].v = s[i]
  BY BytesAre DEF Width
<1>3. Ends(ws)[p + N] = Ends(ws)[p] + N
  <2>1. \A i \in 0..Len(Bytes(s)) : Ends(ws)[p + i] = Ends(ws)[p] + Ends(Bytes(s))[i]
    BY <1>2, EndsOfPart
  <2> HIDE DEF N
  <2> QED BY <1>1, <1>2, <2>1
<1>4. Len(ws) \in Nat /\ p + N <= Len(ws) /\ \A i \in 1..N : ws[p + i] = Bytes(s)[i]
  BY <1>2 DEF Lies, IsWire
<1> HIDE DEF N
<1>5. p \in 0..Len(ws) /\ p + N \in 0..Len(ws) /\ p <= p + N
  BY <1>1, <1>4
<1>6. Between(ws, Ends(ws)[p], Ends(ws)[p] + N) = c
  BY <1>3, <1>5, BetweenIs
<1>7. Len(c) = (p + N) - p /\ Lies(ws, p, c) /\ c \in Seq(ToSet(c))
  BY <1>5, PartIs DEF IsWire
<1> HIDE DEF c
<1>8. DOMAIN c = 1..N /\ \A i \in 1..N : c[i].w = 1 /\ c[i].v = s[i]
  <2>1. p + N - p = N
    BY <1>1
  <2>2. DOMAIN c = 1..N /\ Len(c) = N
    BY <1>1, <1>7, <2>1
  <2>3. \A i \in 1..N : ws[p + i] = c[i]
    BY <1>7, <2>2 DEF Lies
  <2> QED BY <1>2, <1>4, <2>2, <2>3
<1>9. [i \in DOMAIN c |-> c[i].v] = s
  BY <1>1, <1>8
<1> QED BY <1>3, <1>6, <1>8, <1>9 DEF TextAt, N

(* Cells that take space are a wire.                                       *)
LEMMA CellsAreWire ==
  ASSUME NEW S, NEW ws \in Seq(S), \A c \in S : c.w \in Nat \ {0}
  PROVE  IsWire(ws)
<1>1. DOMAIN ws = 1..Len(ws) /\ Len(ws) \in Nat /\ \A i \in DOMAIN ws : ws[i] \in S
  OBVIOUS
<1>2. \A i \in DOMAIN ws : ws[i] \in ToSet(ws)
  BY DEF ToSet
<1>3. ws \in Seq(ToSet(ws))
  BY <1>1, <1>2
<1> QED BY <1>1, <1>3 DEF IsWire

(* No cell ends behind the wire.                                           *)
LEMMA EndsWithin ==
  ASSUME NEW ws, IsWire(ws)
  PROVE  Width(ws) \in Nat /\ \A i \in 0..Len(ws) : Ends(ws)[i] \in Nat /\ Ends(ws)[i] <= Width(ws)
<1>1. Len(ws) \in Nat /\ Ends(ws) \in [0..Len(ws) -> Nat]
  BY EndsAre DEF IsWire
<1>2. \A i \in 0..Len(ws) : i < Len(ws) => Ends(ws)[i] < Ends(ws)[Len(ws)]
  BY <1>1, EndsGrow
<1> QED BY <1>1, <1>2 DEF Width

-----------------------------------------------------------------------------
(* Events.                                                                 *)

LEMMA EventCells ==
  ASSUME NEW e, IsEvent(e)
  PROVE  /\ IsWire(EncodedEvent(e))
         /\ Len(EncodedEvent(e)) \in 3..4
         /\ EncodedEvent(e)[1] = Cell(1, e.kind)
<1>1. CASE e.kind = "key"
  <2> DEFINE S == {Cell(1, "key"), Cell(2, e.key), Cell(1, e.state), Cell(1, e.modifiers)}
  <2>1. EncodedEvent(e) = <<Cell(1, "key"), Cell(2, e.key), Cell(1, e.state), Cell(1, e.modifiers)>>
    BY <1>1 DEF EncodedEvent
  <2>2. EncodedEvent(e) \in Seq(S) /\ Len(EncodedEvent(e)) = 4
    BY <2>1
  <2>3. \A c \in S : c.w \in Nat \ {0}
    BY DEF Cell
  <2>4. EncodedEvent(e)[1] = Cell(1, e.kind)
    BY <1>1, <2>1
  <2> HIDE DEF S
  <2>5. IsWire(EncodedEvent(e))
    BY <2>2, <2>3, CellsAreWire
  <2> QED BY <2>2, <2>4, <2>5
<1>2. CASE e.kind \in {"move", "position", "scroll"}
  <2> DEFINE S == {Cell(1, e.kind), Cell(4, e.x), Cell(4, e.y)}
  <2>1. EncodedEvent(e) = <<Cell(1, e.kind), Cell(4, e.x), Cell(4, e.y)>>
    BY <1>2 DEF EncodedEvent
  <2>2. EncodedEvent(e) \in Seq(S) /\ Len(EncodedEvent(e)) = 3
    BY <2>1
  <2>3. \A c \in S : c.w \in Nat \ {0}
    BY DEF Cell
  <2>4. EncodedEvent(e)[1] = Cell(1, e.kind)
    BY <1>2, <2>1
  <2> HIDE DEF S
  <2>5. IsWire(EncodedEvent(e))
    BY <2>2, <2>3, CellsAreWire
  <2> QED BY <2>2, <2>4, <2>5
<1>3. CASE e.kind = "button"
  <2> DEFINE S == {Cell(1, "button"), Cell(1, e.button), Cell(1, e.state)}
  <2>1. EncodedEvent(e) = <<Cell(1, "button"), Cell(1, e.button), Cell(1, e.state)>>
    BY <1>3 DEF EncodedEvent
  <2>2. EncodedEvent(e) \in Seq(S) /\ Len(EncodedEvent(e)) = 3
    BY <2>1
  <2>3. \A c \in S : c.w \in Nat \ {0}
    BY DEF Cell
  <2>4. EncodedEvent(e)[1] = Cell(1, e.kind)
    BY <1>3, <2>1
  <2> HIDE DEF S
  <2>5. IsWire(EncodedEvent(e))
    BY <2>2, <2>3, CellsAreWire
  <2> QED BY <2>2, <2>4, <2>5
<1> QED BY <1>1, <1>2, <1>3 DEF IsEvent

(* An event is decoded from the cells it was encoded to, whatever follows. *)
LEMMA EventIsDecoded ==
  ASSUME NEW e, IsEvent(e), NEW ws, IsWire(ws), Lies(ws, 0, EncodedEvent(e))
  PROVE  DecodedEvent(ws) = e
<1> DEFINE E == Ends(ws)
           n == Len(EncodedEvent(e))
<1>1. /\ E[0] = 0 /\ \A i \in 1..Len(ws) : E[i] = E[i - 1] + ws[i].w
      /\ \A i \in 1..Len(ws) : ReadAt(ws, E[i - 1], ws[i].w) = ws[i].v
  BY EndsAre, ReadIs
<1>2. n \in 3..4 /\ n <= Len(ws) /\ Len(ws) \in Nat /\ \A i \in 1..n : ws[i] = EncodedEvent(e)[i]
  BY EventCells DEF Lies, IsWire
<1>3. Width(ws) \in Nat /\ \A i \in 0..Len(ws) : E[i] <= Width(ws)
  BY EndsWithin
<1>4. ws[1] = Cell(1, e.kind)
  BY <1>2, EventCells
<1> HIDE DEF E, n
<1>5. E[1] = 1 /\ ReadAt(ws, 0, 1) = e.kind
  <2>1. 1 \in 1..Len(ws) /\ E[1 - 1] = 0
    BY <1>1, <1>2
  <2>2. ws[1].w = 1 /\ ws[1].v = e.kind
    BY <1>4 DEF Cell
  <2> QED BY <1>1, <2>1, <2>2
<1>6. CASE e.kind = "key"
  <2>1. EncodedEvent(e) = <<Cell(1, "key"), Cell(2, e.key), Cell(1, e.state), Cell(1, e.modifiers)>>
    BY <1>6 DEF EncodedEvent
  <2>2. n = 4 /\ ws[2] = Cell(2, e.key) /\ ws[3] = Cell(1, e.state) /\ ws[4] = Cell(1, e.modifiers)
    BY <1>2, <2>1 DEF n
  <2>3. {2, 3, 4} \subseteq 1..Len(ws)
    BY <1>2, <2>2
  <2>4. E[2] = 3 /\ ReadAt(ws, 1, 2) = e.key
    BY <1>1, <1>5, <2>2, <2>3 DEF Cell
  <2>5. E[3] = 4 /\ ReadAt(ws, 3, 1) = e.state
    BY <1>1, <2>2, <2>3, <2>4 DEF Cell
  <2>6. E[4] = 5 /\ ReadAt(ws, 4, 1) = e.modifiers
    BY <1>1, <2>2, <2>3, <2>5 DEF Cell
  <2>7. 5 <= Width(ws)
    BY <1>3, <2>3, <2>6
  <2>8. e = [kind |-> "key", key |-> e.key, state |-> e.state, modifiers |-> e.modifiers]
    BY <1>6 DEF IsEvent
  <2>9. Width(ws) # 0 /\ ~ (Width(ws) < 5)
    BY <1>3, <2>7
  <2>10. DecodedEvent(ws) = [kind |-> "key", key |-> e.key, state |-> e.state,
                             modifiers |-> e.modifiers]
    BY <1>5, <1>6, <2>4, <2>5, <2>6, <2>9 DEF DecodedEvent
  <2> QED BY <2>8, <2>10
<1>7. CASE e.kind \in {"move", "position", "scroll"}
  <2>1. EncodedEvent(e) = <<Cell(1, e.kind), Cell(4, e.x), Cell(4, e.y)>>
    BY <1>7 DEF EncodedEvent
  <2>2. n = 3 /\ ws[2] = Cell(4, e.x) /\ ws[3] = Cell(4, e.y)
    BY <1>2, <2>1 DEF n
  <2>3. {2, 3} \subseteq 1..Len(ws)
    BY <1>2, <2>2
  <2>4. E[2] = 5 /\ ReadAt(ws, 1, 4) = e.x
    BY <1>1, <1>5, <2>2, <2>3 DEF Cell
  <2>5. E[3] = 9 /\ ReadAt(ws, 5, 4) = e.y
    BY <1>1, <2>2, <2>3, <2>4 DEF Cell
  <2>7. 9 <= Width(ws)
    BY <1>3, <2>3, <2>5
  <2>8. e = [kind |-> e.kind, x |-> e.x, y |-> e.y]
    BY <1>7 DEF IsEvent
  <2>9. Width(ws) # 0 /\ ~ (Width(ws) < 9)
    BY <1>3, <2>7
  <2>10. DecodedEvent(ws) = [kind |-> e.kind, x |-> e.x, y |-> e.y]
    BY <1>5, <1>7, <2>4, <2>5, <2>9 DEF DecodedEvent
  <2> QED BY <2>8, <2>10
<1>8. CASE e.kind = "button"
  <2>1. EncodedEvent(e) = <<Cell(1, "button"), Cell(1, e.button), Cell(1, e.state)>>
    BY <1>8 DEF EncodedEvent
  <2>2. n = 3 /\ ws[2] = Cell(1, e.button) /\ ws[3] = Cell(1, e.state)
    BY <1>2, <2>1 DEF n
  <2>3. {2, 3} \subseteq 1..Len(ws)
    BY <1>2, <2>2
  <2>4. E[2] = 2 /\ ReadAt(ws, 1, 1) = e.button
    BY <1>1, <1>5, <2>2, <2>3 DEF Cell
  <2>5. E[3] = 3 /\ ReadAt(ws, 2, 1) = e.state
    BY <1>1, <2>2, <2>3, <2>4 DEF Cell
  <2>7. 3 <= Width(ws)
    BY <1>3, <2>3, <2>5
  <2>8. e = [kind |-> "button", button |-> e.button, state |-> e.state]
    BY <1>8 DEF IsEvent
  <2>9. Width(ws) # 0 /\ ~ (Width(ws) < 3)
    BY <1>3, <2>7
  <2>10. DecodedEvent(ws) = [kind |-> "button", button |-> e.button, state |-> e.state]
    BY <1>5, <1>8, <2>4, <2>5, <2>9 DEF DecodedEvent
  <2> QED BY <2>8, <2>10
<1> QED BY <1>6, <1>7, <1>8 DEF IsEvent

(* What is left of a wire from a place on.                                 *)
LEMMA RestIs ==
  ASSUME NEW ws, NEW a, IsWire(ws), IsWire(a), NEW k \in Nat, Lies(ws, k, a)
  PROVE  /\ IsWire(From(ws, Ends(ws)[k])) /\ Lies(From(ws, Ends(ws)[k]), 0, a)
         /\ Between(ws, Ends(ws)[k], Ends(ws)[k] + Width(a)) = a
<1> DEFINE c == SubSeq(ws, k + 1, Len(ws))
           d == SubSeq(ws, k + 1, k + Len(a))
<1>1. /\ Len(ws) \in Nat /\ Len(a) \in Nat /\ k + Len(a) <= Len(ws)
      /\ \A i \in 1..Len(a) : ws[k + i] = a[i]
  BY DEF Lies, IsWire
<1>2. k \in 0..Len(ws) /\ Len(ws) \in 0..Len(ws) /\ k <= Len(ws)
      /\ k + Len(a) \in 0..Len(ws) /\ k <= k + Len(a)
  BY <1>1
<1>3. From(ws, Ends(ws)[k]) = c
  BY <1>2, BetweenIs DEF From, Width
<1>4. IsWire(c) /\ Len(c) = Len(ws) - k /\ Lies(ws, k, c)
  BY <1>2, PartIs
<1>5. IsWire(d) /\ Len(d) = k + Len(a) - k /\ Lies(ws, k, d)
  BY <1>2, PartIs
<1>n. Between(ws, Ends(ws)[k], Ends(ws)[k + Len(a)]) = d
  BY <1>2, BetweenIs
<1> HIDE DEF c, d
<1>6. Lies(c, 0, a)
  BY <1>1, <1>4 DEF Lies
<1>7. d = a
  <2>1. Len(d) = Len(a) /\ \A i \in 1..Len(a) : d[i] = a[i]
    BY <1>1, <1>5 DEF Lies
  <2>2. d \in Seq(ToSet(d)) /\ a \in Seq(ToSet(a))
    BY <1>5 DEF IsWire
  <2>3. DOMAIN d = 1..Len(a) /\ DOMAIN a = 1..Len(a)
    BY <1>1, <2>1, <2>2
  <2>4. d = [i \in 1..Len(a) |-> d[i]] /\ a = [i \in 1..Len(a) |-> a[i]]
    BY <2>2, <2>3
  <2> QED BY <2>1, <2>4
<1>8. Ends(ws)[k + Len(a)] = Ends(ws)[k] + Width(a)
  BY <1>1, EndsOfPart DEF Width
<1> QED BY <1>3, <1>4, <1>6, <1>7, <1>8, <1>n

(* A head of known cells and what follows it.                              *)
LEMMA HeadJoin ==
  ASSUME NEW S, NEW head \in Seq(S), \A c \in S : c.w \in Nat \ {0}, NEW rest, IsWire(rest)
  PROVE  /\ IsWire(head \o rest) /\ Len(head \o rest) = Len(head) + Len(rest)
         /\ Lies(head \o rest, Len(head), rest)
         /\ \A i \in 1..Len(head) : (head \o rest)[i] = head[i]
<1>1. IsWire(head)
  BY CellsAreWire
<1>2. Lies(head \o rest, 0, head)
  BY <1>1, JoinIs
<1> QED BY <1>1, <1>2, JoinIs DEF Lies

-----------------------------------------------------------------------------
(* Payloads: each is encoded to a wire that is decoded as it.              *)

LEMMA InputIsDecoded ==
  ASSUME NEW p, IsInput(p)
  PROVE  IsWire(EncodedInput(p)) /\ DecodedInput(EncodedInput(p)) = p
<1> DEFINE head == <<Cell(16, p.source), Cell(16, p.target), Cell(2, p.version),
                     Cell(1, p.channel)>>
           S == {Cell(16, p.source), Cell(16, p.target), Cell(2, p.version), Cell(1, p.channel)}
           rest == EncodedEvent(p.event)
           ws == head \o rest
           E == Ends(ws)
<1>1. head \in Seq(S) /\ Len(head) = 4 /\ \A c \in S : c.w \in Nat \ {0}
  <2>1. \A c \in S : c.w \in Nat \ {0}
    BY DEF Cell
  <2> QED BY <2>1
<1>2. IsWire(rest) /\ Len(rest) \in 3..4 /\ rest[1].w = 1 /\ IsEvent(p.event)
  <2>1. IsEvent(p.event)
    BY DEF IsInput
  <2>2. IsWire(rest) /\ Len(rest) \in 3..4 /\ rest[1] = Cell(1, p.event.kind)
    BY <2>1, EventCells
  <2> HIDE DEF rest
  <2> QED BY <2>1, <2>2 DEF Cell
<1>3. /\ IsWire(ws) /\ Len(ws) = 4 + Len(rest) /\ Lies(ws, 4, rest) /\ Len(rest) \in Nat
      /\ \A i \in 1..4 : ws[i] = head[i]
  <2> HIDE DEF head, S, rest
  <2>1. /\ IsWire(ws) /\ Len(ws) = Len(head) + Len(rest) /\ Lies(ws, Len(head), rest)
        /\ \A i \in 1..Len(head) : ws[i] = head[i]
    BY <1>1, <1>2, HeadJoin
  <2>2. Len(rest) \in Nat
    BY <1>2 DEF IsWire
  <2> HIDE DEF ws
  <2> QED BY <1>1, <2>1, <2>2
<1>4. /\ ws[1] = Cell(16, p.source) /\ ws[2] = Cell(16, p.target) /\ ws[3] = Cell(2, p.version)
      /\ ws[4] = Cell(1, p.channel)
  BY <1>3
<1> HIDE DEF head, S, rest, ws
<1>5. /\ E[0] = 0 /\ \A i \in 1..Len(ws) : E[i] = E[i - 1] + ws[i].w
      /\ \A i \in 1..Len(ws) : ReadAt(ws, E[i - 1], ws[i].w) = ws[i].v
  BY <1>3, EndsAre, ReadIs
<1>6. Width(ws) \in Nat /\ \A i \in 0..Len(ws) : E[i] <= Width(ws)
  BY <1>3, EndsWithin
<1>7. \A i \in 1..4 : i \in 1..Len(ws)
  BY <1>3
<1> HIDE DEF E
<1>r1. E[1] = 16 /\ ReadAt(ws, 0, 16) = p.source
  <2>1. 1 \in 1..Len(ws) /\ E[1 - 1] = 0 /\ ws[1].w = 16 /\ ws[1].v = p.source
    BY <1>4, <1>5, <1>7 DEF Cell
  <2> QED BY <1>5, <2>1
<1>r2. E[2] = 32 /\ ReadAt(ws, 16, 16) = p.target
  <2>1. 2 \in 1..Len(ws) /\ E[2 - 1] = 16 /\ ws[2].w = 16 /\ ws[2].v = p.target
    BY <1>4, <1>r1, <1>7 DEF Cell
  <2> QED BY <1>5, <2>1
<1>r3. E[3] = 34 /\ ReadAt(ws, 32, 2) = p.version
  <2>1. 3 \in 1..Len(ws) /\ E[3 - 1] = 32 /\ ws[3].w = 2 /\ ws[3].v = p.version
    BY <1>4, <1>r2, <1>7 DEF Cell
  <2> QED BY <1>5, <2>1
<1>r4. E[4] = 35 /\ ReadAt(ws, 34, 1) = p.channel
  <2>1. 4 \in 1..Len(ws) /\ E[4 - 1] = 34 /\ ws[4].w = 1 /\ ws[4].v = p.channel
    BY <1>4, <1>r3, <1>7 DEF Cell
  <2> QED BY <1>5, <2>1
<1>8. EncodedInput(p) = ws
  BY DEF EncodedInput, ws, head, rest
<1>9. DecodedEvent(From(ws, 35)) = p.event
  <2>1. IsWire(From(ws, 35)) /\ Lies(From(ws, 35), 0, rest)
    BY <1>2, <1>3, <1>r4, RestIs DEF E
  <2> QED BY <1>2, <2>1, EventIsDecoded DEF rest
<1>10. ~ (Width(ws) < 36)
  <2>1. 5 \in 1..Len(ws) /\ ws[5] = rest[1]
    BY <1>2, <1>3 DEF Lies
  <2>2. E[5] = 36
    BY <1>2, <1>5, <1>r4, <2>1
  <2> QED BY <1>3, <1>6, <2>1, <2>2
<1>11. ~ IsFailed(p.event)
  BY <1>2 DEF IsEvent, IsFailed
<1>12. p = [kind |-> "input", source |-> p.source, target |-> p.target, version |-> p.version,
            channel |-> p.channel, event |-> p.event]
  BY DEF IsInput
<1>13. DecodedInput(ws) = Envelope(p.source, p.target, p.version, p.channel, p.event)
  BY <1>9, <1>10, <1>r1, <1>r2, <1>r3, <1>r4 DEF DecodedInput
<1> QED BY <1>3, <1>8, <1>11, <1>12, <1>13 DEF Envelope

LEMMA TextIsDecoded ==
  ASSUME NEW p, IsText(p.text), p = PlainClip(p.source, p.version, p.text)
  PROVE  IsWire(EncodedText(p)) /\ DecodedText(EncodedText(p)) = p
<1> DEFINE head == <<Cell(16, p.source), Cell(8, p.version), Cell(8, "hash")>>
           S == {Cell(16, p.source), Cell(8, p.version), Cell(8, "hash")}
           rest == Bytes(p.text)
           ws == head \o rest
           E == Ends(ws)
<1>1. head \in Seq(S) /\ Len(head) = 3 /\ \A c \in S : c.w \in Nat \ {0}
  <2>1. \A c \in S : c.w \in Nat \ {0}
    BY DEF Cell
  <2> QED BY <2>1
<1>2. IsWire(rest) /\ Len(rest) = Len(p.text)
  BY BytesAre
<1>3. /\ IsWire(ws) /\ Len(ws) = 3 + Len(rest) /\ Lies(ws, 3, rest) /\ Len(rest) \in Nat
      /\ \A i \in 1..3 : ws[i] = head[i]
  <2> HIDE DEF head, S, rest
  <2>1. /\ IsWire(ws) /\ Len(ws) = Len(head) + Len(rest) /\ Lies(ws, Len(head), rest)
        /\ \A i \in 1..Len(head) : ws[i] = head[i]
    BY <1>1, <1>2, HeadJoin
  <2>2. Len(rest) \in Nat
    BY <1>2 DEF IsWire
  <2> HIDE DEF ws
  <2> QED BY <1>1, <2>1, <2>2
<1>4. /\ ws[1] = Cell(16, p.source) /\ ws[2] = Cell(8, p.version) /\ ws[3] = Cell(8, "hash")
  BY <1>3
<1> HIDE DEF head, S, rest, ws
<1>5. /\ E[0] = 0 /\ \A i \in 1..Len(ws) : E[i] = E[i - 1] + ws[i].w
      /\ \A i \in 1..Len(ws) : ReadAt(ws, E[i - 1], ws[i].w) = ws[i].v
  BY <1>3, EndsAre, ReadIs
<1>6. Width(ws) \in Nat /\ \A i \in 0..Len(ws) : E[i] <= Width(ws)
  BY <1>3, EndsWithin
<1>7. \A i \in 1..3 : i \in 1..Len(ws)
  BY <1>3
<1> HIDE DEF E
<1>r1. E[1] = 16 /\ ReadAt(ws, 0, 16) = p.source
  <2>1. 1 \in 1..Len(ws) /\ E[1 - 1] = 0 /\ ws[1].w = 16 /\ ws[1].v = p.source
    BY <1>4, <1>5, <1>7 DEF Cell
  <2> QED BY <1>5, <2>1
<1>r2. E[2] = 24 /\ ReadAt(ws, 16, 8) = p.version
  <2>1. 2 \in 1..Len(ws) /\ E[2 - 1] = 16 /\ ws[2].w = 8 /\ ws[2].v = p.version
    BY <1>4, <1>r1, <1>7 DEF Cell
  <2> QED BY <1>5, <2>1
<1>r3. E[3] = 32 /\ ReadAt(ws, 24, 8) = "hash"
  <2>1. 3 \in 1..Len(ws) /\ E[3 - 1] = 24 /\ ws[3].w = 8 /\ ws[3].v = "hash"
    BY <1>4, <1>r2, <1>7 DEF Cell
  <2> QED BY <1>5, <2>1
<1>8. EncodedText(p) = ws
  BY DEF EncodedText, ws, head, rest
<1>9. E[3 + Len(p.text)] = 32 + Len(p.text) /\ TextAt(ws, 32, 32 + Len(p.text)) = p.text
  BY <1>3, <1>r3, TextIs DEF E, rest
<1>10. Width(ws) = 32 + Len(p.text)
  BY <1>2, <1>3, <1>9 DEF Width, E
<1>11. ~ (Width(ws) < 32)
  BY <1>2, <1>3, <1>10
<1>12. DecodedText(ws) = PlainClip(p.source, p.version, p.text)
  BY <1>9, <1>10, <1>11, <1>r1, <1>r2 DEF DecodedText
<1> QED BY <1>3, <1>8, <1>12

LEMMA ChunkIsDecoded ==
  ASSUME NEW p, IsChunk(p)
  PROVE  IsWire(EncodedChunk(p)) /\ DecodedChunk(EncodedChunk(p)) = p
<1> DEFINE head == <<Cell(16, p.transfer), Cell(16, p.source), Cell(4, p.file),
                     Cell(8, p.offset), Cell(8, p.total), Cell(4, p.index), Cell(1, p.final)>>
           S == {Cell(16, p.transfer), Cell(16, p.source), Cell(4, p.file), Cell(8, p.offset),
                 Cell(8, p.total), Cell(4, p.index), Cell(1, p.final)}
           rest == Bytes(p.data)
           ws == head \o rest
           E == Ends(ws)
<1>1. head \in Seq(S) /\ Len(head) = 7 /\ \A c \in S : c.w \in Nat \ {0}
  <2>1. \A c \in S : c.w \in Nat \ {0}
    BY DEF Cell
  <2> QED BY <2>1
<1>2. IsWire(rest) /\ Len(rest) = Len(p.data) /\ IsText(p.data)
  BY BytesAre DEF IsChunk
<1>3. /\ IsWire(ws) /\ Len(ws) = 7 + Len(rest) /\ Lies(ws, 7, rest) /\ Len(rest) \in Nat
      /\ \A i \in 1..7 : ws[i] = head[i]
  <2> HIDE DEF head, S, rest
  <2>1. /\ IsWire(ws) /\ Len(ws) = Len(head) + Len(rest) /\ Lies(ws, Len(head), rest)
        /\ \A i \in 1..Len(head) : ws[i] = head[i]
    BY <1>1, <1>2, HeadJoin
  <2>2. Len(rest) \in Nat
    BY <1>2 DEF IsWire
  <2> HIDE DEF ws
  <2> QED BY <1>1, <2>1, <2>2
<1>4. /\ ws[1] = Cell(16, p.transfer) /\ ws[2] = Cell(16, p.source) /\ ws[3] = Cell(4, p.file)
      /\ ws[4] = Cell(8, p.offset) /\ ws[5] = Cell(8, p.total) /\ ws[6] = Cell(4, p.index)
      /\ ws[7] = Cell(1, p.final)
  BY <1>3
<1> HIDE DEF head, S, rest, ws
<1>5. /\ E[0] = 0 /\ \A i \in 1..Len(ws) : E[i] = E[i - 1] + ws[i].w
      /\ \A i \in 1..Len(ws) : ReadAt(ws, E[i - 1], ws[i].w) = ws[i].v
  BY <1>3, EndsAre, ReadIs
<1>6. Width(ws) \in Nat /\ \A i \in 0..Len(ws) : E[i] <= Width(ws)
  BY <1>3, EndsWithin
<1>7. \A i \in 1..7 : i \in 1..Len(ws)
  BY <1>3
<1> HIDE DEF E
<1>r1. E[1] = 16 /\ ReadAt(ws, 0, 16) = p.transfer
  <2>1. 1 \in 1..Len(ws) /\ E[1 - 1] = 0 /\ ws[1].w = 16 /\ ws[1].v = p.transfer
    BY <1>4, <1>5, <1>7 DEF Cell
  <2> QED BY <1>5, <2>1
<1>r2. E[2] = 32 /\ ReadAt(ws, 16, 16) = p.source
  <2>1. 2 \in 1..Len(ws) /\ E[2 - 1] = 16 /\ ws[2].w = 16 /\ ws[2].v = p.source
    BY <1>4, <1>r1, <1>7 DEF Cell
  <2> QED BY <1>5, <2>1
<1>r3. E[3] = 36 /\ ReadAt(ws, 32, 4) = p.file
  <2>1. 3 \in 1..Len(ws) /\ E[3 - 1] = 32 /\ ws[3].w = 4 /\ ws[3].v = p.file
    BY <1>4, <1>r2, <1>7 DEF Cell
  <2> QED BY <1>5, <2>1
<1>r4. E[4] = 44 /\ ReadAt(ws, 36, 8) = p.offset
  <2>1. 4 \in 1..Len(ws) /\ E[4 - 1] = 36 /\ ws[4].w = 8 /\ ws[4].v = p.offset
    BY <1>4, <1>r3, <1>7 DEF Cell
  <2> QED BY <1>5, <2>1
<1>r5. E[5] = 52 /\ ReadAt(ws, 44, 8) = p.total
  <2>1. 5 \in 1..Len(ws) /\ E[5 - 1] = 44 /\ ws[5].w = 8 /\ ws[5].v = p.total
    BY <1>4, <1>r4, <1>7 DEF Cell
  <2> QED BY <1>5, <2>1
<1>r6. E[6] = 56 /\ ReadAt(ws, 52, 4) = p.index
  <2>1. 6 \in 1..Len(ws) /\ E[6 - 1] = 52 /\ ws[6].w = 4 /\ ws[6].v = p.index
    BY <1>4, <1>r5, <1>7 DEF Cell
  <2> QED BY <1>5, <2>1
<1>r7. E[7] = 57 /\ ReadAt(ws, 56, 1) = p.final
  <2>1. 7 \in 1..Len(ws) /\ E[7 - 1] = 56 /\ ws[7].w = 1 /\ ws[7].v = p.final
    BY <1>4, <1>r6, <1>7 DEF Cell
  <2> QED BY <1>5, <2>1
<1>8. EncodedChunk(p) = ws
  BY DEF EncodedChunk, ws, head, rest
<1>9. E[7 + Len(p.data)] = 57 + Len(p.data) /\ TextAt(ws, 57, 57 + Len(p.data)) = p.data
  BY <1>2, <1>3, <1>r7, TextIs DEF E, rest
<1>10. Width(ws) = 57 + Len(p.data)
  BY <1>2, <1>3, <1>9 DEF Width, E
<1>11. ~ (Width(ws) < 57)
  BY <1>2, <1>3, <1>10
<1>12. DecodedChunk(ws) =
         [kind |-> "chunk", transfer |-> p.transfer, source |-> p.source, file |-> p.file,
          offset |-> p.offset, total |-> p.total, index |-> p.index, final |-> p.final,
          data |-> p.data]
  BY <1>9, <1>10, <1>11, <1>r1, <1>r2, <1>r3, <1>r4, <1>r5, <1>r6, <1>r7 DEF DecodedChunk
<1> QED BY <1>3, <1>8, <1>12 DEF IsChunk

(* What lies in a part lies in the whole.                                  *)
LEMMA LiesWithin ==
  ASSUME NEW ws, NEW a, NEW b, NEW i \in Nat, NEW j \in Nat, Len(b) \in Nat, Len(a) \in Nat,
         Len(ws) \in Nat, Lies(ws, i, a), Lies(a, j, b)
  PROVE  Lies(ws, i + j, b)
<1>1. i + Len(a) <= Len(ws) /\ \A k \in 1..Len(a) : ws[i + k] = a[k]
  BY DEF Lies
<1>2. j + Len(b) <= Len(a) /\ \A k \in 1..Len(b) : a[j + k] = b[k]
  BY DEF Lies
<1>3. ASSUME NEW k \in 1..Len(b) PROVE ws[(i + j) + k] = b[k]
  <2>1. j + k \in 1..Len(a) /\ (i + j) + k = i + (j + k)
    BY <1>2
  <2> QED BY <1>1, <1>2, <2>1
<1>4. (i + j) + Len(b) <= Len(ws)
  BY <1>1, <1>2
<1> QED BY <1>3, <1>4 DEF Lies

LEMMA ContentBytesAre ==
  ASSUME NEW text, NEW html, NEW image, IsText(text), IsText(html), IsWire(image)
  PROVE  LET all == (Bytes(text) \o Bytes(html)) \o image
         IN  /\ IsWire(all) /\ Len(all) = (Len(text) + Len(html)) + Len(image)
             /\ Lies(all, 0, Bytes(text)) /\ Lies(all, Len(text), Bytes(html))
             /\ Lies(all, Len(text) + Len(html), image)
<1> DEFINE t == Bytes(text)
           h == Bytes(html)
           texts == t \o h
           all == texts \o image
<1>1. /\ IsWire(t) /\ Len(t) = Len(text) /\ IsWire(h) /\ Len(h) = Len(html)
      /\ Len(text) \in Nat /\ Len(html) \in Nat /\ Len(image) \in Nat
  BY BytesAre DEF IsText, IsWire
<1> HIDE DEF t, h
<1>2. /\ IsWire(texts) /\ Len(texts) = Len(text) + Len(html)
      /\ Lies(texts, 0, t) /\ Lies(texts, Len(text), h)
  BY <1>1, JoinIs
<1> HIDE DEF texts
<1>3. /\ IsWire(all) /\ Len(all) = Len(texts) + Len(image)
      /\ Lies(all, 0, texts) /\ Lies(all, Len(texts), image)
  BY <1>1, <1>2, JoinIs
<1> HIDE DEF all
<1>4. Len(all) \in Nat /\ Len(texts) \in Nat /\ Len(t) \in Nat /\ Len(h) \in Nat
  BY <1>1, <1>2, <1>3
<1>5. Lies(all, 0 + 0, t) /\ Lies(all, 0 + Len(text), h)
  BY <1>1, <1>2, <1>3, <1>4, LiesWithin
<1>6. 0 + 0 = 0 /\ 0 + Len(text) = Len(text)
  BY <1>1
<1> QED BY <1>1, <1>2, <1>3, <1>5, <1>6 DEF all, texts, t, h

(* The texts of a content frame, of whatever format.                       *)
LEMMA ContentIsDecoded ==
  ASSUME NEW p, p.format # "image", IsText(p.text), IsText(HtmlOf(p))
  PROVE  /\ IsWire(EncodedContent(p))
         /\ DecodedContent(EncodedContent(p)) =
              FromParts(p.source, p.version, p.format, p.text, HtmlOf(p))
<1> DEFINE none == <<>>
           head == <<Cell(16, p.source), Cell(8, p.version), Cell(8, "hash"),
                     Cell(1, p.format), Cell(4, Len(p.text)), Cell(4, Len(HtmlOf(p)))>>
           S == {Cell(16, p.source), Cell(8, p.version), Cell(8, "hash"), Cell(1, p.format),
                 Cell(4, Len(p.text)), Cell(4, Len(HtmlOf(p)))}
           rest == (Bytes(p.text) \o Bytes(HtmlOf(p))) \o none
           ws == head \o rest
           E == Ends(ws)
<1>1. head \in Seq(S) /\ Len(head) = 6 /\ \A c \in S : c.w \in Nat \ {0}
  <2>1. \A c \in S : c.w \in Nat \ {0}
    BY DEF Cell
  <2> QED BY <2>1
<1>n. IsWire(none) /\ Len(none) = 0
  <2> DEFINE T == {}
  <2>1. none \in Seq(T) /\ Len(none) = 0 /\ \A c \in T : c.w \in Nat \ {0}
    OBVIOUS
  <2> HIDE DEF none, T
  <2> QED BY <2>1, CellsAreWire
<1> HIDE DEF none
<1>2. /\ IsWire(rest) /\ Len(rest) = (Len(p.text) + Len(HtmlOf(p))) + Len(none)
      /\ Lies(rest, 0, Bytes(p.text)) /\ Lies(rest, Len(p.text), Bytes(HtmlOf(p)))
  <2> DEFINE html == HtmlOf(p)
             text == p.text
  <2>1. IsText(text) /\ IsText(html)
    OBVIOUS
  <2> HIDE DEF html, text
  <2>2. \A x, y, z : IsText(x) /\ IsText(y) /\ IsWire(z) =>
          /\ IsWire((Bytes(x) \o Bytes(y)) \o z)
          /\ Len((Bytes(x) \o Bytes(y)) \o z) = (Len(x) + Len(y)) + Len(z)
          /\ Lies((Bytes(x) \o Bytes(y)) \o z, 0, Bytes(x))
          /\ Lies((Bytes(x) \o Bytes(y)) \o z, Len(x), Bytes(y))
    BY ContentBytesAre
  <2>3. /\ IsWire((Bytes(text) \o Bytes(html)) \o none)
        /\ Len((Bytes(text) \o Bytes(html)) \o none) = (Len(text) + Len(html)) + Len(none)
        /\ Lies((Bytes(text) \o Bytes(html)) \o none, 0, Bytes(text))
        /\ Lies((Bytes(text) \o Bytes(html)) \o none, Len(text), Bytes(html))
    BY <1>n, <2>1, <2>2
  <2> QED BY <2>3 DEF text, html
<1>l. Len(p.text) \in Nat /\ Len(HtmlOf(p)) \in Nat
  BY DEF IsText
<1>m. Len(Bytes(p.text)) = Len(p.text) /\ Len(Bytes(HtmlOf(p))) = Len(HtmlOf(p))
  BY BytesAre
<1>3. /\ IsWire(ws) /\ Len(ws) = 6 + Len(rest) /\ Lies(ws, 6, rest) /\ Len(rest) \in Nat
      /\ \A i \in 1..6 : ws[i] = head[i]
  <2> HIDE DEF head, S, rest
  <2>1. /\ IsWire(ws) /\ Len(ws) = Len(head) + Len(rest) /\ Lies(ws, Len(head), rest)
        /\ \A i \in 1..Len(head) : ws[i] = head[i]
    BY <1>1, <1>2, HeadJoin
  <2>2. Len(rest) \in Nat
    BY <1>2 DEF IsWire
  <2> HIDE DEF ws
  <2> QED BY <1>1, <2>1, <2>2
<1>4. /\ ws[1] = Cell(16, p.source) /\ ws[2] = Cell(8, p.version) /\ ws[3] = Cell(8, "hash")
      /\ ws[4] = Cell(1, p.format) /\ ws[5] = Cell(4, Len(p.text))
      /\ ws[6] = Cell(4, Len(HtmlOf(p)))
  BY <1>3
<1> HIDE DEF head, S, rest, ws
<1>5. /\ E[0] = 0 /\ \A i \in 1..Len(ws) : E[i] = E[i - 1] + ws[i].w
      /\ \A i \in 1..Len(ws) : ReadAt(ws, E[i - 1], ws[i].w) = ws[i].v
  BY <1>3, EndsAre, ReadIs
<1>6. Width(ws) \in Nat /\ \A i \in 0..Len(ws) : E[i] <= Width(ws)
  BY <1>3, EndsWithin
<1>7. \A i \in 1..6 : i \in 1..Len(ws)
  BY <1>3
<1> HIDE DEF E
<1>r1. E[1] = 16 /\ ReadAt(ws, 0, 16) = p.source
  <2>1. 1 \in 1..Len(ws) /\ E[1 - 1] = 0 /\ ws[1].w = 16 /\ ws[1].v = p.source
    BY <1>4, <1>5, <1>7 DEF Cell
  <2> QED BY <1>5, <2>1
<1>r2. E[2] = 24 /\ ReadAt(ws, 16, 8) = p.version
  <2>1. 2 \in 1..Len(ws) /\ E[2 - 1] = 16 /\ ws[2].w = 8 /\ ws[2].v = p.version
    BY <1>4, <1>r1, <1>7 DEF Cell
  <2> QED BY <1>5, <2>1
<1>r3. E[3] = 32 /\ ReadAt(ws, 24, 8) = "hash"
  <2>1. 3 \in 1..Len(ws) /\ E[3 - 1] = 24 /\ ws[3].w = 8 /\ ws[3].v = "hash"
    BY <1>4, <1>r2, <1>7 DEF Cell
  <2> QED BY <1>5, <2>1
<1>r4. E[4] = 33 /\ ReadAt(ws, 32, 1) = p.format
  <2>1. 4 \in 1..Len(ws) /\ E[4 - 1] = 32 /\ ws[4].w = 1 /\ ws[4].v = p.format
    BY <1>4, <1>r3, <1>7 DEF Cell
  <2> QED BY <1>5, <2>1
<1>r5. E[5] = 37 /\ ReadAt(ws, 33, 4) = Len(p.text)
  <2>1. 5 \in 1..Len(ws) /\ E[5 - 1] = 33 /\ ws[5].w = 4 /\ ws[5].v = Len(p.text)
    BY <1>4, <1>r4, <1>7 DEF Cell
  <2> QED BY <1>5, <2>1
<1>r6. E[6] = 41 /\ ReadAt(ws, 37, 4) = Len(HtmlOf(p))
  <2>1. 6 \in 1..Len(ws) /\ E[6 - 1] = 37 /\ ws[6].w = 4 /\ ws[6].v = Len(HtmlOf(p))
    BY <1>4, <1>r5, <1>7 DEF Cell
  <2> QED BY <1>5, <2>1
<1>8. EncodedContent(p) = ws
  BY DEF EncodedContent, ContentTexts, ws, head, rest, none
<1>9. Lies(ws, 6, Bytes(p.text)) /\ Lies(ws, 6 + Len(p.text), Bytes(HtmlOf(p)))
  <2>1. Len(rest) \in Nat /\ Len(ws) \in Nat
    BY <1>3
  <2>2. Lies(ws, 6 + 0, Bytes(p.text)) /\ Lies(ws, 6 + Len(p.text), Bytes(HtmlOf(p)))
    BY <1>2, <1>3, <1>l, <1>m, <2>1, LiesWithin
  <2> QED BY <2>2
<1>10. E[6 + Len(p.text)] = 41 + Len(p.text) /\ TextAt(ws, 41, 41 + Len(p.text)) = p.text
  <2>1. /\ E[6 + Len(p.text)] = E[6] + Len(p.text)
        /\ TextAt(ws, E[6], E[6] + Len(p.text)) = p.text
    BY <1>3, <1>9, TextIs DEF E
  <2> QED BY <1>r6, <2>1
<1>11. /\ E[(6 + Len(p.text)) + Len(HtmlOf(p))] = (41 + Len(p.text)) + Len(HtmlOf(p))
       /\ TextAt(ws, 41 + Len(p.text), (41 + Len(p.text)) + Len(HtmlOf(p))) = HtmlOf(p)
  <2>1. 6 + Len(p.text) \in Nat
    BY <1>l
  <2>2. LET k == 6 + Len(p.text)
        IN  /\ E[k + Len(HtmlOf(p))] = E[k] + Len(HtmlOf(p))
            /\ TextAt(ws, E[k], E[k] + Len(HtmlOf(p))) = HtmlOf(p)
    BY <1>3, <1>9, <2>1, TextIs DEF E
  <2> QED BY <1>10, <2>2
<1>12. Width(ws) = (41 + Len(p.text)) + Len(HtmlOf(p))
  <2>1. Len(ws) = (6 + Len(p.text)) + Len(HtmlOf(p))
    BY <1>2, <1>3, <1>l, <1>n
  <2> QED BY <1>11, <2>1 DEF Width, E
<1>13. ~ (Width(ws) < 41) /\ ~ (Width(ws) < 41 + Len(p.text) + Len(HtmlOf(p)))
  BY <1>l, <1>12
<1>14. DecodedContent(ws) = FromParts(p.source, p.version, p.format, p.text, HtmlOf(p))
  BY <1>10, <1>11, <1>13, <1>r1, <1>r2, <1>r4, <1>r5, <1>r6 DEF DecodedContent
<1> QED BY <1>3, <1>8, <1>14

(* Four bytes a pixel are more than the two sides together: the test of    *)
(* the lengths of a content frame, made before its format is known, lets   *)
(* an image through.                                                       *)
LEMMA Pixels ==
  ASSUME NEW w \in Nat \ {0}, NEW h \in Nat \ {0}
  PROVE  w + h <= 4 * (w * h)
<1>1. PICK a \in Nat, b \in Nat : w = a + 1 /\ h = b + 1
  <2>1. w - 1 \in Nat /\ h - 1 \in Nat /\ w = (w - 1) + 1 /\ h = (h - 1) + 1
    OBVIOUS
  <2> QED BY <2>1
<1>2. a * b \in Nat /\ w * h = a * b + a + b + 1
  BY <1>1
<1> QED BY <1>1, <1>2

LEMMA ImageIsDecoded ==
  ASSUME NEW p, NEW width \in Nat \ {0}, NEW height \in Nat \ {0}, NEW rgba,
         IsText(rgba), Len(rgba) = 4 * (width * height),
         p = ImageClip(p.source, p.version, width, height, rgba)
  PROVE  IsWire(EncodedContent(p)) /\ DecodedContent(EncodedContent(p)) = p
<1> DEFINE head == <<Cell(16, p.source), Cell(8, p.version), Cell(8, "hash"), Cell(1, "image"),
                     Cell(4, width), Cell(4, height)>>
           S == {Cell(16, p.source), Cell(8, p.version), Cell(8, "hash"), Cell(1, "image"),
                 Cell(4, width), Cell(4, height)}
           rest == (Bytes(<<>>) \o Bytes(<<>>)) \o Bytes(rgba)
           ws == head \o rest
           E == Ends(ws)
<1>1. head \in Seq(S) /\ Len(head) = 6 /\ \A c \in S : c.w \in Nat \ {0}
  <2>1. \A c \in S : c.w \in Nat \ {0}
    BY DEF Cell
  <2> QED BY <2>1
<1>p. /\ p.format = "image" /\ p.text = <<>> /\ p.html = <<>> /\ p.image[1].width = width
      /\ p.image[1].height = height /\ p.image[1].rgba = rgba
  BY DEF ImageClip, Clip
<1>n. IsText(<<>>) /\ Len(<<>>) = 0
  BY DEF IsText
<1>b. IsWire(Bytes(rgba)) /\ Len(Bytes(rgba)) = Len(rgba) /\ Len(rgba) \in Nat
  BY BytesAre DEF IsText
<1>2. /\ IsWire(rest) /\ Len(rest) = (Len(<<>>) + Len(<<>>)) + Len(Bytes(rgba))
      /\ Lies(rest, Len(<<>>) + Len(<<>>), Bytes(rgba))
  BY <1>n, <1>b, ContentBytesAre
<1>3. /\ IsWire(ws) /\ Len(ws) = 6 + Len(rest) /\ Lies(ws, 6, rest) /\ Len(rest) \in Nat
      /\ \A i \in 1..6 : ws[i] = head[i]
  <2> HIDE DEF head, S, rest
  <2>1. /\ IsWire(ws) /\ Len(ws) = Len(head) + Len(rest) /\ Lies(ws, Len(head), rest)
        /\ \A i \in 1..Len(head) : ws[i] = head[i]
    BY <1>1, <1>2, HeadJoin
  <2>2. Len(rest) \in Nat
    BY <1>2 DEF IsWire
  <2> HIDE DEF ws
  <2> QED BY <1>1, <2>1, <2>2
<1>4. /\ ws[1] = Cell(16, p.source) /\ ws[2] = Cell(8, p.version) /\ ws[3] = Cell(8, "hash")
      /\ ws[4] = Cell(1, "image") /\ ws[5] = Cell(4, width) /\ ws[6] = Cell(4, height)
  BY <1>3
<1> HIDE DEF head, S, rest, ws
<1>5. /\ E[0] = 0 /\ \A i \in 1..Len(ws) : E[i] = E[i - 1] + ws[i].w
      /\ \A i \in 1..Len(ws) : ReadAt(ws, E[i - 1], ws[i].w) = ws[i].v
  BY <1>3, EndsAre, ReadIs
<1>6. Width(ws) \in Nat /\ \A i \in 0..Len(ws) : E[i] <= Width(ws)
  BY <1>3, EndsWithin
<1>7. \A i \in 1..6 : i \in 1..Len(ws)
  BY <1>3
<1> HIDE DEF E
<1>r1. E[1] = 16 /\ ReadAt(ws, 0, 16) = p.source
  <2>1. 1 \in 1..Len(ws) /\ E[1 - 1] = 0 /\ ws[1].w = 16 /\ ws[1].v = p.source
    BY <1>4, <1>5, <1>7 DEF Cell
  <2> QED BY <1>5, <2>1
<1>r2. E[2] = 24 /\ ReadAt(ws, 16, 8) = p.version
  <2>1. 2 \in 1..Len(ws) /\ E[2 - 1] = 16 /\ ws[2].w = 8 /\ ws[2].v = p.version
    BY <1>4, <1>r1, <1>7 DEF Cell
  <2> QED BY <1>5, <2>1
<1>r3. E[3] = 32 /\ ReadAt(ws, 24, 8) = "hash"
  <2>1. 3 \in 1..Len(ws) /\ E[3 - 1] = 24 /\ ws[3].w = 8 /\ ws[3].v = "hash"
    BY <1>4, <1>r2, <1>7 DEF Cell
  <2> QED BY <1>5, <2>1
<1>r4. E[4] = 33 /\ ReadAt(ws, 32, 1) = "image"
  <2>1. 4 \in 1..Len(ws) /\ E[4 - 1] = 32 /\ ws[4].w = 1 /\ ws[4].v = "image"
    BY <1>4, <1>r3, <1>7 DEF Cell
  <2> QED BY <1>5, <2>1
<1>r5. E[5] = 37 /\ ReadAt(ws, 33, 4) = width
  <2>1. 5 \in 1..Len(ws) /\ E[5 - 1] = 33 /\ ws[5].w = 4 /\ ws[5].v = width
    BY <1>4, <1>r4, <1>7 DEF Cell
  <2> QED BY <1>5, <2>1
<1>r6. E[6] = 41 /\ ReadAt(ws, 37, 4) = height
  <2>1. 6 \in 1..Len(ws) /\ E[6 - 1] = 37 /\ ws[6].w = 4 /\ ws[6].v = height
    BY <1>4, <1>r5, <1>7 DEF Cell
  <2> QED BY <1>5, <2>1
<1>8. EncodedContent(p) = ws
  BY <1>p DEF EncodedContent, ContentTexts, HtmlOf, ws, head, rest
<1>9. Lies(ws, 6, Bytes(rgba))
  <2>1. Len(rest) \in Nat /\ Len(ws) \in Nat /\ Len(<<>>) + Len(<<>>) = 0 /\ 6 + 0 = 6
    BY <1>3, <1>n
  <2>2. Lies(rest, 0, Bytes(rgba))
    BY <1>2, <2>1
  <2>3. Lies(ws, 6 + 0, Bytes(rgba))
    BY <1>3, <1>b, <2>1, <2>2, LiesWithin
  <2> QED BY <2>1, <2>3
<1>10. E[6 + Len(rgba)] = 41 + Len(rgba) /\ TextAt(ws, 41, 41 + Len(rgba)) = rgba
  <2> DEFINE n == Len(rgba)
  <2>0. \A q \in Nat : Lies(ws, q, Bytes(rgba)) =>
          E[q + n] = E[q] + n /\ TextAt(ws, E[q], E[q] + n) = rgba
    BY <1>3, TextIs DEF E
  <2> HIDE DEF n, E
  <2>1. E[6 + n] = E[6] + n /\ TextAt(ws, E[6], E[6] + n) = rgba
    BY <1>9, <2>0
  <2> QED BY <1>r6, <2>1 DEF n
<1>12. Width(ws) = 41 + Len(rgba)
  <2>1. Len(ws) = 6 + Len(rgba)
    BY <1>2, <1>3, <1>b, <1>n
  <2> QED BY <1>10, <2>1 DEF Width, E
<1>13. ~ (Width(ws) < 41) /\ ~ (Width(ws) < 41 + width + height)
  <2>1. width + height <= 4 * (width * height)
    BY Pixels
  <2> DEFINE k == Len(rgba)
  <2>2. width + height <= k /\ k \in Nat /\ Width(ws) = 41 + k
    BY <1>12, <1>b, <2>1
  <2> HIDE DEF k
  <2> QED BY <2>2
<1>14. DecodedContent(ws) = ImageClip(p.source, p.version, width, height, rgba)
  BY <1>10, <1>12, <1>13, <1>r1, <1>r2, <1>r4, <1>r5, <1>r6 DEF DecodedContent
<1> QED BY <1>3, <1>8, <1>14

LEMMA ControlBodyIsWire ==
  ASSUME NEW p, p.message \in {"heartbeat", "capabilities", "config_version", "session_state"}
  PROVE  IsWire(ControlBody(p))
<1>1. CASE p.message = "heartbeat"
  <2> DEFINE S == {Cell(16, p.session), Cell(8, p.sequence)}
  <2>1. ControlBody(p) \in Seq(S)
    BY <1>1 DEF ControlBody
  <2>2. \A c \in S : c.w \in Nat \ {0}
    BY DEF Cell
  <2> HIDE DEF S
  <2> QED BY <2>1, <2>2, CellsAreWire
<1>2. CASE p.message = "capabilities"
  <2> DEFINE S == {Cell(2, p.min), Cell(2, p.max), Cell(1, p.channels)}
  <2>1. ControlBody(p) \in Seq(S)
    BY <1>2 DEF ControlBody
  <2>2. \A c \in S : c.w \in Nat \ {0}
    BY DEF Cell
  <2> HIDE DEF S
  <2> QED BY <2>1, <2>2, CellsAreWire
<1>3. CASE p.message = "config_version"
  <2> DEFINE S == {Cell(8, p.version)}
  <2>1. ControlBody(p) \in Seq(S)
    BY <1>3 DEF ControlBody
  <2>2. \A c \in S : c.w \in Nat \ {0}
    BY DEF Cell
  <2> HIDE DEF S
  <2> QED BY <2>1, <2>2, CellsAreWire
<1>4. CASE p.message = "session_state"
  <2> DEFINE S == {Cell(16, p.session), Cell(1, p.state)}
  <2>1. ControlBody(p) \in Seq(S)
    BY <1>4 DEF ControlBody
  <2>2. \A c \in S : c.w \in Nat \ {0}
    BY DEF Cell
  <2> HIDE DEF S
  <2> QED BY <2>1, <2>2, CellsAreWire
<1> QED BY <1>1, <1>2, <1>3, <1>4

LEMMA ControlIsDecoded ==
  ASSUME NEW p, IsControl(p)
  PROVE  IsWire(EncodedControl(p)) /\ DecodedControl(EncodedControl(p)) = p
<1> DEFINE head == <<Cell(1, p.message), Cell(16, p.source)>>
           S == {Cell(1, p.message), Cell(16, p.source)}
           rest == ControlBody(p)
           ws == head \o rest
           E == Ends(ws)
<1>1. head \in Seq(S) /\ Len(head) = 2 /\ \A c \in S : c.w \in Nat \ {0}
  <2>1. \A c \in S : c.w \in Nat \ {0}
    BY DEF Cell
  <2> QED BY <2>1
<1>2. IsWire(rest)
  BY ControlBodyIsWire DEF IsControl
<1>3. /\ IsWire(ws) /\ Len(ws) = 2 + Len(rest) /\ Lies(ws, 2, rest) /\ Len(rest) \in Nat
      /\ \A i \in 1..2 : ws[i] = head[i]
  <2> HIDE DEF head, S, rest
  <2>1. /\ IsWire(ws) /\ Len(ws) = Len(head) + Len(rest) /\ Lies(ws, Len(head), rest)
        /\ \A i \in 1..Len(head) : ws[i] = head[i]
    BY <1>1, <1>2, HeadJoin
  <2>2. Len(rest) \in Nat
    BY <1>2 DEF IsWire
  <2> HIDE DEF ws
  <2> QED BY <1>1, <2>1, <2>2
<1>4. /\ ws[1] = Cell(1, p.message) /\ ws[2] = Cell(16, p.source)
  BY <1>3
<1> HIDE DEF head, S, rest, ws
<1>5. /\ E[0] = 0 /\ \A i \in 1..Len(ws) : E[i] = E[i - 1] + ws[i].w
      /\ \A i \in 1..Len(ws) : ReadAt(ws, E[i - 1], ws[i].w) = ws[i].v
  BY <1>3, EndsAre, ReadIs
<1>6. Width(ws) \in Nat /\ \A i \in 0..Len(ws) : E[i] <= Width(ws)
  BY <1>3, EndsWithin
<1>7. \A i \in 1..2 : i \in 1..Len(ws)
  BY <1>3
<1> HIDE DEF E
<1>r1. E[1] = 1 /\ ReadAt(ws, 0, 1) = p.message
  <2>1. 1 \in 1..Len(ws) /\ E[1 - 1] = 0 /\ ws[1].w = 1 /\ ws[1].v = p.message
    BY <1>4, <1>5, <1>7 DEF Cell
  <2> QED BY <1>5, <2>1
<1>r2. E[2] = 17 /\ ReadAt(ws, 1, 16) = p.source
  <2>1. 2 \in 1..Len(ws) /\ E[2 - 1] = 1 /\ ws[2].w = 16 /\ ws[2].v = p.source
    BY <1>4, <1>r1, <1>7 DEF Cell
  <2> QED BY <1>5, <2>1
<1>8. EncodedControl(p) = ws
  BY DEF EncodedControl, ws, head, rest
<1>9. Len(ws) \in Nat /\ \A i \in 1..Len(rest) : ws[2 + i] = rest[i]
  BY <1>3 DEF Lies
<1>c1. CASE p.message = "heartbeat"
  <2>1. rest = <<Cell(16, p.session), Cell(8, p.sequence)>>
    BY <1>c1 DEF rest, ControlBody
  <2>2. Len(rest) = 2 /\ rest[1] = Cell(16, p.session) /\ rest[2] = Cell(8, p.sequence)
    BY <2>1
  <2>3. Len(ws) = 4 /\ ws[3] = Cell(16, p.session) /\ ws[4] = Cell(8, p.sequence)
    BY <1>3, <1>9, <2>2
  <2>r3. E[3] = 33 /\ ReadAt(ws, 17, 16) = p.session
    <3>1. 3 \in 1..Len(ws) /\ E[3 - 1] = 17 /\ ws[3].w = 16 /\ ws[3].v = p.session
      BY <2>3, <1>r2 DEF Cell
    <3> QED BY <1>5, <3>1
  <2>r4. E[4] = 41 /\ ReadAt(ws, 33, 8) = p.sequence
    <3>1. 4 \in 1..Len(ws) /\ E[4 - 1] = 33 /\ ws[4].w = 8 /\ ws[4].v = p.sequence
      BY <2>3, <2>r3 DEF Cell
    <3> QED BY <1>5, <3>1
  <2>4. Width(ws) = 41
    BY <2>3, <2>r4 DEF Width, E
  <2>5. ControlLength(p.message) = 41
    BY <1>c1 DEF ControlLength
  <2>6. DecodedControl(ws) = [kind |-> "control", message |-> "heartbeat", source |-> p.source,
                              session |-> p.session, sequence |-> p.sequence]
    BY <1>c1, <1>r1, <1>r2, <2>r3, <2>r4, <2>4, <2>5 DEF DecodedControl
  <2>7. p = [kind |-> "control", message |-> "heartbeat", source |-> p.source,
             session |-> p.session, sequence |-> p.sequence]
    BY <1>c1 DEF IsControl
  <2> QED BY <1>3, <1>8, <2>6, <2>7
<1>c2. CASE p.message = "capabilities"
  <2>1. rest = <<Cell(2, p.min), Cell(2, p.max), Cell(1, p.channels)>>
    BY <1>c2 DEF rest, ControlBody
  <2>2. Len(rest) = 3 /\ rest[1] = Cell(2, p.min) /\ rest[2] = Cell(2, p.max)
        /\ rest[3] = Cell(1, p.channels)
    BY <2>1
  <2>3. Len(ws) = 5 /\ ws[3] = Cell(2, p.min) /\ ws[4] = Cell(2, p.max)
        /\ ws[5] = Cell(1, p.channels)
    BY <1>3, <1>9, <2>2
  <2>r3. E[3] = 19 /\ ReadAt(ws, 17, 2) = p.min
    <3>1. 3 \in 1..Len(ws) /\ E[3 - 1] = 17 /\ ws[3].w = 2 /\ ws[3].v = p.min
      BY <2>3, <1>r2 DEF Cell
    <3> QED BY <1>5, <3>1
  <2>r4. E[4] = 21 /\ ReadAt(ws, 19, 2) = p.max
    <3>1. 4 \in 1..Len(ws) /\ E[4 - 1] = 19 /\ ws[4].w = 2 /\ ws[4].v = p.max
      BY <2>3, <2>r3 DEF Cell
    <3> QED BY <1>5, <3>1
  <2>r5. E[5] = 22 /\ ReadAt(ws, 21, 1) = p.channels
    <3>1. 5 \in 1..Len(ws) /\ E[5 - 1] = 21 /\ ws[5].w = 1 /\ ws[5].v = p.channels
      BY <2>3, <2>r4 DEF Cell
    <3> QED BY <1>5, <3>1
  <2>4. Width(ws) = 22
    BY <2>3, <2>r5 DEF Width, E
  <2>5. ControlLength(p.message) = 22
    BY <1>c2 DEF ControlLength
  <2>6. DecodedControl(ws) = [kind |-> "control", message |-> "capabilities", source |-> p.source,
                              min |-> p.min, max |-> p.max, channels |-> p.channels]
    BY <1>c2, <1>r1, <1>r2, <2>r3, <2>r4, <2>r5, <2>4, <2>5 DEF DecodedControl
  <2>7. p = [kind |-> "control", message |-> "capabilities", source |-> p.source,
             min |-> p.min, max |-> p.max, channels |-> p.channels]
    BY <1>c2 DEF IsControl
  <2> QED BY <1>3, <1>8, <2>6, <2>7
<1>c3. CASE p.message = "config_version"
  <2>1. rest = <<Cell(8, p.version)>>
    BY <1>c3 DEF rest, ControlBody
  <2>2. Len(rest) = 1 /\ rest[1] = Cell(8, p.version)
    BY <2>1
  <2>3. Len(ws) = 3 /\ ws[3] = Cell(8, p.version)
    BY <1>3, <1>9, <2>2
  <2>r3. E[3] = 25 /\ ReadAt(ws, 17, 8) = p.version
    <3>1. 3 \in 1..Len(ws) /\ E[3 - 1] = 17 /\ ws[3].w = 8 /\ ws[3].v = p.version
      BY <2>3, <1>r2 DEF Cell
    <3> QED BY <1>5, <3>1
  <2>4. Width(ws) = 25
    BY <2>3, <2>r3 DEF Width, E
  <2>5. ControlLength(p.message) = 25
    BY <1>c3 DEF ControlLength
  <2>6. DecodedControl(ws) = [kind |-> "control", message |-> "config_version", source |-> p.source,
                              version |-> p.version]
    BY <1>c3, <1>r1, <1>r2, <2>r3, <2>4, <2>5 DEF DecodedControl
  <2>7. p = [kind |-> "control", message |-> "config_version", source |-> p.source,
             version |-> p.version]
    BY <1>c3 DEF IsControl
  <2> QED BY <1>3, <1>8, <2>6, <2>7
<1>c4. CASE p.message = "session_state"
  <2>1. rest = <<Cell(16, p.session), Cell(1, p.state)>>
    BY <1>c4 DEF rest, ControlBody
  <2>2. Len(rest) = 2 /\ rest[1] = Cell(16, p.session) /\ rest[2] = Cell(1, p.state)
    BY <2>1
  <2>3. Len(ws) = 4 /\ ws[3] = Cell(16, p.session) /\ ws[4] = Cell(1, p.state)
    BY <1>3, <1>9, <2>2
  <2>r3. E[3] = 33 /\ ReadAt(ws, 17, 16) = p.session
    <3>1. 3 \in 1..Len(ws) /\ E[3 - 1] = 17 /\ ws[3].w = 16 /\ ws[3].v = p.session
      BY <2>3, <1>r2 DEF Cell
    <3> QED BY <1>5, <3>1
  <2>r4. E[4] = 34 /\ ReadAt(ws, 33, 1) = p.state
    <3>1. 4 \in 1..Len(ws) /\ E[4 - 1] = 33 /\ ws[4].w = 1 /\ ws[4].v = p.state
      BY <2>3, <2>r3 DEF Cell
    <3> QED BY <1>5, <3>1
  <2>4. Width(ws) = 34
    BY <2>3, <2>r4 DEF Width, E
  <2>5. ControlLength(p.message) = 34
    BY <1>c4 DEF ControlLength
  <2>6. DecodedControl(ws) = [kind |-> "control", message |-> "session_state", source |-> p.source,
                              session |-> p.session, state |-> p.state]
    BY <1>c4, <1>r1, <1>r2, <2>r3, <2>r4, <2>4, <2>5 DEF DecodedControl
  <2>7. p = [kind |-> "control", message |-> "session_state", source |-> p.source,
             session |-> p.session, state |-> p.state]
    BY <1>c4 DEF IsControl
  <2> QED BY <1>3, <1>8, <2>6, <2>7
<1> QED BY <1>c1, <1>c2, <1>c3, <1>c4 DEF IsControl

-----------------------------------------------------------------------------
(* Files.                                                                  *)

LEMMA EntryCells ==
  ASSUME NEW m, IsFile(m)
  PROVE  /\ IsWire(EncodedFile(m)) /\ Len(EncodedFile(m)) = 3 + Len(m.name) /\ Len(m.name) \in Nat
         /\ Lies(EncodedFile(m), 3, Bytes(m.name))
         /\ EncodedFile(m)[1] = Cell(8, m.size) /\ EncodedFile(m)[2] = Cell(8, m.hash)
         /\ EncodedFile(m)[3] = Length16(Len(m.name))
<1> DEFINE head == <<Cell(8, m.size), Cell(8, m.hash), Length16(Len(m.name))>>
           S == {Cell(8, m.size), Cell(8, m.hash), Length16(Len(m.name))}
           rest == Bytes(m.name)
           ws == head \o rest
<1>1. head \in Seq(S) /\ Len(head) = 3 /\ \A c \in S : c.w \in Nat \ {0}
  <2>1. \A c \in S : c.w \in Nat \ {0}
    BY DEF Cell, Length16
  <2> QED BY <2>1
<1>2. IsWire(rest) /\ Len(rest) = Len(m.name) /\ Len(m.name) \in Nat
  <2>1. IsText(m.name)
    BY DEF IsFile
  <2> QED BY <2>1, BytesAre DEF IsText
<1>3. /\ IsWire(ws) /\ Len(ws) = Len(head) + Len(rest) /\ Lies(ws, Len(head), rest)
      /\ \A i \in 1..Len(head) : ws[i] = head[i]
  <2> HIDE DEF head, S, rest
  <2> QED BY <1>1, <1>2, HeadJoin
<1>4. ws[1] = head[1] /\ ws[2] = head[2] /\ ws[3] = head[3]
  <2> HIDE DEF head, rest, ws
  <2> QED BY <1>1, <1>3
<1>5. EncodedFile(m) = ws
  BY DEF EncodedFile
<1>6. head[1] = Cell(8, m.size) /\ head[2] = Cell(8, m.hash) /\ head[3] = Length16(Len(m.name))
  OBVIOUS
<1> HIDE DEF head, ws
<1> QED BY <1>1, <1>2, <1>3, <1>4, <1>5, <1>6 DEF rest

(* An entry of the list is read from wherever it lies.                     *)
LEMMA EntryIsRead ==
  ASSUME NEW m, IsFile(m), Fits(Len(m.name)), NEW ws, IsWire(ws), NEW k \in Nat,
         Lies(ws, k, EncodedFile(m)), NEW files
  PROVE  WithNextFile(ws, [at |-> Ends(ws)[k], files |-> files, short |-> FALSE])
           = [at |-> Ends(ws)[k + Len(EncodedFile(m))], files |-> Append(files, m),
              short |-> FALSE]
<1> DEFINE E == Ends(ws)
           at == E[k]
           n == Len(m.name)
           acc == [at |-> at, files |-> files, short |-> FALSE]
<1>1. /\ n \in Nat /\ Len(EncodedFile(m)) = 3 + n /\ Lies(EncodedFile(m), 3, Bytes(m.name))
      /\ EncodedFile(m)[1] = Cell(8, m.size) /\ EncodedFile(m)[2] = Cell(8, m.hash)
      /\ EncodedFile(m)[3] = Cell(2, n)
  BY EntryCells DEF Length16
<1>2. /\ Len(ws) \in Nat /\ k + (3 + n) <= Len(ws)
      /\ \A i \in 1..(3 + n) : ws[k + i] = EncodedFile(m)[i]
  BY <1>1 DEF Lies, IsWire
<1>3. ws[k + 1] = Cell(8, m.size) /\ ws[k + 2] = Cell(8, m.hash) /\ ws[k + 3] = Cell(2, n)
  <2>1. 1 \in 1..(3 + n) /\ 2 \in 1..(3 + n) /\ 3 \in 1..(3 + n)
    BY <1>1
  <2> QED BY <1>1, <1>2, <2>1
<1>4. /\ E \in [0..Len(ws) -> Nat] /\ \A i \in 1..Len(ws) : E[i] = E[i - 1] + ws[i].w
      /\ \A i \in 1..Len(ws) : ReadAt(ws, E[i - 1], ws[i].w) = ws[i].v
  BY EndsAre, ReadIs
<1>5. /\ k + 1 \in 1..Len(ws) /\ k + 2 \in 1..Len(ws) /\ k + 3 \in 1..Len(ws)
      /\ (k + 1) - 1 = k /\ (k + 2) - 1 = k + 1 /\ (k + 3) - 1 = k + 2
      /\ k \in 0..Len(ws)
  BY <1>1, <1>2
<1>6. IsText(m.name) /\ Sanitized(m.name) = m.name
      /\ m = [name |-> m.name, size |-> m.size, hash |-> m.hash]
  BY DEF IsFile
<1>7. Lies(ws, k + 3, Bytes(m.name))
  <2>1. Len(Bytes(m.name)) = n
    BY <1>6, BytesAre
  <2> QED BY <1>1, <1>2, <2>1, LiesWithin
<1>t. /\ E[(k + 3) + n] = E[k + 3] + n
      /\ TextAt(ws, E[k + 3], E[k + 3] + n) = m.name
  <2>1. k + 3 \in Nat
    OBVIOUS
  <2> QED BY <1>6, <1>7, <2>1, TextIs
<1> HIDE DEF E, n
<1>8. at \in Nat
  BY <1>4, <1>5
<1>9. E[k + 1] = at + 8 /\ ReadAt(ws, at, 8) = m.size
  BY <1>3, <1>4, <1>5 DEF Cell
<1>10. E[k + 2] = at + 16 /\ ReadAt(ws, at + 8, 8) = m.hash
  <2>0. E[(k + 2) - 1] = at + 8 /\ ws[k + 2].w = 8 /\ ws[k + 2].v = m.hash
    BY <1>3, <1>5, <1>9 DEF Cell
  <2>1. E[k + 2] = (at + 8) + 8 /\ ReadAt(ws, at + 8, 8) = m.hash
    BY <1>4, <1>5, <2>0
  <2> QED BY <1>8, <2>1
<1>11. E[k + 3] = at + 18 /\ ReadAt(ws, at + 16, 2) = n
  <2>0. E[(k + 3) - 1] = at + 16 /\ ws[k + 3].w = 2 /\ ws[k + 3].v = n
    BY <1>3, <1>5, <1>10 DEF Cell
  <2>1. E[k + 3] = (at + 16) + 2 /\ ReadAt(ws, at + 16, 2) = n
    BY <1>4, <1>5, <2>0
  <2> QED BY <1>8, <2>1
<1>12. E[k + (3 + n)] = (at + 18) + n /\ TextAt(ws, at + 18, (at + 18) + n) = m.name
  <2>1. (k + 3) + n = k + (3 + n)
    BY <1>1
  <2> QED BY <1>11, <1>t, <2>1
<1>13. ~ (Width(ws) < at + 18) /\ ~ (Width(ws) < (at + 18) + n)
  <2>1. k + (3 + n) \in 0..Len(ws)
    BY <1>1, <1>2
  <2>2. (at + 18) + n <= Width(ws) /\ Width(ws) \in Nat
    BY <1>12, <2>1, EndsWithin DEF E
  <2> QED BY <1>1, <1>8, <2>2
<1> HIDE DEF at
<1>14. WithNextFile(ws, acc)
         = [at |-> (at + 18) + n, short |-> FALSE,
            files |-> Append(files, FileMetadata(m.name, m.size, m.hash))]
  BY <1>9, <1>10, <1>11, <1>12, <1>13 DEF WithNextFile
<1>15. FileMetadata(m.name, m.size, m.hash) = m
  BY <1>6 DEF FileMetadata
<1> HIDE DEF acc
<1>16. WithNextFile(ws, acc) = [at |-> E[k + (3 + n)], files |-> Append(files, m), short |-> FALSE]
  BY <1>12, <1>14, <1>15
<1> QED BY <1>1, <1>16 DEF acc, at, E

LEMMA UpToIs ==
  ASSUME NEW files, IsText(files), \A i \in DOMAIN files : IsFile(files[i])
  PROVE  LET U == EncodedUpTo(files)
             N == Len(files)
         IN  /\ N \in Nat /\ U[0] = <<>>
             /\ \A n \in 1..N : U[n] = U[n - 1] \o EncodedFile(files[n])
             /\ \A n \in 1..N : IsWire(EncodedFile(files[n]))
             /\ \A n \in 0..N : IsWire(U[n])
<1> DEFINE N == Len(files)
           C == UNION {ToSet(EncodedFile(files[i])) : i \in 1..N}
           T == Seq(C)
           none == <<>>
           step == [i \in 1..N |-> [x \in T |-> x \o EncodedFile(files[i])]]
           U == CHOOSE upTo : upTo = [n \in 0..N |-> IF n = 0 THEN none
                                       ELSE upTo[n - 1] \o EncodedFile(files[n])]
<1>1. N \in Nat /\ DOMAIN files = 1..N
  BY DEF IsText
<1>2. \A i \in 1..N : IsWire(EncodedFile(files[i]))
  BY <1>1, EntryCells
<1>3. \A i \in 1..N : EncodedFile(files[i]) \in T
  <2> SUFFICES ASSUME NEW i \in 1..N PROVE EncodedFile(files[i]) \in T
    OBVIOUS
  <2> DEFINE s == EncodedFile(files[i])
  <2>1. s \in Seq(ToSet(s))
    BY <1>2 DEF IsWire
  <2>2. ToSet(s) \subseteq C
    OBVIOUS
  <2> HIDE DEF s, C
  <2>3. s \in Seq(C)
    <3>1. DOMAIN s = 1..Len(s) /\ Len(s) \in Nat /\ \A j \in 1..Len(s) : s[j] \in C
      BY <2>1, <2>2
    <3> QED BY <2>1, <3>1
  <2> QED BY <2>3 DEF s
<1>4. none \in T
  OBVIOUS
<1> HIDE DEF C
<1>5. \A x, y \in T : x \o y \in T
  OBVIOUS
<1> HIDE DEF T
<1>6. step \in [1..N -> [T -> T]]
      /\ \A i \in 1..N, x \in T : step[i][x] = x \o EncodedFile(files[i])
  <2>1. \A i \in 1..N : [x \in T |-> x \o EncodedFile(files[i])] \in [T -> T]
    BY <1>3, <1>5
  <2> QED BY <2>1
<1>7. PICK f \in [0..N -> T] : f[0] = none /\ \A n \in 1..N : f[n] = step[n][f[n - 1]]
  <2> HIDE DEF step, N, none
  <2>1. N \in Nat /\ none \in T /\ step \in [1..N -> [T -> T]]
    BY <1>1, <1>4, <1>6
  <2>2. \E f \in [0..N -> T] : f[0] = none /\ \A n \in 1..N : f[n] = step[n][f[n - 1]]
    <3>1. \A Q : \A first \in Q, M \in Nat : \A st \in [1..M -> [Q -> Q]] :
            \E f \in [0..M -> Q] : f[0] = first /\ \A n \in 1..M : f[n] = st[n][f[n - 1]]
      BY Recursion
    <3>2. \A first \in T, M \in Nat : \A st \in [1..M -> [T -> T]] :
            \E f \in [0..M -> T] : f[0] = first /\ \A n \in 1..M : f[n] = st[n][f[n - 1]]
      BY <3>1
    <3> QED BY <2>1, <3>2
  <2> QED BY <2>2
<1>8. f = [n \in 0..N |-> IF n = 0 THEN none ELSE f[n - 1] \o EncodedFile(files[n])]
  <2> HIDE DEF step, N, none
  <2>1. \A n \in 1..N : n - 1 \in 0..N /\ f[n - 1] \in T
    BY <1>1
  <2>2. \A n \in 1..N : f[n] = f[n - 1] \o EncodedFile(files[n])
    BY <1>6, <1>7, <2>1
  <2>3. \A n \in 0..N : n # 0 => n \in 1..N
    BY <1>1
  <2> QED BY <1>7, <2>2, <2>3
<1>9. U = [n \in 0..N |-> IF n = 0 THEN none ELSE U[n - 1] \o EncodedFile(files[n])]
  <2> HIDE DEF N, none
  <2> QED BY <1>8
<1>10. EncodedUpTo(files) = U
  BY DEF EncodedUpTo
<1> HIDE DEF U, N
<1>11. U[0] = none /\ \A n \in 1..N : U[n] = U[n - 1] \o EncodedFile(files[n])
  <2>1. 0 \in 0..N /\ \A n \in 1..N : n \in 0..N /\ n # 0
    BY <1>1
  <2> HIDE DEF none
  <2> QED BY <1>9, <2>1
<1> DEFINE S == {n \in 0..N : IsWire(U[n])}
<1>12. 0 \in S
  <2>1. IsWire(none)
    <3> DEFINE Z == {}
    <3>1. none \in Seq(Z) /\ \A c \in Z : c.w \in Nat \ {0}
      OBVIOUS
    <3> HIDE DEF none, Z
    <3> QED BY <3>1, CellsAreWire
  <2> HIDE DEF none
  <2> QED BY <1>1, <1>11, <2>1
<1>13. ASSUME NEW n \in 0..(N - 1), n \in S PROVE n + 1 \in S
  <2>1. n + 1 \in 1..N /\ (n + 1) - 1 = n /\ n + 1 \in 0..N
    BY <1>1
  <2>2. IsWire(U[n])
    BY <1>13
  <2>3. U[n + 1] = U[n] \o EncodedFile(files[n + 1])
    BY <1>11, <2>1
  <2>4. IsWire(U[n + 1])
    BY <1>2, <2>1, <2>2, <2>3, JoinIs
  <2> QED BY <2>1, <2>4
<1>14. \A n \in 0..N : n \in S
  <2> HIDE DEF S
  <2> QED BY <1>1, <1>12, <1>13, UpTo
<1>15. \A n \in 0..N : IsWire(U[n])
  BY <1>14
<1> QED BY <1>1, <1>2, <1>10, <1>11, <1>15 DEF N

(* What was written for the first files lies at the start of the rest.     *)
LEMMA UpToLies ==
  ASSUME NEW files, IsText(files), \A i \in DOMAIN files : IsFile(files[i])
  PROVE  LET U == EncodedUpTo(files)
         IN  /\ \A n \in 0..Len(files) : \A k \in 0..n : Lies(U[n], 0, U[k])
             /\ \A n \in 1..Len(files) : Lies(U[n], Len(U[n - 1]), EncodedFile(files[n]))
<1> DEFINE U == EncodedUpTo(files)
           N == Len(files)
           S == {n \in 0..N : \A k \in 0..n : Lies(U[n], 0, U[k])}
<1>1. /\ N \in Nat /\ \A n \in 1..N : U[n] = U[n - 1] \o EncodedFile(files[n])
      /\ \A n \in 1..N : IsWire(EncodedFile(files[n]))
      /\ \A n \in 0..N : IsWire(U[n])
  BY UpToIs
<1> HIDE DEF U, N
<1>2. ASSUME NEW n \in 1..N
      PROVE  /\ Lies(U[n], 0, U[n - 1]) /\ Lies(U[n], Len(U[n - 1]), EncodedFile(files[n]))
             /\ Len(U[n]) \in Nat /\ Len(U[n - 1]) \in Nat
  <2>1. n \in 0..N /\ n - 1 \in 0..N
    BY <1>1
  <2>2. IsWire(U[n - 1]) /\ IsWire(EncodedFile(files[n]))
        /\ U[n] = U[n - 1] \o EncodedFile(files[n])
    BY <1>1, <2>1
  <2>3. Len(U[n]) \in Nat /\ Len(U[n - 1]) \in Nat
    BY <1>1, <2>1 DEF IsWire
  <2> QED BY <2>2, <2>3, JoinIs
<1>3. \A n \in 0..N : Len(U[n]) \in Nat /\ Lies(U[n], 0, U[n])
  BY <1>1 DEF IsWire, Lies
<1>4. 0 \in S
  BY <1>1, <1>3
<1>5. ASSUME NEW n \in 0..(N - 1), n \in S PROVE n + 1 \in S
  <2>1. n + 1 \in 1..N /\ (n + 1) - 1 = n /\ n + 1 \in 0..N /\ n \in 0..N
    BY <1>1
  <2>2. Lies(U[n + 1], 0, U[n])
    BY <1>2, <2>1
  <2>3. ASSUME NEW k \in 0..n PROVE Lies(U[n + 1], 0, U[k])
    <3>1. Lies(U[n], 0, U[k]) /\ k \in 0..N
      BY <1>1, <1>5
    <3>2. Lies(U[n + 1], 0 + 0, U[k])
      BY <1>3, <2>1, <2>2, <3>1, LiesWithin
    <3> QED BY <3>2
  <2>4. \A k \in 0..(n + 1) : Lies(U[n + 1], 0, U[k])
    <3>1. \A k \in 0..(n + 1) : k = n + 1 \/ k \in 0..n
      OBVIOUS
    <3> QED BY <1>3, <2>1, <2>3, <3>1
  <2> QED BY <2>1, <2>4
<1>6. \A n \in 0..N : n \in S
  <2> HIDE DEF S
  <2> QED BY <1>1, <1>4, <1>5, UpTo
<1>7. \A n \in 0..N : \A k \in 0..n : Lies(U[n], 0, U[k])
  BY <1>6
<1> QED BY <1>2, <1>7 DEF U, N

(* One more element.                                                       *)
LEMMA Appended ==
  ASSUME NEW s, IsText(s), NEW n \in 1..Len(s)
  PROVE  Append(SubSeq(s, 1, n - 1), s[n]) = SubSeq(s, 1, n)
<1>1. s \in Seq(ToSet(s)) /\ Len(s) \in Nat
  BY DEF IsText
<1> DEFINE a == SubSeq(s, 1, n - 1)
           b == SubSeq(s, 1, n)
<1>2. a = [i \in 1..(n - 1) |-> s[i]] /\ b = [i \in 1..n |-> s[i]]
  BY <1>1
<1>3. a \in Seq(ToSet(s)) /\ Len(a) = n - 1 /\ s[n] \in ToSet(s)
  BY <1>1
<1> HIDE DEF a, b
<1>4. Append(a, s[n]) = [i \in 1..n |-> IF i = n THEN s[n] ELSE a[i]]
  BY <1>3
<1> QED BY <1>2, <1>4 DEF a, b

LEMMA FilesAreDecoded ==
  ASSUME NEW p, IsFiles(p)
  PROVE  /\ IsWire(EncodedFiles(p))
         /\ LengthsFit(p) => DecodedFiles(EncodedFiles(p)) = p
<1> DEFINE head == <<Cell(16, p.source), Cell(8, p.version), Cell(8, "hash"),
                     Length16(Len(p.files))>>
           S == {Cell(16, p.source), Cell(8, p.version), Cell(8, "hash"), Length16(Len(p.files))}
           U == EncodedUpTo(p.files)
           N == Len(p.files)
           rest == U[N]
           ws == head \o rest
           E == Ends(ws)
<1>1. head \in Seq(S) /\ Len(head) = 4 /\ \A c \in S : c.w \in Nat \ {0}
  <2>1. \A c \in S : c.w \in Nat \ {0}
    BY DEF Cell, Length16
  <2> QED BY <2>1
<1>f. IsText(p.files) /\ \A i \in DOMAIN p.files : IsFile(p.files[i])
  BY DEF IsFiles
<1>u. /\ N \in Nat /\ U[0] = <<>> /\ \A n \in 0..N : IsWire(U[n])
      /\ \A n \in 1..N : IsWire(EncodedFile(p.files[n]))
      /\ \A n \in 1..N : U[n] = U[n - 1] \o EncodedFile(p.files[n])
  BY <1>f, UpToIs
<1>v. /\ \A n \in 0..N : \A k \in 0..n : Lies(U[n], 0, U[k])
      /\ \A n \in 1..N : Lies(U[n], Len(U[n - 1]), EncodedFile(p.files[n]))
  BY <1>f, UpToLies
<1> HIDE DEF U
<1>2. IsWire(rest)
  <2> HIDE DEF N
  <2> QED BY <1>u
<1>8. EncodedFiles(p) = ws
  BY DEF EncodedFiles, ws, head, rest, U
<1>3. /\ IsWire(ws) /\ Len(ws) = 4 + Len(rest) /\ Lies(ws, 4, rest) /\ Len(rest) \in Nat
      /\ \A i \in 1..4 : ws[i] = head[i]
  <2> HIDE DEF head, S, rest
  <2>1. /\ IsWire(ws) /\ Len(ws) = Len(head) + Len(rest) /\ Lies(ws, Len(head), rest)
        /\ \A i \in 1..Len(head) : ws[i] = head[i]
    BY <1>1, <1>2, HeadJoin
  <2>2. Len(rest) \in Nat
    BY <1>2 DEF IsWire
  <2> HIDE DEF ws
  <2> QED BY <1>1, <2>1, <2>2
<1>4. /\ ws[1] = Cell(16, p.source) /\ ws[2] = Cell(8, p.version) /\ ws[3] = Cell(8, "hash")
      /\ ws[4] = Length16(N)
  BY <1>3
<1> HIDE DEF head, S, rest, ws
<1>5. /\ E[0] = 0 /\ \A i \in 1..Len(ws) : E[i] = E[i - 1] + ws[i].w
      /\ \A i \in 1..Len(ws) : ReadAt(ws, E[i - 1], ws[i].w) = ws[i].v
  BY <1>3, EndsAre, ReadIs
<1>6. Width(ws) \in Nat /\ \A i \in 0..Len(ws) : E[i] <= Width(ws)
  BY <1>3, EndsWithin
<1>7. \A i \in 1..4 : i \in 1..Len(ws)
  BY <1>3
<1> HIDE DEF E
<1>r1. E[1] = 16 /\ ReadAt(ws, 0, 16) = p.source
  <2>1. 1 \in 1..Len(ws) /\ E[1 - 1] = 0 /\ ws[1].w = 16 /\ ws[1].v = p.source
    BY <1>4, <1>5, <1>7 DEF Cell
  <2> QED BY <1>5, <2>1
<1>r2. E[2] = 24 /\ ReadAt(ws, 16, 8) = p.version
  <2>1. 2 \in 1..Len(ws) /\ E[2 - 1] = 16 /\ ws[2].w = 8 /\ ws[2].v = p.version
    BY <1>4, <1>r1, <1>7 DEF Cell
  <2> QED BY <1>5, <2>1
<1>r3. E[3] = 32 /\ ReadAt(ws, 24, 8) = "hash"
  <2>1. 3 \in 1..Len(ws) /\ E[3 - 1] = 24 /\ ws[3].w = 8 /\ ws[3].v = "hash"
    BY <1>4, <1>r2, <1>7 DEF Cell
  <2> QED BY <1>5, <2>1
<1> HIDE DEF N
<1> SUFFICES ASSUME LengthsFit(p) PROVE DecodedFiles(ws) = p
  BY <1>3, <1>8
<1>9. /\ p.kind = "files" /\ Fits(N)
      /\ \A n \in 1..N : Fits(Len(p.files[n].name)) /\ IsFile(p.files[n])
  <2>1. p.kind = "files"
    BY DEF IsFiles
  <2>2. DOMAIN p.files = 1..N
    BY <1>f DEF IsText, N
  <2> QED BY <1>f, <2>1, <2>2 DEF LengthsFit, N
<1>r4. E[4] = 34 /\ ReadAt(ws, 32, 2) = N
  <2>1. 4 \in 1..Len(ws) /\ E[4 - 1] = 32 /\ ws[4].w = 2 /\ ws[4].v = N
    BY <1>4, <1>7, <1>9, <1>r3 DEF Cell, Length16
  <2> QED BY <1>5, <2>1
<1> DEFINE at == [n \in 0..N |-> E[4 + Len(U[n])]]
           f == [n \in 0..N |-> [at |-> at[n], files |-> SubSeq(p.files, 1, n), short |-> FALSE]]
<1>10. \A n \in 0..N : Len(U[n]) \in Nat /\ at[n] = E[4 + Len(U[n])]
  BY <1>u DEF IsWire
<1>11. at[0] = 34
  BY <1>u, <1>r4
<1>12. f[0] = NoFileYet
  <2>1. SubSeq(p.files, 1, 0) = <<>>
    BY <1>f DEF IsText
  <2>2. 0 \in 0..N
    BY <1>u
  <2> HIDE DEF at
  <2> QED BY <1>11, <2>1, <2>2 DEF NoFileYet
<1>13. ASSUME NEW n \in 1..N PROVE WithNextFile(ws, f[n - 1]) = f[n]
  <2> DEFINE m == p.files[n]
             k == 4 + Len(U[n - 1])
  <2>1. n - 1 \in 0..N /\ n \in 0..N /\ N \in 0..N /\ n \in 0..N
    BY <1>u
  <2>2. /\ Len(U[n - 1]) \in Nat /\ Len(U[n]) \in Nat /\ Len(U[N]) \in Nat /\ Len(ws) \in Nat
        /\ Len(EncodedFile(m)) \in Nat /\ k \in Nat
    BY <1>3, <1>10, <1>u, <2>1 DEF IsWire
  <2>3. Lies(U[N], 0, U[n]) /\ Lies(U[n], Len(U[n - 1]), EncodedFile(m))
    BY <1>v, <2>1
  <2>4. Lies(U[N], 0 + Len(U[n - 1]), EncodedFile(m))
    BY <2>2, <2>3, LiesWithin
  <2>5. 0 + Len(U[n - 1]) = Len(U[n - 1])
    BY <2>2
  <2>6. Lies(ws, 4, U[N])
    BY <1>3 DEF rest
  <2>7. Lies(ws, k, EncodedFile(m))
    BY <2>2, <2>4, <2>5, <2>6, LiesWithin
  <2>8. IsFile(m) /\ Fits(Len(m.name))
    BY <1>9
  <2> HIDE DEF m, k
  <2>9. WithNextFile(ws, [at |-> Ends(ws)[k], files |-> SubSeq(p.files, 1, n - 1), short |-> FALSE])
          = [at |-> Ends(ws)[k + Len(EncodedFile(m))],
             files |-> Append(SubSeq(p.files, 1, n - 1), m), short |-> FALSE]
    <3> DEFINE fs == SubSeq(p.files, 1, n - 1)
    <3> HIDE DEF fs
    <3>1. k \in Nat /\ IsWire(ws)
      BY <1>3, <2>2
    <3>2. WithNextFile(ws, [at |-> Ends(ws)[k], files |-> fs, short |-> FALSE])
            = [at |-> Ends(ws)[k + Len(EncodedFile(m))], files |-> Append(fs, m), short |-> FALSE]
      BY <2>7, <2>8, <3>1, EntryIsRead
    <3> QED BY <3>2 DEF fs
  <2>10. k + Len(EncodedFile(m)) = 4 + Len(U[n])
    <3>1. Len(U[n]) = Len(U[n - 1]) + Len(EncodedFile(m))
      BY <1>u, <2>1, JoinIs DEF m
    <3> QED BY <2>2, <3>1 DEF k
  <2>11. Append(SubSeq(p.files, 1, n - 1), m) = SubSeq(p.files, 1, n)
    BY <1>f, Appended DEF m, N
  <2>12. at[n - 1] = Ends(ws)[k] /\ at[n] = Ends(ws)[k + Len(EncodedFile(m))]
    BY <1>10, <2>1, <2>10 DEF k, E
  <2> HIDE DEF at
  <2>13. /\ f[n - 1] = [at |-> at[n - 1], files |-> SubSeq(p.files, 1, n - 1), short |-> FALSE]
         /\ f[n] = [at |-> at[n], files |-> SubSeq(p.files, 1, n), short |-> FALSE]
    BY <2>1
  <2> HIDE DEF f
  <2> QED BY <2>9, <2>11, <2>12, <2>13
<1> DEFINE D == CHOOSE upTo : upTo = [n \in 0..N |-> IF n = 0 THEN NoFileYet
                                                ELSE WithNextFile(ws, upTo[n - 1])]
<1> HIDE DEF f
<1>14. f = [n \in 0..N |-> IF n = 0 THEN NoFileYet ELSE WithNextFile(ws, f[n - 1])]
  <2>1. \A n \in 0..N : n # 0 => n \in 1..N
    BY <1>u
  <2>2. \A n \in 0..N : f[n] = IF n = 0 THEN NoFileYet ELSE WithNextFile(ws, f[n - 1])
    BY <1>12, <1>13, <2>1
  <2>3. f = [n \in 0..N |-> f[n]]
    BY DEF f
  <2> QED BY <2>2, <2>3
<1>15. D = [n \in 0..N |-> IF n = 0 THEN NoFileYet ELSE WithNextFile(ws, D[n - 1])]
  BY <1>14
<1>16. DecodedUpTo(ws, N) = D
  BY DEF DecodedUpTo
<1> HIDE DEF D
<1> DEFINE Q == {n \in 0..N : D[n] = f[n]}
<1>17. 0 \in Q
  BY <1>12, <1>15, <1>u
<1>18. ASSUME NEW n \in 0..(N - 1), n \in Q PROVE n + 1 \in Q
  <2>1. n + 1 \in 1..N /\ n + 1 \in 0..N /\ (n + 1) - 1 = n /\ n + 1 # 0
    BY <1>u
  <2>2. D[n + 1] = WithNextFile(ws, D[n])
    BY <1>15, <2>1
  <2>3. f[n + 1] = WithNextFile(ws, f[n])
    BY <1>13, <2>1
  <2> QED BY <1>18, <2>1, <2>2, <2>3
<1>19. \A n \in 0..N : n \in Q
  <2> HIDE DEF Q
  <2> QED BY <1>17, <1>18, <1>u, UpTo
<1>20. D[N] = [at |-> at[N], files |-> SubSeq(p.files, 1, N), short |-> FALSE]
  <2>1. N \in 0..N
    BY <1>u
  <2> HIDE DEF at
  <2> QED BY <1>19, <2>1 DEF f
<1>21. SubSeq(p.files, 1, N) = p.files
  BY <1>f DEF IsText, N
<1>22. ~ (Width(ws) < 34)
  <2>1. 4 \in 0..Len(ws)
    BY <1>3
  <2> QED BY <1>6, <1>r4, <2>1
<1>23. DecodedUpTo(ws, N)[N].files = p.files /\ DecodedUpTo(ws, N)[N].short = FALSE
  BY <1>16, <1>20, <1>21
<1>24. DecodedFiles(ws) = [kind |-> "files", source |-> p.source, version |-> p.version,
                           files |-> p.files]
  BY <1>22, <1>23, <1>r1, <1>r2, <1>r4 DEF DecodedFiles
<1> QED BY <1>24 DEF IsFiles

-----------------------------------------------------------------------------
(* Frames.                                                                 *)

LEMMA ClipIsDecoded ==
  ASSUME NEW p, p.kind = "clipboard", IsClip(p)
  PROVE  /\ PayloadType(p) \in {"text", "content"} /\ IsWire(EncodedPayload(p))
         /\ DecodedPayload(PayloadType(p), EncodedPayload(p)) = p
<1>1. CASE p = PlainClip(p.source, p.version, p.text) /\ IsText(p.text)
  <2>1. p.format = "plain" /\ p.html = <<>> /\ p.image = <<>>
    BY <1>1 DEF PlainClip, Clip
  <2>2. PayloadType(p) = "text"
    BY <2>1 DEF PayloadType, UsesContentFrame
  <2>3. IsWire(EncodedText(p)) /\ DecodedText(EncodedText(p)) = p
    BY <1>1, TextIsDecoded
  <2>4. EncodedPayload(p) = EncodedText(p)
    BY <2>2 DEF EncodedPayload
  <2> QED BY <2>2, <2>3, <2>4 DEF DecodedPayload
<1>2. CASE p = UrlClip(p.source, p.version, p.text) /\ IsText(p.text)
  <2>1. p.format = "url" /\ p.html = <<>>
    BY <1>2 DEF UrlClip, Clip
  <2>2. PayloadType(p) = "content"
    BY <2>1 DEF PayloadType, UsesContentFrame
  <2>3. HtmlOf(p) = <<>> /\ IsText(HtmlOf(p))
    BY <2>1 DEF HtmlOf, IsText
  <2>4. /\ IsWire(EncodedContent(p))
        /\ DecodedContent(EncodedContent(p)) =
              FromParts(p.source, p.version, p.format, p.text, HtmlOf(p))
    BY <1>2, <2>1, <2>3, ContentIsDecoded
  <2>5. FromParts(p.source, p.version, p.format, p.text, HtmlOf(p)) = p
    BY <1>2, <2>1 DEF FromParts
  <2>6. EncodedPayload(p) = EncodedContent(p)
    BY <2>2 DEF EncodedPayload
  <2> QED BY <2>2, <2>4, <2>5, <2>6 DEF DecodedPayload
<1>3. CASE /\ p.format = "html" /\ p = HtmlClip(p.source, p.version, p.html[1], p.text)
           /\ IsText(p.text) /\ IsText(p.html[1])
  <2>1. p.format = "html" /\ p.html = <<p.html[1]>>
    BY <1>3 DEF HtmlClip, Clip
  <2>2. PayloadType(p) = "content"
    BY <2>1 DEF PayloadType, UsesContentFrame
  <2>3. HtmlOf(p) = p.html[1] /\ IsText(HtmlOf(p))
    BY <1>3, <2>1 DEF HtmlOf
  <2>4. /\ IsWire(EncodedContent(p))
        /\ DecodedContent(EncodedContent(p)) =
              FromParts(p.source, p.version, p.format, p.text, HtmlOf(p))
    BY <1>3, <2>1, <2>3, ContentIsDecoded
  <2>5. FromParts(p.source, p.version, p.format, p.text, HtmlOf(p)) = p
    BY <1>3, <2>1, <2>3 DEF FromParts
  <2>6. EncodedPayload(p) = EncodedContent(p)
    BY <2>2 DEF EncodedPayload
  <2> QED BY <2>2, <2>4, <2>5, <2>6 DEF DecodedPayload
<1>4. CASE /\ p.format = "image"
           /\ LET i == p.image[1]
              IN  /\ p = ImageClip(p.source, p.version, i.width, i.height, i.rgba)
                  /\ i.width \in Nat \ {0} /\ i.height \in Nat \ {0}
                  /\ IsText(i.rgba) /\ Len(i.rgba) = 4 * (i.width * i.height)
  <2>2. PayloadType(p) = "content"
    BY <1>4 DEF PayloadType, UsesContentFrame
  <2>4. IsWire(EncodedContent(p)) /\ DecodedContent(EncodedContent(p)) = p
    BY <1>4, ImageIsDecoded
  <2>6. EncodedPayload(p) = EncodedContent(p)
    BY <2>2 DEF EncodedPayload
  <2> QED BY <2>2, <2>4, <2>6 DEF DecodedPayload
<1> QED BY <1>1, <1>2, <1>3, <1>4 DEF IsClip

LEMMA PayloadIsDecoded ==
  ASSUME NEW p, IsPayload(p)
  PROVE  /\ IsWire(EncodedPayload(p)) /\ ~ IsFailed(p)
         /\ LengthsFit(p) => DecodedPayload(PayloadType(p), EncodedPayload(p)) = p
<1>1. CASE p.kind = "input" /\ IsInput(p)
  <2>1. PayloadType(p) = "input"
    BY <1>1 DEF PayloadType
  <2>2. IsWire(EncodedInput(p)) /\ DecodedInput(EncodedInput(p)) = p
    BY <1>1, InputIsDecoded
  <2>3. EncodedPayload(p) = EncodedInput(p)
    BY <2>1 DEF EncodedPayload
  <2>4. ~ IsFailed(p)
    BY <1>1 DEF IsInput, IsFailed
  <2> QED BY <2>1, <2>2, <2>3, <2>4 DEF DecodedPayload
<1>2. CASE p.kind = "clipboard" /\ IsClip(p)
  <2>1. ~ IsFailed(p)
    BY <1>2 DEF IsClip, IsFailed, PlainClip, UrlClip, HtmlClip, ImageClip, Clip
  <2> QED BY <1>2, <2>1, ClipIsDecoded
<1>3. CASE p.kind = "files" /\ IsFiles(p)
  <2>1. PayloadType(p) = "files"
    BY <1>3 DEF PayloadType
  <2>2. IsWire(EncodedFiles(p)) /\ (LengthsFit(p) => DecodedFiles(EncodedFiles(p)) = p)
    BY <1>3, FilesAreDecoded
  <2>3. EncodedPayload(p) = EncodedFiles(p)
    BY <2>1 DEF EncodedPayload
  <2>4. ~ IsFailed(p)
    BY <1>3 DEF IsFiles, IsFailed
  <2> QED BY <2>1, <2>2, <2>3, <2>4 DEF DecodedPayload
<1>4. CASE p.kind = "chunk" /\ IsChunk(p)
  <2>1. PayloadType(p) = "chunk"
    BY <1>4 DEF PayloadType
  <2>2. IsWire(EncodedChunk(p)) /\ DecodedChunk(EncodedChunk(p)) = p
    BY <1>4, ChunkIsDecoded
  <2>3. EncodedPayload(p) = EncodedChunk(p)
    BY <2>1 DEF EncodedPayload
  <2>4. ~ IsFailed(p)
    BY <1>4 DEF IsChunk, IsFailed
  <2> QED BY <2>1, <2>2, <2>3, <2>4 DEF DecodedPayload
<1>5. CASE p.kind = "control" /\ IsControl(p)
  <2>1. PayloadType(p) = "control"
    BY <1>5 DEF PayloadType
  <2>2. IsWire(EncodedControl(p)) /\ DecodedControl(EncodedControl(p)) = p
    BY <1>5, ControlIsDecoded
  <2>3. EncodedPayload(p) = EncodedControl(p)
    BY <2>1 DEF EncodedPayload
  <2>4. ~ IsFailed(p)
    BY <1>5 DEF IsControl, IsFailed
  <2> QED BY <2>1, <2>2, <2>3, <2>4 DEF DecodedPayload
<1> QED BY <1>1, <1>2, <1>3, <1>4, <1>5 DEF IsPayload

(* The header of a frame, and what a wire that begins with it holds.       *)
LEMMA FrameCells ==
  ASSUME NEW f, IsFrame(f)
  PROVE  LET payload == EncodedPayload(f.payload)
             ws == EncodedVec(f)
         IN  /\ IsWire(payload) /\ Width(payload) \in Nat
             /\ IsWire(ws) /\ Len(ws) = 5 + Len(payload) /\ Len(payload) \in Nat
             /\ Lies(ws, 5, payload)
             /\ ws[1] = Cell(4, "SYN2") /\ ws[2] = Cell(8, f.sequence) /\ ws[3] = Cell(8, f.time)
             /\ ws[4] = Cell(1, PayloadType(f.payload)) /\ ws[5] = Cell(4, Width(payload))
             /\ Ends(ws)[5] = 25 /\ Width(ws) = 25 + Width(payload)
<1> DEFINE rest == EncodedPayload(f.payload)
           head == <<Cell(4, "SYN2"), Cell(8, f.sequence), Cell(8, f.time),
                     Cell(1, PayloadType(f.payload)), Cell(4, Width(rest))>>
           S == {Cell(4, "SYN2"), Cell(8, f.sequence), Cell(8, f.time),
                 Cell(1, PayloadType(f.payload)), Cell(4, Width(rest))}
           ws == head \o rest
           E == Ends(ws)
<1>1. head \in Seq(S) /\ Len(head) = 5 /\ \A c \in S : c.w \in Nat \ {0}
  <2>1. \A c \in S : c.w \in Nat \ {0}
    BY DEF Cell
  <2> QED BY <2>1
<1>2. IsWire(rest) /\ Width(rest) \in Nat
  <2>1. IsWire(rest)
    BY PayloadIsDecoded DEF IsFrame
  <2> HIDE DEF rest
  <2> QED BY <2>1, EndsWithin
<1>8. EncodedVec(f) = ws
  BY DEF EncodedVec
<1>3. /\ IsWire(ws) /\ Len(ws) = 5 + Len(rest) /\ Lies(ws, 5, rest) /\ Len(rest) \in Nat
      /\ \A i \in 1..5 : ws[i] = head[i]
  <2> HIDE DEF head, S, rest
  <2>1. /\ IsWire(ws) /\ Len(ws) = Len(head) + Len(rest) /\ Lies(ws, Len(head), rest)
        /\ \A i \in 1..Len(head) : ws[i] = head[i]
    BY <1>1, <1>2, HeadJoin
  <2>2. Len(rest) \in Nat
    BY <1>2 DEF IsWire
  <2> HIDE DEF ws
  <2> QED BY <1>1, <2>1, <2>2
<1>4. /\ ws[1] = Cell(4, "SYN2") /\ ws[2] = Cell(8, f.sequence) /\ ws[3] = Cell(8, f.time)
      /\ ws[4] = Cell(1, PayloadType(f.payload)) /\ ws[5] = Cell(4, Width(rest))
  BY <1>3
<1> HIDE DEF head, S, rest, ws
<1>5. /\ E[0] = 0 /\ \A i \in 1..Len(ws) : E[i] = E[i - 1] + ws[i].w
      /\ \A i \in 1..Len(ws) : ReadAt(ws, E[i - 1], ws[i].w) = ws[i].v
  BY <1>3, EndsAre, ReadIs
<1>6. Width(ws) \in Nat /\ \A i \in 0..Len(ws) : E[i] <= Width(ws)
  BY <1>3, EndsWithin
<1>7. \A i \in 1..5 : i \in 1..Len(ws)
  BY <1>3
<1> HIDE DEF E
<1>r1. E[1] = 4 /\ ReadAt(ws, 0, 4) = "SYN2"
  <2>1. 1 \in 1..Len(ws) /\ E[1 - 1] = 0 /\ ws[1].w = 4 /\ ws[1].v = "SYN2"
    BY <1>4, <1>5, <1>7 DEF Cell
  <2> QED BY <1>5, <2>1
<1>r2. E[2] = 12 /\ ReadAt(ws, 4, 8) = f.sequence
  <2>1. 2 \in 1..Len(ws) /\ E[2 - 1] = 4 /\ ws[2].w = 8 /\ ws[2].v = f.sequence
    BY <1>4, <1>r1, <1>7 DEF Cell
  <2> QED BY <1>5, <2>1
<1>r3. E[3] = 20 /\ ReadAt(ws, 12, 8) = f.time
  <2>1. 3 \in 1..Len(ws) /\ E[3 - 1] = 12 /\ ws[3].w = 8 /\ ws[3].v = f.time
    BY <1>4, <1>r2, <1>7 DEF Cell
  <2> QED BY <1>5, <2>1
<1>r4. E[4] = 21 /\ ReadAt(ws, 20, 1) = PayloadType(f.payload)
  <2>1. 4 \in 1..Len(ws) /\ E[4 - 1] = 20 /\ ws[4].w = 1 /\ ws[4].v = PayloadType(f.payload)
    BY <1>4, <1>r3, <1>7 DEF Cell
  <2> QED BY <1>5, <2>1
<1>r5. E[5] = 25 /\ ReadAt(ws, 21, 4) = Width(rest)
  <2>1. 5 \in 1..Len(ws) /\ E[5 - 1] = 21 /\ ws[5].w = 4 /\ ws[5].v = Width(rest)
    BY <1>4, <1>r4, <1>7 DEF Cell
  <2> QED BY <1>5, <2>1
<1>9. Width(ws) = 25 + Width(rest)
  <2>1. \A i \in 0..Len(rest) : E[5 + i] = E[5] + Ends(rest)[i]
    BY <1>2, <1>3, EndsOfPart DEF E
  <2>2. Len(rest) \in 0..Len(rest)
    BY <1>3
  <2> QED BY <1>3, <1>r5, <2>1, <2>2 DEF Width, E
<1> QED BY <1>2, <1>3, <1>4, <1>8, <1>9, <1>r5 DEF rest, E

(* A frame is decoded from the cells it was encoded to, whatever follows.  *)
LEMMA FrameIsDecoded ==
  ASSUME NEW f, IsFrame(f), LengthsFit(f.payload), NEW ws, IsWire(ws), Lies(ws, 0, EncodedVec(f))
  PROVE  Decoded(ws) = f
<1> DEFINE rest == EncodedPayload(f.payload)
           full == EncodedVec(f)
           E == Ends(ws)
<1>1. /\ IsWire(rest) /\ Width(rest) \in Nat /\ IsWire(full) /\ Len(full) = 5 + Len(rest)
      /\ Len(rest) \in Nat /\ Lies(full, 5, rest)
      /\ full[1] = Cell(4, "SYN2") /\ full[2] = Cell(8, f.sequence) /\ full[3] = Cell(8, f.time)
      /\ full[4] = Cell(1, PayloadType(f.payload)) /\ full[5] = Cell(4, Width(rest))
  BY FrameCells
<1> HIDE DEF rest, full
<1>2. /\ Len(ws) \in Nat /\ 5 + Len(rest) <= Len(ws)
      /\ \A i \in 1..(5 + Len(rest)) : ws[i] = full[i]
  BY <1>1 DEF Lies, IsWire, full
<1>3. Lies(ws, 5, rest)
  <2>1. 0 + 5 = 5 /\ Len(full) \in Nat
    BY <1>1
  <2>2. Lies(ws, 0 + 5, rest)
    BY <1>1, <1>2, <2>1, LiesWithin DEF full
  <2> QED BY <2>1, <2>2
<1>4. /\ ws[1] = Cell(4, "SYN2") /\ ws[2] = Cell(8, f.sequence) /\ ws[3] = Cell(8, f.time)
      /\ ws[4] = Cell(1, PayloadType(f.payload)) /\ ws[5] = Cell(4, Width(rest))
  <2>1. \A i \in 1..5 : i \in 1..(5 + Len(rest))
    BY <1>1
  <2> QED BY <1>1, <1>2, <2>1
<1>5. /\ E[0] = 0 /\ \A i \in 1..Len(ws) : E[i] = E[i - 1] + ws[i].w
      /\ \A i \in 1..Len(ws) : ReadAt(ws, E[i - 1], ws[i].w) = ws[i].v
  BY EndsAre, ReadIs
<1>6. Width(ws) \in Nat /\ \A i \in 0..Len(ws) : E[i] <= Width(ws)
  BY EndsWithin
<1>7. \A i \in 1..5 : i \in 1..Len(ws)
  BY <1>1, <1>2
<1>8. /\ Between(ws, E[5], E[5] + Width(rest)) = rest
      /\ E[5 + Len(rest)] = E[5] + Width(rest)
  <2>1. \A i \in 0..Len(rest) : Ends(ws)[5 + i] = Ends(ws)[5] + Ends(rest)[i]
    BY <1>1, <1>3, EndsOfPart
  <2>2. Len(rest) \in 0..Len(rest)
    BY <1>1
  <2>3. Between(ws, Ends(ws)[5], Ends(ws)[5] + Width(rest)) = rest
    BY <1>1, <1>3, RestIs
  <2> QED BY <2>1, <2>2, <2>3 DEF Width
<1> HIDE DEF E
<1>r1. E[1] = 4 /\ ReadAt(ws, 0, 4) = "SYN2"
  <2>1. 1 \in 1..Len(ws) /\ E[1 - 1] = 0 /\ ws[1].w = 4 /\ ws[1].v = "SYN2"
    BY <1>4, <1>5, <1>7 DEF Cell
  <2> QED BY <1>5, <2>1
<1>r2. E[2] = 12 /\ ReadAt(ws, 4, 8) = f.sequence
  <2>1. 2 \in 1..Len(ws) /\ E[2 - 1] = 4 /\ ws[2].w = 8 /\ ws[2].v = f.sequence
    BY <1>4, <1>r1, <1>7 DEF Cell
  <2> QED BY <1>5, <2>1
<1>r3. E[3] = 20 /\ ReadAt(ws, 12, 8) = f.time
  <2>1. 3 \in 1..Len(ws) /\ E[3 - 1] = 12 /\ ws[3].w = 8 /\ ws[3].v = f.time
    BY <1>4, <1>r2, <1>7 DEF Cell
  <2> QED BY <1>5, <2>1
<1>r4. E[4] = 21 /\ ReadAt(ws, 20, 1) = PayloadType(f.payload)
  <2>1. 4 \in 1..Len(ws) /\ E[4 - 1] = 20 /\ ws[4].w = 1 /\ ws[4].v = PayloadType(f.payload)
    BY <1>4, <1>r3, <1>7 DEF Cell
  <2> QED BY <1>5, <2>1
<1>r5. E[5] = 25 /\ ReadAt(ws, 21, 4) = Width(rest)
  <2>1. 5 \in 1..Len(ws) /\ E[5 - 1] = 21 /\ ws[5].w = 4 /\ ws[5].v = Width(rest)
    BY <1>4, <1>r4, <1>7 DEF Cell
  <2> QED BY <1>5, <2>1
<1>9. ~ (Width(ws) < 25) /\ Width(ws) >= 25 + Width(rest)
  <2>1. 5 \in 0..Len(ws) /\ 5 + Len(rest) \in 0..Len(ws)
    BY <1>1, <1>2
  <2> QED BY <1>1, <1>6, <1>8, <1>r5, <2>1
<1>10. PayloadHasCome(ws)
  BY <1>9, <1>r5 DEF PayloadHasCome
<1>11. DecodedPayload(PayloadType(f.payload), rest) = f.payload /\ ~ IsFailed(f.payload)
  BY PayloadIsDecoded DEF IsFrame, rest
<1>12. Decoded(ws) = Framed(ws, f.payload)
  BY <1>8, <1>9, <1>10, <1>11, <1>r1, <1>r4, <1>r5 DEF Decoded
<1>13. Framed(ws, f.payload) = [sequence |-> f.sequence, time |-> f.time, payload |-> f.payload]
  BY <1>11, <1>r2, <1>r3 DEF Framed
<1> QED BY <1>12, <1>13 DEF IsFrame

(* The same of a frame of the first version.                               *)
LEMMA LegacyCells ==
  ASSUME NEW f, IsEvent(f.payload.event)
  PROVE  LET event == EncodedEvent(f.payload.event)
             ws == EncodedLegacy(f)
         IN  /\ IsWire(event) /\ Len(event) \in 3..4 /\ event[1] = Cell(1, f.payload.event.kind)
             /\ IsWire(ws) /\ Len(ws) = 3 + Len(event) /\ Lies(ws, 3, event)
             /\ ws[1] = Cell(4, "SYN1") /\ ws[2] = Cell(8, f.sequence) /\ ws[3] = Cell(8, f.time)
<1> DEFINE head == <<Cell(4, "SYN1"), Cell(8, f.sequence), Cell(8, f.time)>>
           S == {Cell(4, "SYN1"), Cell(8, f.sequence), Cell(8, f.time)}
           rest == EncodedEvent(f.payload.event)
           ws == head \o rest
<1>1. head \in Seq(S) /\ Len(head) = 3 /\ \A c \in S : c.w \in Nat \ {0}
  <2>1. \A c \in S : c.w \in Nat \ {0}
    BY DEF Cell
  <2> QED BY <2>1
<1>2. IsWire(rest) /\ Len(rest) \in 3..4 /\ rest[1] = Cell(1, f.payload.event.kind)
  BY EventCells
<1>3. EncodedLegacy(f) = ws
  BY DEF EncodedLegacy
<1>4. /\ IsWire(ws) /\ Len(ws) = 3 + Len(rest) /\ Lies(ws, 3, rest)
      /\ \A i \in 1..3 : ws[i] = head[i]
  <2> HIDE DEF head, S, rest
  <2>1. /\ IsWire(ws) /\ Len(ws) = Len(head) + Len(rest) /\ Lies(ws, Len(head), rest)
        /\ \A i \in 1..Len(head) : ws[i] = head[i]
    BY <1>1, <1>2, HeadJoin
  <2> HIDE DEF ws
  <2> QED BY <1>1, <2>1
<1>5. ws[1] = Cell(4, "SYN1") /\ ws[2] = Cell(8, f.sequence) /\ ws[3] = Cell(8, f.time)
  BY <1>4
<1> HIDE DEF ws
<1> QED BY <1>2, <1>3, <1>4, <1>5

(* The header of a frame of the first version.                             *)
LEMMA LegacyHeader ==
  ASSUME NEW f, IsEvent(f.payload.event), NEW ws, IsWire(ws), Len(ws) >= 3,
         ws[1] = Cell(4, "SYN1"), ws[2] = Cell(8, f.sequence), ws[3] = Cell(8, f.time)
  PROVE  /\ Ends(ws)[3] = 20 /\ ReadAt(ws, 0, 4) = "SYN1"
         /\ ReadAt(ws, 4, 8) = f.sequence /\ ReadAt(ws, 12, 8) = f.time
<1> DEFINE E == Ends(ws)
<1>4. ws[1] = Cell(4, "SYN1") /\ ws[2] = Cell(8, f.sequence) /\ ws[3] = Cell(8, f.time)
  OBVIOUS
<1>5. /\ E[0] = 0 /\ \A i \in 1..Len(ws) : E[i] = E[i - 1] + ws[i].w
      /\ \A i \in 1..Len(ws) : ReadAt(ws, E[i - 1], ws[i].w) = ws[i].v
  BY EndsAre, ReadIs
<1>7. \A i \in 1..3 : i \in 1..Len(ws)
  BY DEF IsWire
<1> HIDE DEF E
<1>r1. E[1] = 4 /\ ReadAt(ws, 0, 4) = "SYN1"
  <2>1. 1 \in 1..Len(ws) /\ E[1 - 1] = 0 /\ ws[1].w = 4 /\ ws[1].v = "SYN1"
    BY <1>4, <1>5, <1>7 DEF Cell
  <2> QED BY <1>5, <2>1
<1>r2. E[2] = 12 /\ ReadAt(ws, 4, 8) = f.sequence
  <2>1. 2 \in 1..Len(ws) /\ E[2 - 1] = 4 /\ ws[2].w = 8 /\ ws[2].v = f.sequence
    BY <1>4, <1>r1, <1>7 DEF Cell
  <2> QED BY <1>5, <2>1
<1>r3. E[3] = 20 /\ ReadAt(ws, 12, 8) = f.time
  <2>1. 3 \in 1..Len(ws) /\ E[3 - 1] = 12 /\ ws[3].w = 8 /\ ws[3].v = f.time
    BY <1>4, <1>r2, <1>7 DEF Cell
  <2> QED BY <1>5, <2>1
<1> QED BY <1>r1, <1>r2, <1>r3 DEF E

LEMMA LegacyFrameIsDecoded ==
  ASSUME NEW f, IsFrame(f), f.payload.kind = "input", NEW ws, IsWire(ws),
         Lies(ws, 0, EncodedLegacy(f)), Width(ws) >= 25
  PROVE  Decoded(ws) = [f EXCEPT !.payload = LegacyEnvelope(@.event)]
<1> DEFINE e == f.payload.event
           full == EncodedLegacy(f)
           rest == EncodedEvent(e)
<1>1. IsEvent(e)
  BY DEF IsFrame, IsPayload, IsInput
<1>2. /\ IsWire(rest) /\ Len(rest) \in 3..4
      /\ IsWire(full) /\ Len(full) = 3 + Len(rest) /\ Lies(full, 3, rest)
      /\ full[1] = Cell(4, "SYN1") /\ full[2] = Cell(8, f.sequence) /\ full[3] = Cell(8, f.time)
  BY <1>1, LegacyCells
<1> HIDE DEF full, rest
<1>3. /\ Len(ws) \in Nat /\ 3 + Len(rest) <= Len(ws)
      /\ \A i \in 1..(3 + Len(rest)) : ws[i] = full[i]
  BY <1>2 DEF Lies, IsWire, full
<1>4. Lies(ws, 3, rest)
  <2>1. 0 + 3 = 3 /\ Len(full) \in Nat /\ Len(rest) \in Nat
    BY <1>2
  <2>2. Lies(ws, 0 + 3, rest)
    BY <1>2, <1>3, <2>1, LiesWithin DEF full
  <2> QED BY <2>1, <2>2
<1>5. ws[1] = Cell(4, "SYN1") /\ ws[2] = Cell(8, f.sequence) /\ ws[3] = Cell(8, f.time)
      /\ Len(ws) >= 3
  <2>1. \A i \in 1..3 : i \in 1..(3 + Len(rest))
    BY <1>2
  <2> QED BY <1>2, <1>3, <2>1
<1>6. /\ Ends(ws)[3] = 20 /\ ReadAt(ws, 0, 4) = "SYN1"
      /\ ReadAt(ws, 4, 8) = f.sequence /\ ReadAt(ws, 12, 8) = f.time
  BY <1>1, <1>5, LegacyHeader
<1>7. DecodedEvent(From(ws, 20)) = e
  <2>1. IsWire(From(ws, 20)) /\ Lies(From(ws, 20), 0, rest)
    BY <1>2, <1>4, <1>6, RestIs
  <2> QED BY <1>1, <2>1, EventIsDecoded DEF rest
<1>8. Width(ws) \in Nat
  BY EndsWithin
<1>9. ~ (Width(ws) < 25) /\ ~ (Width(ws) < 21)
  BY <1>8
<1>10. Decoded(ws) = Framed(ws, LegacyEnvelope(e))
  BY <1>6, <1>7, <1>9 DEF Decoded, DecodedLegacy
<1>11. ~ IsFailed(LegacyEnvelope(e))
  <2>1. ~ IsFailed(e)
    BY <1>1 DEF IsEvent, IsFailed
  <2> QED BY <2>1 DEF LegacyEnvelope, Envelope, IsFailed
<1>12. Decoded(ws) = [sequence |-> f.sequence, time |-> f.time, payload |-> LegacyEnvelope(e)]
  BY <1>6, <1>10, <1>11 DEF Framed
<1>13. f = [sequence |-> f.sequence, time |-> f.time, payload |-> f.payload]
  BY DEF IsFrame
<1>14. [f EXCEPT !.payload = LegacyEnvelope(@.event)]
         = [sequence |-> f.sequence, time |-> f.time, payload |-> LegacyEnvelope(e)]
  BY <1>13
<1> QED BY <1>12, <1>14

(* The start of a wire.                                                    *)
LEMMA StartIs ==
  ASSUME NEW ws, IsWire(ws), NEW n \in 1..(Len(ws) - 1)
  PROVE  LET a == SubSeq(ws, 1, n)
         IN  /\ IsWire(a) /\ Len(a) = n /\ n \in Nat /\ \A i \in 1..n : a[i] = ws[i]
             /\ \A i \in 0..n : Ends(a)[i] = Ends(ws)[i]
             /\ Width(a) < Width(ws) /\ Width(a) \in Nat
<1> DEFINE a == SubSeq(ws, 0 + 1, n)
<1>1. Len(ws) \in Nat /\ 0 \in 0..Len(ws) /\ n \in 0..Len(ws) /\ 0 <= n /\ n < Len(ws)
      /\ Len(ws) \in 0..Len(ws)
  BY DEF IsWire
<1>2. IsWire(a) /\ Len(a) = n - 0 /\ Lies(ws, 0, a)
  BY <1>1, PartIs
<1>3. a = SubSeq(ws, 1, n)
  OBVIOUS
<1> HIDE DEF a
<1>4. Len(a) = n
  BY <1>1, <1>2
<1>5. \A i \in 1..n : a[i] = ws[i]
  BY <1>1, <1>2, <1>4 DEF Lies
<1>6. \A i \in 0..n : Ends(a)[i] = Ends(ws)[i]
  <2>1. \A i \in 0..Len(a) : Ends(ws)[0 + i] = Ends(ws)[0] + Ends(a)[i]
    BY <1>2, EndsOfPart
  <2>2. Ends(ws)[0] = 0 /\ Ends(a) \in [0..n -> Nat]
    BY <1>2, <1>4, EndsAre
  <2> QED BY <1>1, <1>4, <2>1, <2>2
<1>7. Width(a) < Width(ws) /\ Width(a) \in Nat
  <2>1. Ends(ws)[n] < Ends(ws)[Len(ws)]
    BY <1>1, EndsGrow
  <2>2. Width(a) = Ends(ws)[n]
    BY <1>1, <1>4, <1>6 DEF Width
  <2> QED BY <1>2, <2>1, <2>2, EndsWithin DEF Width
<1> QED BY <1>1, <1>2, <1>3, <1>4, <1>5, <1>6, <1>7

(* Half a frame is refused: the payload has not come.                      *)
LEMMA CutFrameIsRefused ==
  ASSUME NEW f, IsFrame(f), NEW n \in 1..(Len(EncodedVec(f)) - 1)
  PROVE  Decoded(SubSeq(EncodedVec(f), 1, n)) = Failed("too_short")
<1> DEFINE full == EncodedVec(f)
           rest == EncodedPayload(f.payload)
           ws == SubSeq(full, 1, n)
           E == Ends(ws)
<1>1. /\ IsWire(full) /\ Len(full) = 5 + Len(rest) /\ Len(rest) \in Nat
      /\ full[1] = Cell(4, "SYN2") /\ full[2] = Cell(8, f.sequence) /\ full[3] = Cell(8, f.time)
      /\ full[4] = Cell(1, PayloadType(f.payload)) /\ full[5] = Cell(4, Width(rest))
      /\ Ends(full)[5] = 25 /\ Width(full) = 25 + Width(rest) /\ Width(rest) \in Nat
  BY FrameCells
<1> HIDE DEF full, rest
<1>2. /\ IsWire(ws) /\ Len(ws) = n /\ n \in Nat /\ \A i \in 1..n : ws[i] = full[i]
      /\ \A i \in 0..n : E[i] = Ends(full)[i]
      /\ Width(ws) < Width(full) /\ Width(ws) \in Nat
  BY <1>1, StartIs DEF full
<1> HIDE DEF ws
<1> SUFFICES ASSUME Width(ws) >= 25 PROVE Decoded(ws) = Failed("too_short")
  BY <1>2 DEF Decoded, ws, full
<1>3. n >= 5
  <2> SUFFICES ASSUME n < 5 PROVE FALSE
    BY <1>2
  <2>1. n \in 0..Len(full) /\ 5 \in 0..Len(full)
    BY <1>1, <1>2
  <2>2. Ends(full)[n] < 25
    BY <1>1, <2>1, EndsGrow
  <2>3. Width(ws) = Ends(full)[n]
    BY <1>2 DEF Width
  <2> QED BY <1>2, <2>2, <2>3
<1>4. /\ ws[1] = Cell(4, "SYN2") /\ ws[2] = Cell(8, f.sequence) /\ ws[3] = Cell(8, f.time)
      /\ ws[4] = Cell(1, PayloadType(f.payload)) /\ ws[5] = Cell(4, Width(rest))
  <2>1. \A i \in 1..5 : i \in 1..n
    BY <1>2, <1>3
  <2> QED BY <1>1, <1>2, <2>1
<1>5. /\ E[0] = 0 /\ \A i \in 1..Len(ws) : E[i] = E[i - 1] + ws[i].w
      /\ \A i \in 1..Len(ws) : ReadAt(ws, E[i - 1], ws[i].w) = ws[i].v
  BY <1>2, EndsAre, ReadIs
<1>7. \A i \in 1..5 : i \in 1..Len(ws)
  BY <1>2, <1>3
<1> HIDE DEF E
<1>r1. E[1] = 4 /\ ReadAt(ws, 0, 4) = "SYN2"
  <2>1. 1 \in 1..Len(ws) /\ E[1 - 1] = 0 /\ ws[1].w = 4 /\ ws[1].v = "SYN2"
    BY <1>4, <1>5, <1>7 DEF Cell
  <2> QED BY <1>5, <2>1
<1>r2. E[2] = 12 /\ ReadAt(ws, 4, 8) = f.sequence
  <2>1. 2 \in 1..Len(ws) /\ E[2 - 1] = 4 /\ ws[2].w = 8 /\ ws[2].v = f.sequence
    BY <1>4, <1>r1, <1>7 DEF Cell
  <2> QED BY <1>5, <2>1
<1>r3. E[3] = 20 /\ ReadAt(ws, 12, 8) = f.time
  <2>1. 3 \in 1..Len(ws) /\ E[3 - 1] = 12 /\ ws[3].w = 8 /\ ws[3].v = f.time
    BY <1>4, <1>r2, <1>7 DEF Cell
  <2> QED BY <1>5, <2>1
<1>r4. E[4] = 21 /\ ReadAt(ws, 20, 1) = PayloadType(f.payload)
  <2>1. 4 \in 1..Len(ws) /\ E[4 - 1] = 20 /\ ws[4].w = 1 /\ ws[4].v = PayloadType(f.payload)
    BY <1>4, <1>r3, <1>7 DEF Cell
  <2> QED BY <1>5, <2>1
<1>r5. E[5] = 25 /\ ReadAt(ws, 21, 4) = Width(rest)
  <2>1. 5 \in 1..Len(ws) /\ E[5 - 1] = 21 /\ ws[5].w = 4 /\ ws[5].v = Width(rest)
    BY <1>4, <1>r4, <1>7 DEF Cell
  <2> QED BY <1>5, <2>1
<1>8. ~ PayloadHasCome(ws)
  BY <1>1, <1>2, <1>r5 DEF PayloadHasCome
<1>9. ~ (Width(ws) < 25)
  BY <1>2
<1> QED BY <1>8, <1>9, <1>r1 DEF Decoded

(* Half a frame of the first version is refused, by the length of its      *)
(* event.                                                                  *)
LEMMA CutLegacyIsRefused ==
  ASSUME NEW f, IsFrame(f), f.payload.kind = "input", NEW n \in 1..(Len(EncodedLegacy(f)) - 1)
  PROVE  Decoded(SubSeq(EncodedLegacy(f), 1, n)) = Failed("too_short")
<1> DEFINE full == EncodedLegacy(f)
           e == f.payload.event
           rest == EncodedEvent(e)
           ws == SubSeq(full, 1, n)
<1>e. IsEvent(e)
  BY DEF IsFrame, IsPayload, IsInput
<1>1. /\ IsWire(rest) /\ Len(rest) \in 3..4 /\ rest[1] = Cell(1, e.kind)
      /\ IsWire(full) /\ Len(full) = 3 + Len(rest) /\ Lies(full, 3, rest)
      /\ full[1] = Cell(4, "SYN1") /\ full[2] = Cell(8, f.sequence) /\ full[3] = Cell(8, f.time)
  BY <1>e, LegacyCells
<1> HIDE DEF full
<1>2. /\ IsWire(ws) /\ Len(ws) = n /\ n \in Nat /\ \A i \in 1..n : ws[i] = full[i]
      /\ \A i \in 0..n : Ends(ws)[i] = Ends(full)[i]
      /\ Width(ws) < Width(full) /\ Width(ws) \in Nat
  BY <1>1, StartIs DEF full
<1> HIDE DEF ws
<1> SUFFICES ASSUME Width(ws) >= 25 PROVE Decoded(ws) = Failed("too_short")
  BY <1>2 DEF Decoded, ws, full
<1>3. Ends(full)[3] = 20 /\ Len(full) \in Nat
  <2>1. Len(full) \in Nat /\ Len(full) >= 3
    BY <1>1
  <2> QED BY <1>e, <1>1, <2>1, LegacyHeader
<1>4. n >= 4 /\ n < Len(full)
  <2>0. n < Len(full) /\ n \in 0..Len(full) /\ 3 \in 0..Len(full)
    BY <1>1, <1>2 DEF full
  <2> SUFFICES ASSUME n < 4 PROVE FALSE
    BY <1>2, <2>0
  <2>1. Width(ws) = Ends(full)[n]
    BY <1>2 DEF Width
  <2>2. n < 3 => Ends(full)[n] < Ends(full)[3]
    BY <1>1, <2>0, EndsGrow
  <2>3. n = 3 \/ n < 3
    BY <1>2
  <2> QED BY <1>2, <1>3, <2>1, <2>2, <2>3
<1>5. ws[1] = Cell(4, "SYN1") /\ ws[2] = Cell(8, f.sequence) /\ ws[3] = Cell(8, f.time)
      /\ Len(ws) >= 3
  <2>1. \A i \in 1..3 : i \in 1..n
    BY <1>2, <1>4
  <2> QED BY <1>1, <1>2, <1>4, <2>1
<1>6. /\ Ends(ws)[3] = 20 /\ ReadAt(ws, 0, 4) = "SYN1"
  BY <1>e, <1>2, <1>5, LegacyHeader
<1>7. \A i \in 1..Len(rest) : full[3 + i] = rest[i]
  BY <1>1 DEF Lies
<1>8. \A i \in 1..Len(full) : Ends(full)[i] = Ends(full)[i - 1] + full[i].w
  BY <1>1, EndsAre
(* What is left of the event.                                              *)
<1> DEFINE c == From(ws, 20)
           m == n - 3
<1>9. IsWire(c) /\ Len(c) = m /\ m \in 1..(Len(rest) - 1) /\ \A i \in 1..m : c[i] = rest[i]
  <2>1. /\ 3 \in 0..Len(ws) /\ Len(ws) \in 0..Len(ws) /\ 3 <= Len(ws) /\ Len(ws) = n
        /\ m \in 1..(Len(rest) - 1)
    BY <1>1, <1>2, <1>4
  <2>2. /\ IsWire(From(ws, Ends(ws)[3])) /\ Len(From(ws, Ends(ws)[3])) = Len(ws) - 3
        /\ Lies(ws, 3, From(ws, Ends(ws)[3]))
    BY <1>2, <2>1, TailIs
  <2>3. IsWire(c) /\ Len(c) = Len(ws) - 3 /\ Lies(ws, 3, c)
    BY <1>6, <2>2
  <2> HIDE DEF c
  <2>4. ASSUME NEW i \in 1..m PROVE c[i] = rest[i]
    <3>1. 3 + i \in 1..n /\ i \in 1..Len(rest) /\ i \in 1..Len(c)
      BY <1>1, <2>1, <2>3
    <3> QED BY <1>2, <1>7, <2>3, <3>1 DEF Lies
  <2> QED BY <2>1, <2>3, <2>4
<1>10. Width(ws) = 20 + Width(c)
  <2>1. Lies(ws, 3, c)
    <3>1. \A i \in 1..m : ws[3 + i] = c[i]
      <4> SUFFICES ASSUME NEW i \in 1..m PROVE ws[3 + i] = c[i]
        OBVIOUS
      <4>1. 3 + i \in 1..n /\ i \in 1..Len(rest)
        BY <1>1, <1>2, <1>9
      <4> HIDE DEF c
      <4> QED BY <1>2, <1>7, <1>9, <4>1
    <3> HIDE DEF c
    <3> QED BY <1>2, <1>9, <3>1 DEF Lies
  <2> HIDE DEF c
  <2>2. \A i \in 0..Len(c) : Ends(ws)[3 + i] = Ends(ws)[3] + Ends(c)[i]
    BY <1>2, <1>9, <2>1, EndsOfPart
  <2>3. Len(c) \in 0..Len(c) /\ 3 + Len(c) = Len(ws)
    BY <1>2, <1>9
  <2> QED BY <1>6, <2>2, <2>3 DEF Width
<1> HIDE DEF c, m
<1>11. /\ Ends(c)[0] = 0 /\ \A i \in 1..Len(c) : Ends(c)[i] = Ends(c)[i - 1] + c[i].w
       /\ \A i \in 1..Len(c) : ReadAt(c, Ends(c)[i - 1], c[i].w) = c[i].v
       /\ Width(c) \in Nat
  BY <1>9, EndsAre, ReadIs, EndsWithin
<1>12. Ends(c)[1] = 1 /\ ReadAt(c, 0, 1) = e.kind
  <2>1. 1 \in 1..Len(c) /\ 1 \in 1..m /\ Ends(c)[1 - 1] = 0
    BY <1>9, <1>11
  <2>2. c[1].w = 1 /\ c[1].v = e.kind
    BY <1>1, <1>9, <2>1 DEF Cell
  <2> QED BY <1>11, <2>1, <2>2
<1>13. DecodedEvent(c) = Failed("too_short")
  <2>0. Width(c) >= 5
    BY <1>10, <1>11, <1>2
  <2>1. CASE e.kind = "key"
    <3>1. rest = <<Cell(1, "key"), Cell(2, e.key), Cell(1, e.state), Cell(1, e.modifiers)>>
      BY <2>1 DEF EncodedEvent
    <3>2. rest[2].w = 2 /\ rest[3].w = 1 /\ Len(rest) = 4
      BY <3>1 DEF Cell
    <3> HIDE DEF rest
    <3>3. m \in 1..3
      BY <1>9, <3>2
    <3>4. m >= 2 => Ends(c)[2] = 3
      <4> SUFFICES ASSUME m >= 2 PROVE Ends(c)[2] = 3
        OBVIOUS
      <4>1. 2 \in 1..Len(c) /\ 2 \in 1..m /\ Ends(c)[2 - 1] = 1
        BY <1>9, <1>12, <3>3
      <4> QED BY <1>9, <1>11, <3>2, <4>1
    <3>5. m >= 3 => Ends(c)[3] = 4
      <4> SUFFICES ASSUME m >= 3 PROVE Ends(c)[3] = 4
        OBVIOUS
      <4>1. 3 \in 1..Len(c) /\ 3 \in 1..m /\ Ends(c)[3 - 1] = 3
        BY <1>9, <3>3, <3>4
      <4> QED BY <1>9, <1>11, <3>2, <4>1
    <3>6. Width(c) < 5
      BY <1>9, <1>12, <3>3, <3>4, <3>5 DEF Width
    <3> QED BY <2>0, <3>6, <1>11
  <2>2. CASE e.kind \in {"move", "position", "scroll"}
    <3>1. rest = <<Cell(1, e.kind), Cell(4, e.x), Cell(4, e.y)>>
      BY <2>2 DEF EncodedEvent
    <3>2. rest[2].w = 4 /\ Len(rest) = 3
      BY <3>1 DEF Cell
    <3> HIDE DEF rest
    <3>3. m \in 1..2
      BY <1>9, <3>2
    <3>4. m >= 2 => Ends(c)[2] = 5
      <4> SUFFICES ASSUME m >= 2 PROVE Ends(c)[2] = 5
        OBVIOUS
      <4>1. 2 \in 1..Len(c) /\ 2 \in 1..m /\ Ends(c)[2 - 1] = 1
        BY <1>9, <1>12, <3>3
      <4> QED BY <1>9, <1>11, <3>2, <4>1
    <3>6. Width(c) < 9 /\ Width(c) # 0
      BY <1>9, <1>12, <3>3, <3>4 DEF Width
    <3> QED BY <1>12, <2>2, <3>6 DEF DecodedEvent
  <2>3. CASE e.kind = "button"
    <3>1. rest = <<Cell(1, "button"), Cell(1, e.button), Cell(1, e.state)>>
      BY <2>3 DEF EncodedEvent
    <3>2. rest[2].w = 1 /\ Len(rest) = 3
      BY <3>1 DEF Cell
    <3> HIDE DEF rest
    <3>3. m \in 1..2
      BY <1>9, <3>2
    <3>4. m >= 2 => Ends(c)[2] = 2
      <4> SUFFICES ASSUME m >= 2 PROVE Ends(c)[2] = 2
        OBVIOUS
      <4>1. 2 \in 1..Len(c) /\ 2 \in 1..m /\ Ends(c)[2 - 1] = 1
        BY <1>9, <1>12, <3>3
      <4> QED BY <1>9, <1>11, <3>2, <4>1
    <3>6. Width(c) < 5
      BY <1>9, <1>12, <3>3, <3>4 DEF Width
    <3> QED BY <2>0, <3>6, <1>11
  <2> QED BY <1>e, <2>1, <2>2, <2>3 DEF IsEvent
<1>14. DecodedLegacy(ws) = Framed(ws, LegacyEnvelope(Failed("too_short")))
  <2>1. ~ (Width(ws) < 21)
    BY <1>2
  <2> QED BY <1>6, <1>13, <2>1 DEF DecodedLegacy, c
<1>15. LegacyEnvelope(Failed("too_short")) = Failed("too_short") /\ IsFailed(Failed("too_short"))
  BY DEF LegacyEnvelope, IsFailed, Failed
<1>16. DecodedLegacy(ws) = Failed("too_short")
  BY <1>14, <1>15 DEF Framed
<1>17. ~ (Width(ws) < 25)
  BY <1>2
<1> QED BY <1>6, <1>16, <1>17 DEF Decoded
-----------------------------------------------------------------------------
(* The frames of a transfer.                                               *)

(* Division.                                                               *)
LEMMA QuotientIs ==
  ASSUME NEW n \in Nat, NEW d \in Nat \ {0}
  PROVE  LET q == n \div d IN q \in Nat /\ q * d <= n /\ n < q * d + d
<1>1. n \div d \in Int /\ n % d \in 0..(d - 1) /\ n = d * (n \div d) + (n % d)
  BY SMT
<1> DEFINE q == n \div d
           r == n % d
<1>2. q \in Int /\ r \in Int /\ 0 <= r /\ r < d /\ n = d * q + r
  BY <1>1
<1> HIDE DEF q, r
<1>3. q >= 0
  <2> SUFFICES ASSUME q < 0 PROVE FALSE
    BY <1>2
  <2>1. q <= -1
    BY <1>2
  <2>2. d * q <= d * (-1)
    BY <1>2, <2>1, SMTT(20)
  <2> QED BY <1>2, <2>2
<1>4. d * q = q * d
  BY <1>2, SMT
<1> QED BY <1>2, <1>3, <1>4 DEF q

(* The name of the file of the tests is kept as it is.                     *)
LEMMA NameIsKept == Sanitized(<<"f">>) = <<"f">>
<1> DEFINE s == <<"f">>
           kept == {i \in DOMAIN s : s[i] # " "}
           cuts == {0} \cup {i \in DOMAIN s : s[i] \in {"/", "\\"}}
<1>1. s \in Seq({"f"}) /\ Len(s) = 1 /\ DOMAIN s = {1} /\ s[1] = "f"
  OBVIOUS
<1>2. kept = {1} /\ cuts = {0}
  <2>1. "f" # " " /\ "f" # "/" /\ "f" # "\\"
    OBVIOUS
  <2> QED BY <1>1, <2>1
<1>3. (CHOOSE i \in kept : \A j \in kept : i <= j) = 1
      /\ (CHOOSE i \in kept : \A j \in kept : i >= j) = 1
      /\ (CHOOSE i \in cuts : \A j \in cuts : i >= j) = 0
  <2> HIDE DEF kept, cuts
  <2>1. 1 \in kept /\ \A i \in kept : i = 1
    BY <1>2
  <2>2. 0 \in cuts /\ \A i \in cuts : i = 0
    BY <1>2
  <2>3. /\ \E i \in kept : \A j \in kept : i <= j
        /\ \E i \in kept : \A j \in kept : i >= j
        /\ \E i \in cuts : \A j \in cuts : i >= j
    BY <2>1, <2>2
  <2> QED BY <2>1, <2>2, <2>3
<1>4. SubSeq(s, 1, 1) = s
  <2>1. SubSeq(s, 1, 1) \in Seq({"f"}) /\ Len(SubSeq(s, 1, 1)) = 1
        /\ SubSeq(s, 1, 1)[1] = "f"
    BY <1>1
  <2> DEFINE a == SubSeq(s, 1, 1)
  <2>2. a \in Seq({"f"}) /\ Len(a) = 1 /\ a[1] = "f"
    BY <2>1
  <2> HIDE DEF a
  <2>3. a = <<"f">>
    BY <2>2
  <2> QED BY <2>3 DEF a
<1>5. Trim(s) = s
  BY <1>2, <1>3, <1>4 DEF Trim
<1>6. SubSeq(s, 0 + 1, Len(s)) = s
  BY <1>1, <1>4
<1> HIDE DEF s
<1>7. Sanitized(s) = s
  <2>1. s # <<>>
    BY <1>1
  <2> QED BY <1>3, <1>5, <1>6, <2>1 DEF Sanitized
<1> QED BY <1>7 DEF s

(* A part of a text is a text.                                             *)
LEMMA PartIsText ==
  ASSUME NEW s, IsText(s), NEW p \in Nat, NEW q \in Nat, p < q, q <= Len(s)
  PROVE  IsText(SubSeq(s, p + 1, q)) /\ Len(SubSeq(s, p + 1, q)) = q - p
<1>1. s \in Seq(ToSet(s)) /\ Len(s) \in Nat
  BY DEF IsText
<1> DEFINE a == SubSeq(s, p + 1, q)
<1>2. a = [i \in 1..(q - p) |-> s[p + i]] /\ Len(a) = q - p
  BY <1>1
<1> HIDE DEF a
<1>3. a \in Seq(ToSet(a))
  <2> DEFINE n == q - p
  <2>1. n \in Nat /\ a = [i \in 1..n |-> a[i]] /\ DOMAIN a = 1..n
    BY <1>2
  <2> HIDE DEF n
  <2>2. \A i \in 1..n : a[i] \in ToSet(a)
    BY <2>1 DEF ToSet
  <2> DEFINE T == ToSet(a)
  <2> HIDE DEF T
  <2>3. a \in [1..n -> T]
    BY <2>1, <2>2 DEF T
  <2> QED BY <2>1, <2>3 DEF T
<1> QED BY <1>2, <1>3 DEF a, IsText

(* Products by a size.                                                     *)
LEMMA Scaled ==
  ASSUME NEW a \in Int, NEW b \in Int, NEW size \in Nat \ {0}, a <= b
  PROVE  a * size <= b * size /\ (a < b => a * size + size <= b * size)
<1>1. (b - a) * size >= 0
  <2> DEFINE c == b - a
  <2>1. c \in Nat
    OBVIOUS
  <2> HIDE DEF c
  <2>2. c * size \in Nat
    BY <2>1
  <2> QED BY <2>2 DEF c
<1>2. a < b => (b - a - 1) * size >= 0
  <2> SUFFICES ASSUME a < b PROVE (b - a - 1) * size >= 0
    OBVIOUS
  <2> DEFINE c == b - a - 1
  <2>1. c \in Nat
    OBVIOUS
  <2> HIDE DEF c
  <2>2. c * size \in Nat
    BY <2>1
  <2> QED BY <2>2 DEF c
<1> QED BY <1>1, <1>2, SMTT(20)

(* Each chunk is the part of the file after those before it.               *)
LEMMA ChunksAre ==
  ASSUME NEW data, IsText(data), data # <<>>, NEW size \in Nat \ {0}
  PROVE  LET C == Chunks(data, size)
             L == Len(data)
             N == (L + size - 1) \div size
             to(i) == IF i * size > L THEN L ELSE i * size
         IN  /\ N \in Nat \ {0} /\ L \in Nat /\ C = [i \in 1..N |-> C[i]]
             /\ \A i \in 1..N :
                  /\ (i - 1) * size \in Nat /\ to(i) \in Nat
                  /\ (i - 1) * size < to(i) /\ to(i) <= L
                  /\ to(i) = IF i = N THEN L ELSE i * size
                  /\ C[i] = SubSeq(data, (i - 1) * size + 1, to(i))
                  /\ IsText(C[i]) /\ Len(C[i]) = to(i) - (i - 1) * size
<1> DEFINE C == Chunks(data, size)
           L == Len(data)
           N == (L + size - 1) \div size
           to(i) == IF i * size > L THEN L ELSE i * size
<1>1. data \in Seq(ToSet(data)) /\ L \in Nat \ {0}
  BY DEF IsText
<1>2. C = [i \in 1..N |-> SubSeq(data, (i - 1) * size + 1, to(i))]
  BY DEF Chunks
<1> HIDE DEF C, L
<1>3. N \in Nat /\ N * size <= L + size - 1 /\ L + size - 1 < N * size + size
  <2>1. L + size - 1 \in Nat
    BY <1>1
  <2> QED BY <2>1, QuotientIs
<1> HIDE DEF N
<1>4. N \in Nat \ {0}
  <2>1. N # 0
    BY <1>1, <1>3
  <2> QED BY <1>3, <2>1
<1>5. N * size >= L /\ N * size \in Nat
  BY <1>1, <1>3
<1>6. ASSUME NEW i \in 1..N
      PROVE  /\ (i - 1) * size \in Nat /\ to(i) \in Nat
             /\ (i - 1) * size < to(i) /\ to(i) <= L
             /\ to(i) = IF i = N THEN L ELSE i * size
  <2>1. i \in Int /\ i - 1 \in Nat /\ N \in Int /\ i <= N
    BY <1>4
  <2>2. (i - 1) * size \in Nat /\ i * size \in Nat
    BY <2>1
  <2>3. (i - 1) * size + size = i * size
    BY <2>1
  <2>4. i * size <= N * size
    BY <2>1, Scaled
  <2>5. i < N => i * size + size <= N * size
    BY <2>1, Scaled
  <2>6. i < N => i * size < L
    BY <1>1, <1>3, <1>5, <2>2, <2>5
  <2>7. (i - 1) * size < L
    BY <1>1, <1>3, <1>5, <2>2, <2>3, <2>4
  <2>8. to(i) = IF i = N THEN L ELSE i * size
    BY <1>1, <1>5, <2>1, <2>2, <2>6
  <2> DEFINE j == (i - 1) * size
             k == i * size
  <2>9. j \in Nat /\ k \in Nat /\ j + size = k /\ j < L /\ to(i) = IF k > L THEN L ELSE k
    BY <2>2, <2>3, <2>7
  <2> DEFINE t == to(i)
  <2> HIDE DEF j, k, t
  <2>10. t = IF k > L THEN L ELSE k
    BY <2>9 DEF t
  <2>11. t \in Nat /\ j < t /\ t <= L
    BY <1>1, <2>9, <2>10
  <2> QED BY <2>8, <2>9, <2>11 DEF j, t
<1> HIDE DEF to
<1>7. ASSUME NEW i \in 1..N
      PROVE  /\ C[i] = SubSeq(data, (i - 1) * size + 1, to(i))
             /\ IsText(C[i]) /\ Len(C[i]) = to(i) - (i - 1) * size
  <2>1. C[i] = SubSeq(data, (i - 1) * size + 1, to(i))
    BY <1>2
  <2> DEFINE j == (i - 1) * size
             t == to(i)
             a == SubSeq(data, j + 1, t)
  <2>2. j \in Nat /\ t \in Nat /\ j < t /\ t <= Len(data)
    BY <1>6 DEF L
  <2> HIDE DEF j, t
  <2>3. IsText(a) /\ Len(a) = t - j
    BY <1>1, <2>2, PartIsText
  <2> QED BY <2>1, <2>3 DEF j, t
<1>8. C = [i \in 1..N |-> C[i]]
  BY <1>2
<1> QED BY <1>1, <1>4, <1>6, <1>7, <1>8 DEF C, L, N, to

(* Two sequences joined.                                                   *)
LEMMA Joined ==
  ASSUME NEW S, NEW a \in Seq(S), NEW b \in Seq(S)
  PROVE  /\ Len(a \o b) = Len(a) + Len(b) /\ DOMAIN (a \o b) = 1..(Len(a) + Len(b))
         /\ \A i \in 1..Len(a) : (a \o b)[i] = a[i]
         /\ \A i \in 1..Len(b) : (a \o b)[Len(a) + i] = b[i]
<1>1. a \o b \in Seq(S) /\ Len(a \o b) = Len(a) + Len(b)
  OBVIOUS
<1>2. /\ \A i \in 1..Len(a) : (a \o b)[i] = a[i]
      /\ \A i \in 1..Len(b) : (a \o b)[Len(a) + i] = b[i]
  OBVIOUS
<1> QED BY <1>1, <1>2

Pieces(data, size) == (Len(data) + size - 1) \div size

ChunkAt(data, size, i) ==
  LET C == Chunks(data, size)
      offset == (i - 1) * size
  IN  ChunkPayload(offset, Len(data), i - 1, IsLast(offset + Len(C[i]), Len(data)), C[i])

(* The frames of a transfer: the name, then the chunks, or one that is     *)
(* empty.                                                                  *)
LEMMA TransferIs ==
  ASSUME NEW data, IsText(data), NEW size \in Nat \ {0}
  PROVE  LET F == TransferFrames(<<"f">>, data, size)
             n == IF data = <<>> THEN 1 ELSE Pieces(data, size)
         IN  /\ n \in Nat \ {0} /\ Len(F) = n + 1 /\ DOMAIN F = 1..(n + 1)
             /\ F[1] = [sequence |-> 1, time |-> 1,
                        payload |-> [kind |-> "files", source |-> "sender", version |-> 1,
                                     files |-> <<FileMetadata(<<"f">>, Len(data), "hash")>>]]
             /\ data = <<>> => F[2] = [sequence |-> 2, time |-> 2,
                                       payload |-> ChunkPayload(0, 0, 0, TRUE, <<>>)]
             /\ data # <<>> => \A i \in 1..n : F[i + 1] = [sequence |-> i + 1, time |-> i + 1,
                                                           payload |-> ChunkAt(data, size, i)]
<1> DEFINE F == TransferFrames(<<"f">>, data, size)
           C == Chunks(data, size)
           n == IF data = <<>> THEN 1 ELSE Pieces(data, size)
           first == [sequence |-> 1, time |-> 1,
                     payload |-> [kind |-> "files", source |-> "sender", version |-> 1,
                                  files |-> <<FileMetadata(<<"f">>, Len(data), "hash")>>]]
           empty == [sequence |-> 2, time |-> 2, payload |-> ChunkPayload(0, 0, 0, TRUE, <<>>)]
           G == IF data = <<>> THEN <<empty>>
                ELSE [i \in DOMAIN C |-> [sequence |-> i + 1, time |-> i + 1,
                                          payload |-> ChunkAt(data, size, i)]]
<1>1. F = <<first>> \o G
  BY DEF TransferFrames, ChunkAt
<1>2. data # <<>> => n \in Nat \ {0} /\ DOMAIN C = 1..n
  <2> SUFFICES ASSUME data # <<>> PROVE n \in Nat \ {0} /\ DOMAIN C = 1..n
    OBVIOUS
  <2>1. n = (Len(data) + size - 1) \div size
    BY DEF Pieces
  <2>2. /\ (Len(data) + size - 1) \div size \in Nat \ {0}
        /\ C = [i \in 1..((Len(data) + size - 1) \div size) |-> C[i]]
    BY ChunksAre
  <2> HIDE DEF C, n
  <2>3. n \in Nat \ {0} /\ C = [i \in 1..n |-> C[i]]
    BY <2>1, <2>2
  <2> QED BY <2>3
<1>3. n \in Nat \ {0}
  BY <1>2
<1>4. data = <<>> => DOMAIN G = 1..n /\ G[1] = empty /\ n = 1
  <2> HIDE DEF empty
  <2> QED OBVIOUS
<1>5. data # <<>> =>
        /\ DOMAIN G = 1..n
        /\ \A i \in 1..n : G[i] = [sequence |-> i + 1, time |-> i + 1,
                                   payload |-> ChunkAt(data, size, i)]
  <2> HIDE DEF C, n
  <2> QED BY <1>2
<1>6. G = [i \in 1..n |-> G[i]]
  <2>1. CASE data = <<>>
    <3> HIDE DEF empty
    <3>1. G = <<empty>> /\ n = 1
      BY <2>1
    <3> HIDE DEF G, n
    <3> QED BY <3>1
  <2>2. CASE data # <<>>
    <3>1. G = [i \in DOMAIN C |-> [sequence |-> i + 1, time |-> i + 1,
                                          payload |-> ChunkAt(data, size, i)]]
      BY <2>2
    <3>2. DOMAIN C = 1..n
      BY <1>2, <2>2
    <3> HIDE DEF G, C, n
    <3> QED BY <3>1, <3>2
  <2> QED BY <2>1, <2>2
<1> HIDE DEF F, G, n, first, empty
<1>7. DOMAIN F = 1..(n + 1) /\ Len(F) = n + 1 /\ F[1] = first
      /\ \A i \in 1..n : F[i + 1] = G[i]
  <2> DEFINE T == {first} \cup {G[i] : i \in 1..n}
  <2>1. G \in [1..n -> T] /\ <<first>> \in Seq(T)
    BY <1>6
  <2> HIDE DEF T
  <2>2. G \in Seq(T) /\ Len(G) = n
    BY <1>3, <2>1
  <2>3. Len(<<first>>) = 1 /\ <<first>>[1] = first
    OBVIOUS
  <2>4. /\ Len(<<first>> \o G) = 1 + n /\ DOMAIN (<<first>> \o G) = 1..(1 + n)
        /\ (<<first>> \o G)[1] = first /\ \A i \in 1..n : (<<first>> \o G)[1 + i] = G[i]
    <3>1. 1 \in 1..1
      OBVIOUS
    <3> QED BY <2>1, <2>2, <2>3, <3>1, Joined
  <2>5. n + 1 = 1 + n /\ \A i \in 1..n : i + 1 = 1 + i
    BY <1>3
  <2> QED BY <1>1, <2>4, <2>5
<1>8. data = <<>> => F[2] = empty
  BY <1>3, <1>4, <1>7
<1> QED BY <1>3, <1>5, <1>7, <1>8 DEF F, n, first, empty

(* Everything that is sent, the frames of a transfer among them, is a      *)
(* frame.                                                                  *)
LEMMA SentAreFrames == \A f \in SentFrames : IsFrame(f)
<1> SUFFICES ASSUME NEW data \in Files, NEW size \in ChunkSizes,
                    NEW f \in ToSet(TransferFrames(<<"f">>, data, size))
             PROVE  IsFrame(f)
  BY WireAssumption DEF SentFrames
<1> DEFINE F == TransferFrames(<<"f">>, data, size)
           n == IF data = <<>> THEN 1 ELSE Pieces(data, size)
<1>1. IsText(data) /\ size \in Nat \ {0}
  BY WireAssumption
<1>2. PICK j \in DOMAIN F : f = F[j]
  BY DEF ToSet
<1>3. /\ n \in Nat \ {0} /\ DOMAIN F = 1..(n + 1)
      /\ F[1] = [sequence |-> 1, time |-> 1,
                 payload |-> [kind |-> "files", source |-> "sender", version |-> 1,
                              files |-> <<FileMetadata(<<"f">>, Len(data), "hash")>>]]
      /\ data = <<>> => F[2] = [sequence |-> 2, time |-> 2,
                                payload |-> ChunkPayload(0, 0, 0, TRUE, <<>>)]
      /\ data # <<>> => \A i \in 1..n : F[i + 1] = [sequence |-> i + 1, time |-> i + 1,
                                                    payload |-> ChunkAt(data, size, i)]
  BY <1>1, TransferIs
<1>4. CASE j = 1
  <2> DEFINE m == FileMetadata(<<"f">>, Len(data), "hash")
             fs == <<m>>
             p == [kind |-> "files", source |-> "sender", version |-> 1, files |-> fs]
  <2>1. m = [name |-> <<"f">>, size |-> Len(data), hash |-> "hash"]
    BY NameIsKept DEF FileMetadata
  <2>2. IsText(<<"f">>)
    BY DEF IsText, ToSet
  <2>3. IsFile(m)
    <3> DEFINE name == <<"f">>
    <3> HIDE DEF name
    <3> QED BY <2>1, <2>2, NameIsKept DEF IsFile, name
  <2> HIDE DEF m
  <2>4. IsText(fs) /\ \A i \in DOMAIN fs : IsFile(fs[i])
    BY <2>3 DEF IsText, ToSet
  <2> HIDE DEF fs
  <2>5. IsPayload(p)
    BY <2>4 DEF IsPayload, IsFiles
  <2>6. f = [sequence |-> 1, time |-> 1, payload |-> p]
    BY <1>2, <1>3, <1>4 DEF m, fs
  <2> HIDE DEF p
  <2> QED BY <2>5, <2>6 DEF IsFrame
<1>5. ASSUME NEW offset, NEW total, NEW index, NEW final, NEW part, IsText(part), NEW k,
             f = [sequence |-> k, time |-> k,
                  payload |-> ChunkPayload(offset, total, index, final, part)]
      PROVE  IsFrame(f)
  <2> DEFINE p == ChunkPayload(offset, total, index, final, part)
  <2>1. IsPayload(p)
    BY <1>5 DEF IsPayload, IsChunk, ChunkPayload
  <2> HIDE DEF p
  <2>2. f = [sequence |-> k, time |-> k, payload |-> p]
    BY <1>5 DEF p
  <2> QED BY <2>1, <2>2 DEF IsFrame
<1>6. CASE j # 1 /\ data = <<>>
  <2>1. j = 2
    BY <1>2, <1>3, <1>6
  <2>2. IsText(<<>>)
    BY DEF IsText, ToSet
  <2> QED BY <1>2, <1>3, <1>5, <1>6, <2>1, <2>2
<1>7. CASE j # 1 /\ data # <<>>
  <2> DEFINE i == j - 1
  <2>1. i \in 1..n /\ j = i + 1
    BY <1>2, <1>3, <1>7
  <2>2. \A k \in 1..((Len(data) + size - 1) \div size) : IsText(Chunks(data, size)[k])
    BY <1>1, <1>7, ChunksAre
  <2>3. IsText(Chunks(data, size)[i])
    BY <1>7, <2>1, <2>2 DEF Pieces
  <2>4. f = [sequence |-> i + 1, time |-> i + 1, payload |-> ChunkAt(data, size, i)]
    BY <1>2, <1>3, <1>7, <2>1
  <2> QED BY <1>5, <2>3, <2>4 DEF ChunkAt
<1> QED BY <1>4, <1>6, <1>7

(* The chunks of a transfer are the file, whatever its length and the size *)
(* of a chunk: in order, without gap or overlap, the last one and no other *)
(* marked final.                                                           *)
THEOREM ChunksMakeTheFile == ChunksAreTheFile
<1> SUFFICES ASSUME NEW data \in Files, NEW size \in ChunkSizes
             PROVE  LET frames == TransferFrames(<<"f">>, data, size)
                        chunk(i) == frames[i + 1].payload
                        end(i) == chunk(i).offset + Len(chunk(i).data)
                        n == Len(frames) - 1
                    IN  /\ n >= 1 /\ chunk(1).offset = 0 /\ end(n) = Len(data)
                        /\ \A i \in 1..(n - 1) : chunk(i + 1).offset = end(i)
                        /\ \A i \in 1..n :
                             /\ chunk(i).final <=> i = n
                             /\ chunk(i).total = Len(data)
                             /\ SubSeq(data, chunk(i).offset + 1, end(i)) = chunk(i).data
  BY DEF ChunksAreTheFile
<1> DEFINE frames == TransferFrames(<<"f">>, data, size)
           chunk(i) == frames[i + 1].payload
           end(i) == chunk(i).offset + Len(chunk(i).data)
           n == Len(frames) - 1
           k == IF data = <<>> THEN 1 ELSE Pieces(data, size)
<1>1. IsText(data) /\ size \in Nat \ {0}
  BY WireAssumption
<1>2. /\ k \in Nat \ {0} /\ Len(frames) = k + 1
      /\ data = <<>> => frames[2] = [sequence |-> 2, time |-> 2,
                                     payload |-> ChunkPayload(0, 0, 0, TRUE, <<>>)]
      /\ data # <<>> => \A i \in 1..k : frames[i + 1] = [sequence |-> i + 1, time |-> i + 1,
                                                         payload |-> ChunkAt(data, size, i)]
  BY <1>1, TransferIs
<1>3. n = k
  BY <1>2
<1>4. CASE data = <<>>
  <2>1. n = 1 /\ chunk(1) = ChunkPayload(0, 0, 0, TRUE, <<>>) /\ Len(data) = 0
    <3> DEFINE p == ChunkPayload(0, 0, 0, TRUE, <<>>)
    <3>1. frames[1 + 1] = [sequence |-> 2, time |-> 2, payload |-> p]
      BY <1>2, <1>4
    <3> HIDE DEF p, frames
    <3>2. chunk(1) = p
      BY <3>1
    <3> QED BY <1>3, <1>4, <3>2 DEF p, frames
  <2> HIDE DEF chunk, n
  <2>2. /\ chunk(1).offset = 0 /\ chunk(1).final = TRUE /\ chunk(1).total = 0
        /\ chunk(1).data = <<>>
    BY <2>1 DEF ChunkPayload
  <2>3. end(1) = 0 /\ SubSeq(data, 1, 0) = <<>>
    BY <1>4, <2>2
  <2> HIDE DEF end
  <2>4. \A i \in 1..n : i = 1
    BY <2>1
  <2>5. ASSUME NEW i \in 1..n
        PROVE  /\ chunk(i).final <=> i = n
               /\ chunk(i).total = Len(data)
               /\ SubSeq(data, chunk(i).offset + 1, end(i)) = chunk(i).data
    <3>1. i = 1
      BY <2>4
    <3>2. chunk(i).offset = 0 /\ chunk(i).final = TRUE /\ chunk(i).total = 0
          /\ chunk(i).data = <<>> /\ end(i) = 0
      BY <2>2, <2>3, <3>1
    <3>3. SubSeq(data, chunk(i).offset + 1, end(i)) = chunk(i).data
      <4>1. chunk(i).offset + 1 = 1
        BY <3>2
      <4> QED BY <2>3, <3>2, <4>1
    <3>4. chunk(i).final <=> i = n
      BY <2>1, <3>1, <3>2
    <3>5. chunk(i).total = Len(data)
      BY <2>1, <3>2
    <3> QED BY <3>3, <3>4, <3>5
  <2>6. n >= 1 /\ chunk(1).offset = 0 /\ end(n) = Len(data) /\ 1..(n - 1) = {}
    BY <2>1, <2>2, <2>3
  <2> QED BY <2>5, <2>6 DEF chunk, end, n
<1>5. CASE data # <<>>
  <2> DEFINE C == Chunks(data, size)
             L == Len(data)
             to(i) == IF i * size > L THEN L ELSE i * size
  <2>1. k = (L + size - 1) \div size
    BY <1>5 DEF Pieces
  <2>2. L \in Nat /\ \A i \in 1..k :
              /\ (i - 1) * size \in Nat /\ to(i) \in Nat
              /\ (i - 1) * size < to(i) /\ to(i) <= L
              /\ to(i) = IF i = k THEN L ELSE i * size
              /\ C[i] = SubSeq(data, (i - 1) * size + 1, to(i))
              /\ Len(C[i]) = to(i) - (i - 1) * size
    BY <1>1, <1>5, <2>1, ChunksAre
  <2>3. ASSUME NEW i \in 1..k PROVE chunk(i) = ChunkAt(data, size, i)
    <3> DEFINE p == ChunkAt(data, size, i)
    <3>1. frames[i + 1] = [sequence |-> i + 1, time |-> i + 1, payload |-> p]
      BY <1>2, <1>5
    <3> HIDE DEF p, frames, k
    <3> QED BY <3>1 DEF p
  <2> HIDE DEF frames, C, to, k
  <2>4. ASSUME NEW i \in 1..k
        PROVE  /\ chunk(i).offset = (i - 1) * size /\ chunk(i).total = L
               /\ chunk(i).data = C[i]
               /\ chunk(i).final <=> (i - 1) * size + Len(C[i]) >= L
    <3>1. chunk(i) = ChunkAt(data, size, i)
      BY <2>3
    <3> DEFINE j == (i - 1) * size
               last == IsLast(j + Len(C[i]), L)
    <3>2. chunk(i) = ChunkPayload(j, L, i - 1, last, C[i])
      BY <3>1 DEF ChunkAt, C
    <3>3. last <=> j + Len(C[i]) >= L
      BY DEF IsLast
    <3> HIDE DEF chunk, L, C, last
    <3>4. /\ chunk(i).offset = j /\ chunk(i).total = L /\ chunk(i).data = C[i]
          /\ chunk(i).final = last
      BY <3>2 DEF ChunkPayload
    <3> QED BY <3>3, <3>4
  <2> HIDE DEF chunk, L, n
  <2>5. ASSUME NEW i \in 1..k PROVE end(i) = to(i)
    <3> DEFINE j == (i - 1) * size
               t == to(i)
    <3>1. j \in Nat /\ t \in Nat /\ Len(chunk(i).data) = t - j /\ chunk(i).offset = j
      BY <2>2, <2>4
    <3> HIDE DEF j, t
    <3> QED BY <3>1 DEF t
  <2> HIDE DEF end
  <2>6. 1 \in 1..k /\ k \in 1..k
    BY <1>2
  <2>7. n >= 1 /\ end(n) = L
    BY <1>2, <1>3, <2>2, <2>5, <2>6
  <2>8. chunk(1).offset = 0
    <3>1. (1 - 1) * size = 0
      BY <1>1
    <3> QED BY <2>4, <2>6, <3>1
  <2>9. ASSUME NEW i \in 1..(n - 1) PROVE chunk(i + 1).offset = end(i)
    <3>1. i \in 1..k /\ i + 1 \in 1..k /\ i # k /\ (i + 1) - 1 = i
      BY <1>2, <1>3
    <3>2. to(i) = i * size
      BY <2>2, <3>1
    <3>3. chunk(i + 1).offset = i * size
      BY <2>4, <3>1
    <3> QED BY <2>5, <3>1, <3>2, <3>3
  <2>10. ASSUME NEW i \in 1..n
         PROVE  /\ chunk(i).final <=> i = n
                /\ chunk(i).total = L
                /\ SubSeq(data, chunk(i).offset + 1, end(i)) = chunk(i).data
    <3>1. i \in 1..k
      BY <1>3
    <3>2. chunk(i).total = L /\ SubSeq(data, chunk(i).offset + 1, end(i)) = chunk(i).data
      BY <2>2, <2>4, <2>5, <3>1
    <3>3. chunk(i).final <=> to(i) >= L
      <4> DEFINE j == (i - 1) * size
                 t == to(i)
      <4>1. j \in Nat /\ t \in Nat /\ Len(C[i]) = t - j /\ (chunk(i).final <=> j + Len(C[i]) >= L)
        BY <2>2, <2>4, <3>1
      <4> HIDE DEF j, t
      <4> QED BY <4>1 DEF t
    <3>4. to(i) >= L <=> i = k
      <4>1. CASE i = k
        BY <2>2, <3>1, <4>1
      <4>2. CASE i # k
        <5>1. to(i) = i * size /\ i + 1 \in 1..k /\ (i + 1) - 1 = i
          BY <1>2, <2>2, <3>1, <4>2
        <5>2. i * size < to(i + 1) /\ to(i + 1) <= L /\ to(i + 1) \in Nat /\ i * size \in Nat
          BY <2>2, <5>1
        <5> DEFINE j == i * size
                   t == to(i + 1)
                   u == to(i)
        <5>3. u = j /\ j < t /\ t <= L /\ t \in Nat /\ j \in Nat
          BY <5>1, <5>2
        <5> HIDE DEF j, t, u
        <5>4. ~(u >= L)
          BY <2>2, <5>3
        <5> QED BY <4>2, <5>4 DEF u
      <4> QED BY <4>1, <4>2
    <3> QED BY <1>3, <3>2, <3>3, <3>4
  <2> QED BY <2>7, <2>8, <2>9, <2>10 DEF chunk, end, n, L, frames
<1> QED BY <1>4, <1>5

-----------------------------------------------------------------------------
(* What is on the way is the frame, the start of it or the frame and what  *)
(* follows.                                                                *)

EncodingsOf(f) ==
  {EncodedVec(f)} \cup (IF f.payload.kind = "input" THEN {EncodedLegacy(f)} ELSE {})

OtherBytes == <<Cell(1, "junk")>>

WireInv ==
  /\ frame \in SentFrames /\ fate \in {"whole", "cut", "followed"}
  /\ wire = <<>> => fate = "whole" /\ got = <<>>
  /\ wire # <<>> =>
       \E ws \in EncodingsOf(frame) :
          \/ fate = "whole" /\ wire = ws
          \/ fate = "followed" /\ wire = ws \o OtherBytes
          \/ fate = "cut" /\ \E n \in 1..(Len(ws) - 1) : wire = SubSeq(ws, 1, n)
  /\ got # <<>> => got = <<Decoded(wire)>>

LEMMA OtherBytesAreWire == IsWire(OtherBytes)
<1> DEFINE c == Cell(1, "junk")
           S == {c}
<1>1. c.w = 1
  BY DEF Cell
<1> HIDE DEF c
<1>2. OtherBytes \in Seq(S) /\ \A x \in S : x.w \in Nat \ {0}
  BY <1>1 DEF OtherBytes, c
<1> QED BY <1>2, CellsAreWire

LEMMA InitWire == WireInit => WireInv
  BY DEF WireInit, Sending, WireInv

(* What an encoder writes is a wire and not empty.                         *)
LEMMA WrittenIsWire ==
  ASSUME NEW f, IsFrame(f), NEW ws \in EncodingsOf(f)
  PROVE  IsWire(ws) /\ Len(ws) \in Nat \ {0}
<1>1. CASE ws = EncodedVec(f)
  BY <1>1, FrameCells
<1>2. CASE f.payload.kind = "input" /\ ws = EncodedLegacy(f)
  <2>1. IsEvent(f.payload.event)
    BY <1>2 DEF IsFrame, IsPayload, IsInput
  <2> QED BY <1>2, <2>1, LegacyCells
<1> QED BY <1>1, <1>2 DEF EncodingsOf

LEMMA NextWire == WireInv /\ [WireNext]_wireVars => WireInv'
<1> SUFFICES ASSUME WireInv, [WireNext]_wireVars PROVE WireInv'
  OBVIOUS
<1>f. IsFrame(frame)
  BY SentAreFrames DEF WireInv
<1>1. CASE Encode
  <2>1. wire = <<>> /\ UNCHANGED <<frame, fate, got>> /\ wire' \in EncodingsOf(frame)
    BY <1>1 DEF Encode, EncodingsOf
  <2>2. IsWire(wire') /\ Len(wire') \in Nat \ {0}
    BY <1>f, <2>1, WrittenIsWire
  <2>3. wire' # <<>>
    BY <2>2
  <2> QED BY <2>1, <2>3 DEF WireInv, EncodingsOf
<1>2. CASE Travel
  <2>1. wire # <<>> /\ got = <<>> /\ fate = "whole" /\ UNCHANGED <<frame, got>>
    BY <1>2 DEF Travel
  <2>2. wire \in EncodingsOf(frame)
    BY <2>1 DEF WireInv
  <2>3. IsWire(wire) /\ Len(wire) \in Nat \ {0}
    BY <1>f, <2>2, WrittenIsWire
  <2>4. CASE fate' = "cut" /\ \E n \in 1..(Len(wire) - 1) : wire' = SubSeq(wire, 1, n)
    <3>1. PICK n \in 1..(Len(wire) - 1) : wire' = SubSeq(wire, 1, n)
      BY <2>4
    <3>2. Len(SubSeq(wire, 1, n)) = n /\ n >= 1
      BY <2>3, StartIs
    <3>3. wire' # <<>>
      BY <3>1, <3>2
    <3> QED BY <2>1, <2>2, <2>4, <3>1, <3>3 DEF WireInv, EncodingsOf
  <2>5. CASE fate' = "followed" /\ wire' = wire \o OtherBytes
    <3>1. IsWire(OtherBytes)
      BY OtherBytesAreWire
    <3>2. Len(wire \o OtherBytes) = Len(wire) + Len(OtherBytes) /\ Len(OtherBytes) = 1
      BY <2>3, <3>1, JoinIs DEF OtherBytes
    <3>3. wire' # <<>>
      BY <2>3, <2>5, <3>2
    <3> QED BY <2>1, <2>2, <2>5, <3>3 DEF WireInv, EncodingsOf
  <2> QED BY <1>2, <2>4, <2>5 DEF Travel, OtherBytes
<1>3. CASE Decode
  BY <1>3 DEF Decode, WireInv, EncodingsOf
<1>4. CASE UNCHANGED wireVars
  BY <1>4 DEF wireVars, WireInv, EncodingsOf
<1> QED BY <1>1, <1>2, <1>3, <1>4 DEF WireNext

(* A frame that came whole is decoded as what was sent, whichever encoder  *)
(* wrote it.                                                               *)
LEMMA WholeIsDecoded ==
  ASSUME NEW f, IsFrame(f), LengthsFit(f.payload), NEW first \in EncodingsOf(f),
         NEW ws, IsWire(ws), Lies(ws, 0, first), Width(ws) >= 25
  PROVE  Decoded(ws) = IF ws[1].v = "SYN2" THEN f
                       ELSE [f EXCEPT !.payload = LegacyEnvelope(@.event)]
<1>1. CASE first = EncodedVec(f)
  <2>1. first[1] = Cell(4, "SYN2") /\ Len(first) >= 1
    BY <1>1, FrameCells
  <2>2. ws[1] = Cell(4, "SYN2")
    BY <2>1 DEF Lies
  <2>3. Decoded(ws) = f
    BY <1>1, FrameIsDecoded
  <2> QED BY <2>2, <2>3 DEF Cell
<1>2. CASE f.payload.kind = "input" /\ first = EncodedLegacy(f)
  <2>0. IsEvent(f.payload.event)
    BY <1>2 DEF IsFrame, IsPayload, IsInput
  <2>1. first[1] = Cell(4, "SYN1") /\ Len(first) >= 1
    BY <1>2, <2>0, LegacyCells
  <2>2. ws[1] = Cell(4, "SYN1")
    BY <2>1 DEF Lies
  <2>3. Decoded(ws) = [f EXCEPT !.payload = LegacyEnvelope(@.event)]
    BY <1>2, LegacyFrameIsDecoded
  <2>4. ws[1].v # "SYN2"
    BY <2>2 DEF Cell
  <2> QED BY <2>3, <2>4
<1> QED BY <1>1, <1>2 DEF EncodingsOf

LEMMA WireInvIsEnough == WireInv => FramesRoundTrip
<1> SUFFICES ASSUME WireInv, got # <<>> PROVE FramesRoundTrip
  BY DEF FramesRoundTrip, RoundTrip, CutIsRefused
<1>1. IsFrame(frame) /\ wire # <<>> /\ got[1] = Decoded(wire)
  BY SentAreFrames DEF WireInv
<1>2. PICK ws \in EncodingsOf(frame) :
          \/ fate = "whole" /\ wire = ws
          \/ fate = "followed" /\ wire = ws \o OtherBytes
          \/ fate = "cut" /\ \E n \in 1..(Len(ws) - 1) : wire = SubSeq(ws, 1, n)
  BY <1>1 DEF WireInv
<1>3. IsWire(ws) /\ Len(ws) \in Nat \ {0}
  BY <1>1, WrittenIsWire
<1>4. RoundTrip
  <2> SUFFICES ASSUME fate # "cut", Width(wire) >= 25, LengthsFit(frame.payload)
               PROVE  got[1] = FromWire(frame)
    BY DEF RoundTrip
  <2>1. IsWire(wire) /\ Lies(wire, 0, ws)
    <3>1. CASE wire = ws
      BY <1>3, <3>1 DEF Lies
    <3>2. CASE wire = ws \o OtherBytes
      <4>1. IsWire(OtherBytes)
        BY OtherBytesAreWire
      <4> QED BY <1>3, <3>2, <4>1, JoinIs
    <3> QED BY <1>2, <3>1, <3>2
  <2>2. Decoded(wire) = IF wire[1].v = "SYN2" THEN frame
                        ELSE [frame EXCEPT !.payload = LegacyEnvelope(@.event)]
    BY <1>1, <1>2, <2>1, WholeIsDecoded
  <2> QED BY <1>1, <2>2 DEF FromWire
<1>5. CutIsRefused
  <2> SUFFICES ASSUME fate = "cut" PROVE got[1] = Failed("too_short")
    BY DEF CutIsRefused
  <2>1. PICK n \in 1..(Len(ws) - 1) : wire = SubSeq(ws, 1, n)
    BY <1>2
  <2>2. CASE ws = EncodedVec(frame)
    BY <1>1, <2>1, <2>2, CutFrameIsRefused
  <2>3. CASE frame.payload.kind = "input" /\ ws = EncodedLegacy(frame)
    BY <1>1, <2>1, <2>3, CutLegacyIsRefused
  <2> QED BY <1>2, <2>2, <2>3 DEF EncodingsOf
<1> QED BY <1>4, <1>5 DEF FramesRoundTrip

(* A frame is decoded as what was sent or refused: it may be cut anywhere, *)
(* be followed by something and be written by either encoder, and its texts *)
(* and names may have any length.                                          *)
THEOREM FramesAreUnderstood == WireSpec => []FramesRoundTrip
<1>1. WireInit => WireInv
  BY InitWire
<1>2. WireInv /\ [WireNext]_wireVars => WireInv'
  BY NextWire
<1>3. WireInv => FramesRoundTrip
  BY WireInvIsEnough
<1> QED BY <1>1, <1>2, <1>3, PTL DEF WireSpec

-----------------------------------------------------------------------------
(* Answers of devices on the local network.                                *)

(* How many pointers are followed, and one more reads what none are needed *)
(* for.                                                                    *)
Levels == 0..(MaxJumps + 2)

(* A packet that begins with another.                                      *)
Begins(q, p) == Len(p) <= Len(q) /\ \A i \in 1..Len(p) : q[i] = p[i]

TextsIn(p) == {PacketCell(p, o).text : o \in Offsets(p)}
NamesOver(p) == {NoName} \cup {Name(l, a) : l \in Seq(TextsIn(p)), a \in Nat}

(* The labels before the first cell that is none.                          *)
LabelsBetween(p, offset, end) ==
  [i \in 1..(end - offset) |-> PacketCell(p, offset + i - 1).text]

LEMMA PacketIs ==
  ASSUME NEW p, IsText(p)
  PROVE  /\ Len(p) \in Nat /\ DOMAIN p = 1..Len(p) /\ Offsets(p) \subseteq Nat
         /\ \A o \in Offsets(p) : PacketCell(p, o) = p[o + 1] /\ o + 1 \in 1..Len(p)
         /\ \A o \in Offsets(p) : Within(p, o)
         /\ \A o \in Nat : Within(p, o) => o \in Offsets(p)
<1>1. Len(p) \in Nat /\ DOMAIN p = 1..Len(p)
  BY DEF IsText
<1> QED BY <1>1 DEF Offsets, PacketCell, Within

(* There is one such cell at most.                                         *)
LEMMA LabelsEndIs ==
  ASSUME NEW p, IsText(p), NEW o \in Offsets(p), NEW e \in LabelsEnd(p, o)
  PROVE  /\ (CHOOSE x \in LabelsEnd(p, o) : TRUE) = e /\ LabelsEnd(p, o) # {}
         /\ e \in Offsets(p) /\ e >= o /\ e \in Nat /\ o \in Nat
<1>1. Len(p) \in Nat /\ Offsets(p) \subseteq Nat
  BY PacketIs
<1>2. ASSUME NEW x \in LabelsEnd(p, o), NEW y \in LabelsEnd(p, o), x < y PROVE FALSE
  <2>1. x \in o..(y - 1)
    BY <1>1, <1>2 DEF LabelsEnd
  <2> QED BY <2>1 DEF LabelsEnd
<1>3. \A x \in LabelsEnd(p, o) : x \in Nat
  BY <1>1 DEF LabelsEnd
<1>4. \A x \in LabelsEnd(p, o) : x = e
  BY <1>2, <1>3
<1> QED BY <1>1, <1>4 DEF LabelsEnd

LEMMA NamesByType ==
  ASSUME NEW p, IsText(p), NEW t \in [Offsets(p) -> NamesOver(p)]
  PROVE  NamesBy(p, t) \in [Offsets(p) -> NamesOver(p)]
<1> SUFFICES ASSUME NEW o \in Offsets(p) PROVE NamesBy(p, t)[o] \in NamesOver(p)
  BY DEF NamesBy
<1> DEFINE end == CHOOSE e \in LabelsEnd(p, o) : TRUE
           labels == [i \in 1..(end - o) |-> PacketCell(p, o + i - 1).text]
           cell == PacketCell(p, end)
           rest == t[cell.to]
           whole == IF rest.ok THEN Name(labels \o rest.name, CellAfter(end, rest)) ELSE NoName
<1>1. NamesBy(p, t)[o]
        = IF LabelsEnd(p, o) = {} THEN NoName
          ELSE IF cell.kind = "end" THEN Name(labels, end + 1)
          ELSE IF cell.kind # "pointer" \/ cell.to \notin Offsets(p) THEN NoName ELSE whole
  BY DEF NamesBy
<1> HIDE DEF whole
<1>2. CASE LabelsEnd(p, o) = {}
  BY <1>1, <1>2 DEF NamesOver
<1>3. CASE LabelsEnd(p, o) # {}
  <2>1. PICK e \in LabelsEnd(p, o) : TRUE
    BY <1>3
  <2>2. end = e /\ e \in Offsets(p) /\ e >= o /\ e \in Nat /\ o \in Nat
    BY LabelsEndIs
  <2> HIDE DEF end
  <2>3. Len(p) \in Nat
    BY PacketIs
  <2>4. \A i \in 1..(end - o) : o + i - 1 \in Offsets(p)
    BY <2>2, <2>3 DEF Offsets
  <2>5. labels \in Seq(TextsIn(p))
    <3>1. \A i \in 1..(end - o) : PacketCell(p, o + i - 1).text \in TextsIn(p)
      BY <2>4 DEF TextsIn
    <3>2. end - o \in Nat
      BY <2>2
    <3> QED BY <3>1, <3>2
  <2> HIDE DEF labels
  <2>6. Name(labels, end + 1) \in NamesOver(p)
    BY <2>2, <2>5 DEF NamesOver
  <2>7. ASSUME cell.to \in Offsets(p) PROVE whole \in NamesOver(p)
    <3>1. rest \in NamesOver(p)
      BY <2>7
    <3> HIDE DEF rest, cell
    <3>2. CASE rest = NoName
      BY <3>2 DEF whole, NoName, NamesOver
    <3>3. CASE rest # NoName
      <4>1. PICK l \in Seq(TextsIn(p)), a \in Nat : rest = Name(l, a)
        BY <3>1, <3>3 DEF NamesOver
      <4>2. rest.ok /\ rest.name = l
        BY <4>1 DEF Name
      <4>3. labels \o l \in Seq(TextsIn(p)) /\ end + 1 \in Nat
        BY <2>2, <2>5
      <4>4. whole = Name(labels \o l, end + 1)
        BY <4>2 DEF whole, CellAfter
      <4> HIDE DEF whole
      <4> DEFINE both == labels \o l
      <4>5. both \in Seq(TextsIn(p)) /\ whole = Name(both, end + 1)
        BY <4>3, <4>4
      <4> HIDE DEF both
      <4> QED BY ONLY <4>3, <4>5 DEF NamesOver
    <3> QED BY <3>2, <3>3
  <2> QED BY <1>1, <1>3, <2>6, <2>7 DEF NamesOver
<1> QED BY <1>2, <1>3

(* The recursion that reads names.                                         *)
LEMMA NamesAre ==
  ASSUME NEW p, IsText(p)
  PROVE  /\ NamesIn(p)[0] = [o \in Offsets(p) |-> NoName]
         /\ \A n \in Levels \ {0} : NamesIn(p)[n] = NamesBy(p, NamesIn(p)[n - 1])
         /\ \A n \in Levels : NamesIn(p)[n] \in [Offsets(p) -> NamesOver(p)]
<1> DEFINE N == MaxJumps + 2
           T == [Offsets(p) -> NamesOver(p)]
           first == [o \in Offsets(p) |-> NoName]
           step == [n \in 1..N |-> [t \in T |-> NamesBy(p, t)]]
<1>1. first \in T /\ N \in Nat
  BY MdnsAssumption DEF NamesOver
<1>2. step \in [1..N -> [T -> T]]
  BY NamesByType
<1>3. PICK f \in [0..N -> T] : f[0] = first /\ \A n \in 1..N : f[n] = step[n][f[n - 1]]
  <2> HIDE DEF T, first, step, N
  <2>1. Recursions(T, first, N, step) # {}
    BY ONLY <1>1, <1>2, RecursionIs
  <2> QED BY <2>1 DEF Recursions
<1> DEFINE Is(h) == h = [n \in 0..N |-> IF n = 0 THEN first ELSE NamesBy(p, h[n - 1])]
           within == CHOOSE h : Is(h)
<1>4. \A n \in 1..N : n - 1 \in 0..N /\ f[n - 1] \in T /\ f[n] = NamesBy(p, f[n - 1])
  <2> TAKE n \in 1..N
  <2>1. n - 1 \in 0..N
    BY <1>1
  <2> HIDE DEF T
  <2> QED BY <1>3, <2>1
<1>5. Is(f)
  <2>1. f = [n \in 0..N |-> f[n]]
    BY <1>3
  <2>2. \A n \in 0..N : f[n] = IF n = 0 THEN first ELSE NamesBy(p, f[n - 1])
    BY <1>1, <1>3, <1>4
  <2> HIDE DEF first
  <2> QED BY <2>1, <2>2
<1>6. Is(within)
  <2> HIDE DEF Is
  <2> QED BY <1>5
<1>7. NamesIn(p) = within
  BY DEF NamesIn
<1> HIDE DEF within
<1>8. \A n \in 0..N : within[n] = IF n = 0 THEN first ELSE NamesBy(p, within[n - 1])
  <2> HIDE DEF first
  <2> QED BY <1>6
<1>9. within[0] = first /\ \A n \in 1..N : within[n] = NamesBy(p, within[n - 1])
  <2> HIDE DEF first
  <2> QED BY <1>1, <1>8
<1> DEFINE S == {n \in 0..N : within[n] \in T}
<1>10. 0 \in S
  <2> HIDE DEF first
  <2> QED BY <1>1, <1>9
<1>11. ASSUME NEW n \in 0..(N - 1), n \in S PROVE n + 1 \in S
  <2>1. n + 1 \in 1..N /\ (n + 1) - 1 = n /\ within[n] \in T
    BY <1>1, <1>11
  <2>2. within[n + 1] = NamesBy(p, within[n])
    BY <1>9, <2>1
  <2>3. NamesBy(p, within[n]) \in T
    BY <2>1, NamesByType
  <2> QED BY <2>1, <2>2, <2>3
<1>12. \A n \in 0..N : n \in S
  <2> HIDE DEF S
  <2> QED BY <1>1, <1>10, <1>11, UpTo
<1> QED BY <1>1, <1>7, <1>9, <1>12 DEF Levels

(* What a name is when its labels end at a cell.                           *)
LEMMA NameEnds ==
  ASSUME NEW p, IsText(p), NEW n \in Levels \ {0}, NEW o \in Offsets(p),
         NEW e \in LabelsEnd(p, o), PacketCell(p, e).kind = "end"
  PROVE  NamesIn(p)[n][o] = Name(LabelsBetween(p, o, e), e + 1)
<1>1. NamesIn(p)[n] = NamesBy(p, NamesIn(p)[n - 1])
  BY NamesAre
<1>2. (CHOOSE x \in LabelsEnd(p, o) : TRUE) = e /\ LabelsEnd(p, o) # {}
  BY LabelsEndIs
<1> QED BY <1>1, <1>2 DEF NamesBy, LabelsBetween

LEMMA NamePoints ==
  ASSUME NEW p, IsText(p), NEW n \in Levels \ {0}, NEW o \in Offsets(p),
         NEW e \in LabelsEnd(p, o), PacketCell(p, e).kind = "pointer",
         NEW to \in Offsets(p), to = PacketCell(p, e).to, NamesIn(p)[n - 1][to].ok
  PROVE  NamesIn(p)[n][o] = Name(LabelsBetween(p, o, e) \o NamesIn(p)[n - 1][to].name, e + 1)
<1>1. NamesIn(p)[n] = NamesBy(p, NamesIn(p)[n - 1])
  BY NamesAre
<1>2. (CHOOSE x \in LabelsEnd(p, o) : TRUE) = e /\ LabelsEnd(p, o) # {}
  BY LabelsEndIs
<1> DEFINE t == NamesIn(p)[n - 1]
           labels == LabelsBetween(p, o, e)
<1>3. PacketCell(p, e).kind # "end" /\ t[to].ok
  OBVIOUS
<1> HIDE DEF t
<1>4. NamesBy(p, t)[o] = Name(labels \o t[to].name, e + 1)
  BY <1>2, <1>3 DEF NamesBy, LabelsBetween, CellAfter
<1> QED BY <1>1, <1>4 DEF t

(* How a name that was read ends.                                          *)
LEMMA ReadableEnds ==
  ASSUME NEW p, IsText(p), NEW n \in Levels \ {0}, NEW o \in Offsets(p), NamesIn(p)[n][o].ok
  PROVE  \E e \in LabelsEnd(p, o) :
           \/ PacketCell(p, e).kind = "end"
           \/ /\ PacketCell(p, e).kind = "pointer" /\ PacketCell(p, e).to \in Offsets(p)
              /\ NamesIn(p)[n - 1][PacketCell(p, e).to].ok
<1>1. NamesIn(p)[n] = NamesBy(p, NamesIn(p)[n - 1])
  BY NamesAre
<1> DEFINE e == CHOOSE x \in LabelsEnd(p, o) : TRUE
<1>2. NamesIn(p)[n][o].ok /\ ~NoName.ok
  BY DEF NoName
<1>3. LabelsEnd(p, o) # {}
  BY <1>1, <1>2 DEF NamesBy
<1>4. e \in LabelsEnd(p, o)
  BY <1>3
<1> DEFINE rest == NamesIn(p)[n - 1][PacketCell(p, e).to]
<1>5. CASE PacketCell(p, e).kind = "end"
  BY <1>4, <1>5
<1>6. CASE PacketCell(p, e).kind # "end"
  <2>1. PacketCell(p, e).kind = "pointer" /\ PacketCell(p, e).to \in Offsets(p)
    BY <1>1, <1>2, <1>3, <1>6 DEF NamesBy
  <2>2. rest.ok
    BY <1>1, <1>2, <1>3, <1>6, <2>1 DEF NamesBy
  <2> QED BY <1>4, <2>1, <2>2
<1> QED BY <1>5, <1>6

LEMMA NoneAtFirst ==
  ASSUME NEW p, IsText(p)
  PROVE  \A x \in Offsets(p) : ~NamesIn(p)[0][x].ok
<1>1. NamesIn(p)[0] = [o \in Offsets(p) |-> NoName]
  BY NamesAre
<1>2. ~NoName.ok
  BY DEF NoName
<1> HIDE DEF NoName
<1> QED BY <1>1, <1>2

(* What is read does not change when more pointers may be followed.        *)
LEMMA NamesGrow ==
  ASSUME NEW p, IsText(p), NEW m \in Levels, NEW n \in Levels, m <= n,
         NEW o \in Offsets(p), NamesIn(p)[m][o].ok
  PROVE  NamesIn(p)[n][o] = NamesIn(p)[m][o]
<1> DEFINE N == MaxJumps + 2
           R == NamesIn(p)
           S == {k \in 0..N : k < N => \A x \in Offsets(p) : R[k][x].ok => R[k + 1][x] = R[k][x]}
<1>1. N \in Nat /\ Levels = 0..N
  BY MdnsAssumption DEF Levels
<1>2. 0 \in S
  <2>1. \A x \in Offsets(p) : ~R[0][x].ok
    BY NoneAtFirst
  <2> QED BY <1>1, <2>1
<1>3. ASSUME NEW k \in 0..(N - 1), k \in S PROVE k + 1 \in S
  <2> SUFFICES ASSUME k + 1 < N, NEW x \in Offsets(p), R[k + 1][x].ok
               PROVE  R[(k + 1) + 1][x] = R[k + 1][x]
    BY <1>1
  <2>1. /\ k + 1 \in Levels \ {0} /\ (k + 1) - 1 = k
        /\ (k + 1) + 1 \in Levels \ {0} /\ ((k + 1) + 1) - 1 = k + 1
    BY <1>1
  <2>2. PICK e \in LabelsEnd(p, x) :
          \/ PacketCell(p, e).kind = "end"
          \/ /\ PacketCell(p, e).kind = "pointer" /\ PacketCell(p, e).to \in Offsets(p)
             /\ R[k][PacketCell(p, e).to].ok
    BY <2>1, ReadableEnds
  <2>3. CASE PacketCell(p, e).kind = "end"
    <3> QED BY <2>1, <2>3, NameEnds
  <2>4. CASE PacketCell(p, e).kind # "end"
    <3> DEFINE to == PacketCell(p, e).to
    <3>1. PacketCell(p, e).kind = "pointer" /\ to \in Offsets(p) /\ R[k][to].ok
      BY <2>2, <2>4
    <3>2. R[k + 1][to] = R[k][to]
      BY <1>1, <1>3, <3>1
    <3>3. R[k + 1][x] = Name(LabelsBetween(p, x, e) \o R[k][to].name, e + 1)
      BY <2>1, <3>1, NamePoints
    <3>4. R[(k + 1) + 1][x] = Name(LabelsBetween(p, x, e) \o R[k + 1][to].name, e + 1)
      BY <2>1, <3>1, <3>2, NamePoints
    <3> QED BY <3>2, <3>3, <3>4
  <2> QED BY <2>3, <2>4
<1>4. \A k \in 0..N : k \in S
  <2> HIDE DEF S
  <2> QED BY <1>1, <1>2, <1>3, UpTo
<1> DEFINE U == {d \in 0..(n - m) : R[m + d][o] = R[m][o]}
<1>5. m \in Nat /\ n \in Nat /\ n - m \in Nat /\ n <= N /\ 0 \in U
  BY <1>1
<1>6. ASSUME NEW d \in 0..((n - m) - 1), d \in U PROVE d + 1 \in U
  <2>0. R[m + d][o].ok
    BY <1>6
  <2>1. m + d \in 0..N /\ m + d < N /\ R[m + d][o].ok /\ d + 1 \in 0..(n - m)
    <3> HIDE DEF R, N
    <3> QED BY <1>1, <1>5, <2>0
  <2>2. R[(m + d) + 1][o] = R[m + d][o] /\ (m + d) + 1 = m + (d + 1)
    BY <1>4, <1>5, <2>1
  <2> QED BY <1>6, <2>1, <2>2
<1>7. \A d \in 0..(n - m) : d \in U
  <2> HIDE DEF U
  <2> QED BY <1>5, <1>6, UpTo
<1>8. n - m \in 0..(n - m) /\ m + (n - m) = n
  BY <1>5
<1> QED BY <1>7, <1>8

(* Nor when more is written behind.                                        *)
LEMMA NamesStay ==
  ASSUME NEW p, IsText(p), NEW q, IsText(q), Begins(q, p), NEW n \in Levels,
         NEW o \in Offsets(p), NamesIn(p)[n][o].ok
  PROVE  o \in Offsets(q) /\ NamesIn(q)[n][o] = NamesIn(p)[n][o]
<1> DEFINE N == MaxJumps + 2
           R == NamesIn(p)
           Q == NamesIn(q)
           S == {k \in 0..N : \A x \in Offsets(p) : R[k][x].ok => Q[k][x] = R[k][x]}
<1>1. N \in Nat /\ Levels = 0..N
  BY MdnsAssumption DEF Levels
<1>2. /\ Offsets(p) \subseteq Offsets(q) /\ Offsets(p) \subseteq Nat
      /\ \A x \in Offsets(p) : PacketCell(q, x) = PacketCell(p, x)
  <2>1. Len(p) \in Nat /\ Len(q) \in Nat /\ Len(p) <= Len(q)
    BY PacketIs DEF Begins
  <2>2. Offsets(p) \subseteq Offsets(q)
    BY <2>1 DEF Offsets
  <2>3. ASSUME NEW x \in Offsets(p) PROVE PacketCell(q, x) = PacketCell(p, x)
    BY <2>2, PacketIs DEF Begins
  <2> QED BY <2>2, <2>3, PacketIs
<1>3. \A x \in Offsets(p) : \A e \in LabelsEnd(p, x) :
        e \in LabelsEnd(q, x) /\ LabelsBetween(q, x, e) = LabelsBetween(p, x, e)
  <2> SUFFICES ASSUME NEW x \in Offsets(p), NEW e \in LabelsEnd(p, x)
               PROVE  e \in LabelsEnd(q, x) /\ LabelsBetween(q, x, e) = LabelsBetween(p, x, e)
    OBVIOUS
  <2>1. e \in Offsets(p) /\ e >= x /\ e \in Nat /\ x \in Nat /\ Len(p) \in Nat
    BY LabelsEndIs, PacketIs
  <2>2. /\ \A i \in x..(e - 1) : i \in Offsets(p)
        /\ \A i \in 1..(e - x) : x + i - 1 \in Offsets(p)
    BY <2>1 DEF Offsets
  <2>3. e \in LabelsEnd(q, x)
    BY <1>2, <2>1, <2>2 DEF LabelsEnd
  <2>4. LabelsBetween(q, x, e) = LabelsBetween(p, x, e)
    BY <1>2, <2>2 DEF LabelsBetween
  <2> QED BY <2>3, <2>4
<1>4. 0 \in S
  <2>1. \A x \in Offsets(p) : ~R[0][x].ok
    BY NoneAtFirst
  <2> QED BY <1>1, <2>1
<1>5. ASSUME NEW k \in 0..(N - 1), k \in S PROVE k + 1 \in S
  <2> SUFFICES ASSUME NEW x \in Offsets(p), R[k + 1][x].ok PROVE Q[k + 1][x] = R[k + 1][x]
    BY <1>1
  <2>1. k + 1 \in Levels \ {0} /\ (k + 1) - 1 = k
    BY <1>1
  <2>2. PICK e \in LabelsEnd(p, x) :
          \/ PacketCell(p, e).kind = "end"
          \/ /\ PacketCell(p, e).kind = "pointer" /\ PacketCell(p, e).to \in Offsets(p)
             /\ R[k][PacketCell(p, e).to].ok
    BY <2>1, ReadableEnds
  <2>3. /\ e \in LabelsEnd(q, x) /\ LabelsBetween(q, x, e) = LabelsBetween(p, x, e)
        /\ e \in Offsets(p) /\ PacketCell(q, e) = PacketCell(p, e) /\ x \in Offsets(q)
    BY <1>2, <1>3, LabelsEndIs
  <2>4. CASE PacketCell(p, e).kind = "end"
    <3>1. R[k + 1][x] = Name(LabelsBetween(p, x, e), e + 1)
      BY <2>1, <2>4, NameEnds
    <3>2. Q[k + 1][x] = Name(LabelsBetween(q, x, e), e + 1)
      BY <2>1, <2>3, <2>4, NameEnds
    <3> QED BY <2>3, <3>1, <3>2
  <2>5. CASE PacketCell(p, e).kind # "end"
    <3> DEFINE to == PacketCell(p, e).to
    <3>1. /\ PacketCell(p, e).kind = "pointer" /\ to \in Offsets(p) /\ R[k][to].ok
          /\ to \in Offsets(q)
      BY <1>2, <2>2, <2>5
    <3>2. Q[k][to] = R[k][to]
      BY <1>5, <3>1
    <3>3. R[k + 1][x] = Name(LabelsBetween(p, x, e) \o R[k][to].name, e + 1)
      BY <2>1, <3>1, NamePoints
    <3>4. Q[k + 1][x] = Name(LabelsBetween(q, x, e) \o Q[k][to].name, e + 1)
      BY <2>1, <2>3, <3>1, <3>2, NamePoints
    <3> QED BY <2>3, <3>2, <3>3, <3>4
  <2> QED BY <2>4, <2>5
<1>6. \A k \in 0..N : k \in S
  <2> HIDE DEF S
  <2> QED BY <1>1, <1>4, <1>5, UpTo
<1> QED BY <1>1, <1>2, <1>6

LEMMA SequenceIsText ==
  ASSUME NEW S, NEW s \in Seq(S)
  PROVE  IsText(s)
<1>1. s \in [1..Len(s) -> S] /\ Len(s) \in Nat
  OBVIOUS
<1>2. \A i \in 1..Len(s) : s[i] \in ToSet(s)
  BY <1>1 DEF ToSet
<1> DEFINE T == ToSet(s)
<1> HIDE DEF T
<1>3. s \in [1..Len(s) -> T]
  BY <1>1, <1>2 DEF T
<1>4. s \in Seq(T)
  BY <1>1, <1>3
<1> QED BY <1>4 DEF IsText, T

(* The cells of two sequences.                                             *)
LEMMA PacketsJoin ==
  ASSUME NEW p, IsText(p), NEW c, IsText(c)
  PROVE  /\ IsText(p \o c) /\ Len(p \o c) = Len(p) + Len(c) /\ Begins(p \o c, p)
         /\ Len(p) \in Nat /\ Len(c) \in Nat
         /\ \A o \in Offsets(p) : PacketCell(p \o c, o) = PacketCell(p, o) /\ o \in Offsets(p \o c)
         /\ \A o \in Offsets(p \o c) : o \in Offsets(p) \/ \E i \in 1..Len(c) : o = Len(p) + i - 1
<1> DEFINE S == ToSet(p) \cup ToSet(c)
           q == p \o c
           P == Len(p)
           C == Len(c)
<1>1. p \in Seq(S) /\ c \in Seq(S)
  BY DEF IsText
<1> HIDE DEF S
<1>2. /\ q \in Seq(S) /\ Len(q) = P + C /\ P \in Nat /\ C \in Nat
      /\ \A i \in 1..P : q[i] = p[i]
      /\ \A i \in 1..C : q[P + i] = c[i]
  BY <1>1
<1> HIDE DEF q
<1>3. IsText(q)
  BY <1>2, SequenceIsText
<1> HIDE DEF P, C
<1>5. \A o \in 0..(P - 1) : o \in 0..((P + C) - 1) /\ o + 1 \in 1..P
  BY <1>2
<1>6. \A o \in 0..((P + C) - 1) : o \in 0..(P - 1) \/ \E i \in 1..C : o = P + i - 1
  <2> SUFFICES ASSUME NEW o \in 0..((P + C) - 1), o \notin 0..(P - 1)
               PROVE  \E i \in 1..C : o = P + i - 1
    OBVIOUS
  <2>1. (o - P) + 1 \in 1..C /\ o = P + ((o - P) + 1) - 1
    BY <1>2
  <2> QED BY <2>1
<1>8. \A o \in Offsets(p) : PacketCell(q, o) = PacketCell(p, o) /\ o \in Offsets(q)
  BY <1>2, <1>5 DEF PacketCell, Offsets, P
<1>9. \A o \in Offsets(q) : o \in Offsets(p) \/ \E i \in 1..C : o = P + i - 1
  BY <1>2, <1>6 DEF Offsets, P
<1> QED BY <1>2, <1>3, <1>8, <1>9 DEF Begins, P, C, q

LEMMA CellBehind ==
  ASSUME NEW p, IsText(p), NEW c, IsText(c), NEW i \in 1..Len(c), NEW o \in Nat,
         o = Len(p) + i - 1
  PROVE  PacketCell(p \o c, o) = c[i] /\ o \in Offsets(p \o c)
<1> DEFINE S == ToSet(p) \cup ToSet(c)
           q == p \o c
<1>1. p \in Seq(S) /\ c \in Seq(S)
  BY DEF IsText
<1> HIDE DEF S
<1>2. /\ Len(q) = Len(p) + Len(c) /\ Len(p) \in Nat /\ Len(c) \in Nat
      /\ q[Len(p) + i] = c[i] /\ o + 1 = Len(p) + i
  BY <1>1
<1>3. o \in 0..(Len(q) - 1)
  BY <1>2
<1> QED BY <1>2, <1>3 DEF PacketCell, Offsets

(* Packets in which a name can be read from every label on, following      *)
(* fewer pointers than the name has labels.                                *)
ReadableAt(p, o) ==
  \E d \in 1..(MaxJumps + 1) : NamesIn(p)[d][o].ok /\ Len(NamesIn(p)[d][o].name) = d

LabelsRead(p) ==
  /\ IsText(p)
  /\ \A o \in Offsets(p) : PacketCell(p, o).kind = "label" => ReadableAt(p, o)

(* What is written somewhere is read there.                                *)
LEMMA WrittenIs ==
  ASSUME NEW p, LabelsRead(p), NEW name, NEW o \in WrittenName(p, name)
  PROVE  /\ o \in Offsets(p) /\ Len(name) \in 1..(MaxJumps + 1)
         /\ NamesIn(p)[Len(name)][o].ok /\ NamesIn(p)[Len(name)][o].name = name
<1> DEFINE R == NamesIn(p)
           M == MaxJumps + 2
<1>1. /\ o \in Offsets(p) /\ PacketCell(p, o).kind = "label" /\ IsText(p)
      /\ ReadName(p, o).ok /\ ReadName(p, o).name = name
  BY DEF WrittenName, LabelsRead
<1>2. Within(p, o)
  BY <1>1, PacketIs
<1>3. R[M][o].name = name
  BY <1>1, <1>2 DEF ReadName
<1>4. PICK d \in 1..(MaxJumps + 1) : R[d][o].ok /\ Len(R[d][o].name) = d
  BY <1>1 DEF LabelsRead, ReadableAt
<1>5. d \in Levels /\ M \in Levels /\ d <= M
  BY MdnsAssumption DEF Levels
<1>6. R[M][o] = R[d][o]
  BY <1>1, <1>4, <1>5, NamesGrow
<1> QED BY <1>1, <1>3, <1>4, <1>6

(* What is written behind leaves the labels readable.                      *)
LEMMA LabelsStay ==
  ASSUME NEW p, LabelsRead(p), NEW c, IsText(c),
         \A i \in 1..Len(c) : c[i].kind = "label" => ReadableAt(p \o c, Len(p) + i - 1)
  PROVE  LabelsRead(p \o c)
<1> DEFINE q == p \o c
<1>1. IsText(p) /\ IsText(q) /\ Begins(q, p)
  BY PacketsJoin DEF LabelsRead
<1>2. ASSUME NEW o \in Offsets(q), PacketCell(q, o).kind = "label" PROVE ReadableAt(q, o)
  <2>1. CASE o \in Offsets(p)
    <3>0. PacketCell(p, o).kind = "label"
      BY <1>1, <1>2, <2>1, PacketsJoin
    <3>1. PICK d \in 1..(MaxJumps + 1) : NamesIn(p)[d][o].ok /\ Len(NamesIn(p)[d][o].name) = d
      BY <2>1, <3>0 DEF LabelsRead, ReadableAt
    <3>2. d \in Levels
      BY MdnsAssumption DEF Levels
    <3>3. NamesIn(q)[d][o] = NamesIn(p)[d][o]
      BY <1>1, <2>1, <3>1, <3>2, NamesStay
    <3> QED BY <3>1, <3>3 DEF ReadableAt
  <2>2. CASE o \notin Offsets(p)
    <3>1. PICK i \in 1..Len(c) : o = Len(p) + i - 1
      BY <1>1, <2>2, PacketsJoin
    <3>2. PacketCell(q, o) = c[i]
      <4>1. o \in Nat
        BY <1>1, PacketIs
      <4>2. IsText(p) /\ IsText(c)
        BY <1>1
      <4> QED BY ONLY <3>1, <4>1, <4>2, CellBehind
    <3> QED BY <1>2, <3>1, <3>2
  <2> QED BY <2>1, <2>2
<1> QED BY <1>1, <1>2 DEF LabelsRead

LEMMA NoLabelsStay ==
  ASSUME NEW p, LabelsRead(p), NEW c, IsText(c), \A i \in 1..Len(c) : c[i].kind # "label"
  PROVE  LabelsRead(p \o c) /\ IsText(p \o c) /\ Begins(p \o c, p)
         /\ Len(p \o c) = Len(p) + Len(c)
  BY LabelsStay, PacketsJoin DEF LabelsRead

LEMMA BeginsStill ==
  ASSUME NEW r, NEW q, NEW p, IsText(r), IsText(q), IsText(p), Begins(r, q), Begins(q, p)
  PROVE  Begins(r, p)
<1>1. Len(r) \in Nat /\ Len(q) \in Nat /\ Len(p) \in Nat
  BY PacketIs
<1> QED BY <1>1 DEF Begins

(* A name is written so that it is read: as a pointer, as its first label  *)
(* and a pointer, or in full.                                              *)
LEMMA PointerIsRead ==
  ASSUME NEW p, LabelsRead(p), NEW s, LabelsRead(s), Begins(s, p), NEW name, IsText(name),
         WrittenName(p, name) # {}
  PROVE  LET q == s \o <<PointerTo(p, name)>>
         IN  /\ LabelsRead(q) /\ Begins(q, s) /\ Len(q) = Len(s) + 1
             /\ NamesIn(q)[MaxJumps + 2][Len(s)] = Name(name, Len(q))
<1> DEFINE o == CHOOSE x \in WrittenName(p, name) : TRUE
           c == <<Pointer(o)>>
           q == s \o c
           L == Len(name)
           M == MaxJumps + 2
<1>1. /\ o \in Offsets(p) /\ L \in 1..(MaxJumps + 1)
      /\ NamesIn(p)[L][o].ok /\ NamesIn(p)[L][o].name = name
  BY WrittenIs
<1>2. IsText(p) /\ IsText(s)
  BY DEF LabelsRead
<1>3. PointerTo(p, name) = Pointer(o)
  BY DEF PointerTo
<1> HIDE DEF o
<1>4. IsText(c) /\ Len(c) = 1 /\ c[1] = Pointer(o) /\ c[1].kind = "pointer" /\ c[1].to = o
  BY DEF IsText, ToSet, Pointer
<1> HIDE DEF c
<1>5. LabelsRead(q) /\ IsText(q) /\ Begins(q, s) /\ Len(q) = Len(s) + 1
  <2>1. \A i \in 1..Len(c) : c[i].kind # "label"
    BY <1>4
  <2> QED BY <1>4, <2>1, NoLabelsStay
<1>6. PacketCell(q, Len(s)) = c[1] /\ Len(s) \in Offsets(q) /\ Len(s) \in Nat
  <2>1. Len(s) \in Nat /\ 1 \in 1..Len(c) /\ Len(s) = Len(s) + 1 - 1
    BY <1>2, <1>4, PacketsJoin
  <2>2. IsText(s) /\ IsText(c)
    BY <1>2, <1>4
  <2> QED BY ONLY <2>1, <2>2, CellBehind
<1>7. Begins(q, p)
  BY <1>2, <1>5, BeginsStill
<1> HIDE DEF q
<1>8. /\ L \in Levels /\ M - 1 \in Levels /\ L <= M - 1 /\ M \in Levels \ {0}
  BY <1>1, MdnsAssumption DEF Levels
<1>9. NamesIn(p)[M - 1][o] = NamesIn(p)[L][o]
  BY <1>1, <1>2, <1>8, NamesGrow
<1>10. o \in Offsets(q) /\ NamesIn(q)[M - 1][o] = NamesIn(p)[M - 1][o]
  BY <1>1, <1>2, <1>5, <1>7, <1>8, <1>9, NamesStay
<1>11. Len(s) \in LabelsEnd(q, Len(s)) /\ LabelsBetween(q, Len(s), Len(s)) = <<>>
  BY <1>4, <1>6 DEF LabelsEnd, LabelsBetween
<1>12. NamesIn(q)[M][Len(s)]
         = Name(LabelsBetween(q, Len(s), Len(s)) \o NamesIn(q)[M - 1][o].name, Len(s) + 1)
  <2>1. /\ IsText(q) /\ M \in Levels \ {0} /\ Len(s) \in Offsets(q)
        /\ Len(s) \in LabelsEnd(q, Len(s)) /\ PacketCell(q, Len(s)).kind = "pointer"
        /\ o \in Offsets(q) /\ o = PacketCell(q, Len(s)).to
    BY <1>4, <1>5, <1>6, <1>8, <1>10, <1>11
  <2>2. NamesIn(q)[M - 1][o].ok
    BY <1>1, <1>9, <1>10
  <2> HIDE DEF M
  <2> QED BY ONLY <2>1, <2>2, NamePoints
<1>13. <<>> \o name = name
  <2>1. name \in Seq(ToSet(name))
    BY DEF IsText
  <2> QED BY <2>1
<1> QED BY <1>1, <1>3, <1>5, <1>9, <1>10, <1>11, <1>12, <1>13 DEF q, c

LEMMA LabelIsRead ==
  ASSUME NEW p, LabelsRead(p), NEW s, LabelsRead(s), Begins(s, p), NEW name, IsText(name),
         Len(name) \in 1..(MaxJumps + 1), WrittenName(p, Tail(name)) # {}
  PROVE  LET q == s \o <<Label(Head(name)), PointerTo(p, Tail(name))>>
         IN  /\ LabelsRead(q) /\ Begins(q, s) /\ Len(q) = Len(s) + 2
             /\ NamesIn(q)[MaxJumps + 2][Len(s)] = Name(name, Len(q))
<1> DEFINE o == CHOOSE x \in WrittenName(p, Tail(name)) : TRUE
           c == <<Label(Head(name)), Pointer(o)>>
           q == s \o c
           L == Len(name)
           M == MaxJumps + 2
           a == Len(s)
<1>1. name \in Seq(ToSet(name)) /\ L >= 1 /\ L <= MaxJumps + 1 /\ L \in Nat
  BY MdnsAssumption DEF IsText
<1>2. Len(Tail(name)) = L - 1 /\ <<Head(name)>> \o Tail(name) = name
  BY <1>1
<1>3. /\ o \in Offsets(p) /\ L - 1 \in 1..(MaxJumps + 1)
      /\ NamesIn(p)[L - 1][o].ok /\ NamesIn(p)[L - 1][o].name = Tail(name)
  <2>1. o \in WrittenName(p, Tail(name))
    OBVIOUS
  <2> DEFINE rest == Tail(name)
  <2>2. o \in WrittenName(p, rest) /\ Len(rest) = L - 1
    BY <1>2, <2>1
  <2> HIDE DEF rest, o
  <2>3. /\ o \in Offsets(p) /\ Len(rest) \in 1..(MaxJumps + 1)
        /\ NamesIn(p)[Len(rest)][o].ok /\ NamesIn(p)[Len(rest)][o].name = rest
    BY ONLY <2>2, LabelsRead(p), WrittenIs
  <2> QED BY <2>2, <2>3 DEF rest
<1>4. IsText(p) /\ IsText(s)
  BY DEF LabelsRead
<1>5. PointerTo(p, Tail(name)) = Pointer(o)
  BY DEF PointerTo
<1> HIDE DEF o
<1>6. /\ IsText(c) /\ Len(c) = 2 /\ c[1].kind = "label" /\ c[1].text = Head(name)
      /\ c[2].kind = "pointer" /\ c[2].to = o
  <2>1. c \in Seq({Label(Head(name)), Pointer(o)})
    OBVIOUS
  <2> QED BY <2>1, SequenceIsText DEF Label, Pointer
<1> HIDE DEF c
<1>7. IsText(q) /\ Begins(q, s) /\ Len(q) = a + 2 /\ a \in Nat
  <2>1. IsText(q) /\ Begins(q, s) /\ Len(q) = Len(s) + Len(c) /\ Len(s) \in Nat
    BY ONLY <1>4, <1>6, PacketsJoin
  <2> QED BY <1>6, <2>1
<1>8. /\ a \in Offsets(q) /\ PacketCell(q, a) = c[1]
      /\ a + 1 \in Offsets(q) /\ PacketCell(q, a + 1) = c[2]
  <2>1. 1 \in 1..Len(c) /\ 2 \in 1..Len(c) /\ a = Len(s) + 1 - 1 /\ a + 1 = Len(s) + 2 - 1
        /\ a + 1 \in Nat
    BY <1>6, <1>7
  <2>2. a \in Offsets(q) /\ PacketCell(q, a) = c[1]
    BY ONLY <1>4, <1>6, <1>7, <2>1, CellBehind
  <2>3. a + 1 \in Offsets(q) /\ PacketCell(q, a + 1) = c[2]
    BY ONLY <1>4, <1>6, <1>7, <2>1, CellBehind
  <2> QED BY <2>2, <2>3
<1>9. Begins(q, p)
  BY <1>4, <1>7, BeginsStill
<1> HIDE DEF q
<1>10. L - 1 \in Levels /\ L \in Levels \ {0} /\ M \in Levels /\ L <= M
  BY <1>1, <1>3, MdnsAssumption DEF Levels
<1>11. o \in Offsets(q) /\ NamesIn(q)[L - 1][o] = NamesIn(p)[L - 1][o]
  BY <1>3, <1>4, <1>7, <1>9, <1>10, NamesStay
<1>12. a + 1 \in LabelsEnd(q, a) /\ LabelsBetween(q, a, a + 1) = <<Head(name)>>
  <2>1. \A x \in a..((a + 1) - 1) : x = a
    BY <1>7
  <2>2. a + 1 \in LabelsEnd(q, a)
    BY <1>6, <1>7, <1>8, <2>1 DEF LabelsEnd
  <2>3. (a + 1) - a = 1 /\ a + 1 - 1 = a /\ PacketCell(q, a).text = Head(name)
    BY <1>6, <1>7, <1>8
  <2>4. LabelsBetween(q, a, a + 1) = [i \in 1..1 |-> PacketCell(q, a + i - 1).text]
    BY <2>3 DEF LabelsBetween
  <2>5. \A i \in 1..1 : i = 1
    OBVIOUS
  <2>6. LabelsBetween(q, a, a + 1) = [i \in 1..1 |-> Head(name)]
    BY <2>3, <2>4, <2>5
  <2> QED BY <2>2, <2>6
<1>13. NamesIn(q)[L][a] = Name(<<Head(name)>> \o Tail(name), (a + 1) + 1)
  <2>1. /\ IsText(q) /\ L \in Levels \ {0} /\ a \in Offsets(q) /\ a + 1 \in LabelsEnd(q, a)
        /\ PacketCell(q, a + 1).kind = "pointer" /\ o \in Offsets(q)
        /\ o = PacketCell(q, a + 1).to /\ NamesIn(q)[L - 1][o].ok
    BY <1>3, <1>6, <1>7, <1>8, <1>10, <1>11, <1>12
  <2>2. NamesIn(q)[L][a]
          = Name(LabelsBetween(q, a, a + 1) \o NamesIn(q)[L - 1][o].name, (a + 1) + 1)
    <3> HIDE DEF L, a
    <3> QED BY ONLY <2>1, NamePoints
  <2> QED BY <1>3, <1>11, <1>12, <2>2
<1>14. NamesIn(q)[L][a] = Name(name, Len(q))
  <2>1. (a + 1) + 1 = Len(q)
    BY <1>7
  <2> QED BY <1>2, <1>13, <2>1
<1>15. NamesIn(q)[L][a].ok /\ NamesIn(q)[L][a].name = name
  BY <1>14 DEF Name
<1>16. NamesIn(q)[M][a] = Name(name, Len(q))
  <2>1. NamesIn(q)[M][a] = NamesIn(q)[L][a]
    <3> HIDE DEF L, M, a
    <3> QED BY ONLY <1>7, <1>8, <1>10, <1>15, NamesGrow
  <2> QED BY <1>14, <2>1
<1>17. LabelsRead(q)
  <2>1. ASSUME NEW i \in 1..Len(c), c[i].kind = "label" PROVE ReadableAt(s \o c, a + i - 1)
    <3>1. i = 1
      BY <1>6, <2>1
    <3>2. a + i - 1 = a /\ L \in 1..(MaxJumps + 1)
      BY <1>1, <1>7, <3>1
    <3> QED BY <1>15, <3>2 DEF ReadableAt, q
  <2> QED BY <1>6, <2>1, LabelsStay DEF q
<1> QED BY <1>5, <1>7, <1>16, <1>17 DEF q, c

LEMMA FullIsRead ==
  ASSUME NEW s, LabelsRead(s), NEW name, IsText(name), Len(name) \in 1..(MaxJumps + 1)
  PROVE  LET c == [i \in DOMAIN name |-> Label(name[i])] \o <<End>>
             q == s \o c
         IN  /\ LabelsRead(q) /\ Begins(q, s) /\ Len(q) = Len(s) + (Len(name) + 1)
             /\ IsText(c) /\ Len(c) = Len(name) + 1
             /\ NamesIn(q)[MaxJumps + 2][Len(s)] = Name(name, Len(q))
<1> DEFINE labels == [i \in DOMAIN name |-> Label(name[i])]
           c == labels \o <<End>>
           q == s \o c
           L == Len(name)
           M == MaxJumps + 2
           a == Len(s)
<1>1. /\ name \in Seq(ToSet(name)) /\ L >= 1 /\ L <= MaxJumps + 1 /\ L \in Nat
      /\ DOMAIN name = 1..L /\ IsText(s) /\ name = [i \in 1..L |-> name[i]]
  BY MdnsAssumption DEF IsText, LabelsRead
<1>2. /\ IsText(c) /\ Len(c) = L + 1 /\ c[L + 1] = End
      /\ \A i \in 1..L : c[i] = Label(name[i])
  <2> DEFINE C == {Label(name[i]) : i \in 1..L} \cup {End}
             t == <<End>>
  <2>1. labels \in Seq(C) /\ Len(labels) = L /\ \A i \in 1..L : labels[i] = Label(name[i])
    BY <1>1
  <2>2. t \in Seq(C) /\ Len(t) = 1 /\ t[1] = End
    OBVIOUS
  <2> HIDE DEF C, t, labels
  <2>3. /\ labels \o t \in Seq(C) /\ Len(labels \o t) = L + 1 /\ (labels \o t)[L + 1] = End
        /\ \A i \in 1..L : (labels \o t)[i] = labels[i]
    <3>1. L \in Nat
      BY <1>1
    <3> HIDE DEF L
    <3>2. /\ labels \o t \in Seq(C) /\ Len(labels \o t) = Len(labels) + Len(t)
          /\ \A i \in 1..(Len(labels) + Len(t)) :
               (labels \o t)[i] = IF i <= Len(labels) THEN labels[i] ELSE t[i - Len(labels)]
      <4>1. labels \in Seq(C) /\ t \in Seq(C)
        BY <2>1, <2>2
      <4> HIDE DEF C
      <4>2. labels \o t \in Seq(C)
        BY ONLY <4>1
      <4>3. Len(labels \o t) = Len(labels) + Len(t)
        BY ONLY <4>1
      <4>4. \A i \in 1..(Len(labels) + Len(t)) :
               (labels \o t)[i] = IF i <= Len(labels) THEN labels[i] ELSE t[i - Len(labels)]
        BY ONLY <4>1
      <4> QED BY ONLY <4>2, <4>3, <4>4
    <3>3. L + 1 \in 1..(L + 1) /\ ~(L + 1 <= L) /\ (L + 1) - L = 1
          /\ \A i \in 1..L : i \in 1..(L + 1) /\ i <= L
      BY <3>1
    <3> QED BY ONLY <2>1, <2>2, <3>2, <3>3
  <2>4. IsText(labels \o t)
    BY <2>3, SequenceIsText
  <2> QED BY <2>1, <2>3, <2>4 DEF t
<1> HIDE DEF c
<1>3. IsText(q) /\ Begins(q, s) /\ Len(q) = a + (L + 1) /\ a \in Nat
  <2>1. IsText(q) /\ Begins(q, s) /\ Len(q) = Len(s) + Len(c) /\ Len(s) \in Nat
    BY ONLY <1>1, <1>2, PacketsJoin
  <2> QED BY <1>2, <2>1
<1>4. ASSUME NEW i \in 1..(L + 1)
      PROVE  (a + i) - 1 \in Offsets(q) /\ PacketCell(q, (a + i) - 1) = c[i]
  <2>1. /\ i \in 1..Len(c) /\ (a + i) - 1 \in Nat /\ (a + i) - 1 = Len(s) + i - 1
        /\ IsText(s) /\ IsText(c)
    BY <1>1, <1>2, <1>3
  <2> QED BY ONLY <2>1, CellBehind
<1> HIDE DEF q
<1>5. ASSUME NEW i \in 1..L
      PROVE  NamesIn(q)[1][(a + i) - 1] = Name(SubSeq(name, i, L), Len(q))
  <2> DEFINE x == (a + i) - 1
             e == a + L
  <2>1. /\ x \in Offsets(q) /\ e \in Offsets(q) /\ x \in Nat /\ e \in Nat /\ e >= x
        /\ PacketCell(q, e) = End
    <3>1. (a + (L + 1)) - 1 = e /\ L + 1 \in 1..(L + 1) /\ i \in 1..(L + 1) /\ i <= L /\ i \in Nat
      BY <1>1, <1>3
    <3>2. e \in Offsets(q) /\ PacketCell(q, e) = c[L + 1]
      BY <1>4, <3>1
    <3> QED BY <1>2, <1>3, <1>4, <3>1, <3>2
  <2>2. ASSUME NEW y \in x..(e - 1)
        PROVE  PacketCell(q, y) = Label(name[(y - a) + 1]) /\ (y - a) + 1 \in 1..L
    <3>1. /\ (y - a) + 1 \in 1..L /\ (a + ((y - a) + 1)) - 1 = y /\ (y - a) + 1 \in 1..(L + 1)
      BY <1>1, <1>3
    <3> QED BY <1>2, <1>4, <3>1
  <2>3. e \in LabelsEnd(q, x)
    BY <2>1, <2>2 DEF LabelsEnd, Label, End
  <2>4. LabelsBetween(q, x, e) = SubSeq(name, i, L)
    <3>1. e - x = (L - i) + 1
      BY <1>1, <1>3
    <3>2. ASSUME NEW k \in 1..(e - x) PROVE PacketCell(q, x + k - 1).text = name[i + k - 1]
      <4>1. x + k - 1 \in x..(e - 1) /\ ((x + k - 1) - a) + 1 = i + k - 1
        BY <1>1, <1>3
      <4> QED BY <2>2, <4>1 DEF Label
    <3>3. LabelsBetween(q, x, e) = [k \in 1..(e - x) |-> name[i + k - 1]]
      BY <3>2 DEF LabelsBetween
    <3>4. SubSeq(name, i, L) = [k \in 1..((L - i) + 1) |-> name[i + k - 1]]
      BY <1>1
    <3> QED BY <3>1, <3>3, <3>4
  <2>5. 1 \in Levels \ {0} /\ PacketCell(q, e).kind = "end" /\ e + 1 = Len(q)
    BY <1>1, <1>3, <2>1, MdnsAssumption DEF Levels, End
  <2>6. NamesIn(q)[1][x] = Name(LabelsBetween(q, x, e), e + 1)
    <3> HIDE DEF x, e
    <3> QED BY ONLY <1>3, <2>1, <2>3, <2>5, NameEnds
  <2> QED BY <2>4, <2>5, <2>6
<1>6. NamesIn(q)[M][a] = Name(name, Len(q))
  <2>1. 1 \in 1..L /\ (a + 1) - 1 = a /\ SubSeq(name, 1, L) = name
    BY <1>1, <1>3
  <2>2. NamesIn(q)[1][a] = Name(name, Len(q))
    BY <1>5, <2>1
  <2>3. NamesIn(q)[1][a].ok /\ 1 \in Levels /\ M \in Levels /\ 1 <= M /\ a \in Offsets(q)
    <3>1. 1 \in 1..(L + 1)
      BY <1>1
    <3>2. a \in Offsets(q)
      BY <1>4, <2>1, <3>1
    <3> QED BY <2>2, <3>2, MdnsAssumption DEF Levels, Name
  <2>4. NamesIn(q)[M][a] = NamesIn(q)[1][a]
    <3> HIDE DEF M, a
    <3> QED BY ONLY <1>3, <2>3, NamesGrow
  <2> QED BY <2>2, <2>4
<1>7. LabelsRead(q)
  <2>1. ASSUME NEW i \in 1..Len(c), c[i].kind = "label" PROVE ReadableAt(q, a + i - 1)
    <3>1. i \in 1..L
      BY <1>1, <1>2, <2>1 DEF End
    <3> DEFINE x == (a + i) - 1
               d == (L - i) + 1
    <3>2. /\ d \in 1..(MaxJumps + 1) /\ d \in Levels /\ 1 \in Levels /\ 1 <= d
          /\ Len(SubSeq(name, i, L)) = d /\ i \in 1..(L + 1) /\ x = a + i - 1
      BY <1>1, <1>3, <3>1, MdnsAssumption DEF Levels
    <3>3. NamesIn(q)[1][x] = Name(SubSeq(name, i, L), Len(q)) /\ x \in Offsets(q)
      BY <1>4, <1>5, <3>1, <3>2
    <3>4. NamesIn(q)[1][x].ok /\ NamesIn(q)[1][x].name = SubSeq(name, i, L)
      BY <3>3 DEF Name
    <3>5. NamesIn(q)[d][x] = NamesIn(q)[1][x]
      <4> HIDE DEF x, d
      <4> QED BY ONLY <1>3, <3>2, <3>3, <3>4, NamesGrow
    <3>6. NamesIn(q)[d][x].ok /\ Len(NamesIn(q)[d][x].name) = d
      BY <3>2, <3>4, <3>5
    <3> HIDE DEF d
    <3> QED BY <3>2, <3>6 DEF ReadableAt
  <2> QED BY <1>2, <2>1, LabelsStay DEF q
<1> QED BY <1>2, <1>3, <1>6, <1>7 DEF q, c

IsName(name) == IsText(name) /\ Len(name) \in 1..(MaxJumps + 1)

LEMMA NameIsRead ==
  ASSUME NEW p, LabelsRead(p), NEW s, LabelsRead(s), Begins(s, p), NEW name, IsName(name)
  PROVE  LET c == EncodedName(p, name)
             q == s \o c
         IN  /\ LabelsRead(q) /\ Begins(q, s) /\ Len(q) = Len(s) + Len(c) /\ Len(c) \in Nat \ {0}
             /\ Len(s) \in Offsets(q) /\ NamesIn(q)[MaxJumps + 2][Len(s)] = Name(name, Len(q))
<1> DEFINE c == EncodedName(p, name)
           q == s \o c
           M == MaxJumps + 2
           Read == /\ LabelsRead(q) /\ Begins(q, s) /\ Len(q) = Len(s) + Len(c)
                   /\ Len(c) \in Nat \ {0} /\ NamesIn(q)[M][Len(s)] = Name(name, Len(q))
<1>1. IsText(s) /\ IsText(name) /\ Len(name) \in 1..(MaxJumps + 1)
  BY DEF LabelsRead, IsName
<1>2. ASSUME WrittenName(p, name) # {} PROVE Read
  <2>1. c = <<PointerTo(p, name)>> /\ Len(c) = 1
    BY <1>2 DEF EncodedName
  <2> HIDE DEF c
  <2>2. /\ LabelsRead(q) /\ Begins(q, s) /\ Len(q) = Len(s) + 1
        /\ NamesIn(q)[M][Len(s)] = Name(name, Len(q))
    BY <1>1, <1>2, <2>1, PointerIsRead
  <2> QED BY <2>1, <2>2
<1>3. ASSUME WrittenName(p, name) = {}, WrittenName(p, Tail(name)) # {} PROVE Read
  <2>1. c = <<Label(Head(name)), PointerTo(p, Tail(name))>> /\ Len(c) = 2
    BY <1>3 DEF EncodedName
  <2> HIDE DEF c
  <2>2. /\ LabelsRead(q) /\ Begins(q, s) /\ Len(q) = Len(s) + 2
        /\ NamesIn(q)[M][Len(s)] = Name(name, Len(q))
    BY <1>1, <1>3, <2>1, LabelIsRead
  <2> QED BY <2>1, <2>2
<1>4. ASSUME WrittenName(p, name) = {}, WrittenName(p, Tail(name)) = {} PROVE Read
  <2>1. c = [i \in DOMAIN name |-> Label(name[i])] \o <<End>>
    BY <1>4 DEF EncodedName
  <2> HIDE DEF c
  <2>2. /\ LabelsRead(q) /\ Begins(q, s) /\ Len(q) = Len(s) + (Len(name) + 1)
        /\ Len(c) = Len(name) + 1 /\ NamesIn(q)[M][Len(s)] = Name(name, Len(q))
    BY <1>1, <2>1, FullIsRead
  <2>3. Len(c) \in Nat \ {0}
    BY <1>1, <2>2, MdnsAssumption
  <2> QED BY <2>2, <2>3
<1>5. Read
  <2> HIDE DEF Read
  <2> QED BY <1>2, <1>3, <1>4
<1>6. Len(s) \in Offsets(q)
  <2>1. Len(s) \in Nat
    BY <1>1, PacketIs
  <2> HIDE DEF c, q
  <2> QED BY <1>5, <2>1 DEF Offsets
<1> QED BY <1>5, <1>6

(* A resource record, and where it is written in a packet.                 *)
IsResource(r) == IsName(r.name) /\ IsText(r.data) /\ (r.of = <<>> \/ IsName(r.of))

WrittenAs(q, o, r, at, length) ==
  /\ o \in Offsets(q) /\ NamesIn(q)[MaxJumps + 2][o] = Name(r.name, at)
  /\ at \in Offsets(q) /\ PacketCell(q, at) = Fixed(r.type, length)
  /\ length \in Nat /\ at + 1 + length <= Len(q) /\ length >= Len(r.data)
  /\ \A i \in 1..Len(r.data) :
       at + i \in Offsets(q) /\ PacketCell(q, at + i) = Datum(r.data[i])
  /\ r.of = <<>> => length = Len(r.data)
  /\ r.of # <<>> =>
       LET target == at + 1 + Len(r.data)
       IN  /\ length > Len(r.data) /\ target \in Offsets(q)
           /\ NamesIn(q)[MaxJumps + 2][target] = Name(r.of, at + 1 + length)

LEMMA CellsStay ==
  ASSUME NEW p, IsText(p), NEW q, IsText(q), Begins(q, p)
  PROVE  \A o \in Offsets(p) : o \in Offsets(q) /\ PacketCell(q, o) = PacketCell(p, o)
<1>1. Len(p) \in Nat /\ Len(q) \in Nat /\ Len(p) <= Len(q)
  BY PacketIs DEF Begins
<1>2. \A o \in Offsets(p) : o \in Offsets(q)
  BY <1>1 DEF Offsets
<1> QED BY <1>2, PacketIs DEF Begins

LEMMA WrittenStays ==
  ASSUME NEW p, IsText(p), NEW q, IsText(q), Begins(q, p), NEW o, NEW r, NEW at, NEW length,
         IsText(r.data), WrittenAs(p, o, r, at, length)
  PROVE  WrittenAs(q, o, r, at, length)
<1> DEFINE M == MaxJumps + 2
<1>1. M \in Levels
  BY MdnsAssumption DEF Levels
<1>2. ASSUME NEW x \in Offsets(p), NEW l, NEW a, NamesIn(p)[M][x] = Name(l, a)
      PROVE  x \in Offsets(q) /\ NamesIn(q)[M][x] = Name(l, a)
  <2>1. NamesIn(p)[M][x].ok
    BY <1>2 DEF Name
  <2> HIDE DEF M
  <2> QED BY ONLY <1>1, <1>2, <2>1, IsText(p), IsText(q), Begins(q, p), NamesStay
<1>3. \A x \in Offsets(p) : x \in Offsets(q) /\ PacketCell(q, x) = PacketCell(p, x)
  BY CellsStay
<1>4. Len(p) \in Nat /\ Len(q) \in Nat /\ Len(p) <= Len(q) /\ Offsets(p) \subseteq Nat
  BY PacketIs DEF Begins
<1>5. /\ o \in Offsets(q) /\ NamesIn(q)[M][o] = Name(r.name, at)
      /\ at \in Offsets(q) /\ PacketCell(q, at) = Fixed(r.type, length)
  BY <1>2, <1>3 DEF WrittenAs
<1>6. length \in Nat /\ at + 1 + length <= Len(q) /\ length >= Len(r.data)
  <2>1. length \in Nat /\ at + 1 + length <= Len(p) /\ length >= Len(r.data) /\ at \in Offsets(p)
    BY DEF WrittenAs
  <2> QED BY <1>4, <2>1
<1>7. \A i \in 1..Len(r.data) :
        at + i \in Offsets(q) /\ PacketCell(q, at + i) = Datum(r.data[i])
  BY <1>3 DEF WrittenAs
<1>8. ASSUME r.of # <<>>
      PROVE  LET target == at + 1 + Len(r.data)
             IN  /\ length > Len(r.data) /\ target \in Offsets(q)
                 /\ NamesIn(q)[M][target] = Name(r.of, at + 1 + length)
  <2> DEFINE target == at + 1 + Len(r.data)
  <2>1. /\ length > Len(r.data) /\ target \in Offsets(p)
        /\ NamesIn(p)[M][target] = Name(r.of, at + 1 + length)
    BY <1>8 DEF WrittenAs
  <2> HIDE DEF target, M
  <2>2. target \in Offsets(q) /\ NamesIn(q)[M][target] = Name(r.of, at + 1 + length)
    BY <1>2, <2>1
  <2> QED BY <2>1, <2>2 DEF target
<1>9. r.of = <<>> => length = Len(r.data)
  BY DEF WrittenAs
<1> QED BY <1>5, <1>6, <1>7, <1>8, <1>9 DEF WrittenAs

(* A record that is written is parsed.                                     *)
LEMMA RecordIsParsed ==
  ASSUME NEW q, IsText(q), NEW o, NEW r, NEW at, NEW length, WrittenAs(q, o, r, at, length)
  PROVE  ParseRecord(q, o) = <<Record(r.name, r.type, at + 1, length)>>
<1> DEFINE read == ReadName(q, o)
           fixed == PacketCell(q, at)
<1>1. /\ o \in Offsets(q) /\ NamesIn(q)[MaxJumps + 2][o] = Name(r.name, at)
      /\ at \in Offsets(q) /\ fixed = Fixed(r.type, length) /\ at + 1 + length <= Len(q)
  BY DEF WrittenAs
<1>2. Within(q, o) /\ Within(q, at)
  BY <1>1, PacketIs
<1>3. read = Name(r.name, at)
  BY <1>1, <1>2 DEF ReadName
<1>4. read.ok /\ read.name = r.name /\ read.after = at
  BY <1>3 DEF Name
<1>5. fixed.kind = "fixed" /\ fixed.type = r.type /\ fixed.length = length
  BY <1>1 DEF Fixed
<1> HIDE DEF read, fixed
<1> QED BY <1>1, <1>2, <1>4, <1>5 DEF ParseRecord, read, fixed

(* A record is written behind what a packet holds so that it can be read   *)
(* there.                                                                  *)
LEMMA RecordIsWritten ==
  ASSUME NEW p, LabelsRead(p), NEW r, IsResource(r)
  PROVE  LET q == EncodedRecord(p, r)
         IN  /\ LabelsRead(q) /\ Begins(q, p)
             /\ \E at \in Nat, length \in Nat :
                  WrittenAs(q, Len(p), r, at, length) /\ Len(q) = at + 1 + length
<1> DEFINE M == MaxJumps + 2
           name == EncodedName(p, r.name)
           q1 == p \o name
           data == [i \in DOMAIN r.data |-> Datum(r.data[i])]
           target == IF r.of = <<>> THEN <<>> ELSE EncodedName(q1, r.of)
           length == Len(data) + Len(target)
           fixed == <<Fixed(r.type, length)>>
           q2 == q1 \o fixed
           q3 == q2 \o data
           q4 == q3 \o target
<1>0. M \in Levels
  BY MdnsAssumption DEF Levels
<1>1. EncodedRecord(p, r) = q4
  BY DEF EncodedRecord
<1>2. IsName(r.name) /\ IsText(r.data) /\ (r.of = <<>> \/ IsName(r.of))
  BY DEF IsResource
<1>3. /\ LabelsRead(q1) /\ Begins(q1, p) /\ Len(p) \in Offsets(q1)
      /\ NamesIn(q1)[M][Len(p)] = Name(r.name, Len(q1))
  <2>1. Begins(p, p)
    <3>1. Len(p) \in Nat
      BY PacketIs DEF LabelsRead
    <3> QED BY <3>1 DEF Begins
  <2> QED BY <1>2, <2>1, NameIsRead
<1>4. IsText(p) /\ IsText(q1)
  BY <1>3 DEF LabelsRead
<1>5. IsText(data) /\ Len(data) = Len(r.data) /\ Len(r.data) \in Nat
      /\ \A i \in 1..Len(data) : data[i] = Datum(r.data[i]) /\ data[i].kind # "label"
  <2>1. Len(r.data) \in Nat /\ DOMAIN r.data = 1..Len(r.data)
    BY <1>2, PacketIs
  <2>2. data \in Seq({Datum(r.data[i]) : i \in DOMAIN r.data})
    BY <2>1
  <2>3. Len(data) = Len(r.data)
    BY <2>1
  <2>4. \A i \in 1..Len(data) : data[i] = Datum(r.data[i])
    BY <2>1, <2>3
  <2> HIDE DEF data
  <2>5. IsText(data)
    BY <2>2, SequenceIsText
  <2> QED BY <2>1, <2>3, <2>4, <2>5 DEF Datum
<1>6. IsText(fixed) /\ Len(fixed) = 1 /\ fixed[1] = Fixed(r.type, length)
      /\ \A i \in 1..Len(fixed) : fixed[i].kind # "label"
  <2>1. Len(fixed) = 1 /\ fixed[1] = Fixed(r.type, length) /\ fixed \in Seq({Fixed(r.type, length)})
    BY DEF Fixed
  <2> HIDE DEF fixed, length
  <2>2. IsText(fixed)
    BY <2>1, SequenceIsText
  <2> QED BY <2>1, <2>2 DEF Fixed
<1>7. /\ LabelsRead(q2) /\ IsText(q2) /\ Begins(q2, q1) /\ Len(q2) = Len(q1) + 1
      /\ Len(q1) \in Offsets(q2) /\ PacketCell(q2, Len(q1)) = Fixed(r.type, length)
      /\ Len(q1) \in Nat
  <2> HIDE DEF q1, fixed, length
  <2>1. LabelsRead(q2) /\ IsText(q2) /\ Begins(q2, q1) /\ Len(q2) = Len(q1) + 1
    BY <1>3, <1>6, NoLabelsStay
  <2>2. Len(q1) \in Nat
    BY <1>4, PacketIs
  <2>3. 1 \in 1..Len(fixed) /\ Len(q1) = Len(q1) + 1 - 1
    BY <1>6, <2>2
  <2>4. PacketCell(q2, Len(q1)) = fixed[1] /\ Len(q1) \in Offsets(q2)
    BY ONLY <1>4, <1>6, <2>2, <2>3, CellBehind
  <2> QED BY <1>6, <2>1, <2>2, <2>4
<1>8. /\ LabelsRead(q3) /\ IsText(q3) /\ Begins(q3, q2) /\ Len(q3) = Len(q2) + Len(data)
      /\ \A i \in 1..Len(r.data) : Len(q1) + i \in Offsets(q3)
                                   /\ PacketCell(q3, Len(q1) + i) = Datum(r.data[i])
  <2> HIDE DEF q2, data
  <2>1. LabelsRead(q3) /\ IsText(q3) /\ Begins(q3, q2) /\ Len(q3) = Len(q2) + Len(data)
    BY <1>5, <1>7, NoLabelsStay
  <2>2. ASSUME NEW i \in 1..Len(r.data)
        PROVE  Len(q1) + i \in Offsets(q3) /\ PacketCell(q3, Len(q1) + i) = Datum(r.data[i])
    <3> DEFINE o == Len(q1) + i
    <3>1. i \in 1..Len(data) /\ o \in Nat /\ o = Len(q2) + i - 1
      BY <1>5, <1>7
    <3> HIDE DEF o
    <3>2. IsText(q2) /\ IsText(data)
      BY <1>5, <1>7
    <3>3. PacketCell(q3, o) = data[i] /\ o \in Offsets(q3)
      BY ONLY <3>1, <3>2, CellBehind
    <3> QED BY <1>5, <3>1, <3>3 DEF o
  <2> QED BY <2>1, <2>2
<1>9. Begins(q3, q1)
  <2> HIDE DEF q1, q2, q3
  <2> QED BY <1>4, <1>7, <1>8, BeginsStill
<1>10. /\ LabelsRead(q4) /\ IsText(q4) /\ Begins(q4, q3) /\ Len(q4) = Len(q3) + Len(target)
       /\ Len(target) \in Nat
       /\ r.of = <<>> => Len(target) = 0
       /\ r.of # <<>> => /\ Len(target) > 0 /\ Len(q3) \in Offsets(q4)
                         /\ NamesIn(q4)[M][Len(q3)] = Name(r.of, Len(q4))
  <2>1. CASE r.of = <<>>
    <3>1. target = <<>>
      BY <2>1
    <3> HIDE DEF target, q3
    <3>2. IsText(target) /\ Len(target) = 0 /\ \A i \in 1..Len(target) : target[i].kind # "label"
      BY <3>1 DEF IsText
    <3>3. LabelsRead(q4) /\ IsText(q4) /\ Begins(q4, q3) /\ Len(q4) = Len(q3) + Len(target)
      BY <1>8, <3>2, NoLabelsStay
    <3> QED BY <2>1, <3>2, <3>3
  <2>2. CASE r.of # <<>>
    <3>1. target = EncodedName(q1, r.of) /\ IsName(r.of)
      BY <1>2, <2>2
    <3> HIDE DEF target, q1, q3, M
    <3>2. /\ LabelsRead(q4) /\ Begins(q4, q3) /\ Len(q4) = Len(q3) + Len(target)
          /\ Len(target) \in Nat \ {0} /\ Len(q3) \in Offsets(q4)
          /\ NamesIn(q4)[M][Len(q3)] = Name(r.of, Len(q4))
      <4>1. LabelsRead(q1) /\ LabelsRead(q3) /\ Begins(q3, q1) /\ IsName(r.of)
        BY ONLY <1>3, <1>8, <1>9, <3>1
      <4> QED BY ONLY <3>1, <4>1, NameIsRead DEF q4, M
    <3>3. IsText(q4)
      BY <3>2 DEF LabelsRead
    <3> HIDE DEF q4
    <3> QED BY <2>2, <3>2, <3>3
  <2> QED BY <2>1, <2>2
<1>11. Begins(q4, q2) /\ Begins(q4, q1) /\ Begins(q4, p)
  <2> HIDE DEF q1, q2, q3, q4
  <2> QED BY <1>3, <1>4, <1>7, <1>8, <1>9, <1>10, BeginsStill
<1> HIDE DEF q1, q2, q3, q4, data, target, length, M
<1>12. Len(p) \in Offsets(q4) /\ NamesIn(q4)[M][Len(p)] = Name(r.name, Len(q1))
  <2>1. NamesIn(q1)[M][Len(p)].ok
    BY <1>3 DEF Name
  <2> QED BY <1>0, <1>3, <1>4, <1>10, <1>11, <2>1, NamesStay
<1>13. Len(q1) \in Offsets(q4) /\ PacketCell(q4, Len(q1)) = Fixed(r.type, length)
  BY <1>7, <1>10, <1>11, CellsStay
<1>14. \A i \in 1..Len(r.data) : Len(q1) + i \in Offsets(q4)
                                 /\ PacketCell(q4, Len(q1) + i) = Datum(r.data[i])
  <2>1. \A o \in Offsets(q3) : o \in Offsets(q4) /\ PacketCell(q4, o) = PacketCell(q3, o)
    BY <1>8, <1>10, CellsStay
  <2> QED BY <1>8, <2>1
<1>15. /\ length \in Nat /\ Len(q4) = Len(q1) + 1 + length /\ length = Len(r.data) + Len(target)
       /\ Len(q3) = Len(q1) + 1 + Len(r.data) /\ Len(q1) \in Nat /\ length >= Len(r.data)
       /\ Len(q1) + 1 + length <= Len(q4)
  <2>1. Len(data) = Len(r.data) /\ Len(r.data) \in Nat /\ Len(target) \in Nat /\ Len(q1) \in Nat
    BY <1>5, <1>7, <1>10
  <2>2. Len(q2) = Len(q1) + 1 /\ Len(q3) = Len(q2) + Len(data) /\ Len(q4) = Len(q3) + Len(target)
    BY <1>7, <1>8, <1>10
  <2>3. length = Len(data) + Len(target)
    BY DEF length
  <2>4. length \in Nat /\ length = Len(r.data) + Len(target) /\ length >= Len(r.data)
    BY ONLY <2>1, <2>3
  <2>5. Len(q3) = Len(q1) + 1 + Len(r.data)
    BY ONLY <2>1, <2>2
  <2>6. Len(q4) = Len(q1) + 1 + length
    <3>1. \A a, b, c \in Nat : ((a + 1) + b) + c = (a + 1) + (b + c)
      OBVIOUS
    <3>2. Len(q4) = ((Len(q1) + 1) + Len(r.data)) + Len(target)
      BY ONLY <2>2, <2>5
    <3> QED BY ONLY <2>1, <2>4, <3>1, <3>2
  <2>7. Len(q1) + 1 + length <= Len(q4)
    BY ONLY <2>1, <2>4, <2>6
  <2> QED BY ONLY <2>1, <2>4, <2>5, <2>6, <2>7
<1>16. r.of = <<>> => length = Len(r.data)
  BY <1>5, <1>10, <1>15
<1>17. r.of # <<>> =>
         /\ length > Len(r.data) /\ Len(q1) + 1 + Len(r.data) \in Offsets(q4)
         /\ NamesIn(q4)[M][Len(q1) + 1 + Len(r.data)] = Name(r.of, Len(q1) + 1 + length)
  <2>1. Len(r.data) \in Nat /\ Len(target) \in Nat /\ (r.of # <<>> => Len(target) > 0)
    BY <1>5, <1>10
  <2>2. r.of # <<>> => length > Len(r.data)
    BY ONLY <1>15, <2>1
  <2> QED BY <1>10, <1>15, <2>2
<1>18. WrittenAs(q4, Len(p), r, Len(q1), length)
  BY <1>12, <1>13, <1>14, <1>15, <1>16, <1>17 DEF WrittenAs, M
<1> QED BY <1>1, <1>10, <1>11, <1>15, <1>18

(* What is written and what is parsed, record by record.                   *)
LEMMA EncodedIs ==
  ASSUME NEW records, Len(records) \in Nat
  PROVE  \E w : /\ w[0] = <<>> /\ Encoded(records) = w[Len(records)]
                /\ \A n \in 1..Len(records) : w[n] = EncodedRecord(w[n - 1], records[n])
<1> DEFINE N == Len(records)
           Is(h, n) == h = [i \in 0..n |-> IF i = 0 THEN <<>>
                                          ELSE EncodedRecord(h[i - 1], records[i])]
           S == {n \in 0..N : \E h : Is(h, n)}
           nothing == [i \in 0..0 |-> <<>>]
<1>1. 0 \in S
  <2>1. Is(nothing, 0)
    OBVIOUS
  <2> HIDE DEF nothing, Is
  <2> QED BY <2>1
<1>2. ASSUME NEW n \in 0..(N - 1), n \in S PROVE n + 1 \in S
  <2>1. PICK g : Is(g, n)
    BY <1>2
  <2> DEFINE last == EncodedRecord(g[n], records[n + 1])
             h == [i \in 0..(n + 1) |-> IF i = n + 1 THEN last ELSE g[i]]
  <2>2. \A i \in 0..n : h[i] = g[i]
    BY <1>2
  <2>3. h[n + 1] = last /\ h[n] = g[n] /\ (n + 1) - 1 = n /\ n + 1 # 0 /\ n + 1 \in 0..N
    BY <1>2
  <2>4. h = [i \in 0..(n + 1) |-> h[i]]
    OBVIOUS
  <2> HIDE DEF h
  <2>5. ASSUME NEW i \in 0..(n + 1)
        PROVE  h[i] = IF i = 0 THEN <<>> ELSE EncodedRecord(h[i - 1], records[i])
    <3>1. CASE i = n + 1
      BY <2>3, <3>1
    <3>2. CASE i # n + 1
      <4>1. i \in 0..n /\ (i # 0 => i - 1 \in 0..n)
        BY <1>2, <3>2
      <4>2. g[i] = IF i = 0 THEN <<>> ELSE EncodedRecord(g[i - 1], records[i])
        BY <2>1, <4>1
      <4> QED BY <2>2, <4>1, <4>2
    <3> QED BY <3>1, <3>2
  <2>6. Is(h, n + 1)
    BY <2>4, <2>5
  <2> HIDE DEF Is
  <2> QED BY <2>3, <2>6
<1>3. N \in 0..N /\ \A n \in 0..N : n \in S
  <2> HIDE DEF S
  <2> QED BY <1>1, <1>2, UpTo
<1> DEFINE w == CHOOSE h : Is(h, N)
<1>4. Is(w, N)
  <2>1. \E h : Is(h, N)
    BY <1>3
  <2> HIDE DEF Is
  <2> QED BY <2>1
<1>5. Encoded(records) = w[N]
  BY DEF Encoded
<1> HIDE DEF w
<1>6. \A n \in 0..N : w[n] = IF n = 0 THEN <<>> ELSE EncodedRecord(w[n - 1], records[n])
  BY <1>4
<1>7. w[0] = <<>> /\ \A n \in 1..N : w[n] = EncodedRecord(w[n - 1], records[n])
  BY <1>6
<1> QED BY <1>5, <1>7

LEMMA ParsedIs ==
  ASSUME NEW q, NEW count \in Nat
  PROVE  \E f : /\ f[0] = [records |-> <<>>, at |-> 0] /\ ParseRecords(q, count) = f[count].records
                /\ \A n \in 1..count : f[n] = ParseNext(q, f[n - 1])
<1> DEFINE first == [records |-> <<>>, at |-> 0]
           Is(h, n) == h = [i \in 0..n |-> IF i = 0 THEN first ELSE ParseNext(q, h[i - 1])]
           S == {n \in 0..count : \E h : Is(h, n)}
           nothing == [i \in 0..0 |-> first]
<1>1. 0 \in S
  <2> HIDE DEF first
  <2>1. Is(nothing, 0)
    OBVIOUS
  <2> HIDE DEF nothing, Is
  <2> QED BY <2>1
<1>2. ASSUME NEW n \in 0..(count - 1), n \in S PROVE n + 1 \in S
  <2> HIDE DEF first
  <2>1. PICK g : Is(g, n)
    BY <1>2
  <2> DEFINE last == ParseNext(q, g[n])
             h == [i \in 0..(n + 1) |-> IF i = n + 1 THEN last ELSE g[i]]
  <2>2. \A i \in 0..n : h[i] = g[i]
    BY <1>2
  <2>3. h[n + 1] = last /\ h[n] = g[n] /\ (n + 1) - 1 = n /\ n + 1 # 0 /\ n + 1 \in 0..count
    BY <1>2
  <2>4. h = [i \in 0..(n + 1) |-> h[i]]
    OBVIOUS
  <2> HIDE DEF h
  <2>5. ASSUME NEW i \in 0..(n + 1)
        PROVE  h[i] = IF i = 0 THEN first ELSE ParseNext(q, h[i - 1])
    <3>1. CASE i = n + 1
      BY <2>3, <3>1
    <3>2. CASE i # n + 1
      <4>1. i \in 0..n /\ (i # 0 => i - 1 \in 0..n)
        BY <1>2, <3>2
      <4>2. g[i] = IF i = 0 THEN first ELSE ParseNext(q, g[i - 1])
        BY <2>1, <4>1
      <4> QED BY <2>2, <4>1, <4>2
    <3> QED BY <3>1, <3>2
  <2>6. Is(h, n + 1)
    BY <2>4, <2>5
  <2> HIDE DEF Is
  <2> QED BY <2>3, <2>6
<1>3. count \in 0..count /\ \A n \in 0..count : n \in S
  <2> HIDE DEF S
  <2> QED BY <1>1, <1>2, UpTo
<1> DEFINE f == CHOOSE h : Is(h, count)
<1>4. Is(f, count)
  <2>1. \E h : Is(h, count)
    BY <1>3
  <2> HIDE DEF Is
  <2> QED BY <2>1
<1>5. ParseRecords(q, count) = f[count].records
  BY DEF ParseRecords
<1> HIDE DEF f
<1>6. \A n \in 0..count : f[n] = IF n = 0 THEN first ELSE ParseNext(q, f[n - 1])
  <2> HIDE DEF first
  <2> QED BY <1>4
<1>7. f[0] = first /\ \A n \in 1..count : f[n] = ParseNext(q, f[n - 1])
  <2> HIDE DEF first
  <2> QED BY <1>6
<1> QED BY <1>5, <1>7

(* A record in a packet, as it is parsed.                                  *)
ReadAs(q, r, x) ==
  \E o, at, length \in Nat :
    WrittenAs(q, o, r, at, length) /\ x = Record(r.name, r.type, at + 1, length)

(* What is written is parsed, however many records there are.              *)
LEMMA EncodedIsParsed ==
  ASSUME NEW records, IsText(records), \A i \in 1..Len(records) : IsResource(records[i])
  PROVE  LET q == Encoded(records)
             parsed == ParseRecords(q, Len(records))
         IN  /\ IsText(q) /\ IsText(parsed) /\ Len(parsed) = Len(records)
             /\ \A i \in 1..Len(records) : ReadAs(q, records[i], parsed[i])
<1> DEFINE N == Len(records)
           q == Encoded(records)
<1>1. N \in Nat
  BY PacketIs
<1>2. PICK w : /\ w[0] = <<>> /\ q = w[N]
               /\ \A n \in 1..N : w[n] = EncodedRecord(w[n - 1], records[n])
  BY <1>1, EncodedIs
<1>3. PICK f : /\ f[0] = [records |-> <<>>, at |-> 0] /\ ParseRecords(q, N) = f[N].records
               /\ \A n \in 1..N : f[n] = ParseNext(q, f[n - 1])
  <2> HIDE DEF q
  <2> QED BY <1>1, ParsedIs
<1> HIDE DEF q, N
<1>4. ASSUME NEW n \in 0..(N - 1)
      PROVE  n + 1 \in 1..N /\ n + 1 \in 0..N /\ (n + 1) - 1 = n /\ n \in 0..N
             /\ IsResource(records[n + 1]) /\ w[n + 1] = EncodedRecord(w[n], records[n + 1])
             /\ f[n + 1] = ParseNext(q, f[n])
  <2>1. n + 1 \in 1..N /\ n + 1 \in 0..N /\ (n + 1) - 1 = n /\ n \in 0..N
    BY <1>1, <1>4
  <2>2. w[n + 1] = EncodedRecord(w[(n + 1) - 1], records[n + 1]) /\ f[n + 1] = ParseNext(q, f[(n + 1) - 1])
    BY <1>2, <1>3, <2>1
  <2>3. IsResource(records[n + 1])
    BY <2>1 DEF N
  <2> QED BY <2>1, <2>2, <2>3
<1>5. \A n \in 0..N : LabelsRead(w[n])
  <2> DEFINE S == {n \in 0..N : LabelsRead(w[n])}
  <2>1. 0 \in S
    <3>1. Len(<<>>) = 0 /\ IsText(<<>>)
      BY DEF IsText
    <3>2. LabelsRead(<<>>)
      BY <3>1 DEF LabelsRead, Offsets, ReadableAt
    <3> QED BY <1>1, <1>2, <3>2
  <2>2. ASSUME NEW n \in 0..(N - 1), n \in S PROVE n + 1 \in S
    <3>1. LabelsRead(w[n])
      BY <2>2
    <3>2. LabelsRead(EncodedRecord(w[n], records[n + 1]))
      BY <1>4, <3>1, RecordIsWritten
    <3> QED BY <1>4, <3>2
  <2>3. \A n \in 0..N : n \in S
    <3> HIDE DEF S
    <3> QED BY <1>1, <2>1, <2>2, UpTo
  <2> QED BY <2>3
<1>6. \A n \in 0..N : IsText(w[n]) /\ Len(w[n]) \in Nat
  BY <1>5, PacketIs DEF LabelsRead
<1>7. ASSUME NEW n \in 0..(N - 1)
      PROVE  /\ Begins(w[n + 1], w[n])
             /\ \E at \in Nat, length \in Nat :
                  WrittenAs(w[n + 1], Len(w[n]), records[n + 1], at, length)
                  /\ Len(w[n + 1]) = at + 1 + length
  <2> DEFINE p == w[n]
             r == records[n + 1]
             e == EncodedRecord(p, r)
  <2>1. LabelsRead(p) /\ IsResource(r) /\ w[n + 1] = e
    BY <1>4, <1>5
  <2> HIDE DEF p, r
  <2>2. /\ Begins(e, p)
        /\ \E at \in Nat, length \in Nat : WrittenAs(e, Len(p), r, at, length) /\ Len(e) = at + 1 + length
    BY <2>1, RecordIsWritten
  <2> HIDE DEF e
  <2> QED BY <2>1, <2>2 DEF p, r
<1>8. \A n \in 0..N : Begins(q, w[n])
  <2> DEFINE S == {n \in 0..N : \A m \in 0..n : Begins(w[n], w[m])}
  <2>1. 0 \in S
    <3>1. Begins(w[0], w[0])
      BY <1>1, <1>6 DEF Begins
    <3> QED BY <1>1, <3>1
  <2>2. ASSUME NEW n \in 0..(N - 1), n \in S PROVE n + 1 \in S
    <3>1. ASSUME NEW m \in 0..(n + 1) PROVE Begins(w[n + 1], w[m])
      <4>1. m = n + 1 \/ m \in 0..n
        BY <1>1, <2>2
      <4>2. CASE m = n + 1
        BY <1>4, <1>6, <4>2 DEF Begins
      <4>3. CASE m \in 0..n
        <5>1. Begins(w[n], w[m]) /\ m \in 0..N
          BY <1>1, <2>2, <4>3
        <5> QED BY <1>4, <1>6, <1>7, <5>1, BeginsStill
      <4> QED BY <4>1, <4>2, <4>3
    <3> QED BY <1>4, <3>1
  <2>3. \A n \in 0..N : n \in S
    <3> HIDE DEF S
    <3> QED BY <1>1, <2>1, <2>2, UpTo
  <2>4. N \in 0..N
    BY <1>1
  <2>5. N \in S
    BY <2>3, <2>4
  <2> QED BY <1>2, <2>5
<1>9. IsText(q)
  <2>1. N \in 0..N
    BY <1>1
  <2> QED BY <1>2, <1>6, <2>1
<1>10. ASSUME NEW n \in 0..(N - 1)
       PROVE  \E at \in Nat, length \in Nat :
                WrittenAs(q, Len(w[n]), records[n + 1], at, length)
                /\ Len(w[n + 1]) = at + 1 + length
  <2>1. PICK at \in Nat, length \in Nat :
               WrittenAs(w[n + 1], Len(w[n]), records[n + 1], at, length)
               /\ Len(w[n + 1]) = at + 1 + length
    BY <1>7
  <2>2. IsText(w[n + 1]) /\ Begins(q, w[n + 1]) /\ IsText(records[n + 1].data)
    BY <1>4, <1>6, <1>8 DEF IsResource
  <2>3. WrittenAs(q, Len(w[n]), records[n + 1], at, length)
    BY <1>9, <2>1, <2>2, WrittenStays
  <2> QED BY <2>1, <2>3
<1> DEFINE Done(n) == /\ f[n].at = Len(w[n]) /\ IsText(f[n].records) /\ Len(f[n].records) = n
                      /\ \A i \in 1..n : ReadAs(q, records[i], f[n].records[i])
           S == {n \in 0..N : Done(n)}
<1>11. 0 \in S
  <2>1. f[0].at = 0 /\ f[0].records = <<>>
    BY <1>3
  <2>2. IsText(<<>>) /\ Len(<<>>) = 0
    BY DEF IsText
  <2> QED BY <1>1, <1>2, <2>1, <2>2
<1>12. ASSUME NEW n \in 0..(N - 1), n \in S PROVE n + 1 \in S
  <2> DEFINE before == f[n].records
             r == records[n + 1]
  <2>1. f[n].at = Len(w[n]) /\ IsText(before) /\ Len(before) = n
        /\ \A i \in 1..n : ReadAs(q, records[i], before[i])
    BY <1>12
  <2>2. PICK at \in Nat, length \in Nat :
               WrittenAs(q, Len(w[n]), r, at, length) /\ Len(w[n + 1]) = at + 1 + length
    BY <1>10
  <2> DEFINE x == Record(r.name, r.type, at + 1, length)
  <2>3. ParseRecord(q, Len(w[n])) = <<x>>
    BY <1>9, <2>2, RecordIsParsed
  <2>4. x.start = at + 1 /\ x.length = length
    BY DEF Record
  <2> HIDE DEF before, r, x
  <2>5. f[n + 1] = [records |-> before \o <<x>>, at |-> x.start + x.length]
    <3>1. f[n + 1] = ParseNext(q, f[n]) /\ before = f[n].records
      BY <1>4 DEF before
    <3>2. <<x>> # <<>> /\ <<x>>[1] = x
      OBVIOUS
    <3> QED BY <2>1, <2>3, <3>1, <3>2 DEF ParseNext
  <2>6. f[n + 1].at = Len(w[n + 1]) /\ f[n + 1].records = before \o <<x>>
    BY <2>2, <2>4, <2>5
  <2>7. IsText(<<x>>) /\ Len(<<x>>) = 1 /\ <<x>>[1] = x
    <3>1. <<x>> \in Seq({x})
      OBVIOUS
    <3>2. IsText(<<x>>)
      BY ONLY <3>1, SequenceIsText
    <3> QED BY <3>2
  <2>8. IsText(before \o <<x>>) /\ Len(before \o <<x>>) = n + 1
    <3> DEFINE c == <<x>>
    <3>1. IsText(before) /\ IsText(c) /\ Len(before) = n /\ Len(c) = 1
      BY <2>1, <2>7
    <3> HIDE DEF c
    <3>2. IsText(before \o c) /\ Len(before \o c) = Len(before) + Len(c)
      BY ONLY <3>1, PacketsJoin
    <3> QED BY <3>1, <3>2 DEF c
  <2>9. \A i \in 1..n : (before \o <<x>>)[i] = before[i]
    BY <2>1 DEF IsText
  <2>10. (before \o <<x>>)[n + 1] = x
    BY <2>1 DEF IsText
  <2>11. ReadAs(q, r, x)
    <3>1. Len(w[n]) \in Nat
      BY <1>4, <1>6
    <3> QED BY <2>2, <3>1 DEF ReadAs, x
  <2>12. ASSUME NEW i \in 1..(n + 1)
         PROVE  ReadAs(q, records[i], (before \o <<x>>)[i])
    <3>1. i \in 1..n \/ i = n + 1
      BY <1>12
    <3> QED BY <2>1, <2>9, <2>10, <2>11, <3>1 DEF r
  <2>13. Done(n + 1)
    BY <2>6, <2>8, <2>12
  <2> HIDE DEF Done
  <2> QED BY <1>4, <2>13
<1>13. \A n \in 0..N : n \in S
  <2> HIDE DEF S
  <2> QED BY <1>1, <1>11, <1>12, UpTo
<1>14. Done(N)
  <2>1. N \in 0..N
    BY <1>1
  <2> HIDE DEF Done
  <2> QED BY <1>13, <2>1
<1> QED BY <1>3, <1>9, <1>14 DEF q, N

(* What a parsed record refers to.                                         *)
LEMMA ParsedReads ==
  ASSUME NEW q, IsText(q), NEW r, NEW x, ReadAs(q, r, x), IsText(r.data)
  PROVE  /\ x.name = r.name /\ x.type = r.type
         /\ r.of # <<>> /\ Len(r.data) = 0 =>
              ReadName(q, x.start).ok /\ ReadName(q, x.start).name = r.of
         /\ Len(r.data) = 1 =>
              /\ RecordDatum(q, x, 0) = Datum(r.data[1])
              /\ r.of = <<>> => x.length = 1
              /\ r.of # <<>> => /\ x.length >= 2
                                /\ ReadName(q, x.start + 1).ok /\ ReadName(q, x.start + 1).name = r.of
<1>1. PICK o, at, length \in Nat :
             WrittenAs(q, o, r, at, length) /\ x = Record(r.name, r.type, at + 1, length)
  BY DEF ReadAs
<1>2. x.name = r.name /\ x.type = r.type /\ x.start = at + 1 /\ x.length = length
  BY <1>1 DEF Record
<1>3. Len(r.data) \in Nat /\ Len(q) \in Nat
  BY PacketIs
<1>4. ASSUME r.of # <<>>
      PROVE  LET target == at + 1 + Len(r.data)
             IN  /\ length > Len(r.data) /\ target \in Offsets(q)
                 /\ ReadName(q, target).ok /\ ReadName(q, target).name = r.of
  <2> DEFINE target == at + 1 + Len(r.data)
  <2>1. /\ length > Len(r.data) /\ target \in Offsets(q)
        /\ NamesIn(q)[MaxJumps + 2][target] = Name(r.of, at + 1 + length)
    BY <1>1, <1>4 DEF WrittenAs
  <2> HIDE DEF target
  <2>2. Within(q, target)
    BY <2>1, PacketIs
  <2>3. ReadName(q, target) = Name(r.of, at + 1 + length)
    BY <2>1, <2>2 DEF ReadName
  <2>4. ReadName(q, target).ok /\ ReadName(q, target).name = r.of
    BY <2>3 DEF Name
  <2> QED BY <2>1, <2>4 DEF target
<1>5. ASSUME r.of # <<>>, Len(r.data) = 0
      PROVE  ReadName(q, x.start).ok /\ ReadName(q, x.start).name = r.of
  <2>1. at + 1 + Len(r.data) = x.start
    BY <1>2, <1>5
  <2> QED BY <1>4, <1>5, <2>1
<1>6. ASSUME Len(r.data) = 1 PROVE RecordDatum(q, x, 0) = Datum(r.data[1])
  <2>1. 1 \in 1..Len(r.data) /\ x.start + 0 = at + 1
    BY <1>2, <1>6
  <2>2. PacketCell(q, at + 1) = Datum(r.data[1])
    BY <1>1, <2>1 DEF WrittenAs
  <2> QED BY <2>1, <2>2 DEF RecordDatum
<1>7. ASSUME Len(r.data) = 1, r.of = <<>> PROVE x.length = 1
  BY <1>1, <1>2, <1>7 DEF WrittenAs
<1>8. ASSUME Len(r.data) = 1, r.of # <<>>
      PROVE  /\ x.length >= 2
             /\ ReadName(q, x.start + 1).ok /\ ReadName(q, x.start + 1).name = r.of
  <2>1. at + 1 + Len(r.data) = x.start + 1
    BY <1>2, <1>8
  <2>2. length > Len(r.data)
    BY <1>4, <1>8
  <2> QED BY <1>2, <1>4, <1>8, <2>1, <2>2
<1> QED BY <1>2, <1>5, <1>6, <1>7, <1>8

(* The records of services.                                                *)
OfService(r, S) ==
  \E s \in S : \/ r = PointerRecord(s) \/ r = PlaceRecord(s) \/ r = IdentityRecord(s)
               \/ \E a \in s.addresses : r = AddressRecord(s, a)

LEMMA ResourcesAre ==
  ASSUME NEW s \in Services
  PROVE  /\ IsResource(PointerRecord(s)) /\ IsResource(PlaceRecord(s))
         /\ IsResource(IdentityRecord(s)) /\ \A a : IsResource(AddressRecord(s, a))
         /\ InstanceName(s) # <<>> /\ s.target # <<>> /\ InstanceName(s)[1] = s.instance
<1>1. IsText(s.target) /\ Len(s.target) \in 1..(MaxJumps + 1) /\ MaxJumps \in Nat /\ MaxJumps >= 2
  BY MdnsAssumption DEF IsText
<1>2. IsName(s.target) /\ s.target # <<>>
  BY <1>1 DEF IsName
<1>3. IsText(ServiceType) /\ Len(ServiceType) = 2
  <2>1. ServiceType \in Seq({"kmsync", "local"}) /\ Len(ServiceType) = 2
    BY DEF ServiceType
  <2> QED BY <2>1, SequenceIsText
<1>4. \A d : IsText(<<d>>) /\ Len(<<d>>) = 1
  <2> TAKE d
  <2>1. <<d>> \in Seq({d}) /\ Len(<<d>>) = 1
    OBVIOUS
  <2> QED BY <2>1, SequenceIsText
<1>5. IsText(<<>>)
  BY DEF IsText
<1>6. IsText(InstanceName(s)) /\ Len(InstanceName(s)) = 3 /\ InstanceName(s)[1] = s.instance
  <2> DEFINE first == <<s.instance>>
  <2>1. IsText(first) /\ Len(first) = 1 /\ first[1] = s.instance
    BY <1>4
  <2> HIDE DEF first
  <2>2. /\ IsText(first \o ServiceType) /\ Len(first \o ServiceType) = Len(first) + Len(ServiceType)
        /\ Begins(first \o ServiceType, first)
    BY ONLY <1>3, <2>1, PacketsJoin
  <2>3. (first \o ServiceType)[1] = s.instance
    BY <2>1, <2>2 DEF Begins
  <2> QED BY <1>3, <2>1, <2>2, <2>3 DEF InstanceName, first
<1>7. IsName(InstanceName(s)) /\ InstanceName(s) # <<>>
  <2>1. Len(<<>>) = 0 /\ 3 \in 1..(MaxJumps + 1)
    BY <1>1
  <2> QED BY <1>6, <2>1 DEF IsName
<1>8. IsName(ServiceType)
  BY <1>1, <1>3 DEF IsName
<1>9. IsResource(PointerRecord(s))
  BY <1>5, <1>7, <1>8 DEF IsResource, PointerRecord, Resource
<1>10. IsResource(PlaceRecord(s))
  BY <1>2, <1>4, <1>7 DEF IsResource, PlaceRecord, Resource
<1>11. IsResource(IdentityRecord(s))
  BY <1>4, <1>7 DEF IsResource, IdentityRecord, Resource
<1>12. \A a : IsResource(AddressRecord(s, a))
  BY <1>2, <1>4 DEF IsResource, AddressRecord, Resource
<1> QED BY <1>2, <1>6, <1>7, <1>9, <1>10, <1>11, <1>12

(* Which record it is, by its type.                                        *)
LEMMA RecordsByType ==
  ASSUME NEW S \in SUBSET Services, NEW r, OfService(r, S)
  PROVE  /\ IsResource(r)
         /\ r.type = "PTR" => \E s \in S : r = PointerRecord(s)
         /\ r.type = "SRV" => \E s \in S : r = PlaceRecord(s)
         /\ r.type = "TXT" => \E s \in S : r = IdentityRecord(s)
         /\ r.type = "A" => \E s \in S : \E a \in s.addresses : r = AddressRecord(s, a)
<1>1. IsResource(r)
  BY ResourcesAre DEF OfService
<1>2. \A s, a : /\ PointerRecord(s).type = "PTR" /\ PlaceRecord(s).type = "SRV"
                /\ IdentityRecord(s).type = "TXT" /\ AddressRecord(s, a).type = "A"
  BY DEF PointerRecord, PlaceRecord, IdentityRecord, AddressRecord, Resource
<1> QED BY <1>1, <1>2 DEF OfService

(* The greatest of some numbers of a sequence.                             *)
LEMMA LatestIs ==
  ASSUME NEW N \in Nat, NEW T \in SUBSET (1..N), T # {}
  PROVE  Latest(T) \in T
<1> DEFINE U == {n \in 0..N : N - n \in T}
<1>1. U \in SUBSET Nat /\ U # {}
  <2>1. PICK i \in T : TRUE
    OBVIOUS
  <2>2. N - i \in 0..N /\ N - (N - i) = i
    BY <2>1
  <2>3. N - i \in U
    BY <2>2
  <2>4. \A m \in U : m \in Nat
    OBVIOUS
  <2> HIDE DEF U
  <2> QED BY <2>3, <2>4
<1>2. PICK n \in U : \A m \in U : n <= m
  <2> HIDE DEF U
  <2> QED BY <1>1, LeastIs
<1>3. ASSUME NEW j \in T PROVE j <= N - n
  <2>1. N - j \in 0..N /\ N - (N - j) = j
    OBVIOUS
  <2>2. n <= N - j
    BY <1>2, <2>1
  <2> QED BY <1>2, <2>1, <2>2
<1>4. \E i \in T : \A j \in T : j <= i
  BY <1>2, <1>3
<1> QED BY <1>4 DEF Latest

Pointed(records, S) == \A s \in S : \E i \in 1..Len(records) : records[i] = PointerRecord(s)
Placed(records, S) ==
  \A s \in S : /\ \E i \in 1..Len(records) : records[i] = PlaceRecord(s)
               /\ \E i \in 1..Len(records) : records[i] = IdentityRecord(s)
               /\ \A a \in s.addresses : \E i \in 1..Len(records) : records[i] = AddressRecord(s, a)

(* A packet whose records are those of services.                           *)
Carries(q, records, parsed, S) ==
  /\ IsText(q) /\ IsText(parsed) /\ Len(parsed) = Len(records) /\ Len(records) \in Nat
  /\ DOMAIN parsed = 1..Len(records)
  /\ \A i \in 1..Len(records) :
       OfService(records[i], S) /\ ReadAs(q, records[i], parsed[i])
       /\ parsed[i].type = records[i].type /\ parsed[i].name = records[i].name

LEMMA RecordsCarry ==
  ASSUME NEW S \in SUBSET Services, NEW records, IsText(records),
         \A i \in 1..Len(records) : OfService(records[i], S)
  PROVE  Carries(Encoded(records), records, ParseRecords(Encoded(records), Len(records)), S)
<1> DEFINE q == Encoded(records)
           parsed == ParseRecords(q, Len(records))
<1>1. \A i \in 1..Len(records) : IsResource(records[i])
  BY RecordsByType
<1>2. /\ IsText(q) /\ IsText(parsed) /\ Len(parsed) = Len(records)
      /\ \A i \in 1..Len(records) : ReadAs(q, records[i], parsed[i])
  BY <1>1, EncodedIsParsed
<1>3. Len(records) \in Nat /\ DOMAIN parsed = 1..Len(records)
  <2> HIDE DEF parsed
  <2> QED BY <1>2, PacketIs
<1>4. ASSUME NEW i \in 1..Len(records)
      PROVE  parsed[i].type = records[i].type /\ parsed[i].name = records[i].name
  <2> DEFINE r == records[i]
             x == parsed[i]
  <2>1. IsText(r.data) /\ ReadAs(q, r, x)
    BY <1>1, <1>2 DEF IsResource
  <2> HIDE DEF q, r, x
  <2>2. x.name = r.name /\ x.type = r.type
    BY <1>2, <2>1, ParsedReads
  <2> QED BY <2>2 DEF r, x
<1> QED BY <1>2, <1>3, <1>4 DEF Carries

(* The records of a type and a name.                                       *)
LEMMA RecordsOfAre ==
  ASSUME NEW S, NEW q, NEW records, NEW parsed, Carries(q, records, parsed, S), NEW t, NEW n
  PROVE  RecordsOf(parsed, t, n) =
           {i \in 1..Len(records) : records[i].type = t /\ records[i].name = n}
  BY DEF Carries, RecordsOf

(* The instances a packet points at are those of its services.             *)
PointsAt(q, records, parsed, S) ==
  /\ \A instance \in InstancesIn(q, parsed) : \E s \in S : instance = InstanceName(s)
  /\ Pointed(records, S) => \A s \in S : InstanceName(s) \in InstancesIn(q, parsed)
  /\ (\A i \in 1..Len(records) : records[i].type # "PTR") => InstancesIn(q, parsed) = {}

LEMMA InstancesAre ==
  ASSUME NEW S \in SUBSET Services, NEW q, NEW records, NEW parsed, Carries(q, records, parsed, S)
  PROVE  PointsAt(q, records, parsed, S)
<1> DEFINE pointers == {i \in 1..Len(records) : records[i].type = "PTR" /\ records[i].name = ServiceType}
           read(i) == ReadName(q, parsed[i].start)
<1>1. RecordsOf(parsed, "PTR", ServiceType) = pointers
  BY RecordsOfAre
<1>2. InstancesIn(q, parsed) = {read(i).name : i \in {n \in pointers : read(n).ok}}
  BY <1>1 DEF InstancesIn
<1>3. ASSUME NEW i \in 1..Len(records), NEW s \in S, records[i] = PointerRecord(s)
      PROVE  i \in pointers /\ read(i).ok /\ read(i).name = InstanceName(s)
  <2> DEFINE r == records[i]
             x == parsed[i]
  <2>1. r.type = "PTR" /\ r.name = ServiceType /\ r.of = InstanceName(s) /\ r.data = <<>>
    BY <1>3 DEF PointerRecord, Resource
  <2>2. IsText(q) /\ ReadAs(q, r, x)
    BY DEF Carries
  <2>3. InstanceName(s) # <<>> /\ IsText(<<>>) /\ Len(<<>>) = 0
    BY ResourcesAre DEF IsText
  <2>4. i \in pointers
    BY <2>1
  <2> HIDE DEF r, x
  <2>5. ReadName(q, x.start).ok /\ ReadName(q, x.start).name = r.of
    BY <2>1, <2>2, <2>3, ParsedReads
  <2> QED BY <2>1, <2>4, <2>5 DEF x
<1>4. ASSUME NEW i \in pointers PROVE \E s \in S : records[i] = PointerRecord(s)
  BY RecordsByType DEF Carries
<1> HIDE DEF read
<1>5. \A instance \in InstancesIn(q, parsed) : \E s \in S : instance = InstanceName(s)
  <2> TAKE instance \in InstancesIn(q, parsed)
  <2>1. PICK i \in pointers : instance = read(i).name
    BY <1>2
  <2>2. PICK s \in S : records[i] = PointerRecord(s)
    BY <1>4, <2>1
  <2> QED BY <1>3, <2>1, <2>2
<1>6. ASSUME Pointed(records, S), NEW s \in S PROVE InstanceName(s) \in InstancesIn(q, parsed)
  <2>1. PICK i \in 1..Len(records) : records[i] = PointerRecord(s)
    BY <1>6 DEF Pointed
  <2>2. i \in pointers /\ read(i).ok /\ read(i).name = InstanceName(s)
    BY <1>3, <2>1
  <2> HIDE DEF pointers
  <2> QED BY <1>2, <2>2
<1>7. ASSUME \A i \in 1..Len(records) : records[i].type # "PTR" PROVE InstancesIn(q, parsed) = {}
  <2>1. pointers = {}
    BY <1>7
  <2> HIDE DEF pointers
  <2> QED BY <1>2, <2>1
<1> QED BY <1>5, <1>6, <1>7 DEF PointsAt

(* Where a service is found.                                               *)
Found(s) == {[device |-> <<s.id>>, address |-> a, port |-> s.port] : a \in s.addresses}

PlaceRead(q, records, parsed, s) ==
  /\ LocatedIn(q, parsed, InstanceName(s)) = {i \in 1..Len(records) : records[i] = PlaceRecord(s)}
  /\ \A i \in 1..Len(records) : records[i] = PlaceRecord(s) =>
       /\ RecordDatum(q, parsed[i], 0).value = s.port
       /\ ReadName(q, parsed[i].start + 1).name = s.target

LEMMA PlaceIsRead ==
  ASSUME NEW S \in SUBSET Services, NEW q, NEW records, NEW parsed, Carries(q, records, parsed, S),
         NEW s \in S
  PROVE  PlaceRead(q, records, parsed, s)
<1> DEFINE n == InstanceName(s)
           places == {i \in 1..Len(records) : records[i].type = "SRV" /\ records[i].name = n}
<1>1. RecordsOf(parsed, "SRV", n) = places
  BY RecordsOfAre
<1>2. ASSUME NEW i \in places PROVE records[i] = PlaceRecord(s)
  <2>1. PICK t \in S : records[i] = PlaceRecord(t)
    BY RecordsByType DEF Carries
  <2>2. InstanceName(t) = n
    BY <2>1 DEF PlaceRecord, Resource
  <2>3. t.instance = s.instance
    BY <2>2, ResourcesAre
  <2>4. t = s
    BY <2>3, MdnsAssumption
  <2> QED BY <2>1, <2>4
<1>3. ASSUME NEW i \in 1..Len(records), records[i] = PlaceRecord(s)
      PROVE  /\ i \in places /\ parsed[i].length >= 2
             /\ RecordDatum(q, parsed[i], 0).kind = "datum"
             /\ RecordDatum(q, parsed[i], 0).value = s.port
             /\ ReadName(q, parsed[i].start + 1).ok
             /\ ReadName(q, parsed[i].start + 1).name = s.target
  <2> DEFINE r == records[i]
             x == parsed[i]
  <2>1. r.type = "SRV" /\ r.name = n /\ r.of = s.target /\ r.data = <<s.port>>
    BY <1>3 DEF PlaceRecord, Resource
  <2>2. IsText(q) /\ ReadAs(q, r, x) /\ IsText(r.data)
    BY RecordsByType DEF Carries, IsResource
  <2>3. r.of # <<>> /\ Len(r.data) = 1 /\ r.data[1] = s.port
    BY <2>1, ResourcesAre
  <2>4. i \in places
    BY <2>1
  <2> HIDE DEF r, x
  <2>5. /\ RecordDatum(q, x, 0) = Datum(r.data[1]) /\ x.length >= 2
        /\ ReadName(q, x.start + 1).ok /\ ReadName(q, x.start + 1).name = r.of
    BY <2>2, <2>3, ParsedReads
  <2>6. RecordDatum(q, x, 0).kind = "datum" /\ RecordDatum(q, x, 0).value = s.port
    BY <2>3, <2>5 DEF Datum
  <2> QED BY <2>1, <2>4, <2>5, <2>6 DEF x
<1>4. LocatedIn(q, parsed, n) = {i \in places : /\ parsed[i].length >= 2
                                                /\ RecordDatum(q, parsed[i], 0).kind = "datum"
                                                /\ ReadName(q, parsed[i].start + 1).ok}
  BY <1>1 DEF LocatedIn
<1>5. \A i \in places : i \in 1..Len(records)
  OBVIOUS
<1> HIDE DEF places, n
<1>6. LocatedIn(q, parsed, n) = {i \in 1..Len(records) : records[i] = PlaceRecord(s)}
  BY <1>2, <1>3, <1>4, <1>5
<1> QED BY <1>3, <1>6 DEF n, PlaceRead

LEMMA IdentityIsRead ==
  ASSUME NEW S \in SUBSET Services, NEW q, NEW records, NEW parsed, Carries(q, records, parsed, S),
         NEW s \in S
  PROVE  /\ GivenIn(q, parsed, "TXT", InstanceName(s))
              = {i \in 1..Len(records) : records[i] = IdentityRecord(s)}
         /\ \A i \in 1..Len(records) : records[i] = IdentityRecord(s) =>
              RecordDatum(q, parsed[i], 0).value = s.id
<1> DEFINE n == InstanceName(s)
           texts == {i \in 1..Len(records) : records[i].type = "TXT" /\ records[i].name = n}
<1>1. RecordsOf(parsed, "TXT", n) = texts
  BY RecordsOfAre
<1>2. ASSUME NEW i \in texts PROVE records[i] = IdentityRecord(s)
  <2>1. PICK t \in S : records[i] = IdentityRecord(t)
    BY RecordsByType DEF Carries
  <2>2. InstanceName(t) = n
    BY <2>1 DEF IdentityRecord, Resource
  <2>3. t.instance = s.instance
    BY <2>2, ResourcesAre
  <2>4. t = s
    BY <2>3, MdnsAssumption
  <2> QED BY <2>1, <2>4
<1>3. ASSUME NEW i \in 1..Len(records), records[i] = IdentityRecord(s)
      PROVE  /\ i \in texts /\ parsed[i].length = 1
             /\ RecordDatum(q, parsed[i], 0).kind = "datum"
             /\ RecordDatum(q, parsed[i], 0).value = s.id
  <2> DEFINE r == records[i]
             x == parsed[i]
  <2>1. r.type = "TXT" /\ r.name = n /\ r.of = <<>> /\ r.data = <<s.id>>
    BY <1>3 DEF IdentityRecord, Resource
  <2>2. IsText(q) /\ ReadAs(q, r, x) /\ IsText(r.data)
    BY RecordsByType DEF Carries, IsResource
  <2>3. Len(r.data) = 1 /\ r.data[1] = s.id
    BY <2>1
  <2>4. i \in texts
    BY <2>1
  <2>5. r.of = <<>>
    BY <2>1
  <2> HIDE DEF r, x
  <2>6. RecordDatum(q, x, 0) = Datum(r.data[1]) /\ x.length = 1
    BY ONLY <2>2, <2>3, <2>5, ParsedReads
  <2>7. RecordDatum(q, x, 0).kind = "datum" /\ RecordDatum(q, x, 0).value = s.id
    BY <2>3, <2>6 DEF Datum
  <2> QED BY <2>4, <2>6, <2>7 DEF x
<1>4. GivenIn(q, parsed, "TXT", n) = {i \in texts : parsed[i].length = 1
                                        /\ RecordDatum(q, parsed[i], 0).kind = "datum"}
  BY <1>1 DEF GivenIn
<1>5. \A i \in texts : i \in 1..Len(records)
  OBVIOUS
<1> HIDE DEF texts, n
<1>6. GivenIn(q, parsed, "TXT", n) = {i \in 1..Len(records) : records[i] = IdentityRecord(s)}
  BY <1>2, <1>3, <1>4, <1>5
<1> QED BY <1>3, <1>6 DEF n

AddressesRead(q, records, parsed, s) ==
  /\ \A i \in GivenIn(q, parsed, "A", s.target) :
       \E a \in s.addresses : records[i] = AddressRecord(s, a) /\ i \in 1..Len(records)
  /\ \A i \in 1..Len(records) : \A a \in s.addresses : records[i] = AddressRecord(s, a) =>
       i \in GivenIn(q, parsed, "A", s.target) /\ RecordDatum(q, parsed[i], 0).value = a

LEMMA AddressesAreRead ==
  ASSUME NEW S \in SUBSET Services, NEW q, NEW records, NEW parsed, Carries(q, records, parsed, S),
         NEW s \in S
  PROVE  AddressesRead(q, records, parsed, s)
<1> DEFINE n == s.target
           hosts == {i \in 1..Len(records) : records[i].type = "A" /\ records[i].name = n}
<1>1. RecordsOf(parsed, "A", n) = hosts
  BY RecordsOfAre
<1>2. ASSUME NEW i \in hosts PROVE \E a \in s.addresses : records[i] = AddressRecord(s, a)
  <2>1. PICK t \in S : \E a \in t.addresses : records[i] = AddressRecord(t, a)
    BY RecordsByType DEF Carries
  <2>2. PICK a \in t.addresses : records[i] = AddressRecord(t, a)
    BY <2>1
  <2>3. t.target = s.target
    BY <2>2 DEF AddressRecord, Resource
  <2>4. t.addresses = s.addresses
    BY <2>3, MdnsAssumption
  <2>5. AddressRecord(t, a) = AddressRecord(s, a)
    BY <2>3 DEF AddressRecord
  <2> QED BY <2>2, <2>4, <2>5
<1>3. ASSUME NEW i \in 1..Len(records), NEW a \in s.addresses, records[i] = AddressRecord(s, a)
      PROVE  /\ i \in hosts /\ parsed[i].length = 1
             /\ RecordDatum(q, parsed[i], 0).kind = "datum"
             /\ RecordDatum(q, parsed[i], 0).value = a
  <2> DEFINE r == records[i]
             x == parsed[i]
  <2>1. r.type = "A" /\ r.name = n /\ r.of = <<>> /\ r.data = <<a>>
    BY <1>3 DEF AddressRecord, Resource
  <2>2. IsText(q) /\ ReadAs(q, r, x) /\ IsText(r.data)
    BY RecordsByType DEF Carries, IsResource
  <2>3. Len(r.data) = 1 /\ r.data[1] = a
    BY <2>1
  <2>4. i \in hosts
    BY <2>1
  <2>5. r.of = <<>>
    BY <2>1
  <2> HIDE DEF r, x
  <2>6. RecordDatum(q, x, 0) = Datum(r.data[1]) /\ x.length = 1
    BY ONLY <2>2, <2>3, <2>5, ParsedReads
  <2>7. RecordDatum(q, x, 0).kind = "datum" /\ RecordDatum(q, x, 0).value = a
    BY <2>3, <2>6 DEF Datum
  <2> QED BY <2>4, <2>6, <2>7 DEF x
<1>4. GivenIn(q, parsed, "A", n) = {i \in hosts : parsed[i].length = 1
                                      /\ RecordDatum(q, parsed[i], 0).kind = "datum"}
  BY <1>1 DEF GivenIn
<1>5. \A i \in hosts : i \in 1..Len(records)
  OBVIOUS
<1> HIDE DEF hosts
<1> QED BY <1>2, <1>3, <1>4, <1>5 DEF AddressesRead

LEMMA EndpointsAre ==
  ASSUME NEW S \in SUBSET Services, NEW q, NEW records, NEW parsed, Carries(q, records, parsed, S),
         NEW s \in S
  PROVE  /\ Placed(records, S) => EndpointsIn(q, parsed, InstanceName(s)) = Found(s)
         /\ (\A i \in 1..Len(records) : records[i].type = "PTR")
              => EndpointsIn(q, parsed, InstanceName(s)) = {}
<1> DEFINE n == InstanceName(s)
           places == {i \in 1..Len(records) : records[i] = PlaceRecord(s)}
           texts == {i \in 1..Len(records) : records[i] = IdentityRecord(s)}
<1>1. /\ LocatedIn(q, parsed, n) = places
      /\ \A i \in places : /\ RecordDatum(q, parsed[i], 0).value = s.port
                           /\ ReadName(q, parsed[i].start + 1).name = s.target
  <2>1. S \in SUBSET Services /\ Carries(q, records, parsed, S) /\ s \in S
    OBVIOUS
  <2>2. PlaceRead(q, records, parsed, s)
    BY ONLY <2>1, PlaceIsRead
  <2> QED BY <2>2 DEF PlaceRead
<1>2. /\ GivenIn(q, parsed, "TXT", n) = texts
      /\ \A i \in texts : RecordDatum(q, parsed[i], 0).value = s.id
  <2>1. S \in SUBSET Services /\ Carries(q, records, parsed, S) /\ s \in S
    OBVIOUS
  <2>2. /\ GivenIn(q, parsed, "TXT", InstanceName(s))
              = {i \in 1..Len(records) : records[i] = IdentityRecord(s)}
        /\ \A i \in 1..Len(records) : records[i] = IdentityRecord(s) =>
              RecordDatum(q, parsed[i], 0).value = s.id
    BY ONLY <2>1, IdentityIsRead
  <2> QED BY <2>2
<1>3. ASSUME \A i \in 1..Len(records) : records[i].type = "PTR"
      PROVE  EndpointsIn(q, parsed, n) = {}
  <2>1. PlaceRecord(s).type = "SRV"
    BY DEF PlaceRecord, Resource
  <2>2. places = {}
    BY <1>3, <2>1
  <2> HIDE DEF n, places
  <2> QED BY <1>1, <2>2 DEF EndpointsIn
<1>4. ASSUME Placed(records, S) PROVE EndpointsIn(q, parsed, n) = Found(s)
  <2>1. places # {} /\ texts # {} /\ places \in SUBSET (1..Len(records))
        /\ texts \in SUBSET (1..Len(records)) /\ Len(records) \in Nat
    BY <1>4 DEF Placed, Carries
  <2> HIDE DEF places, texts
  <2>2. Latest(places) \in places /\ Latest(texts) \in texts
    BY <2>1, LatestIs
  <2> DEFINE located == parsed[Latest(places)]
             G == GivenIn(q, parsed, "A", s.target)
  <2>3. ReadName(q, located.start + 1).name = s.target /\ RecordDatum(q, located, 0).value = s.port
    BY <1>1, <2>2
  <2>4. DeviceIn(q, parsed, n) = <<s.id>>
    <3> HIDE DEF n
    <3>1. RecordDatum(q, parsed[Latest(texts)], 0).value = s.id
      BY <1>2, <2>2
    <3> QED BY <1>2, <2>1, <3>1 DEF DeviceIn
  <2>5. EndpointsIn(q, parsed, n)
          = {[device |-> <<s.id>>, address |-> RecordDatum(q, parsed[i], 0).value, port |-> s.port] : i \in G}
    <3>1. <<s.id>> # <<>>
      OBVIOUS
    <3>2. LocatedIn(q, parsed, n) # {} /\ DeviceIn(q, parsed, n) # <<>>
      BY <1>1, <2>1, <2>4, <3>1
    <3>3. parsed[Latest(LocatedIn(q, parsed, n))] = located
      BY <1>1
    <3> HIDE DEF n, located
    <3> QED BY <2>3, <2>4, <3>2, <3>3 DEF EndpointsIn
  <2>6. /\ \A i \in G : \E a \in s.addresses : RecordDatum(q, parsed[i], 0).value = a
        /\ \A a \in s.addresses : \E i \in G : RecordDatum(q, parsed[i], 0).value = a
    <3>1. /\ \A i \in G : \E a \in s.addresses : records[i] = AddressRecord(s, a) /\ i \in 1..Len(records)
          /\ \A i \in 1..Len(records) : \A a \in s.addresses : records[i] = AddressRecord(s, a) =>
               i \in G /\ RecordDatum(q, parsed[i], 0).value = a
      <4>1. S \in SUBSET Services /\ Carries(q, records, parsed, S) /\ s \in S
        OBVIOUS
      <4>2. AddressesRead(q, records, parsed, s)
        BY ONLY <4>1, AddressesAreRead
      <4> QED BY <4>2 DEF AddressesRead
    <3>2. \A a \in s.addresses : \E i \in 1..Len(records) : records[i] = AddressRecord(s, a)
      BY <1>4 DEF Placed
    <3> HIDE DEF G
    <3> QED BY <3>1, <3>2
  <2> HIDE DEF G, n
  <2> QED BY <2>5, <2>6 DEF Found
<1> QED BY <1>3, <1>4

(* The whole of a sequence of sequences, made one by one.                  *)
Gathered(h, seqs, T) ==
  /\ h \in [0..Len(seqs) -> Seq(T)] /\ h[0] = <<>>
  /\ \A n \in 1..Len(seqs) : h[n] = h[n - 1] \o seqs[n]

LEMMA GatheredIs ==
  ASSUME NEW T, NEW seqs \in Seq(Seq(T))
  PROVE  \E h : Gathered(h, seqs, T)
<1> DEFINE N == Len(seqs)
           L == Seq(T)
           step == [i \in 1..N |-> [x \in L |-> x \o seqs[i]]]
<1>1. N \in Nat /\ <<>> \in L /\ \A i \in 1..N : seqs[i] \in L
  OBVIOUS
<1>2. step \in [1..N -> [L -> L]]
  BY <1>1
<1>3. \A n \in 1..N, x \in L : step[n][x] = x \o seqs[n]
  OBVIOUS
<1> HIDE DEF step, N
<1>4. PICK h \in [0..N -> L] : h[0] = <<>> /\ \A n \in 1..N : h[n] = step[n][h[n - 1]]
  <2> DEFINE none == <<>>
  <2>1. none \in L /\ N \in Nat
    BY <1>1
  <2> HIDE DEF L, none
  <2>2. \E f \in [0..N -> L] : f[0] = none /\ \A n \in 1..N : f[n] = step[n][f[n - 1]]
    BY <1>2, <2>1, Recursion
  <2> QED BY <2>2 DEF none
<1>5. \A n \in 1..N : h[n] = h[n - 1] \o seqs[n]
  <2> HIDE DEF L
  <2>1. \A n \in 1..N : h[n - 1] \in L
    BY <1>1
  <2> QED BY <1>3, <1>4, <2>1
<1> QED BY <1>4, <1>5 DEF Gathered, N

(* FlattenSeq gathers.                                                     *)
LEMMA FlattenIs ==
  ASSUME NEW T, NEW seqs \in Seq(Seq(T)), NEW h, Gathered(h, seqs, T)
  PROVE  FlattenSeq(seqs) = h[Len(seqs)]
<1> DEFINE N == Len(seqs)
           F == CHOOSE f : f = [i \in 1..N |-> IF i = 1 THEN seqs[i] ELSE f[i - 1] \o seqs[i]]
           S == {n \in 0..N : n > 0 => F[n] = h[n]}
<1>1. /\ N \in Nat /\ h \in [0..N -> Seq(T)] /\ h[0] = <<>>
      /\ \A n \in 1..N : h[n] = h[n - 1] \o seqs[n] /\ seqs[n] \in Seq(T)
  <2>1. N \in Nat /\ \A n \in 1..N : seqs[n] \in Seq(T)
    OBVIOUS
  <2> QED BY <2>1 DEF Gathered
<1>2. CASE N = 0
  <2>1. FlattenSeq(seqs) = seqs /\ seqs = <<>>
    BY <1>2 DEF FlattenSeq
  <2> QED BY <1>1, <1>2, <2>1
<1>3. CASE N # 0
  <2>1. FlattenSeq(seqs) = F[N]
    BY <1>3 DEF FlattenSeq
  <2> DEFINE g == [i \in 1..N |-> h[i]]
  <2> HIDE DEF N
  <2>2. h[1] = seqs[1]
    <3>1. 1 \in 1..N /\ 1 - 1 = 0
      BY <1>1, <1>3
    <3>2. h[1] = h[0] \o seqs[1] /\ seqs[1] \in Seq(T)
      BY <1>1, <3>1
    <3> QED BY <1>1, <3>2
  <2>3. ASSUME NEW i \in 1..N PROVE g[i] = IF i = 1 THEN seqs[i] ELSE g[i - 1] \o seqs[i]
    <3>1. CASE i = 1
      BY <2>2, <3>1
    <3>2. CASE i # 1
      <4>1. i - 1 \in 1..N
        BY <1>1, <3>2
      <4> QED BY <1>1, <3>2, <4>1
    <3> QED BY <3>1, <3>2
  <2>4. g = [i \in 1..N |-> IF i = 1 THEN seqs[i] ELSE g[i - 1] \o seqs[i]]
    BY <2>3
  <2> HIDE DEF g
  <2>5. F = [i \in 1..N |-> IF i = 1 THEN seqs[i] ELSE F[i - 1] \o seqs[i]]
    BY <2>4
  <2> HIDE DEF F
  <2>f. \A i \in 1..N : F[i] = IF i = 1 THEN seqs[i] ELSE F[i - 1] \o seqs[i]
    BY <2>5
  <2>6. 0 \in S
    BY <1>1
  <2>7. ASSUME NEW n \in 0..(N - 1), n \in S PROVE n + 1 \in S
    <3>1. n + 1 \in 1..N /\ (n + 1) - 1 = n
      BY <1>1
    <3>2. CASE n = 0
      <4>1. F[1] = seqs[1]
        BY <2>f, <3>1, <3>2
      <4> QED BY <1>1, <2>2, <3>1, <3>2, <4>1
    <3>3. CASE n # 0
      <4>1. F[n + 1] = F[n] \o seqs[n + 1]
        <5>1. n + 1 # 1
          BY <3>3
        <5> QED BY <2>f, <3>1, <5>1
      <4>2. F[n] = h[n]
        BY <2>7, <3>3
      <4>3. h[n + 1] = h[n] \o seqs[n + 1]
        BY <1>1, <3>1
      <4>4. F[n + 1] = h[n + 1]
        BY <4>1, <4>2, <4>3
      <4> QED BY <3>1, <4>4
    <3> QED BY <3>2, <3>3
  <2> HIDE DEF S
  <2>8. \A n \in 0..N : n \in S
    BY <1>1, <2>6, <2>7, UpTo
  <2>9. F[N] = h[N]
    BY <1>1, <1>3, <2>8 DEF S
  <2> QED BY <2>1, <2>9 DEF N, F
<1> QED BY <1>2, <1>3

(* A finite set as a sequence: each element has one place.                 *)
LEMMA InSequence ==
  ASSUME NEW S, IsFiniteSet(S)
  PROVE  /\ SetToSeq(S) \in Seq(S) /\ S = {SetToSeq(S)[i] : i \in 1..Len(SetToSeq(S))}
         /\ \A i, j \in 1..Len(SetToSeq(S)) : SetToSeq(S)[i] = SetToSeq(S)[j] => i = j
         /\ Len(SetToSeq(S)) = Cardinality(S)
<1> DEFINE n == Cardinality(S)
           s == SetToSeq(S)
<1>1. n \in Nat /\ ExistsBijection(1..n, S)
  BY FS_CardinalityType
<1>2. \E f \in [1..n -> S] : IsInjective(f)
  BY <1>1 DEF ExistsBijection, Bijection, Injection
<1>3. s \in [1..n -> S] /\ IsInjective(s)
  BY <1>2 DEF SetToSeq
<1> HIDE DEF s
<1>4. s \in Surjection(1..n, S)
  <2>1. s \in Injection(1..n, S)
    BY <1>3 DEF Injection
  <2>2. Cardinality(1..n) = n
    BY <1>1, FS_Interval
  <2> QED BY <2>1, <2>2, FS_Injection
<1>5. S = {s[i] : i \in 1..n}
  BY <1>3, <1>4 DEF Surjection
<1>6. s \in Seq(S) /\ Len(s) = n
  BY <1>1, <1>3
<1> QED BY <1>3, <1>5, <1>6 DEF IsInjective, s


(* Its elements are those of the sequences.                                *)
HoldsAll(whole, seqs, n) ==
  /\ \A i \in 1..Len(whole) : \E k \in 1..n : \E j \in 1..Len(seqs[k]) : whole[i] = seqs[k][j]
  /\ \A k \in 1..n : \A j \in 1..Len(seqs[k]) : \E i \in 1..Len(whole) : whole[i] = seqs[k][j]

LEMMA FlattenHolds ==
  ASSUME NEW T, NEW seqs \in Seq(Seq(T))
  PROVE  FlattenSeq(seqs) \in Seq(T) /\ HoldsAll(FlattenSeq(seqs), seqs, Len(seqs))
<1> DEFINE N == Len(seqs)
<1>1. PICK h : Gathered(h, seqs, T)
  BY GatheredIs
<1>2. FlattenSeq(seqs) = h[N]
  BY <1>1, FlattenIs
<1>3. N \in Nat /\ \A n \in 1..N : seqs[n] \in Seq(T)
  OBVIOUS
<1>4. /\ h \in [0..N -> Seq(T)] /\ h[0] = <<>>
      /\ \A n \in 1..N : h[n] = h[n - 1] \o seqs[n]
  BY <1>1 DEF Gathered
<1> HIDE DEF N
<1> DEFINE S == {n \in 0..N : HoldsAll(h[n], seqs, n)}
<1>5. 0 \in S
  <2>1. Len(<<>>) = 0 /\ 0 \in 0..N
    BY <1>3
  <2> QED BY <1>4, <2>1 DEF HoldsAll
<1>6. ASSUME NEW n \in 0..(N - 1), n \in S PROVE n + 1 \in S
  <2> DEFINE a == h[n]
             b == seqs[n + 1]
             c == a \o b
  <2>1. n + 1 \in 1..N /\ (n + 1) - 1 = n /\ n \in 0..N /\ n + 1 \in 0..N /\ n \in Nat
    BY <1>3
  <2>2. a \in Seq(T) /\ b \in Seq(T) /\ h[n + 1] = c
    BY <1>3, <1>4, <2>1
  <2>3. HoldsAll(a, seqs, n)
    BY <1>6
  <2> HIDE DEF a
  <2>4. /\ Len(c) = Len(a) + Len(b) /\ Len(a) \in Nat /\ Len(b) \in Nat
        /\ \A i \in 1..Len(a) : c[i] = a[i]
        /\ \A i \in 1..Len(b) : c[Len(a) + i] = b[i]
    <3> HIDE DEF b
    <3>1. Len(a) \in Nat /\ Len(b) \in Nat
      BY <2>2
    <3>2. /\ Len(c) = Len(a) + Len(b)
          /\ \A i \in 1..Len(a) : c[i] = a[i]
          /\ \A i \in 1..Len(b) : c[Len(a) + i] = b[i]
      BY ONLY <2>2, Joined
    <3> QED BY <3>1, <3>2
  <2> HIDE DEF c
  <2>5. ASSUME NEW i \in 1..Len(c)
        PROVE  \E k \in 1..(n + 1) : \E j \in 1..Len(seqs[k]) : c[i] = seqs[k][j]
    <3>1. CASE i <= Len(a)
      <4>1. i \in 1..Len(a)
        BY <2>4, <3>1
      <4>2. PICK k \in 1..n : \E j \in 1..Len(seqs[k]) : a[i] = seqs[k][j]
        BY <2>3, <4>1 DEF HoldsAll
      <4>3. k \in 1..(n + 1)
        BY <2>1
      <4> QED BY <2>4, <4>1, <4>2, <4>3
    <3>2. CASE ~ (i <= Len(a))
      <4> DEFINE j == i - Len(a)
      <4>1. j \in 1..Len(b) /\ Len(a) + j = i
        BY <2>4, <3>2
      <4>2. c[i] = b[j] /\ n + 1 \in 1..(n + 1)
        BY <2>1, <2>4, <4>1
      <4> HIDE DEF j
      <4> QED BY <4>1, <4>2
    <3> QED BY <3>1, <3>2
  <2>6. ASSUME NEW k \in 1..(n + 1), NEW j \in 1..Len(seqs[k])
        PROVE  \E i \in 1..Len(c) : c[i] = seqs[k][j]
    <3>1. CASE k = n + 1
      <4>1. j \in 1..Len(b) /\ Len(a) + j \in 1..Len(c)
        BY <2>4, <3>1
      <4> QED BY <2>4, <3>1, <4>1
    <3>2. CASE k # n + 1
      <4>1. k \in 1..n
        BY <2>1, <3>2
      <4>2. PICK i \in 1..Len(a) : a[i] = seqs[k][j]
        BY <2>3, <4>1 DEF HoldsAll
      <4>3. i \in 1..Len(c)
        BY <2>4
      <4> QED BY <2>4, <4>2, <4>3
    <3> QED BY <3>1, <3>2
  <2>7. HoldsAll(c, seqs, n + 1)
    BY <2>5, <2>6 DEF HoldsAll
  <2> QED BY <2>1, <2>2, <2>7
<1>7. \A n \in 0..N : n \in S
  <2> HIDE DEF S
  <2> QED BY <1>3, <1>5, <1>6, UpTo
<1>8. N \in S /\ h[N] \in Seq(T)
  <2>1. N \in 0..N
    BY <1>3
  <2> QED BY <1>4, <1>7, <2>1
<1> QED BY <1>2, <1>8 DEF N

(* What is heard of services in one packet is all that is found.           *)
LEMMA PacketIsUnderstood ==
  ASSUME NEW S \in SUBSET Services, NEW records, IsText(records),
         \A i \in 1..Len(records) : OfService(records[i], S)
  PROVE  LET found == ParsedPacket(Encoded(records), Len(records))
         IN  /\ Pointed(records, S) /\ Placed(records, S) => found = Advertised(S)
             /\ (\A i \in 1..Len(records) : records[i].type # "PTR") => found = {}
             /\ (\A i \in 1..Len(records) : records[i].type = "PTR") => found = {}
<1> DEFINE q == Encoded(records)
           parsed == ParseRecords(q, Len(records))
           found == ParsedPacket(q, Len(records))
<1>1. Carries(q, records, parsed, S)
  BY RecordsCarry
<1>2. found = UNION {EndpointsIn(q, parsed, instance) : instance \in InstancesIn(q, parsed)}
  BY DEF ParsedPacket
<1> HIDE DEF q, parsed, found
<1>3. /\ \A instance \in InstancesIn(q, parsed) : \E s \in S : instance = InstanceName(s)
      /\ Pointed(records, S) => \A s \in S : InstanceName(s) \in InstancesIn(q, parsed)
      /\ (\A i \in 1..Len(records) : records[i].type # "PTR") => InstancesIn(q, parsed) = {}
  <2>1. PointsAt(q, records, parsed, S)
    BY <1>1, InstancesAre
  <2> QED BY ONLY <2>1 DEF PointsAt
<1>4. ASSUME NEW s \in S
      PROVE  /\ Placed(records, S) => EndpointsIn(q, parsed, InstanceName(s)) = Found(s)
             /\ (\A i \in 1..Len(records) : records[i].type = "PTR")
                  => EndpointsIn(q, parsed, InstanceName(s)) = {}
  BY <1>1, EndpointsAre
<1>5. Advertised(S) = UNION {Found(s) : s \in S}
  BY DEF Advertised, Found
<1>6. ASSUME Pointed(records, S), Placed(records, S) PROVE found = Advertised(S)
  BY <1>2, <1>3, <1>4, <1>5, <1>6
<1>7. ASSUME \A i \in 1..Len(records) : records[i].type # "PTR" PROVE found = {}
  BY <1>2, <1>3, <1>7
<1>8. ASSUME \A i \in 1..Len(records) : records[i].type = "PTR" PROVE found = {}
  BY <1>2, <1>3, <1>4, <1>8
<1> QED BY <1>6, <1>7, <1>8 DEF found, q

(* The records of an answer.                                               *)
HoldsBoth(c, a, b) ==
  /\ \A i \in 1..Len(c) : \/ \E j \in 1..Len(a) : c[i] = a[j]
                          \/ \E j \in 1..Len(b) : c[i] = b[j]
  /\ \A j \in 1..Len(a) : \E i \in 1..Len(c) : c[i] = a[j]
  /\ \A j \in 1..Len(b) : \E i \in 1..Len(c) : c[i] = b[j]

LEMMA TextsJoin ==
  ASSUME NEW a, IsText(a), NEW b, IsText(b)
  PROVE  IsText(a \o b) /\ HoldsBoth(a \o b, a, b)
<1> DEFINE c == a \o b
           T == ToSet(a) \cup ToSet(b)
<1>1. IsText(c)
  BY PacketsJoin
<1>2. a \in Seq(T) /\ b \in Seq(T)
  BY DEF IsText
<1>3. Len(a) \in Nat /\ Len(b) \in Nat
  BY <1>2
<1>4. /\ Len(c) = Len(a) + Len(b)
      /\ \A i \in 1..Len(a) : c[i] = a[i]
      /\ \A i \in 1..Len(b) : c[Len(a) + i] = b[i]
  <2> HIDE DEF T
  <2> QED BY ONLY <1>2, Joined
<1> HIDE DEF c
<1>5. ASSUME NEW i \in 1..Len(c)
      PROVE  (\E j \in 1..Len(a) : c[i] = a[j]) \/ \E j \in 1..Len(b) : c[i] = b[j]
  <2>1. CASE i <= Len(a)
    <3>1. i \in 1..Len(a)
      BY <1>3, <1>4, <2>1
    <3> QED BY <1>4, <3>1
  <2>2. CASE ~ (i <= Len(a))
    <3>1. i - Len(a) \in 1..Len(b) /\ Len(a) + (i - Len(a)) = i
      BY <1>3, <1>4, <2>2
    <3> QED BY <1>4, <3>1
  <2> QED BY <2>1, <2>2
<1>6. ASSUME NEW j \in 1..Len(a) PROVE \E i \in 1..Len(c) : c[i] = a[j]
  <2>1. j \in 1..Len(c)
    BY <1>3, <1>4
  <2> QED BY <1>4, <2>1
<1>7. ASSUME NEW j \in 1..Len(b) PROVE \E i \in 1..Len(c) : c[i] = b[j]
  <2>1. Len(a) + j \in 1..Len(c)
    BY <1>3, <1>4
  <2> QED BY <1>4, <2>1
<1>8. HoldsBoth(c, a, b)
  BY <1>5, <1>6, <1>7 DEF HoldsBoth
<1> QED BY <1>1, <1>8 DEF c

LEMMA OthersAre ==
  ASSUME NEW s \in Services
  PROVE  LET records == OtherRecords(s)
         IN  /\ IsText(records) /\ Placed(records, {s})
             /\ \A i \in 1..Len(records) : OfService(records[i], {s}) /\ records[i].type # "PTR"
<1> DEFINE pair == <<PlaceRecord(s), IdentityRecord(s)>>
           A == {AddressRecord(s, a) : a \in s.addresses}
           rest == SetToSeq(A)
           records == pair \o rest
<1>1. IsFiniteSet(A)
  <2>1. IsFiniteSet(s.addresses)
    BY MdnsAssumption
  <2> DEFINE X == s.addresses
             f == [a \in X |-> AddressRecord(s, a)]
  <2>2. f \in [X -> A] /\ \A t \in A : \E a \in X : f[a] = t
    OBVIOUS
  <2>3. f \in Surjection(X, A)
    <3> HIDE DEF X, A, f
    <3> QED BY <2>2, Z3 DEF Surjection
  <2> HIDE DEF X, A, f
  <2> QED BY <2>1, <2>3, FS_Surjection DEF X
<1>2. rest \in Seq(A) /\ A = {rest[i] : i \in 1..Len(rest)}
  <2> HIDE DEF A
  <2> QED BY <1>1, InSequence
<1>3. IsText(rest)
  <2> HIDE DEF A, rest
  <2> QED BY <1>2, SequenceIsText
<1>4. IsText(pair) /\ Len(pair) = 2 /\ pair[1] = PlaceRecord(s) /\ pair[2] = IdentityRecord(s)
  <2>1. pair \in Seq({PlaceRecord(s), IdentityRecord(s)}) /\ Len(pair) = 2
        /\ pair[1] = PlaceRecord(s) /\ pair[2] = IdentityRecord(s)
    OBVIOUS
  <2> HIDE DEF pair
  <2>2. IsText(pair)
    BY ONLY <2>1, SequenceIsText
  <2> QED BY <2>1, <2>2
<1>5. \A i \in 1..Len(rest) : \E a \in s.addresses : rest[i] = AddressRecord(s, a)
  <2>1. \A i \in 1..Len(rest) : rest[i] \in A
    <3> HIDE DEF A, rest
    <3> QED BY <1>2
  <2> QED BY <2>1
<1>6. \A a \in s.addresses : \E i \in 1..Len(rest) : rest[i] = AddressRecord(s, a)
  <2>1. \A a \in s.addresses : AddressRecord(s, a) \in A
    OBVIOUS
  <2> HIDE DEF A, rest
  <2> QED BY <1>2, <2>1
<1> HIDE DEF pair, rest
<1>7. /\ IsText(records)
      /\ \A i \in 1..Len(records) : \/ \E j \in 1..Len(pair) : records[i] = pair[j]
                                    \/ \E j \in 1..Len(rest) : records[i] = rest[j]
      /\ \A j \in 1..Len(pair) : \E i \in 1..Len(records) : records[i] = pair[j]
      /\ \A j \in 1..Len(rest) : \E i \in 1..Len(records) : records[i] = rest[j]
  <2>1. IsText(records) /\ HoldsBoth(records, pair, rest)
    BY <1>3, <1>4, TextsJoin
  <2> HIDE DEF records
  <2> QED BY <2>1 DEF HoldsBoth
<1> HIDE DEF records
<1>8. ASSUME NEW i \in 1..Len(records)
      PROVE  OfService(records[i], {s}) /\ records[i].type # "PTR"
  <2>1. \/ records[i] = PlaceRecord(s) \/ records[i] = IdentityRecord(s)
        \/ \E a \in s.addresses : records[i] = AddressRecord(s, a)
    <3>1. CASE \E j \in 1..Len(pair) : records[i] = pair[j]
      BY <1>4, <3>1
    <3>2. CASE \E j \in 1..Len(rest) : records[i] = rest[j]
      BY <1>5, <3>2
    <3> QED BY <1>7, <3>1, <3>2
  <2>2. \A a : /\ PlaceRecord(s).type = "SRV" /\ IdentityRecord(s).type = "TXT"
               /\ AddressRecord(s, a).type = "A"
    BY DEF PlaceRecord, IdentityRecord, AddressRecord, Resource
  <2> QED BY <2>1, <2>2 DEF OfService
<1>9. Placed(records, {s})
  <2>1. \E i \in 1..Len(records) : records[i] = PlaceRecord(s)
    BY <1>4, <1>7
  <2>2. \E i \in 1..Len(records) : records[i] = IdentityRecord(s)
    BY <1>4, <1>7
  <2>3. \A a \in s.addresses : \E i \in 1..Len(records) : records[i] = AddressRecord(s, a)
    BY <1>6, <1>7
  <2> QED BY <2>1, <2>2, <2>3 DEF Placed
<1>10. OtherRecords(s) = records
  BY DEF OtherRecords, records, pair, rest
<1> QED BY <1>7, <1>8, <1>9, <1>10

LEMMA AllAre ==
  ASSUME NEW s \in Services
  PROVE  LET records == AllRecords(s)
         IN  /\ IsText(records) /\ Pointed(records, {s}) /\ Placed(records, {s})
             /\ \A i \in 1..Len(records) : OfService(records[i], {s})
<1> DEFINE one == <<PointerRecord(s)>>
           rest == OtherRecords(s)
           records == one \o rest
<1>1. /\ IsText(rest) /\ Placed(rest, {s})
      /\ \A i \in 1..Len(rest) : OfService(rest[i], {s})
  BY OthersAre
<1>2. IsText(one) /\ Len(one) = 1 /\ one[1] = PointerRecord(s)
  <2>1. one \in Seq({PointerRecord(s)}) /\ Len(one) = 1 /\ one[1] = PointerRecord(s)
    OBVIOUS
  <2> HIDE DEF one
  <2>2. IsText(one)
    BY ONLY <2>1, SequenceIsText
  <2> QED BY <2>1, <2>2
<1> HIDE DEF one, rest
<1>3. /\ IsText(records)
      /\ \A i \in 1..Len(records) : \/ \E j \in 1..Len(one) : records[i] = one[j]
                                    \/ \E j \in 1..Len(rest) : records[i] = rest[j]
      /\ \A j \in 1..Len(one) : \E i \in 1..Len(records) : records[i] = one[j]
      /\ \A j \in 1..Len(rest) : \E i \in 1..Len(records) : records[i] = rest[j]
  <2>1. IsText(records) /\ HoldsBoth(records, one, rest)
    BY <1>1, <1>2, TextsJoin
  <2> HIDE DEF records
  <2> QED BY <2>1 DEF HoldsBoth
<1> HIDE DEF records
<1>4. \A i \in 1..Len(records) : OfService(records[i], {s})
  BY <1>1, <1>2, <1>3 DEF OfService
<1>5. Pointed(records, {s})
  BY <1>2, <1>3 DEF Pointed
<1>6. Placed(records, {s})
  <2>1. /\ \E j \in 1..Len(rest) : rest[j] = PlaceRecord(s)
        /\ \E j \in 1..Len(rest) : rest[j] = IdentityRecord(s)
        /\ \A a \in s.addresses : \E j \in 1..Len(rest) : rest[j] = AddressRecord(s, a)
    BY ONLY <1>1 DEF Placed
  <2>2. ASSUME NEW r, \E j \in 1..Len(rest) : rest[j] = r
        PROVE  \E i \in 1..Len(records) : records[i] = r
    <3>1. PICK j \in 1..Len(rest) : rest[j] = r
      BY ONLY <2>2
    <3>2. PICK i \in 1..Len(records) : records[i] = rest[j]
      BY ONLY <1>3, <3>1
    <3> QED BY ONLY <3>1, <3>2
  <2>3. /\ \E i \in 1..Len(records) : records[i] = PlaceRecord(s)
        /\ \E i \in 1..Len(records) : records[i] = IdentityRecord(s)
    BY ONLY <2>1, <2>2
  <2>4. \A a \in s.addresses : \E i \in 1..Len(records) : records[i] = AddressRecord(s, a)
    BY ONLY <2>1, <2>2
  <2> QED BY ONLY <2>3, <2>4 DEF Placed
<1>7. AllRecords(s) = records
  BY DEF AllRecords, records, one, rest
<1> QED BY <1>3, <1>4, <1>5, <1>6, <1>7

LEMMA AllServicesAre ==
  LET seqs == [i \in 1..Cardinality(Services) |-> AllRecords(SetToSeq(Services)[i])]
      records == FlattenSeq(seqs)
  IN  /\ IsText(records) /\ Pointed(records, Services) /\ Placed(records, Services)
      /\ \A i \in 1..Len(records) : OfService(records[i], Services)
<1> DEFINE n == Cardinality(Services)
           each == SetToSeq(Services)
           seqs == [i \in 1..n |-> AllRecords(each[i])]
           records == FlattenSeq(seqs)
           T == UNION {ToSet(AllRecords(s)) : s \in Services}
<1>1. /\ n \in Nat /\ Len(each) = n /\ each \in Seq(Services)
      /\ Services = {each[i] : i \in 1..Len(each)}
  <2>1. IsFiniteSet(Services)
    BY ONLY MdnsAssumption
  <2>2. n \in Nat
    BY ONLY <2>1, FS_CardinalityType DEF n
  <2>3. /\ each \in Seq(Services) /\ Services = {each[i] : i \in 1..Len(each)}
        /\ Len(each) = n
    BY ONLY <2>1, InSequence DEF n, each
  <2> QED BY ONLY <2>2, <2>3
<1> HIDE DEF n, each
<1>2. \A i \in 1..n : each[i] \in Services
  BY <1>1
<1>3. \A s \in Services : \E i \in 1..n : each[i] = s
  BY <1>1
<1>4. \A s \in Services : AllRecords(s) \in Seq(T)
  <2> TAKE s \in Services
  <2>1. AllRecords(s) \in Seq(ToSet(AllRecords(s)))
    BY AllAre DEF IsText
  <2>2. ToSet(AllRecords(s)) \subseteq T
    OBVIOUS
  <2> HIDE DEF T
  <2> QED BY <2>1, <2>2
<1> HIDE DEF T
<1>5. seqs \in Seq(Seq(T)) /\ Len(seqs) = n /\ \A i \in 1..n : seqs[i] = AllRecords(each[i])
  <2>1. seqs \in [1..n -> Seq(T)]
    BY <1>2, <1>4
  <2>2. \A i \in 1..n : seqs[i] = AllRecords(each[i])
    OBVIOUS
  <2> HIDE DEF seqs
  <2>3. seqs \in Seq(Seq(T)) /\ Len(seqs) = n
    BY <1>1, <2>1
  <2> QED BY <2>2, <2>3
<1> HIDE DEF seqs
<1>6. records \in Seq(T) /\ HoldsAll(records, seqs, n)
  BY <1>5, FlattenHolds
<1> HIDE DEF records
<1>7. IsText(records)
  BY <1>6, SequenceIsText
<1>8. ASSUME NEW i \in 1..Len(records) PROVE OfService(records[i], Services)
  <2>1. PICK k \in 1..n : \E j \in 1..Len(seqs[k]) : records[i] = seqs[k][j]
    BY <1>6 DEF HoldsAll
  <2>2. PICK j \in 1..Len(seqs[k]) : records[i] = seqs[k][j]
    BY <2>1
  <2> DEFINE s == each[k]
  <2>3. s \in Services /\ seqs[k] = AllRecords(s)
    BY <1>2, <1>5
  <2> HIDE DEF s
  <2>4. OfService(records[i], {s})
    BY <2>2, <2>3, AllAre
  <2> QED BY <2>3, <2>4 DEF OfService
<1>9. ASSUME NEW s \in Services, NEW j \in 1..Len(AllRecords(s))
      PROVE  \E i \in 1..Len(records) : records[i] = AllRecords(s)[j]
  <2>1. PICK k \in 1..n : each[k] = s
    BY <1>3
  <2>2. seqs[k] = AllRecords(s)
    BY <1>5, <2>1
  <2> QED BY <1>6, <2>2 DEF HoldsAll
<1>10. Pointed(records, Services)
  <2>1. \A s \in Services : \E j \in 1..Len(AllRecords(s)) : AllRecords(s)[j] = PointerRecord(s)
    BY AllAre DEF Pointed
  <2> QED BY <1>9, <2>1 DEF Pointed
<1>11. Placed(records, Services)
  <2> SUFFICES ASSUME NEW s \in Services
               PROVE  /\ \E i \in 1..Len(records) : records[i] = PlaceRecord(s)
                      /\ \E i \in 1..Len(records) : records[i] = IdentityRecord(s)
                      /\ \A a \in s.addresses : \E i \in 1..Len(records) : records[i] = AddressRecord(s, a)
    BY DEF Placed
  <2> DEFINE R == AllRecords(s)
  <2>1. Placed(R, {s})
    BY AllAre
  <2>2. /\ \E j \in 1..Len(R) : R[j] = PlaceRecord(s)
        /\ \E j \in 1..Len(R) : R[j] = IdentityRecord(s)
        /\ \A a \in s.addresses : \E j \in 1..Len(R) : R[j] = AddressRecord(s, a)
    BY <2>1 DEF Placed
  <2>3. \A j \in 1..Len(R) : \E i \in 1..Len(records) : records[i] = R[j]
    BY <1>9
  <2> HIDE DEF R
  <2> QED BY <2>2, <2>3
<1> QED BY <1>7, <1>8, <1>10, <1>11 DEF records, seqs, n, each

(* An answer that is in order says what it is about.                       *)
InOrder(a) ==
  /\ a = [of |-> a.of, has |-> a.has, packet |-> a.packet, count |-> a.count]
  /\ a.has # {} =>
       /\ a.of \subseteq Services
       /\ ParsedPacket(a.packet, a.count) =
            IF a.has = {"which", "where"} THEN Advertised(a.of) ELSE {}

LEMMA AnswerIsSound ==
  ASSUME NEW S \in SUBSET Services, NEW has, NEW records, IsText(records),
         \A i \in 1..Len(records) : OfService(records[i], S),
         \/ has = {"which", "where"} /\ Pointed(records, S) /\ Placed(records, S)
         \/ has = {"which"} /\ \A i \in 1..Len(records) : records[i].type = "PTR"
         \/ has = {"where"} /\ \A i \in 1..Len(records) : records[i].type # "PTR"
  PROVE  InOrder(Answer(S, has, records))
<1> DEFINE a == Answer(S, has, records)
           found == ParsedPacket(Encoded(records), Len(records))
<1>1. /\ Pointed(records, S) /\ Placed(records, S) => found = Advertised(S)
      /\ (\A i \in 1..Len(records) : records[i].type # "PTR") => found = {}
      /\ (\A i \in 1..Len(records) : records[i].type = "PTR") => found = {}
  BY PacketIsUnderstood
<1> HIDE DEF found
<1>2. found = IF has = {"which", "where"} THEN Advertised(S) ELSE {}
  <2>1. {"which"} # {"which", "where"} /\ {"where"} # {"which", "where"}
    OBVIOUS
  <2> QED BY <1>1, <2>1
<1>3. /\ a.of = S /\ a.has = has /\ a.packet = Encoded(records) /\ a.count = Len(records)
      /\ a = [of |-> a.of, has |-> a.has, packet |-> a.packet, count |-> a.count]
  BY DEF Answer
<1> HIDE DEF a
<1>4. InOrder(a)
  BY <1>2, <1>3 DEF InOrder, found
<1> QED BY <1>4 DEF a

LEMMA AnswersAreSound ==
  ASSUME NEW packets \in Answers, NEW a \in packets
  PROVE  InOrder(a)
<1> DEFINE seqs == [i \in 1..Cardinality(Services) |-> AllRecords(SetToSeq(Services)[i])]
           both == {"which", "where"}
           whole == Answer(Services, both, FlattenSeq(seqs))
<1>1. \/ a = whole
      \/ \E s \in Services : a = Answer({s}, both, AllRecords(s))
      \/ \E s \in Services : a = Answer({s}, {"which"}, <<PointerRecord(s)>>)
      \/ \E s \in Services : a = Answer({s}, {"where"}, OtherRecords(s))
  <2> HIDE DEF both
  <2> QED BY DEF Answers, both
<1>2. CASE a = whole
  <2> DEFINE records == FlattenSeq(seqs)
  <2>1. /\ IsText(records) /\ Pointed(records, Services) /\ Placed(records, Services)
        /\ \A i \in 1..Len(records) : OfService(records[i], Services)
    BY AllServicesAre
  <2> HIDE DEF records
  <2>2. InOrder(Answer(Services, both, records))
    BY <2>1, AnswerIsSound
  <2> QED BY <1>2, <2>2 DEF records
<1>3. ASSUME NEW s \in Services, a = Answer({s}, both, AllRecords(s)) PROVE InOrder(a)
  <2> DEFINE records == AllRecords(s)
  <2>1. /\ IsText(records) /\ Pointed(records, {s}) /\ Placed(records, {s})
        /\ \A i \in 1..Len(records) : OfService(records[i], {s})
    BY AllAre
  <2> HIDE DEF records
  <2>2. InOrder(Answer({s}, both, records))
    BY <2>1, AnswerIsSound
  <2> QED BY <1>3, <2>2 DEF records
<1>4. ASSUME NEW s \in Services, a = Answer({s}, {"which"}, <<PointerRecord(s)>>) PROVE InOrder(a)
  <2> DEFINE records == <<PointerRecord(s)>>
  <2>1. records \in Seq({PointerRecord(s)}) /\ Len(records) = 1 /\ records[1] = PointerRecord(s)
    OBVIOUS
  <2>2. PointerRecord(s).type = "PTR" /\ OfService(PointerRecord(s), {s})
    BY DEF PointerRecord, Resource, OfService
  <2> HIDE DEF records
  <2>3. IsText(records)
    BY ONLY <2>1, SequenceIsText
  <2>4. \A i \in 1..Len(records) : OfService(records[i], {s}) /\ records[i].type = "PTR"
    BY <2>1, <2>2
  <2>5. InOrder(Answer({s}, {"which"}, records))
    BY <2>3, <2>4, AnswerIsSound
  <2> QED BY <1>4, <2>5 DEF records
<1>5. ASSUME NEW s \in Services, a = Answer({s}, {"where"}, OtherRecords(s)) PROVE InOrder(a)
  <2> DEFINE records == OtherRecords(s)
  <2>1. /\ IsText(records)
        /\ \A i \in 1..Len(records) : OfService(records[i], {s}) /\ records[i].type # "PTR"
    BY OthersAre
  <2> HIDE DEF records
  <2>2. InOrder(Answer({s}, {"where"}, records))
    BY <2>1, AnswerIsSound
  <2> QED BY <1>5, <2>2 DEF records
<1> HIDE DEF whole
<1> QED BY <1>1, <1>2, <1>3, <1>4, <1>5

FoundIn(answers) == UNION {ParsedPacket(a.packet, a.count) : a \in answers}

MdnsInv ==
  /\ \A a \in sent \cup heard : InOrder(a)
  /\ endpoints = FoundIn(heard)

LEMMA InitMdns == MdnsInit => MdnsInv
  BY AnswersAreSound DEF MdnsInit, Answered, MdnsInv, FoundIn

LEMMA NextMdns == MdnsInv /\ [MdnsNext]_mdnsVars => MdnsInv'
<1> SUFFICES ASSUME MdnsInv, [MdnsNext]_mdnsVars PROVE MdnsInv'
  OBVIOUS
<1>1. /\ \A a \in sent \cup heard : InOrder(a)
      /\ endpoints = FoundIn(heard)
  BY DEF MdnsInv
<1>2. ASSUME NEW a \in sent, ReceiveAnswer(a) PROVE MdnsInv'
  <2>1. heard' = heard \cup {a} /\ endpoints' = endpoints \cup ParsedPacket(a.packet, a.count)
        /\ sent' = sent
    BY <1>2 DEF ReceiveAnswer
  <2>2. FoundIn(heard') = FoundIn(heard) \cup ParsedPacket(a.packet, a.count)
    BY <2>1 DEF FoundIn
  <2> QED BY <1>1, <2>1, <2>2 DEF MdnsInv
<1>3. ASSUME NEW a \in sent, NEW fault \in Faults, Damage(a, fault) PROVE MdnsInv'
  <2> DEFINE b == [a EXCEPT !.packet = Damaged(@, fault), !.of = {}, !.has = {}]
  <2>1. sent' = (sent \ {a}) \cup {b} /\ heard' = heard /\ endpoints' = endpoints
    BY <1>3 DEF Damage
  <2>2. InOrder(b)
    <3>1. a = [of |-> a.of, has |-> a.has, packet |-> a.packet, count |-> a.count]
      BY <1>1 DEF InOrder
    <3>2. b = [of |-> {}, has |-> {}, packet |-> Damaged(a.packet, fault), count |-> a.count]
      <4> DEFINE o == a.of
                 h == a.has
                 p == a.packet
                 c == a.count
      <4>1. a = [of |-> o, has |-> h, packet |-> p, count |-> c]
        BY <3>1
      <4> HIDE DEF o, h, p, c
      <4>2. a.packet = p /\ a.count = c
        BY DEF p, c
      <4> DEFINE d == Damaged(p, fault)
      <4>3. b = [a EXCEPT !.packet = d, !.of = {}, !.has = {}]
        BY <4>2
      <4> HIDE DEF b, d
      <4>4. [a EXCEPT !.packet = d, !.of = {}, !.has = {}]
              = [of |-> {}, has |-> {}, packet |-> d, count |-> c]
        <5> DEFINE a1 == [of |-> o, has |-> h, packet |-> d, count |-> c]
                   a2 == [of |-> {}, has |-> h, packet |-> d, count |-> c]
                   a3 == [of |-> {}, has |-> {}, packet |-> d, count |-> c]
        <5>1. [a EXCEPT !.packet = d] = a1
          BY ONLY <4>1
        <5>2. [a1 EXCEPT !.of = {}] = a2
          OBVIOUS
        <5>3. [a2 EXCEPT !.has = {}] = a3
          OBVIOUS
        <5>4. [a EXCEPT !.packet = d, !.of = {}, !.has = {}] = [[[a EXCEPT !.packet = d] EXCEPT !.of = {}] EXCEPT !.has = {}]
          OBVIOUS
        <5> QED BY <5>1, <5>2, <5>3, <5>4
      <4> QED BY <4>2, <4>3, <4>4 DEF d
    <3> HIDE DEF b
    <3> QED BY <3>2 DEF InOrder
  <2> HIDE DEF b
  <2> QED BY <1>1, <2>1, <2>2 DEF MdnsInv
<1>4. CASE Deadline
  BY <1>1, <1>4 DEF Deadline, MdnsInv
<1>5. CASE UNCHANGED mdnsVars
  BY <1>1, <1>5 DEF mdnsVars, MdnsInv
<1> QED BY <1>2, <1>3, <1>4, <1>5 DEF MdnsNext

LEMMA AdvertisedHas ==
  ASSUME NEW S, NEW U, U \subseteq S
  PROVE  Advertised(U) \subseteq Advertised(S)
  BY DEF Advertised

LEMMA UnderstoodNow == MdnsInv => WholeIsUnderstood
<1> SUFFICES ASSUME MdnsInv PROVE WholeIsUnderstood
  OBVIOUS
<1> DEFINE whole == {a \in heard : a.has = {"which", "where"}}
           of == UNION {a.of : a \in whole}
<1>1. /\ \A a \in heard : InOrder(a)
      /\ endpoints = FoundIn(heard)
  BY DEF MdnsInv
<1>2. Advertised(of) \subseteq endpoints
  <2>1. \A a \in whole : Advertised(a.of) \subseteq endpoints
    <3> TAKE a \in whole
    <3>1. a \in heard /\ a.has = {"which", "where"} /\ a.has # {}
      OBVIOUS
    <3>2. ParsedPacket(a.packet, a.count) = Advertised(a.of)
      BY <1>1, <3>1 DEF InOrder
    <3> QED BY <1>1, <3>1, <3>2 DEF FoundIn
  <2>2. \A e \in Advertised(of) : \E a \in whole : e \in Advertised(a.of)
    <3> HIDE DEF whole
    <3> QED BY DEF Advertised
  <2> QED BY <2>1, <2>2
<1>3. ASSUME \A a \in heard : a.has # {} PROVE endpoints \subseteq Advertised(Services)
  <2>1. \A a \in heard : ParsedPacket(a.packet, a.count) \subseteq Advertised(Services)
    <3> TAKE a \in heard
    <3>1. a.of \subseteq Services /\ ParsedPacket(a.packet, a.count) \subseteq Advertised(a.of)
      BY <1>1, <1>3 DEF InOrder
    <3> QED BY <3>1, AdvertisedHas
  <2> QED BY <1>1, <2>1 DEF FoundIn
<1> QED BY <1>2, <1>3 DEF WholeIsUnderstood

(* However the names of an answer are compressed, every service that was   *)
(* heard of in one packet is found at all of its addresses, and nothing    *)
(* that nobody advertised is, unless a packet was damaged.                 *)
THEOREM AnswersAreUnderstood == MdnsSpec => []WholeIsUnderstood
<1>1. MdnsSpec => []MdnsInv
  BY InitMdns, NextMdns, PTL DEF MdnsSpec
<1> QED BY <1>1, UnderstoodNow, PTL
=============================================================================
