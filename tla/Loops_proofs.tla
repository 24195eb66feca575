---------------------------- MODULE Loops_proofs ----------------------------
(***************************************************************************)
(* What the loops over lists leave, by induction over how far they are,    *)
(* and how a number that is written as bytes is read from a stream.        *)
(***************************************************************************)
EXTENDS Loops, Streams, SequenceTheorems, WellFoundedInduction, TLAPS

(* A sequence put together from n parts, as the loops over lists do it.    *)
Assembles(f, part, n) ==
  f = [i \in 0..n |-> IF i = 0 THEN <<>> ELSE f[i - 1] \o part[i]]

(* A set of numbers has a least one.                                       *)
LEMMA LeastNumber ==
  ASSUME NEW S, S \subseteq Nat, S # {}
  PROVE  \E n \in S : \A m \in S : n <= m
<1>1. PICK n \in S : \A m \in S : <<m, n>> \notin OpToRel(<, Nat)
  BY NatLessThanWellFounded, WFMin
<1>2. ASSUME NEW m \in S, m < n PROVE <<m, n>> \in OpToRel(<, Nat)
  BY <1>2 DEF OpToRel
<1>3. ASSUME NEW m \in S PROVE n <= m
  <2>1. ~(m < n)
    BY <1>1, <1>2
  <2>2. m \in Nat /\ n \in Nat
    OBVIOUS
  <2> QED
    BY ONLY <2>1, <2>2
<1> QED
  BY <1>3

(* A set of numbers that has 0, and with a number the next one, has all.   *)
LEMMA Climb ==
  ASSUME NEW n \in Nat, NEW G, 0 \in G, \A m \in 0..(n - 1) : m \in G => m + 1 \in G
  PROVE  \A m \in 0..n : m \in G
<1>1. SUFFICES ASSUME (0..n) \ G # {} PROVE FALSE
  OBVIOUS
<1>2. (0..n) \ G \subseteq Nat
  OBVIOUS
<1>3. PICK m \in (0..n) \ G : \A k \in (0..n) \ G : m <= k
  BY <1>1, <1>2, LeastNumber
<1>4. m # 0 /\ m - 1 \in 0..(n - 1) /\ m - 1 \in 0..n /\ m - 1 + 1 = m
  BY <1>3
<1>5. m - 1 \notin G
  BY <1>4
<1>6. m - 1 \in G
  BY <1>3, <1>4
<1> QED
  BY ONLY <1>5, <1>6

(* What every part keeps, all of the sequence has.                         *)
LEMMA Assembled ==
  ASSUME NEW C, <<>> \in C, NEW n \in Nat, NEW part, NEW f, Assembles(f, part, n),
         \A i \in 1..n : \A a \in C : (i = 1 => a = <<>>) => a \o part[i] \in C
  PROVE  \A i \in 0..n : f[i] \in C
<1> DEFINE Bad == {i \in 0..n : f[i] \notin C}
<1>1. SUFFICES ASSUME Bad # {} PROVE FALSE
  OBVIOUS
<1>2. PICK i \in Bad : \A j \in Bad : i <= j
  <2>1. Bad \subseteq Nat
    OBVIOUS
  <2> HIDE DEF Bad
  <2> QED
    BY <1>1, <2>1, LeastNumber
<1>3. \A k \in 0..n : f[k] = IF k = 0 THEN <<>> ELSE f[k - 1] \o part[k]
  BY DEF Assembles
<1>4. CASE i = 0
  BY <1>2, <1>3, <1>4
<1>5. CASE i # 0
  <2>1. i \in 1..n /\ i - 1 \in 0..n /\ i - 1 \notin Bad /\ i \in 0..n
    BY <1>2, <1>5
  <2>2. f[i - 1] \in C /\ (i = 1 => f[i - 1] = <<>>)
    BY <1>3, <2>1
  <2>3. f[i - 1] \o part[i] \in C
    BY <2>1, <2>2
  <2> QED
    BY <1>2, <1>3, <1>5, <2>1, <2>3
<1> QED
  BY <1>4, <1>5

(* There is such a function: it is the one a recursive definition chooses. *)
LEMMA Assembling ==
  ASSUME NEW n \in Nat, NEW part
  PROVE  \E f : Assembles(f, part, n)
<1> DEFINE Good == {m \in 0..n : \E f : Assembles(f, part, m)}
<1>1. 0 \in Good
  <2>1. PICK f : f = [i \in 0..0 |-> <<>>]
    OBVIOUS
  <2>2. Assembles(f, part, 0)
    BY <2>1 DEF Assembles
  <2> QED
    BY <2>2
<1>2. ASSUME NEW m \in Good, m < n PROVE m + 1 \in Good
  <2>1. PICK f : Assembles(f, part, m)
    BY <1>2
  <2>2. PICK g : g = [i \in 0..(m + 1) |-> IF i = m + 1 THEN f[m] \o part[m + 1] ELSE f[i]]
    OBVIOUS
  <2>3. m \in Nat
    BY <1>2
  <2>4. ASSUME NEW i \in 0..(m + 1)
        PROVE  g[i] = IF i = 0 THEN <<>> ELSE g[i - 1] \o part[i]
    <3>1. CASE i = m + 1
      <4>1. i # 0 /\ g[i - 1] = f[m]
        BY <2>2, <2>3, <3>1
      <4>2. g[i] = f[m] \o part[i]
        BY <2>2, <3>1
      <4> QED
        BY ONLY <4>1, <4>2
    <3>2. CASE i # m + 1
      <4>1. i \in 0..m /\ g[i] = f[i] /\ (i # 0 => g[i - 1] = f[i - 1])
        BY <2>2, <2>3, <3>2
      <4> QED
        BY <2>1, <4>1 DEF Assembles
    <3> QED
      BY <3>1, <3>2
  <2>5. Assembles(g, part, m + 1)
    BY <2>2, <2>4 DEF Assembles
  <2> QED
    BY <1>2, <2>3, <2>5
<1>3. n \in Good
  <2> HIDE DEF Good
  <2>1. SUFFICES ASSUME (0..n) \ Good # {} PROVE FALSE
    OBVIOUS
  <2>2. PICK m \in (0..n) \ Good : \A k \in (0..n) \ Good : m <= k
    <3>1. (0..n) \ Good \subseteq Nat
      OBVIOUS
    <3> QED
      BY <2>1, <3>1, LeastNumber
  <2>3. m # 0 /\ m - 1 \in Good /\ m - 1 < n
    BY <1>1, <2>2
  <2>4. m - 1 + 1 \in Good
    BY <1>2, <2>3
  <2> QED
    BY <2>2, <2>4
<1> QED
  BY <1>3

(* The parts are sequences over T; some parts are those behind the first b.*)
Parts(part, n, T)          == \A i \in 1..n : part[i] \in Seq(T)
Behind(part, b, more, m)   == \A j \in 1..m : more[j] = part[b + j]
Continues(f, b, g, m)      == f[b + m] = f[b] \o g[m]

(* What the first parts give, and then the others, is what all of them do. *)
LEMMA AssembledFurther ==
  ASSUME NEW T, NEW n \in Nat, NEW part, NEW f, Assembles(f, part, n),
         Parts(part, n, T),
         NEW b \in Nat, NEW m \in Nat, b + m <= n,
         NEW more, NEW g, Assembles(g, more, m),
         Behind(part, b, more, m)
  PROVE  Continues(f, b, g, m)
<1> USE DEF Parts, Behind
<1>1. \A i \in 0..n : f[i] \in Seq(T)
  <2>1. \A i \in 1..n : \A a \in Seq(T) : a \o part[i] \in Seq(T)
    BY ConcatProperties
  <2> QED
    BY <2>1, EmptySeq, Assembled
<1>2. \A j \in 0..m : g[j] \in Seq(T)
  <2>1. \A j \in 1..m : b + j \in 1..n
    OBVIOUS
  <2>2. \A j \in 1..m : \A a \in Seq(T) : a \o more[j] \in Seq(T)
    BY <2>1, ConcatProperties
  <2> QED
    BY <2>2, EmptySeq, Assembled
<1>3. /\ \A i \in 0..n : f[i] = IF i = 0 THEN <<>> ELSE f[i - 1] \o part[i]
      /\ \A j \in 0..m : g[j] = IF j = 0 THEN <<>> ELSE g[j - 1] \o more[j]
  BY DEF Assembles
<1> DEFINE Good == {j \in 0..m : f[b + j] = f[b] \o g[j]}
<1>4. 0 \in Good
  <2>1. g[0] = <<>> /\ b \in 0..n /\ b + 0 = b
    BY <1>3
  <2>2. f[b] \o <<>> = f[b]
    BY <1>1, <2>1, ConcatEmptySeq
  <2>3. f[b + 0] = f[b] \o g[0]
    BY ONLY <2>1, <2>2
  <2>4. 0 \in 0..m
    OBVIOUS
  <2> QED
    BY <2>3, <2>4
<1>5. ASSUME NEW j \in 0..(m - 1), j \in Good PROVE j + 1 \in Good
  <2>1. PICK k, l : k = b + j + 1 /\ l = j + 1
    OBVIOUS
  <2>2. /\ k \in 1..n /\ k \in 0..n /\ k # 0 /\ k - 1 = b + j /\ b \in 0..n
        /\ l \in 1..m /\ l \in 0..m /\ l # 0 /\ l - 1 = j /\ j \in 0..m
        /\ b + l = k
    BY <2>1
  <2>3. PICK x, y, z : x = f[b] /\ y = g[j] /\ z = part[k]
    OBVIOUS
  <2>4. x \in Seq(T) /\ y \in Seq(T) /\ z \in Seq(T)
    BY <1>1, <1>2, <2>2, <2>3
  <2>5. f[k] = f[b + j] \o z
    <3>1. f[k] = f[k - 1] \o part[k]
      BY <1>3, <2>2
    <3> QED
      BY ONLY <2>2, <2>3, <3>1
  <2>6. f[b + j] = x \o y
    BY <1>5, <2>3
  <2>7. g[l] = y \o z
    <3>1. g[l] = g[l - 1] \o more[l]
      BY <1>3, <2>2
    <3>2. more[l] = part[b + l]
      BY <2>2
    <3> QED
      BY ONLY <2>2, <2>3, <3>1, <3>2
  <2>8. (x \o y) \o z = x \o (y \o z)
    BY ONLY <2>4, ConcatAssociative
  <2>9. f[b + l] = f[b] \o g[l]
    BY ONLY <2>2, <2>3, <2>5, <2>6, <2>7, <2>8
  <2> QED
    BY <2>1, <2>2, <2>9
<1>6. m \in Good
  <2> HIDE DEF Good
  <2>1. m \in 0..m
    OBVIOUS
  <2> QED
    BY <1>4, <1>5, <2>1, Climb
<1> QED
  BY <1>6 DEF Continues

(* What a loop over a list does with each of its members.                  *)
Pushed(list, S) == [i \in 1..Len(list) |-> IF list[i] \in S THEN << list[i] >> ELSE <<>>]

(* The loop puts these together.                                           *)
LEMMA KeptAssembled ==
  ASSUME NEW T, NEW list \in Seq(T), NEW S
  PROVE  \E f : Assembles(f, Pushed(list, S), Len(list)) /\ Kept(list, S) = f[Len(list)]
<1> DEFINE Body(f) == f = [i \in 0..Len(list) |->
                             IF i = 0 THEN <<>>
                             ELSE f[i - 1] \o (IF list[i] \in S THEN << list[i] >> ELSE <<>>)]
           kept == CHOOSE f : Body(f)
<1>1. Len(list) \in Nat
  OBVIOUS
<1>2. ASSUME NEW f PROVE Body(f) <=> Assembles(f, Pushed(list, S), Len(list))
  <2>1. [i \in 0..Len(list) |->
           IF i = 0 THEN <<>>
           ELSE f[i - 1] \o (IF list[i] \in S THEN << list[i] >> ELSE <<>>)]
        = [i \in 0..Len(list) |-> IF i = 0 THEN <<>> ELSE f[i - 1] \o Pushed(list, S)[i]]
    BY <1>1 DEF Pushed
  <2> QED
    BY <2>1 DEF Assembles
<1>3. Kept(list, S) = kept[Len(list)]
  BY DEF Kept
<1>4. \E f : Assembles(f, Pushed(list, S), Len(list))
  BY <1>1, Assembling
<1>5. Body(kept)
  <2> HIDE DEF Body
  <2> QED
    BY <1>2, <1>4
<1> HIDE DEF kept, Body
<1>6. Assembles(kept, Pushed(list, S), Len(list))
  BY <1>2, <1>5
<1> QED
  BY <1>3, <1>6

(* The lists over a set that have one element, if at all, in the first     *)
(* place: the listening socket in the lists of a network manager.          *)
Lists(T, L) == {list \in Seq(T) : \A i \in 2..Len(list) : list[i] # L}

(* The listening socket stays in the first place of what is joined.        *)
LEMMA ListsJoin ==
  ASSUME NEW T, NEW L
  PROVE  /\ <<>> \in Lists(T, L)
         /\ \A b \in Lists(T, L) : <<>> \o b \in Lists(T, L)
         /\ \A a \in Lists(T, L) : \A b \in Seq(T \ {L}) : a \o b \in Lists(T, L)
         /\ Lists(T \ {L}, L) = Seq(T \ {L})
<1>1. <<>> \in Lists(T, L)
  BY EmptySeq DEF Lists
<1>2. \A b \in Lists(T, L) : <<>> \o b \in Lists(T, L)
  BY ConcatEmptySeq DEF Lists
<1>3. ASSUME NEW a \in Lists(T, L), NEW b \in Seq(T \ {L}) PROVE a \o b \in Lists(T, L)
  <2>1. a \in Seq(T) /\ b \in Seq(T)
    BY SeqMonotonic DEF Lists
  <2>2. PICK m \in Nat : m = Len(a)
    BY <2>1
  <2>3. PICK n \in Nat : n = Len(b)
    BY <2>1
  <2>4. /\ a \o b \in Seq(T) /\ Len(a \o b) = m + n
        /\ \A i \in 1..(m + n) : (a \o b)[i] = IF i <= m THEN a[i] ELSE b[i - m]
    BY <2>1, <2>2, <2>3, ConcatProperties
  <2>5. ASSUME NEW i \in 2..(m + n) PROVE (a \o b)[i] # L
    <3>1. CASE i <= m
      <4>1. (a \o b)[i] = a[i] /\ i \in 2..m
        BY <2>4, <3>1
      <4> QED
        BY <2>2, <4>1 DEF Lists
    <3>2. CASE ~(i <= m)
      <4>1. (a \o b)[i] = b[i - m] /\ i - m \in 1..n
        BY <2>4, <3>2
      <4>2. b[i - m] \in T \ {L}
        BY <2>3, <4>1, ElementOfSeq
      <4> QED
        BY <4>1, <4>2
    <3> QED
      BY <3>1, <3>2
  <2> QED
    BY <2>4, <2>5 DEF Lists
<1>4. Lists(T \ {L}, L) = Seq(T \ {L})
  <2>1. ASSUME NEW a \in Seq(T \ {L}), NEW i \in 2..Len(a) PROVE a[i] # L
    <3>1. i \in 1..Len(a)
      OBVIOUS
    <3>2. a[i] \in T \ {L}
      BY <3>1, ElementOfSeq
    <3> QED
      BY <3>2
  <2> QED
    BY <2>1 DEF Lists
<1> QED
  BY <1>1, <1>2, <1>3, <1>4

(* A loop over a list pushes back members of the list, in their order.     *)
LEMMA KeptType ==
  ASSUME NEW T, NEW L, NEW list \in Lists(T, L), NEW S
  PROVE  Kept(list, S) \in Lists(T \cap S, L)
<1>1. list \in Seq(T) /\ Len(list) \in Nat
  BY DEF Lists
<1>2. PICK part : part = Pushed(list, S)
  OBVIOUS
<1>3. PICK kept : Assembles(kept, part, Len(list)) /\ Kept(list, S) = kept[Len(list)]
  BY <1>1, <1>2, KeptAssembled
<1>4. \A i \in 1..Len(list) : part[i] = IF list[i] \in S THEN << list[i] >> ELSE <<>>
  BY <1>1, <1>2 DEF Pushed
<1>5. ASSUME NEW i \in 1..Len(list), NEW a \in Lists(T \cap S, L), i = 1 => a = <<>>
      PROVE  a \o part[i] \in Lists(T \cap S, L)
  <2>1. list[i] \in T
    BY <1>1, ElementOfSeq
  <2>2. a \in Seq(T \cap S)
    BY DEF Lists
  <2>3. CASE list[i] \notin S
    <3>1. part[i] = <<>>
      BY <1>4, <2>3
    <3>2. a \o <<>> = a
      BY <2>2, ConcatEmptySeq
    <3> QED
      BY ONLY <3>1, <3>2, a \in Lists(T \cap S, L)
  <2>4. CASE list[i] \in S
    <3>1. PICK b : b = << list[i] >>
      OBVIOUS
    <3>2. part[i] = b
      BY <1>4, <2>4, <3>1
    <3>3. CASE i = 1
      <4>1. b \in Seq(T \cap S) /\ Len(b) = 1
        BY <2>1, <2>4, <3>1
      <4>2. b \in Lists(T \cap S, L)
        <5>1. \A j \in 2..Len(b) : b[j] # L
          BY ONLY <4>1
        <5> QED
          BY ONLY <4>1, <5>1 DEF Lists
      <4> QED
        BY <1>5, <3>2, <3>3, <4>2, ListsJoin
    <3>4. CASE i # 1
      <4>1. list[i] # L
        <5>1. i \in 2..Len(list)
          BY <3>4
        <5> QED
          BY <5>1 DEF Lists
      <4>2. b \in Seq((T \cap S) \ {L})
        BY <2>1, <2>4, <3>1, <4>1
      <4> QED
        BY <3>2, <4>2, ListsJoin
    <3> QED
      BY <3>3, <3>4
  <2> QED
    BY <2>3, <2>4
<1>6. \A i \in 0..Len(list) : kept[i] \in Lists(T \cap S, L)
  BY <1>1, <1>3, <1>5, ListsJoin, Assembled
<1>7. Len(list) \in 0..Len(list)
  BY <1>1
<1>8. kept[Len(list)] \in Lists(T \cap S, L)
  BY ONLY <1>6, <1>7
<1> QED
  BY ONLY <1>3, <1>8

-----------------------------------------------------------------------------
(* What a loop copies, and from where.                                     *)

(* The members of a list that are copied, of the first n, and where they   *)
(* are in the list.                                                        *)
Picks(kept, list, S, at, n) ==
  /\ at \in [1..Len(kept) -> 1..n]
  /\ \A k \in 1..Len(kept) : kept[k] = list[at[k]]
  /\ \A k, l \in 1..Len(kept) : k < l => at[k] < at[l]
  /\ \A i \in 1..n : list[i] \in S <=> \E k \in 1..Len(kept) : at[k] = i

(* One more element at the end of a sequence.                              *)
LEMMA PushBack ==
  ASSUME NEW T, NEW s \in Seq(T), NEW x \in T
  PROVE  /\ s \o << x >> = Append(s, x)
         /\ s \o << x >> \in Seq(T) /\ Len(s \o << x >>) = Len(s) + 1
         /\ (s \o << x >>)[Len(s) + 1] = x
         /\ \A k \in 1..Len(s) : (s \o << x >>)[k] = s[k]
<1>1. PICK b : b = << x >>
  OBVIOUS
<1>2. b \in Seq(T) /\ Len(b) = 1 /\ b[1] = x
  BY <1>1
<1>3. PICK c : c = s \o b
  OBVIOUS
<1>4. PICK n \in Nat : n = Len(s)
  OBVIOUS
<1>5. /\ c \in Seq(T) /\ Len(c) = n + 1
      /\ \A k \in 1..(n + 1) : c[k] = IF k <= n THEN s[k] ELSE b[k - n]
  BY <1>2, <1>3, <1>4, ConcatProperties
<1>6. c[n + 1] = x /\ \A k \in 1..n : c[k] = s[k]
  <2>1. n + 1 \in 1..(n + 1) /\ n + 1 - n = 1 /\ ~(n + 1 <= n)
        /\ \A k \in 1..n : k \in 1..(n + 1) /\ k <= n
    OBVIOUS
  <2> QED
    BY ONLY <1>2, <1>5, <2>1
<1>7. /\ Append(s, x) \in Seq(T) /\ Len(Append(s, x)) = n + 1
      /\ \A k \in 1..n : Append(s, x)[k] = s[k]
      /\ Append(s, x)[n + 1] = x
  BY <1>4, AppendProperties
<1>8. c = Append(s, x)
  <2>1. ASSUME NEW k \in 1..(n + 1) PROVE c[k] = Append(s, x)[k]
    <3>1. k \in 1..n \/ k = n + 1
      OBVIOUS
    <3> QED
      BY <1>6, <1>7, <3>1
  <2> QED
    BY <1>5, <1>7, <2>1, SeqEqual
<1> QED
  BY <1>1, <1>3, <1>4, <1>5, <1>6, <1>8

(* A loop over a list copies exactly the members in S, in their order.     *)
LEMMA KeptPicks ==
  ASSUME NEW T, NEW list \in Seq(T), NEW S
  PROVE  Kept(list, S) \in Seq(T) /\ \E at : Picks(Kept(list, S), list, S, at, Len(list))
<1>1. PICK len \in Nat : len = Len(list)
  OBVIOUS
<1>2. PICK part : part = Pushed(list, S)
  OBVIOUS
<1>3. PICK kept : Assembles(kept, part, len) /\ Kept(list, S) = kept[len]
  BY <1>1, <1>2, KeptAssembled
<1>4. \A i \in 1..len : part[i] = IF list[i] \in S THEN << list[i] >> ELSE <<>>
  BY <1>1, <1>2 DEF Pushed
<1>5. \A n \in 0..len : kept[n] = IF n = 0 THEN <<>> ELSE kept[n - 1] \o part[n]
  BY <1>3 DEF Assembles
<1> DEFINE Good == {n \in 0..len : kept[n] \in Seq(T) /\ \E at : Picks(kept[n], list, S, at, n)}
<1>6. 0 \in Good
  <2>1. kept[0] = <<>> /\ 0 \in 0..len
    BY <1>5
  <2>2. PICK at : at = [k \in 1..0 |-> 0]
    OBVIOUS
  <2>3. Picks(<<>>, list, S, at, 0)
    BY <2>2 DEF Picks
  <2>4. kept[0] \in Seq(T) /\ Picks(kept[0], list, S, at, 0)
    BY <2>1, <2>3, EmptySeq
  <2> QED
    BY <2>1, <2>4
<1>7. ASSUME NEW n \in 0..(len - 1), n \in Good PROVE n + 1 \in Good
  <2>1. PICK m : m = n + 1
    OBVIOUS
  <2>2. m \in 1..len /\ m \in 0..len /\ m # 0 /\ m - 1 = n /\ n \in Nat
    BY <2>1
  <2>3. PICK at : Picks(kept[n], list, S, at, n)
    BY <1>7
  <2>4. kept[n] \in Seq(T)
    BY <1>7
  <2>5. PICK old : old = kept[n]
    OBVIOUS
  <2>6. PICK now : now = kept[m]
    OBVIOUS
  <2>7. now = old \o part[m]
    BY <1>5, <2>2, <2>5, <2>6
  <2>8. PICK x \in T : x = list[m]
    BY <1>1, <2>2, ElementOfSeq
  <2>9. PICK c \in Nat : c = Len(old)
    BY <2>4, <2>5
  <2>10. /\ at \in [1..c -> 1..n] /\ \A k \in 1..c : old[k] = list[at[k]]
         /\ \A k, l \in 1..c : k < l => at[k] < at[l]
         /\ \A i \in 1..n : list[i] \in S <=> \E k \in 1..c : at[k] = i
    BY <2>3, <2>5, <2>9 DEF Picks
  <2>11. CASE x \notin S
    <3>1. part[m] = <<>>
      BY <1>4, <2>2, <2>8, <2>11
    <3>2. now = old
      BY <2>4, <2>5, <2>7, <3>1, ConcatEmptySeq
    <3>3. at \in [1..c -> 1..m]
      BY ONLY <2>2, <2>10
    <3>4. \A i \in 1..m : list[i] \in S <=> \E k \in 1..c : at[k] = i
      <4>1. ASSUME NEW i \in 1..m PROVE list[i] \in S <=> \E k \in 1..c : at[k] = i
        <5>1. CASE i = m
          <6>1. ASSUME NEW k \in 1..c PROVE at[k] # i
            <7>1. at[k] \in 1..n
              BY ONLY <2>10, k \in 1..c
            <7> QED
              BY ONLY <2>2, <5>1, <7>1
          <6> QED
            BY <2>8, <2>11, <5>1, <6>1
        <5>2. CASE i # m
          <6>1. i \in 1..n
            BY <2>2, <5>2
          <6> QED
            BY ONLY <2>10, <6>1
        <5> QED
          BY <5>1, <5>2
      <4> QED
        BY <4>1
    <3>5. Picks(now, list, S, at, m)
      BY ONLY <2>9, <2>10, <3>2, <3>3, <3>4 DEF Picks
    <3> QED
      BY <2>1, <2>2, <2>4, <2>5, <2>6, <3>2, <3>5
  <2>12. CASE x \in S
    <3>1. PICK b : b = << x >>
      OBVIOUS
    <3>2. part[m] = b
      BY <1>4, <2>2, <2>8, <2>12, <3>1
    <3>3. now = old \o << x >>
      BY <2>7, <3>1, <3>2
    <3>4. /\ now \in Seq(T) /\ Len(now) = c + 1 /\ now[c + 1] = x
          /\ \A k \in 1..c : now[k] = old[k]
      BY <2>4, <2>5, <2>9, <3>3, PushBack
    <3>5. PICK d \in Nat : d = c + 1
      OBVIOUS
    <3>6. PICK to : to = [k \in 1..d |-> IF k = d THEN m ELSE at[k]]
      OBVIOUS
    <3>7. /\ \A k \in 1..c : to[k] = at[k] /\ at[k] \in 1..n
          /\ to[d] = m /\ to \in [1..d -> 1..m]
          /\ \A k \in 1..d : k = d \/ k \in 1..c
      BY ONLY <2>2, <2>10, <3>5, <3>6
    <3>8. \A k \in 1..d : now[k] = list[to[k]]
      BY ONLY <2>8, <2>10, <3>4, <3>5, <3>7
    <3>9. ASSUME NEW k \in 1..d, NEW l \in 1..d, k < l PROVE to[k] < to[l]
      <4>1. k \in 1..c
        BY ONLY <3>5, <3>9
      <4>2. CASE l = d
        BY ONLY <2>2, <3>7, <4>1, <4>2
      <4>3. CASE l # d
        BY ONLY <2>10, <3>7, <3>9, <4>1, <4>3, l \in 1..d
      <4> QED
        BY <4>2, <4>3
    <3>10. ASSUME NEW i \in 1..m PROVE list[i] \in S <=> \E k \in 1..d : to[k] = i
      <4>1. CASE i = m
        <5>1. d \in 1..d
          BY <3>5
        <5> QED
          BY <2>8, <2>12, <3>7, <4>1, <5>1
      <4>2. CASE i # m
        <5>1. i \in 1..n
          BY <2>2, <4>2
        <5>2. ASSUME NEW k \in 1..d, to[k] = i PROVE k \in 1..c /\ at[k] = i
          BY ONLY <3>7, <4>2, <5>2, k \in 1..d
        <5>3. ASSUME NEW k \in 1..c, at[k] = i PROVE k \in 1..d /\ to[k] = i
          BY ONLY <3>5, <3>7, <5>3, k \in 1..c
        <5> QED
          BY <2>10, <5>1, <5>2, <5>3
      <4> QED
        BY <4>1, <4>2
    <3>11. Picks(now, list, S, to, m)
      BY ONLY <3>4, <3>5, <3>7, <3>8, <3>9, <3>10 DEF Picks
    <3> QED
      BY <2>1, <2>2, <2>6, <3>4, <3>11
  <2> QED
    BY <2>11, <2>12
<1> HIDE DEF Good
<1>8. len \in Good
  <2>1. len \in 0..len
    OBVIOUS
  <2> QED
    BY <1>6, <1>7, <2>1, Climb
<1> USE DEF Good
<1> QED
  BY <1>1, <1>3, <1>8

(* Two sequences in one.                                                   *)
LEMMA Joins ==
  ASSUME NEW T
  PROVE  \A a, b \in Seq(T) :
           /\ a \o b \in Seq(T) /\ Len(a \o b) = Len(a) + Len(b)
           /\ \A i \in 1..(Len(a) + Len(b)) :
                (a \o b)[i] = IF i <= Len(a) THEN a[i] ELSE b[i - Len(a)]
           /\ \A i \in 1..Len(a) : (a \o b)[i] = a[i]
           /\ \A i \in 1..Len(b) : (a \o b)[Len(a) + i] = b[i]
<1> SUFFICES ASSUME NEW a \in Seq(T), NEW b \in Seq(T)
             PROVE  /\ a \o b \in Seq(T) /\ Len(a \o b) = Len(a) + Len(b)
                    /\ \A i \in 1..(Len(a) + Len(b)) :
                         (a \o b)[i] = IF i <= Len(a) THEN a[i] ELSE b[i - Len(a)]
                    /\ \A i \in 1..Len(a) : (a \o b)[i] = a[i]
                    /\ \A i \in 1..Len(b) : (a \o b)[Len(a) + i] = b[i]
  OBVIOUS
<1>0. PICK n \in Nat, m \in Nat : n = Len(a) /\ m = Len(b)
  OBVIOUS
<1>1. PICK c : n = Len(a) /\ m = Len(b) /\ c = a \o b
  BY <1>0
<1>2. /\ c \in Seq(T) /\ Len(c) = n + m
      /\ \A i \in 1..(n + m) : c[i] = IF i <= n THEN a[i] ELSE b[i - n]
  BY <1>1, ConcatProperties
<1>3. \A i \in 1..n : i \in 1..(n + m) /\ i <= n
  OBVIOUS
<1>4. \A i \in 1..m : n + i \in 1..(n + m) /\ ~(n + i <= n) /\ n + i - n = i
  OBVIOUS
<1>5. (\A i \in 1..n : c[i] = a[i]) /\ (\A i \in 1..m : c[n + i] = b[i])
  BY ONLY <1>2, <1>3, <1>4
<1> QED
  BY <1>1, <1>2, <1>5

(* A loop over two lists, one after the other.                             *)
LEMMA KeptJoin ==
  ASSUME NEW T, NEW a \in Seq(T), NEW b \in Seq(T), NEW S
  PROVE  Kept(a \o b, S) = Kept(a, S) \o Kept(b, S)
<1>1. PICK n \in Nat, m \in Nat : n = Len(a) /\ m = Len(b)
  OBVIOUS
<1>2. PICK c : c = a \o b
  OBVIOUS
<1>3. PICK l \in Nat : l = n + m
  OBVIOUS
<1>4. /\ c \in Seq(T) /\ Len(c) = l
      /\ \A i \in 1..n : c[i] = a[i]
      /\ \A i \in 1..m : c[n + i] = b[i]
  BY <1>1, <1>2, <1>3, Joins
<1>5. PICK p, q, r : p = Pushed(c, S) /\ q = Pushed(a, S) /\ r = Pushed(b, S)
  OBVIOUS
<1>6. PICK f : Assembles(f, p, l) /\ Kept(c, S) = f[l]
  BY <1>4, <1>5, KeptAssembled
<1>7. PICK g : Assembles(g, q, n) /\ Kept(a, S) = g[n]
  BY <1>1, <1>5, KeptAssembled
<1>8. PICK h : Assembles(h, r, m) /\ Kept(b, S) = h[m]
  BY <1>1, <1>5, KeptAssembled
<1>9. /\ \A i \in 1..l : p[i] = IF c[i] \in S THEN << c[i] >> ELSE <<>>
      /\ \A i \in 1..n : q[i] = IF a[i] \in S THEN << a[i] >> ELSE <<>>
      /\ \A i \in 1..m : r[i] = IF b[i] \in S THEN << b[i] >> ELSE <<>>
  BY <1>1, <1>4, <1>5 DEF Pushed
<1>10. Parts(p, l, T)
  <2>1. \A i \in 1..l : c[i] \in T
    BY <1>4, ElementOfSeq
  <2> QED
    <3>1. \A x \in T : << x >> \in Seq(T)
      OBVIOUS
    <3> QED
      BY ONLY <1>9, <2>1, <3>1, EmptySeq DEF Parts
<1>11. Behind(p, 0, q, n)
  <2>1. ASSUME NEW i \in 1..n PROVE i \in 1..l /\ 0 + i = i
    BY <1>3
  <2> QED
    BY <1>4, <1>9, <2>1 DEF Behind
<1>12. Behind(p, n, r, m)
  <2>1. ASSUME NEW i \in 1..m PROVE n + i \in 1..l
    BY <1>3
  <2> QED
    BY <1>4, <1>9, <2>1 DEF Behind
<1>13. Continues(f, 0, g, n)
  <2>1. 0 + n <= l /\ 0 \in Nat
    BY <1>3
  <2> QED
    BY <1>6, <1>7, <1>10, <1>11, <2>1, AssembledFurther
<1>14. Continues(f, n, h, m)
  <2>1. n + m <= l
    BY <1>3
  <2> QED
    BY <1>6, <1>8, <1>10, <1>12, <2>1, AssembledFurther
<1>15. Kept(a, S) \in Seq(T)
  BY KeptPicks
<1>16. f[0] = <<>>
  BY <1>6 DEF Assembles
<1>17. f[n] = g[n]
  <2>1. f[n] = f[0] \o g[n]
    <3>1. 0 + n = n
      OBVIOUS
    <3> QED
      BY ONLY <1>13, <3>1 DEF Continues
  <2> QED
    BY <1>7, <1>15, <1>16, <2>1, ConcatEmptySeq
<1>18. f[l] = f[n] \o h[m]
  BY <1>3, <1>14 DEF Continues
<1> QED
  BY <1>2, <1>6, <1>7, <1>8, <1>17, <1>18

(* A loop over a list with one more member.                                *)
LEMMA KeptAppend ==
  ASSUME NEW T, NEW a \in Seq(T), NEW x \in T, NEW S
  PROVE  Kept(Append(a, x), S) = IF x \in S THEN Append(Kept(a, S), x) ELSE Kept(a, S)
<1>1. PICK b : b = << x >>
  OBVIOUS
<1>2. b \in Seq(T) /\ Len(b) = 1 /\ b[1] = x
  BY <1>1
<1>3. Append(a, x) = a \o b
  BY <1>1, PushBack
<1>4. Kept(Append(a, x), S) = Kept(a, S) \o Kept(b, S)
  BY <1>2, <1>3, KeptJoin
<1>5. Kept(b, S) = IF x \in S THEN b ELSE <<>>
  <2>1. PICK p : p = Pushed(b, S)
    OBVIOUS
  <2>2. PICK f : Assembles(f, p, 1) /\ Kept(b, S) = f[1]
    BY <1>2, <2>1, KeptAssembled
  <2>3. p[1] = IF x \in S THEN b ELSE <<>>
    BY <1>1, <1>2, <2>1, SMTT(30) DEF Pushed
  <2>4. f[1] = f[0] \o p[1] /\ f[0] = <<>>
    BY <2>2 DEF Assembles
  <2>5. p[1] \in Seq(T)
    BY <1>2, <2>3, EmptySeq
  <2> QED
    BY <2>2, <2>3, <2>4, <2>5, ConcatEmptySeq
<1>6. Kept(a, S) \in Seq(T)
  BY KeptPicks
<1>7. CASE x \in S
  <2>1. PICK k \in Seq(T) : k = Kept(a, S)
    BY <1>6
  <2>2. Append(k, x) = k \o b
    BY ONLY <1>1, k \in Seq(T), x \in T, PushBack
  <2>3. Kept(b, S) = b
    BY <1>5, <1>7
  <2> QED
    BY ONLY <1>4, <1>7, <2>1, <2>2, <2>3, ZenonT(30)
<1>8. CASE x \notin S
  BY <1>4, <1>5, <1>6, <1>8, ConcatEmptySeq
<1> QED
  BY <1>7, <1>8

(* Where no member of a list is wanted, none is kept.                      *)
LEMMA KeptNone ==
  ASSUME NEW S
  PROVE  Kept(<<>>, S) = <<>>
<1>1. <<>> \in Seq({}) /\ Len(<<>>) = 0
  BY EmptySeq
<1>2. PICK e : e = <<>>
  OBVIOUS
<1>3. PICK f : Assembles(f, Pushed(e, S), 0) /\ Kept(e, S) = f[0]
  BY <1>1, <1>2, KeptAssembled
<1>4. f[0] = <<>>
  BY <1>3 DEF Assembles
<1> QED
  BY <1>2, <1>3, <1>4

-----------------------------------------------------------------------------
(* Words and bytes.                                                        *)

(* The digits of a number to the base of 256, and what they are put        *)
(* together to.                                                            *)
LEMMA Powers == 256^0 = 1 /\ 256^1 = 256 /\ 256^2 = 65536 /\ 256^3 = 16777216
  BY SMT

(* The greatest word.                                                      *)
LEMMA WordBound == MaxWord \in Nat /\ MaxWord < 65536 /\ 65535 <= MaxWord
<1>1. MaxWord = 65535
  BY DEF MaxWord
<1> QED
  BY ONLY SMT, <1>1

(* What is known of a byte and of a word.                                  *)
LEMMA ByteNumbers ==
  /\ \A a \in Byte : a \in Nat /\ a < 256
  /\ \A a \in Nat : a < 256 => a \in Byte
  /\ \A w \in Word : w \in Nat /\ w < 65536
<1>1. \A a \in Byte : a \in Nat /\ a < 256
  BY SMT DEF Byte
<1>2. \A a \in Nat : a < 256 => a \in Byte
  BY SMT DEF Byte
<1>3. \A w \in Word : w \in Nat /\ w < 65536
  BY ONLY SMT, WordBound DEF Word
<1> QED
  BY <1>1, <1>2, <1>3

(* A number below 2^16 is a word.                                          *)
LEMMA WordNumbers ==
  ASSUME NEW w \in Nat, w < 65536
  PROVE  w \in Word
  BY ONLY SMT, WordBound, w \in Nat, w < 65536 DEF Word

(* A number has a last digit.                                              *)
LEMMA Digit ==
  ASSUME NEW w \in Nat
  PROVE  \E v \in Nat, a \in Byte : w = v * 256 + a
<1>1. PICK v, a : v = w \div 256 /\ a = w % 256
  OBVIOUS
<1>2. v \in Nat /\ a \in Nat /\ a < 256 /\ w = v * 256 + a
  BY SMT, <1>1
<1>3. a \in Byte
  BY <1>2, ByteNumbers
<1> QED
  BY <1>2, <1>3

(* A word has two digits,                                                  *)
LEMMA TwoDigits ==
  ASSUME NEW w \in Word
  PROVE  \E a, b \in Byte : w = a + b * 256
<1>1. w \in Nat /\ w < 65536
  BY ByteNumbers
<1>2. PICK v \in Nat, a \in Byte : w = v * 256 + a
  BY <1>1, Digit
<1>3. a \in Nat
  BY ByteNumbers
<1>4. v < 256 /\ w = a + v * 256
  BY ONLY SMT, <1>1, <1>2, <1>3, v \in Nat
<1>5. v \in Byte
  BY <1>4, ByteNumbers
<1> QED
  BY ONLY <1>4, <1>5, a \in Byte

(* A number of four bytes.                                                 *)
LongWord == {w \in Nat : w < 65536 * 65536}

(* A word fits four bytes.                                                 *)
LEMMA LongWords == \A w \in Word : w \in LongWord
  BY SMT, ByteNumbers DEF LongWord

(* A number of four bytes has four.                                         *)
LEMMA FourDigits ==
  ASSUME NEW w \in LongWord
  PROVE  \E a, b, c, d \in Byte : w = a + b * 256 + c * 65536 + d * 16777216
<1>0. w \in Nat /\ w < 65536 * 65536
  BY SMT DEF LongWord
<1>1. PICK u \in Nat, a \in Byte : w = u * 256 + a
  BY SMT, <1>0, Digit
<1>2. PICK v \in Nat, b \in Byte : u = v * 256 + b
  BY Digit
<1>3. PICK d \in Nat, c \in Byte : v = d * 256 + c
  BY Digit
<1>4. a \in Nat /\ b \in Nat /\ c \in Nat
  BY ByteNumbers
<1>5. w = a + b * 256 + c * 65536 + d * 16777216
  BY ONLY SMT, <1>1, <1>2, <1>3, <1>4, u \in Nat, v \in Nat, d \in Nat
<1>6. d < 256
  BY ONLY SMT, <1>0, <1>4, <1>5, d \in Nat
<1>7. d \in Byte
  BY ONLY SMT, <1>6, ByteNumbers, d \in Nat
<1> QED
  BY ONLY SMT, <1>5, <1>7, a \in Byte, b \in Byte, c \in Byte

(* What a loop over the bytes adds up.                                     *)
AddsUp(f, bytes) ==
  f = [i \in 0..Len(bytes) |-> IF i = 0 THEN 0 ELSE f[i - 1] + bytes[i] * 256^(i - 1)]

(* The number of some bytes is what such a loop adds up.                   *)
LEMMA NumberAddsUp ==
  ASSUME NEW bytes, \E f : AddsUp(f, bytes)
  PROVE  \E f : AddsUp(f, bytes) /\ Number(bytes) = f[Len(bytes)]
<1> DEFINE lowest == CHOOSE f : AddsUp(f, bytes)
<1>1. AddsUp(lowest, bytes)
  OBVIOUS
<1>2. Number(bytes) = lowest[Len(bytes)]
  BY DEF Number, AddsUp
<1> QED
  BY <1>1, <1>2

(* Two bytes make the number with these two digits,                        *)
LEMMA NumberOfTwo ==
  ASSUME NEW a \in Nat, NEW b \in Nat
  PROVE  Number(<< a, b >>) = a + b * 256
<1>1. PICK s : s = << a, b >>
  OBVIOUS
<1>2. Len(s) = 2 /\ s[1] = a /\ s[2] = b
  BY <1>1
<1>3. PICK g : g = [i \in 0..2 |-> CASE i = 0 -> 0 [] i = 1 -> a [] i = 2 -> a + b * 256]
  OBVIOUS
<1>4. PICK h : h = [i \in 0..2 |-> IF i = 0 THEN 0 ELSE g[i - 1] + s[i] * 256^(i - 1)]
  OBVIOUS
<1>5. ASSUME NEW i \in 0..2 PROVE g[i] = h[i]
  <2>1. CASE i = 0
    BY <1>3, <1>4, <2>1
  <2>2. CASE i = 1
    <3>1. h[1] = g[0] + a * 256^0 /\ g[0] = 0 /\ g[1] = a
      BY <1>2, <1>3, <1>4
    <3> QED
      BY SMT, <2>2, <3>1, Powers
  <2>3. CASE i = 2
    <3>1. h[2] = g[1] + b * 256^1 /\ g[1] = a /\ g[2] = a + b * 256
      BY <1>2, <1>3, <1>4
    <3> QED
      BY SMT, <2>3, <3>1, Powers
  <2> QED
    BY <2>1, <2>2, <2>3
<1>6. AddsUp(g, s)
  <2>1. g = h
    BY <1>3, <1>4, <1>5
  <2> QED
    BY <1>2, <1>4, <2>1 DEF AddsUp
<1>7. PICK f : AddsUp(f, s) /\ Number(s) = f[Len(s)]
  BY <1>6, NumberAddsUp
<1>8. f[0] = 0 /\ f[1] = f[0] + a * 256^0 /\ f[2] = f[1] + b * 256^1
  <2>1. f = [i \in 0..2 |-> IF i = 0 THEN 0 ELSE f[i - 1] + s[i] * 256^(i - 1)]
    BY <1>2, <1>7 DEF AddsUp
  <2>2. 1 \in 0..2 /\ 2 \in 0..2 /\ 0 \in 0..2
    OBVIOUS
  <2> QED
    BY <1>2, <2>1, <2>2
<1>9. f[2] = a + b * 256
  BY SMT, <1>8, Powers
<1> QED
  BY <1>1, <1>2, <1>7, <1>9

(* and four bytes the number with these four.                              *)
LEMMA NumberOfFour ==
  ASSUME NEW a \in Nat, NEW b \in Nat, NEW c \in Nat, NEW d \in Nat
  PROVE  Number(<< a, b, c, d >>) = a + b * 256 + c * 65536 + d * 16777216
<1>1. PICK s : s = << a, b, c, d >>
  OBVIOUS
<1>2. Len(s) = 4 /\ s[1] = a /\ s[2] = b /\ s[3] = c /\ s[4] = d
  BY <1>1
<1>p. PICK m, n : m = 65536 /\ n = 16777216
  OBVIOUS
<1>3. PICK g : g = [i \in 0..4 |-> CASE i = 0 -> 0 [] i = 1 -> a [] i = 2 -> a + b * 256
                                     [] i = 3 -> a + b * 256 + c * m
                                     [] i = 4 -> a + b * 256 + c * m + d * n]
  OBVIOUS
<1>4. PICK h : h = [i \in 0..4 |-> IF i = 0 THEN 0 ELSE g[i - 1] + s[i] * 256^(i - 1)]
  OBVIOUS
<1>5. ASSUME NEW i \in 0..4 PROVE g[i] = h[i]
  <2>1. CASE i = 0
    BY <1>3, <1>4, <2>1
  <2>2. CASE i = 1
    <3>1. h[1] = g[0] + a * 256^0 /\ g[0] = 0 /\ g[1] = a
      BY <1>2, <1>3, <1>4
    <3> QED
      BY ONLY SMT, <2>2, <3>1, Powers, a \in Nat
  <2>3. CASE i = 2
    <3>1. h[2] = g[1] + b * 256^1 /\ g[1] = a /\ g[2] = a + b * 256
      BY <1>2, <1>3, <1>4
    <3> QED
      BY ONLY SMT, <2>3, <3>1, Powers, a \in Nat, b \in Nat
  <2>4. CASE i = 3
    <3>1. h[3] = g[2] + c * 256^2 /\ g[2] = a + b * 256 /\ g[3] = a + b * 256 + c * m
      BY <1>2, <1>3, <1>4
    <3> QED
      BY ONLY SMT, <1>p, <2>4, <3>1, Powers
  <2>5. CASE i = 4
    <3>1. h[4] = g[3] + d * 256^3 /\ g[3] = a + b * 256 + c * m
          /\ g[4] = a + b * 256 + c * m + d * n
      BY <1>2, <1>3, <1>4
    <3> QED
      BY ONLY SMT, <1>p, <2>5, <3>1, Powers
  <2> QED
    BY <2>1, <2>2, <2>3, <2>4, <2>5
<1>6. AddsUp(g, s)
  <2>1. g = h
    BY <1>3, <1>4, <1>5
  <2> QED
    BY <1>2, <1>4, <2>1 DEF AddsUp
<1>7. PICK f : AddsUp(f, s) /\ Number(s) = f[Len(s)]
  BY <1>6, NumberAddsUp
<1>8. /\ f[0] = 0 /\ f[1] = f[0] + a * 256^0 /\ f[2] = f[1] + b * 256^1
      /\ f[3] = f[2] + c * 256^2 /\ f[4] = f[3] + d * 256^3
  <2>1. f = [i \in 0..4 |-> IF i = 0 THEN 0 ELSE f[i - 1] + s[i] * 256^(i - 1)]
    BY <1>2, <1>7 DEF AddsUp
  <2>2. \A i \in 0..4 : f[i] = IF i = 0 THEN 0 ELSE f[i - 1] + s[i] * 256^(i - 1)
    BY <2>1
  <2> QED
    BY ONLY SMT, <1>2, <2>2
<1>9. f[4] = a + b * 256 + c * 65536 + d * 16777216
  BY ONLY SMT, <1>8, Powers, a \in Nat, b \in Nat, c \in Nat, d \in Nat
<1> QED
  BY ONLY SMT, <1>1, <1>2, <1>7, <1>9

(* The bytes of a word in memory are its digits, the lowest first.         *)
LEMMA MemoryOfTwo ==
  ASSUME NEW a \in Byte, NEW b \in Byte, NEW s, s = a + b * 256
  PROVE  Memory(s, 2) = << a, b >>
<1>1. a \in Nat /\ b \in Nat /\ a < 256 /\ b < 256
  BY ByteNumbers
<1>2. s \div 256^0 % 256 = a /\ s \div 256^1 % 256 = b
  <2>1. s \div 1 = s /\ s % 256 = a /\ s \div 256 = b /\ b % 256 = b
    BY ONLY SMT, <1>1, s = a + b * 256
  <2> QED
    BY ONLY SMT, <2>1, Powers
<1>3. PICK m : m = Memory(s, 2)
  OBVIOUS
<1>4. m = [i \in 1..2 |-> (s \div 256^(i - 1)) % 256]
  BY <1>3 DEF Memory
<1>5. m[1] = a /\ m[2] = b
  <2>1. m[1] = (s \div 256^(1 - 1)) % 256 /\ m[2] = (s \div 256^(2 - 1)) % 256
    BY ONLY <1>4
  <2>2. 1 - 1 = 0 /\ 2 - 1 = 1
    OBVIOUS
  <2> QED
    BY ONLY <1>2, <2>1, <2>2
<1>6. m = << a, b >>
  BY ONLY <1>4, <1>5
<1> QED
  BY <1>3, <1>6

(* The same of a number of four bytes.                                     *)
LEMMA MemoryOfFour ==
  ASSUME NEW a \in Byte, NEW b \in Byte, NEW c \in Byte, NEW d \in Byte,
         NEW s, s = a + b * 256 + c * 65536 + d * 16777216
  PROVE  Memory(s, 4) = << a, b, c, d >>
<1>1. a \in Nat /\ b \in Nat /\ c \in Nat /\ d \in Nat /\ a < 256 /\ b < 256 /\ c < 256 /\ d < 256
  BY ONLY SMT, ByteNumbers, a \in Byte, b \in Byte, c \in Byte, d \in Byte
<1>2. /\ s \div 256^0 % 256 = a /\ s \div 256^1 % 256 = b
      /\ s \div 256^2 % 256 = c /\ s \div 256^3 % 256 = d
  <2>1. /\ s \div 1 = s /\ s % 256 = a /\ s \div 256 % 256 = b
        /\ s \div 65536 % 256 = c /\ s \div 16777216 = d /\ d % 256 = d
    BY ONLY SMT, <1>1, s = a + b * 256 + c * 65536 + d * 16777216
  <2> QED
    BY ONLY SMT, <2>1, Powers
<1>3. PICK m : m = Memory(s, 4)
  OBVIOUS
<1>4. m = [i \in 1..4 |-> (s \div 256^(i - 1)) % 256]
  BY ONLY SMT, <1>3 DEF Memory
<1>5. m[1] = a /\ m[2] = b /\ m[3] = c /\ m[4] = d
  <2>1. \A i \in 1..4 : m[i] = (s \div 256^(i - 1)) % 256
    BY ONLY SMT, <1>4
  <2> QED
    BY ONLY SMT, <1>2, <2>1
<1>6. m = << a, b, c, d >>
  BY ONLY SMT, <1>4, <1>5
<1> QED
  BY ONLY SMT, <1>3, <1>6

(* Swapped, the bytes are in the other order.                              *)
LEMMA SwapTwo ==
  ASSUME NEW a \in Byte, NEW b \in Byte, NEW s, s = a + b * 256
  PROVE  ByteSwap(s, 2) = b + a * 256
<1>1. a \in Nat /\ b \in Nat /\ a < 256 /\ b < 256
  BY ByteNumbers
<1>2. s \div 256 = b /\ (s * 256) % 65536 = a * 256
  BY ONLY SMT, <1>1, s = a + b * 256
<1>3. ByteSwap2(s) = b + a * 256
  BY ONLY SMT, <1>2 DEF ByteSwap2
<1> QED
  BY <1>3 DEF ByteSwap

(* ByteSwap4() puts the four bytes the other way round.                    *)
LEMMA SwapFour ==
  ASSUME NEW a \in Byte, NEW b \in Byte, NEW c \in Byte, NEW d \in Byte,
         NEW s, s = a + b * 256 + c * 65536 + d * 16777216
  PROVE  ByteSwap(s, 4) = d + c * 256 + b * 65536 + a * 16777216
<1>1. a \in Nat /\ b \in Nat /\ c \in Nat /\ d \in Nat /\ a < 256 /\ b < 256 /\ c < 256 /\ d < 256
  BY ONLY SMT, ByteNumbers, a \in Byte, b \in Byte, c \in Byte, d \in Byte
<1>2. /\ s % 256 = a /\ s \div 256 % 256 = b
      /\ s \div 65536 % 256 = c /\ s \div 16777216 = d
  BY ONLY SMT, <1>1, s = a + b * 256 + c * 65536 + d * 16777216
<1>3. ByteSwap4(s) = d + c * 256 + b * 65536 + a * 16777216
  BY ONLY SMT, <1>2, Powers DEF ByteSwap4
<1>4. ByteSwap(s, 4) = ByteSwap4(s)
  BY ONLY SMT DEF ByteSwap
<1> QED
  BY ONLY SMT, <1>3, <1>4

(* A word is written with its highest byte first, and read like this.      *)
LEMMA TwoBytes ==
  ASSUME NEW a \in Byte, NEW b \in Byte, NEW w, w = a + b * 256
  PROVE  WriteWord(w, 2) = << b, a >> /\ ReadWord(<< b, a >>, 2) = w
<1>1. PICK s : s = b + a * 256
  OBVIOUS
<1>2. ByteSwap(w, 2) = s /\ ByteSwap(s, 2) = w
  BY <1>1, SwapTwo
<1>3. Memory(s, 2) = << b, a >>
  BY <1>1, MemoryOfTwo
<1>4. Number(<< b, a >>) = s
  BY <1>1, NumberOfTwo, ByteNumbers
<1> QED
  BY <1>2, <1>3, <1>4 DEF WriteWord, ReadWord

(* The same of a number of four bytes.                                     *)
LEMMA FourBytes ==
  ASSUME NEW a \in Byte, NEW b \in Byte, NEW c \in Byte, NEW d \in Byte,
         NEW w, w = a + b * 256 + c * 65536 + d * 16777216
  PROVE  WriteWord(w, 4) = << d, c, b, a >> /\ ReadWord(<< d, c, b, a >>, 4) = w
<1>1. PICK s : s = d + c * 256 + b * 65536 + a * 16777216
  OBVIOUS
<1>2. ByteSwap(w, 4) = s /\ ByteSwap(s, 4) = w
  BY ONLY SMT, <1>1, SwapFour, a \in Byte, b \in Byte, c \in Byte, d \in Byte,
     w = a + b * 256 + c * 65536 + d * 16777216
<1>3. Memory(s, 4) = << d, c, b, a >>
  BY ONLY SMT, <1>1, MemoryOfFour, a \in Byte, b \in Byte, c \in Byte, d \in Byte
<1>4. Number(<< d, c, b, a >>) = s
  <2>1. a \in Nat /\ b \in Nat /\ c \in Nat /\ d \in Nat
    BY ONLY SMT, ByteNumbers, a \in Byte, b \in Byte, c \in Byte, d \in Byte
  <2> QED
    BY ONLY SMT, <1>1, <2>1, NumberOfFour
<1> QED
  BY ONLY SMT, <1>2, <1>3, <1>4 DEF WriteWord, ReadWord

(* What is written of a word of two or of four bytes, and what of a number *)
(* that takes one.                                                         *)
LEMMA WordRead ==
  /\ \A w \in Word :
       /\ WriteWord(w, 2) \in Seq(Byte) /\ Len(WriteWord(w, 2)) = 2
       /\ ReadWord(WriteWord(w, 2), 2) = w
  /\ \A w \in LongWord :
       /\ WriteWord(w, 4) \in Seq(Byte) /\ Len(WriteWord(w, 4)) = 4
       /\ ReadWord(WriteWord(w, 4), 4) = w
  /\ \A w \in Byte : WriteWord(w, 4)[1] = 0
<1>1. ASSUME NEW w \in Word
      PROVE  /\ WriteWord(w, 2) \in Seq(Byte) /\ Len(WriteWord(w, 2)) = 2
             /\ ReadWord(WriteWord(w, 2), 2) = w
  <2>1. PICK a \in Byte, b \in Byte : w = a + b * 256
    BY TwoDigits
  <2>2. WriteWord(w, 2) = << b, a >> /\ ReadWord(<< b, a >>, 2) = w
    BY <2>1, TwoBytes
  <2>3. << b, a >> \in Seq(Byte) /\ Len(<< b, a >>) = 2
    OBVIOUS
  <2> QED
    BY ONLY <2>2, <2>3
<1>2. ASSUME NEW w \in LongWord
      PROVE  /\ WriteWord(w, 4) \in Seq(Byte) /\ Len(WriteWord(w, 4)) = 4
             /\ ReadWord(WriteWord(w, 4), 4) = w
  <2>1. PICK a \in Byte, b \in Byte, c \in Byte, d \in Byte :
          w = a + b * 256 + c * 65536 + d * 16777216
    BY ONLY SMT, FourDigits, w \in LongWord
  <2>2. WriteWord(w, 4) = << d, c, b, a >> /\ ReadWord(<< d, c, b, a >>, 4) = w
    BY ONLY SMT, <2>1, FourBytes
  <2>3. << d, c, b, a >> \in Seq(Byte) /\ Len(<< d, c, b, a >>) = 4
    OBVIOUS
  <2> QED
    BY ONLY <2>2, <2>3
<1>3. ASSUME NEW w \in Byte PROVE WriteWord(w, 4)[1] = 0
  <2>1. PICK a \in Byte, b \in Byte, c \in Byte, d \in Byte : a = w /\ b = 0 /\ c = 0 /\ d = 0
    BY ByteNumbers
  <2>2. w = a + b * 256 + c * 65536 + d * 16777216
    <3>1. w \in Nat
      BY ByteNumbers
    <3> QED
      BY ONLY SMT, <2>1, <3>1
  <2>3. PICK v : v = w
    OBVIOUS
  <2>4. WriteWord(v, 4) = << d, c, b, a >> /\ ReadWord(<< d, c, b, a >>, 4) = v
    BY ONLY SMT, <2>2, <2>3, FourBytes, a \in Byte, b \in Byte, c \in Byte, d \in Byte
  <2>5. << d, c, b, a >>[1] = d
    OBVIOUS
  <2> QED
    BY ONLY <2>1, <2>3, <2>4, <2>5
<1> QED
  BY <1>1, <1>2, <1>3

(* Some bytes stand in others, behind the first i of them.                 *)
Holds(bytes, i, part) ==
  /\ i + Len(part) <= Len(bytes)
  /\ \A k \in 1..Len(part) : bytes[i + k] = part[k]

(* They are what is read there.                                            *)
LEMMA HeldRead ==
  ASSUME NEW T, NEW bytes \in Seq(T), NEW part \in Seq(T), NEW i \in Nat, Holds(bytes, i, part)
  PROVE  SubSeq(bytes, i + 1, i + Len(part)) = part
<1>1. PICK n \in Nat : n = Len(part)
  OBVIOUS
<1>2. PICK m \in Nat : m = Len(bytes)
  OBVIOUS
<1>3. i + n <= m /\ \A k \in 1..n : bytes[i + k] = part[k]
  BY <1>1, <1>2 DEF Holds
<1>4. PICK s : s = SubSeq(bytes, i + 1, i + n)
  OBVIOUS
<1>5. /\ s \in Seq(T) /\ Len(s) = n
      /\ \A k \in 1..n : s[k] = bytes[i + k]
  <2>1. PICK a, b : a = i + 1 /\ b = i + n
    OBVIOUS
  <2>2. \A k \in a..b : bytes[k] \in T
    <3>1. \A k \in a..b : k \in 1..Len(bytes)
      BY <1>2, <1>3, <2>1
    <3> QED
      BY <3>1, ElementOfSeq
  <2>3. a \in Int /\ b \in Int
    BY <2>1
  <2>4. /\ SubSeq(bytes, a, b) \in Seq(T)
        /\ Len(SubSeq(bytes, a, b)) = IF a <= b THEN b - a + 1 ELSE 0
        /\ \A k \in 1..(b - a + 1) : SubSeq(bytes, a, b)[k] = bytes[a + k - 1]
    BY <2>2, <2>3, SubSeqProperties
  <2>5. (IF a <= b THEN b - a + 1 ELSE 0) = n /\ b - a + 1 = n
    BY <2>1
  <2>6. \A k \in 1..n : a + k - 1 = i + k
    BY <2>1
  <2> QED
    BY ONLY <1>4, <2>1, <2>4, <2>5, <2>6
<1>6. s = part
  BY <1>1, <1>3, <1>5, SeqEqual
<1> QED
  BY <1>1, <1>4, <1>6

(* What stands in a part stands in the whole.                              *)
LEMMA HeldWithin ==
  ASSUME NEW T, NEW bytes \in Seq(T), NEW part \in Seq(T), NEW piece \in Seq(T),
         NEW i \in Nat, NEW j \in Nat, Holds(bytes, i, part), Holds(part, j, piece)
  PROVE  Holds(bytes, i + j, piece)
<1>1. PICK l \in Nat : l = Len(piece)
  OBVIOUS
<1>2. PICK n \in Nat : n = Len(part)
  OBVIOUS
<1>3. PICK m \in Nat : m = Len(bytes)
  OBVIOUS
<1>4. /\ i + n <= m /\ \A k \in 1..n : bytes[i + k] = part[k]
      /\ j + l <= n /\ \A k \in 1..l : part[j + k] = piece[k]
  BY <1>1, <1>2, <1>3 DEF Holds
<1>5. i + j + l <= m
  BY <1>4
<1>6. ASSUME NEW k \in 1..l PROVE bytes[i + j + k] = piece[k]
  <2>1. j + k \in 1..n /\ i + (j + k) = i + j + k
    BY <1>4
  <2> QED
    BY ONLY <1>4, <2>1, k \in 1..l
<1> QED
  BY ONLY <1>1, <1>3, <1>5, <1>6 DEF Holds

(* Each of two sequences stands in both of them together.                  *)
LEMMA HeldJoined ==
  ASSUME NEW T, NEW a \in Seq(T), NEW b \in Seq(T)
  PROVE  /\ a \o b \in Seq(T) /\ Len(a \o b) = Len(a) + Len(b)
         /\ Holds(a \o b, 0, a) /\ Holds(a \o b, Len(a), b)
<1>1. PICK n \in Nat : n = Len(a)
  OBVIOUS
<1>2. PICK m \in Nat : m = Len(b)
  OBVIOUS
<1>3. PICK c : c = a \o b
  OBVIOUS
<1>4. /\ c \in Seq(T) /\ Len(c) = n + m
      /\ \A i \in 1..n : c[i] = a[i]
      /\ \A i \in 1..m : c[n + i] = b[i]
  <2>1. /\ a \o b \in Seq(T) /\ Len(a \o b) = Len(a) + Len(b)
        /\ \A i \in 1..Len(a) : (a \o b)[i] = a[i]
        /\ \A i \in 1..Len(b) : (a \o b)[Len(a) + i] = b[i]
    BY Joins
  <2> QED
    BY ONLY <1>1, <1>2, <1>3, <2>1
<1>5. Holds(c, 0, a)
  BY ONLY <1>1, <1>4, n \in Nat, m \in Nat DEF Holds
<1>6. Holds(c, n, b)
  BY ONLY <1>2, <1>4, n \in Nat, m \in Nat DEF Holds
<1> QED
  BY ONLY <1>1, <1>2, <1>3, <1>4, <1>5, <1>6

(* Every part of what was put together stands behind those before it.      *)
LEMMA HeldParts ==
  ASSUME NEW T, NEW n \in Nat, NEW part, NEW f, Assembles(f, part, n), Parts(part, n, T)
  PROVE  /\ \A i \in 0..n : f[i] \in Seq(T)
         /\ f[0] = <<>>
         /\ \A i \in 1..n : f[i] = f[i - 1] \o part[i] /\ Holds(f[n], Len(f[i - 1]), part[i])
<1>1. \A i \in 0..n : f[i] \in Seq(T)
  <2>1. \A i \in 1..n : \A a \in Seq(T) : a \o part[i] \in Seq(T)
    BY ConcatProperties DEF Parts
  <2> QED
    BY <2>1, EmptySeq, Assembled
<1>2. \A i \in 0..n : f[i] = IF i = 0 THEN <<>> ELSE f[i - 1] \o part[i]
  BY DEF Assembles
<1>3. f[0] = <<>> /\ \A i \in 1..n : f[i] = f[i - 1] \o part[i]
  <2>1. 0 \in 0..n /\ \A i \in 1..n : i \in 0..n /\ i # 0
    OBVIOUS
  <2> QED
    BY ONLY <1>2, <2>1
<1> DEFINE Good == {m \in 0..n : \A i \in 1..m : Holds(f[m], Len(f[i - 1]), part[i])}
<1>4. 0 \in Good
  OBVIOUS
<1>5. ASSUME NEW m \in 0..(n - 1), m \in Good PROVE m + 1 \in Good
  <2>1. PICK l \in 1..n : l = m + 1
    OBVIOUS
  <2>2. PICK a, b, c : a = f[m] /\ b = part[l] /\ c = f[l]
    OBVIOUS
  <2>3. l \in 0..n /\ m \in 0..n /\ l - 1 = m
    BY <2>1
  <2>4. a \in Seq(T) /\ b \in Seq(T) /\ c \in Seq(T) /\ c = a \o b
    BY <1>1, <1>3, <2>2, <2>3 DEF Parts
  <2>5. Holds(c, 0, a) /\ Holds(c, Len(a), b)
    BY <2>4, HeldJoined
  <2>6. ASSUME NEW i \in 1..l PROVE Holds(c, Len(f[i - 1]), part[i])
    <3>1. CASE i = l
      BY ONLY <2>2, <2>3, <2>5, <3>1
    <3>2. CASE i # l
      <4>1. i \in 1..m /\ i \in 1..n /\ i - 1 \in 0..n
        BY <2>1, <3>2
      <4>2. PICK j, p : j = Len(f[i - 1]) /\ p = part[i]
        OBVIOUS
      <4>3. Holds(a, j, p) /\ p \in Seq(T) /\ j \in Nat
        BY <1>1, <1>5, <2>2, <4>1, <4>2 DEF Parts
      <4>4. Holds(c, 0 + j, p)
        BY ONLY <2>4, <2>5, <4>3, HeldWithin, 0 \in Nat
      <4>5. 0 + j = j
        BY <4>3
      <4> QED
        BY ONLY <4>2, <4>4, <4>5
    <3> QED
      BY <3>1, <3>2
  <2> QED
    BY <2>1, <2>2, <2>3, <2>6
<1>6. n \in Good
  <2> HIDE DEF Good
  <2>1. n \in 0..n
    OBVIOUS
  <2> QED
    BY <1>4, <1>5, <2>1, Climb
<1> QED
  BY <1>1, <1>3, <1>6

(* Lists of lists are flattened by a loop, too.                            *)
LEMMA FlattenAssembles ==
  ASSUME NEW T, NEW list, Len(list) \in Nat, Parts(list, Len(list), T), Len(list) = 0 => list = <<>>
  PROVE  \E f : Assembles(f, list, Len(list)) /\ FlattenSeq(list) = f[Len(list)]
<1>1. PICK n \in Nat : n = Len(list)
  OBVIOUS
<1>2. PICK f : Assembles(f, list, n)
  BY Assembling
<1>3. /\ f[0] = <<>>
      /\ \A i \in 0..n : f[i] \in Seq(T)
      /\ \A i \in 1..n : list[i] \in Seq(T)
      /\ \A i \in 1..n : f[i] = f[i - 1] \o list[i]
  <2>1. Parts(list, n, T)
    BY <1>1
  <2>2. /\ f[0] = <<>> /\ \A i \in 0..n : f[i] \in Seq(T)
        /\ \A i \in 1..n : f[i] = f[i - 1] \o list[i] /\ Holds(f[n], Len(f[i - 1]), list[i])
    BY ONLY <1>2, <2>1, HeldParts, n \in Nat
  <2> QED
    BY <2>1, <2>2 DEF Parts
<1>4. CASE n = 0
  <2>1. FlattenSeq(list) = <<>> /\ f[0] = <<>>
    BY <1>1, <1>3, <1>4 DEF FlattenSeq
  <2> QED
    BY <1>1, <1>2, <1>4, <2>1
<1>5. CASE n # 0
  <2> DEFINE Body(g) == g = [i \in 1..n |-> IF i = 1 THEN list[i] ELSE g[i - 1] \o list[i]]
             flatten == CHOOSE g : Body(g)
  <2>1. FlattenSeq(list) = flatten[n]
    BY <1>1, <1>5 DEF FlattenSeq
  <2>2. Body([i \in 1..n |-> f[i]])
    <3>1. PICK g : g = [i \in 1..n |-> f[i]]
      OBVIOUS
    <3>2. ASSUME NEW i \in 1..n PROVE f[i] = IF i = 1 THEN list[i] ELSE g[i - 1] \o list[i]
      <4>1. f[i] = f[i - 1] \o list[i]
        BY <1>3
      <4>2. CASE i = 1
        <5>1. f[0] = <<>> /\ list[1] \in Seq(T)
          BY <1>3, <1>5
        <5>2. <<>> \o list[1] = list[1]
          BY <5>1, ConcatEmptySeq
        <5>3. i - 1 = 0
          BY <4>2
        <5> QED
          BY ONLY <4>1, <4>2, <5>1, <5>2, <5>3
      <4>3. CASE i # 1
        <5>1. i - 1 \in 1..n
          BY <4>3
        <5> QED
          BY <3>1, <4>1, <4>3, <5>1
      <4> QED
        BY <4>2, <4>3
    <3> QED
      BY <3>1, <3>2
  <2>3. Body(flatten)
    <3> HIDE DEF Body
    <3> QED
      BY <2>2
  <2> HIDE DEF flatten
  <2>4. \A i \in 1..n : flatten[i] = IF i = 1 THEN list[i] ELSE flatten[i - 1] \o list[i]
    BY <2>3
  <2> DEFINE h == [i \in 0..n |-> IF i = 0 THEN <<>> ELSE flatten[i]]
  <2>5. Assembles(h, list, n)
    <3>1. ASSUME NEW i \in 0..n PROVE h[i] = IF i = 0 THEN <<>> ELSE h[i - 1] \o list[i]
      <4>1. CASE i = 0
        BY <4>1
      <4>2. CASE i = 1
        <5>1. h[1] = list[1] /\ h[0] = <<>> /\ list[1] \in Seq(T)
          BY <1>3, <1>5, <2>4
        <5>2. <<>> \o list[1] = list[1]
          BY <5>1, ConcatEmptySeq
        <5>3. i - 1 = 0 /\ i # 0
          BY <4>2
        <5> HIDE DEF h
        <5> QED
          BY ONLY <4>2, <5>1, <5>2, <5>3
      <4>3. CASE i # 0 /\ i # 1
        <5>1. i \in 1..n /\ i - 1 \in 1..n /\ i - 1 \in 0..n /\ i - 1 # 0
          BY <4>3
        <5>2. h[i] = flatten[i] /\ h[i - 1] = flatten[i - 1]
          BY <4>3, <5>1
        <5> HIDE DEF h
        <5> QED
          BY <2>4, <4>3, <5>1, <5>2
      <4> QED
        BY <4>1, <4>2, <4>3
    <3>2. h = [i \in 0..n |-> IF i = 0 THEN <<>> ELSE h[i - 1] \o list[i]]
      <4>1. h = [i \in 0..n |-> h[i]]
        OBVIOUS
      <4> HIDE DEF h
      <4> QED
        BY <3>1, <4>1
    <3> QED
      BY <3>2 DEF Assembles
  <2>6. h[n] = FlattenSeq(list)
    BY <1>5, <2>1
  <2> QED
    BY <1>1, <2>5, <2>6
<1> QED
  BY <1>4, <1>5

(* A packet of words is written in two bytes a word, and read back from    *)
(* them.                                                                   *)
LEMMA WordsRead ==
  ASSUME NEW packet \in Seq(Word)
  PROVE  /\ Write(packet) \in Seq(Byte) /\ Len(Write(packet)) = 2 * Len(packet)
         /\ Read(Write(packet)) = packet
<1>1. PICK n \in Nat : n = Len(packet)
  OBVIOUS
<1>2. PICK list : list = [i \in 1..n |-> WriteWord(packet[i], 2)]
  OBVIOUS
<1>3. \A i \in 1..n :
        /\ packet[i] \in Word /\ list[i] \in Seq(Byte) /\ Len(list[i]) = 2
        /\ ReadWord(list[i], 2) = packet[i]
  <2>1. \A i \in 1..n : packet[i] \in Word /\ list[i] = WriteWord(packet[i], 2)
    BY <1>1, <1>2, ElementOfSeq
  <2> QED
    BY <2>1, WordRead
<1>4. list \in Seq(Seq(Byte)) /\ Len(list) = n /\ Parts(list, n, Byte)
  BY <1>2, <1>3 DEF Parts
<1>5. PICK f : Assembles(f, list, n) /\ FlattenSeq(list) = f[n]
  <2>1. Len(list) = 0 => list = <<>>
    BY <1>4
  <2> QED
    BY <1>4, <2>1, FlattenAssembles
<1>6. /\ f[0] = <<>> /\ \A i \in 0..n : f[i] \in Seq(Byte)
      /\ \A i \in 1..n : f[i] = f[i - 1] \o list[i] /\ Holds(f[n], Len(f[i - 1]), list[i])
  <2>1. Parts(list, n, Byte)
    BY <1>4
  <2>2. Assembles(f, list, n)
    BY <1>5
  <2> QED
    BY ONLY <2>1, <2>2, HeldParts, n \in Nat
<1> DEFINE Good == {i \in 0..n : Len(f[i]) = 2 * i}
<1>7. ASSUME NEW i \in 0..n PROVE Len(f[i]) = 2 * i
  <2>1. 0 \in Good
    BY <1>6
  <2>2. ASSUME NEW m \in 0..(n - 1), m \in Good PROVE m + 1 \in Good
    <3>1. PICK l \in 1..n : l = m + 1
      OBVIOUS
    <3>2. l - 1 = m /\ m \in 0..n /\ l \in 0..n
      BY <3>1
    <3>3. PICK a, b : a = f[m] /\ b = list[l]
      OBVIOUS
    <3>4. a \in Seq(Byte) /\ b \in Seq(Byte) /\ Len(a) = 2 * m /\ Len(b) = 2
      BY <1>3, <1>6, <2>2, <3>2, <3>3
    <3>5. f[l] = a \o b
      BY <1>6, <3>2, <3>3
    <3>6. Len(f[l]) = 2 * m + 2
      <4>1. Len(a \o b) = Len(a) + Len(b)
        BY ONLY <3>4, ConcatProperties
      <4> QED
        BY ONLY <3>4, <3>5, <4>1, n \in Nat, m \in 0..(n - 1)
    <3>7. Len(f[l]) = 2 * l
      BY ONLY <3>1, <3>6, n \in Nat, m \in 0..(n - 1)
    <3> QED
      BY <3>1, <3>2, <3>7
  <2>3. \A k \in 0..n : k \in Good
    <3> HIDE DEF Good
    <3> QED
      BY <2>1, <2>2, Climb
  <2> QED
    BY <2>3
<1>8. PICK bytes : bytes = f[n]
  OBVIOUS
<1>9. bytes = Write(packet) /\ bytes \in Seq(Byte) /\ Len(bytes) = 2 * n
  <2>1. [i \in 1..Len(packet) |-> WriteWord(packet[i], WordSize)] = list
    BY <1>1, <1>2 DEF WordSize
  <2>2. Write(packet) = FlattenSeq(list)
    BY <2>1 DEF Write
  <2>3. n \in 0..n
    OBVIOUS
  <2> QED
    BY <1>5, <1>6, <1>7, <1>8, <2>2, <2>3
<1>10. ASSUME NEW i \in 1..n
       PROVE  ReadWord(SubSeq(bytes, (i - 1) * WordSize + 1, i * WordSize), WordSize) = packet[i]
  <2>1. PICK k \in Nat : k = 2 * (i - 1)
    OBVIOUS
  <2>2. Holds(bytes, k, list[i]) /\ list[i] \in Seq(Byte) /\ Len(list[i]) = 2
    <3>1. i - 1 \in 0..n
      OBVIOUS
    <3>2. Len(f[i - 1]) = k
      BY <1>7, <2>1, <3>1
    <3> QED
      BY <1>3, <1>6, <1>8, <3>2
  <2>3. SubSeq(bytes, k + 1, k + 2) = list[i]
    BY <1>9, <2>2, HeldRead
  <2>4. (i - 1) * WordSize + 1 = k + 1 /\ i * WordSize = k + 2 /\ WordSize = 2
    BY <2>1 DEF WordSize
  <2> QED
    BY ONLY <1>3, <2>3, <2>4, i \in 1..n
<1>11. Read(bytes) = packet
  <2>1. Len(bytes) \div WordSize = n
    BY SMT, <1>9 DEF WordSize
  <2>2. Read(bytes) = [i \in 1..n |-> packet[i]]
    <3>1. Read(bytes) = [i \in 1..n |->
             ReadWord(SubSeq(bytes, (i - 1) * WordSize + 1, i * WordSize), WordSize)]
      BY <2>1 DEF Read
    <3> QED
      BY ONLY <1>10, <3>1
  <2>3. [i \in 1..n |-> packet[i]] = packet
    BY <1>1
  <2> QED
    BY ONLY <2>2, <2>3
<1> QED
  BY <1>1, <1>9, <1>11

=============================================================================
