------------------------------ MODULE ListFacts ------------------------------
(***************************************************************************)
(* What the proofs need of lists, whatever is in them: induction up to a   *)
(* number, the flattened list of lists, the elements of a list that are in *)
(* a set, the list that SetToSeq makes of a set.                           *)
(*                                                                         *)
(* The library's induction theorems take an operator; the existence of a   *)
(* least element of a set of naturals does not, and serves as well.        *)
(***************************************************************************)
EXTENDS Integers, SequencesExt, FiniteSetTheorems, WellFoundedInduction, TLAPS
-----------------------------------------------------------------------------
(* Induction up to a number, and what FlattenSeq makes of lists of lists.  *)

\* A set of naturals that is not empty has a least element.
LEMMA Least ==
  ASSUME NEW T \in SUBSET Nat, T # {}
  PROVE  \E x \in T : \A y \in T : x <= y
<1>1. IsWellFoundedOn({ss \in Nat \X Nat : ss[1] < ss[2]}, Nat)
  BY NatLessThanWellFounded DEF OpToRel
<1>2. PICK R : R = {ss \in Nat \X Nat : ss[1] < ss[2]} OBVIOUS
<1>3. \E x \in T : \A y \in T : <<y, x>> \notin R BY <1>1, <1>2, WFMin
<1>4. \A x, y \in Nat : x < y => <<x, y>> \in R BY <1>2
<1>5. PICK x \in T : \A y \in T : <<y, x>> \notin R BY <1>3
<1>6. x \in Nat /\ \A y \in T : y \in Nat /\ ~(y < x) BY <1>4, <1>5
<1>7. \A y \in T : x <= y BY <1>6
<1> QED BY <1>5, <1>7

\* A set of naturals that has 0 and, with a number below n, the next one, has all up to n.
LEMMA Greatest ==
  ASSUME NEW n \in Nat, NEW T \in SUBSET (1..n), T # {}
  PROVE  \E x \in T : \A y \in T : x >= y
<1> DEFINE U == {n - x : x \in T}
<1>0. \A x \in T : x \in 1..n /\ n - x \in Nat OBVIOUS
<1>1. U \in SUBSET Nat /\ U # {}
  <2>1. PICK x : x \in T OBVIOUS
  <2>2. n - x \in U BY <2>1
  <2> QED BY <1>0, <2>2
<1>2. PICK u \in U : \A v \in U : u <= v BY <1>1, Least
<1>3. PICK x \in T : u = n - x OBVIOUS
<1>4. ASSUME NEW y \in T PROVE x >= y
  <2>1. n - x <= n - y BY <1>2, <1>3
  <2>2. x \in 1..n /\ y \in 1..n OBVIOUS
  <2> QED BY <2>1, <2>2
<1> QED BY <1>4

LEMMA Induction ==
  ASSUME NEW n \in Nat, NEW T, 0 \in T, \A i \in 0..n : i < n /\ i \in T => i + 1 \in T
  PROVE  0..n \subseteq T
<1> DEFINE F == {i \in 0..n : i \notin T}
<1>1. SUFFICES ASSUME F # {} PROVE FALSE BY DEF F
<1>2. PICK x \in F : \A y \in F : x <= y BY <1>1, Least, F \subseteq Nat
<1>3. x \in 1..n BY <1>2
<1>4. x - 1 \in 0..n /\ x - 1 < x /\ x - 1 < n BY <1>3
<1>5. x - 1 \in T BY <1>2, <1>3, <1>4
<1>6. (x - 1) + 1 \in T BY <1>4, <1>5
<1>7. x \in T BY <1>3, <1>6
<1> QED BY <1>2, <1>7

\* The same, from one on.
LEMMA InductionFromOne ==
  ASSUME NEW n \in Nat \ {0}, NEW T, 1 \in T, \A i \in 1..(n - 1) : i \in T => i + 1 \in T
  PROVE  n \in T
<1>1. PICK U : U = {i \in 0..n : i # 0 => i \in T} OBVIOUS
<1>2. 0 \in U BY <1>1
<1>3. ASSUME NEW i \in 0..n PROVE i < n /\ i \in U => i + 1 \in U
  <2>1. CASE i = 0 BY <1>1, <2>1
  <2>2. CASE i # 0 /\ i < n /\ i \in U
    <3>1. i \in 1..(n - 1) BY <2>2
    <3> QED BY <1>1, <2>2, <3>1
  <2> QED BY <2>1, <2>2
<1>4. n \in U BY <1>2, <1>3, Induction
<1> QED BY <1>1, <1>4

\* Only the empty list has no length.
LEMMA NoLength == ASSUME NEW S, NEW s \in Seq(S), Len(s) = 0 PROVE s = <<>>
OBVIOUS

\* The lists are appended from the first on, one more each time.
LEMMA FlattenFrom ==
  ASSUME NEW ss, NEW n \in Nat \ {0}, Len(ss) = n
  PROVE  \E f : /\ f[1] = ss[1]
                /\ \A i \in 1..(n - 1) : f[i + 1] = f[i] \o ss[i + 1]
                /\ FlattenSeq(ss) = f[n]
<1> DEFINE Upto(m, f) == f = [i \in 1..m |-> IF i = 1 THEN ss[i] ELSE f[i-1] \o ss[i]]
           T == {m \in 0..n : \E f : Upto(m, f)}
<1>1. 0 \in T
  <2>1. PICK f : f = [i \in {} |-> ss[i]] OBVIOUS
  <2>2. 1..0 = {} OBVIOUS
  <2>3. f = [i \in 1..0 |-> IF i = 1 THEN ss[i] ELSE f[i-1] \o ss[i]] BY <2>1, <2>2
  <2>4. Upto(0, f) BY <2>3
  <2>5. 0 \in 0..n OBVIOUS
  <2> QED BY <2>4, <2>5
<1>2. ASSUME NEW m \in 0..n, m < n, m \in T PROVE m + 1 \in T
  <2>1. PICK f : Upto(m, f) BY <1>2
  <2>5. PICK g : g = [i \in 1..(m + 1) |-> IF i = 1 THEN ss[i] ELSE f[i-1] \o ss[i]] OBVIOUS
  <2>7. \A i \in 1..m : f[i] = IF i = 1 THEN ss[i] ELSE f[i-1] \o ss[i] BY <2>1
  <2>8. \A i \in 1..m : i \in 1..(m + 1) OBVIOUS
  <2>2. \A i \in 1..m : g[i] = f[i] BY <2>5, <2>7, <2>8
  <2>3. \A i \in 1..(m + 1) : i # 1 => i - 1 \in 1..m OBVIOUS
  <2>4. g = [i \in 1..(m + 1) |-> IF i = 1 THEN ss[i] ELSE g[i-1] \o ss[i]] BY <2>2, <2>3, <2>5
  <2>6. m + 1 \in 0..n BY <1>2
  <2> QED BY <2>4, <2>6
<1> HIDE DEF T
<1>3. n \in T BY <1>1, <1>2, Induction, SMTT(30)
<1>4. PICK f : Upto(n, f) BY <1>3 DEF T
<1> DEFINE h == CHOOSE h : h = [i \in 1..Len(ss) |-> IF i = 1 THEN ss[i] ELSE h[i-1] \o ss[i]]
<1>5. Upto(n, h) BY <1>4
<1>6. FlattenSeq(ss) = h[n] BY DEF FlattenSeq
<1> HIDE DEF h
<1>7. \A i \in 1..n : h[i] = IF i = 1 THEN ss[i] ELSE h[i-1] \o ss[i] BY <1>5
<1>8. h[1] = ss[1] BY <1>7
<1>9. ASSUME NEW i \in 1..(n - 1) PROVE h[i + 1] = h[i] \o ss[i + 1]
  <2>1. i + 1 \in 1..n /\ i + 1 # 1 /\ (i + 1) - 1 = i OBVIOUS
  <2> QED BY <1>7, <2>1
<1> QED BY <1>6, <1>8, <1>9

\* A list of lists over S flattens to a list over S.
LEMMA FlattenType ==
  ASSUME NEW S, NEW ss \in Seq(Seq(S))
  PROVE  FlattenSeq(ss) \in Seq(S)
<1>0. PICK n \in Nat : n = Len(ss) OBVIOUS
<1>1. CASE n = 0
  <2>0. Len(ss) = 0 BY <1>0, <1>1
  <2>1. FlattenSeq(ss) = ss BY <2>0 DEF FlattenSeq
  <2>2. ss = <<>> BY <2>0
  <2>3. ss \in Seq(S) BY <2>2
  <2> QED BY <2>1, <2>3
<1>2. CASE n # 0
  <2>1. PICK f : /\ f[1] = ss[1]
                 /\ \A i \in 1..(n - 1) : f[i + 1] = f[i] \o ss[i + 1]
                 /\ FlattenSeq(ss) = f[n]
    <3>1. n \in Nat \ {0} /\ Len(ss) = n BY <1>0, <1>2
    <3> QED BY <3>1, FlattenFrom, Zenon
  <2>2. \A i \in 1..n : ss[i] \in Seq(S) BY <1>0
  <2>3. PICK T : T = {i \in 1..n : f[i] \in Seq(S)} OBVIOUS
  <2>4. 1 \in T BY <2>1, <2>2, <2>3, <1>2
  <2>5. \A i \in 1..(n - 1) : i \in T => i + 1 \in T
    <3>1. SUFFICES ASSUME NEW i \in 1..(n - 1), f[i] \in Seq(S) PROVE f[i + 1] \in Seq(S)
      BY <2>3
    <3>2. ss[i + 1] \in Seq(S) BY <2>2
    <3>3. f[i] \o ss[i + 1] \in Seq(S) BY <3>1, <3>2
    <3> QED BY <2>1, <3>3
  <2>6. n \in T BY <1>2, <2>4, <2>5, InductionFromOne
  <2> QED BY <2>1, <2>3, <2>6
<1> QED BY <1>1, <1>2

\* Empty lists flatten to the empty list.
LEMMA FlattenEmpty ==
  ASSUME NEW ss, NEW n \in Nat, ss = [i \in 1..n |-> <<>>]
  PROVE  FlattenSeq(ss) = <<>>
<1>1. ss \in Seq(Seq({}))
  <2>1. <<>> \in Seq({}) OBVIOUS
  <2> QED BY <2>1
<1>2. FlattenSeq(ss) \in Seq({}) BY <1>1, FlattenType
<1> QED BY <1>2

\* Lists of one element each flatten to the list of these elements.
LEMMA FlattenSingles ==
  ASSUME NEW S, NEW xs \in Seq(S)
  PROVE  FlattenSeq([i \in DOMAIN xs |-> <<xs[i]>>]) = xs
<1>0. PICK n \in Nat : n = Len(xs) OBVIOUS
<1>a. DOMAIN xs = 1..n BY <1>0
<1>b. PICK ss : ss = [i \in 1..n |-> <<xs[i]>>] OBVIOUS
<1>1. ss \in Seq(Seq(S)) /\ Len(ss) = n BY <1>0, <1>b
<1>2. CASE n = 0
  <2>0. Len(ss) = 0 BY <1>1, <1>2
  <2>1. FlattenSeq(ss) = ss BY <2>0 DEF FlattenSeq
  <2>2. ss = <<>>
    BY <1>1, <2>0, NoLength
  <2>3. xs = <<>>
    <3>1. Len(xs) = 0 BY <1>0, <1>2
    <3> QED BY <3>1, NoLength
  <2> QED BY <1>a, <1>b, <2>1, <2>2, <2>3
<1>3. CASE n # 0
  <2>1. PICK f : /\ f[1] = ss[1]
                 /\ \A i \in 1..(n - 1) : f[i + 1] = f[i] \o ss[i + 1]
                 /\ FlattenSeq(ss) = f[n]
    <3>1. n \in Nat \ {0} /\ Len(ss) = n BY <1>1, <1>3
    <3> QED BY <3>1, FlattenFrom, Zenon
  <2>2. \A i \in 1..n : ss[i] = <<xs[i]>> BY <1>b
  <2>3. PICK T : T = {i \in 1..n : /\ f[i] \in Seq(S) /\ Len(f[i]) = i
                                  /\ \A j \in 1..i : f[i][j] = xs[j]} OBVIOUS
  <2>4. 1 \in T
    <3>1. f[1] = <<xs[1]>> /\ xs[1] \in S BY <1>0, <1>3, <2>1, <2>2
    <3>2. f[1] \in Seq(S) /\ Len(f[1]) = 1 /\ f[1][1] = xs[1] BY <3>1
    <3>3. 1 \in 1..n BY <1>3
    <3>4. \A j \in 1..1 : f[1][j] = xs[j] BY <3>2
    <3> QED BY <2>3, <3>2, <3>3, <3>4
  <2>5. \A i \in 1..(n - 1) : i \in T => i + 1 \in T
    <3>1. SUFFICES ASSUME NEW i \in 1..(n - 1), i \in T PROVE i + 1 \in T OBVIOUS
    <3>a. i + 1 \in 1..n OBVIOUS
    <3>b. xs[i + 1] \in S BY <1>0, <3>a
    <3>2. f[i + 1] = f[i] \o <<xs[i + 1]>> /\ xs[i + 1] \in S BY <2>1, <2>2, <3>a, <3>b
    <3>3. f[i] \in Seq(S) /\ Len(f[i]) = i /\ \A j \in 1..i : f[i][j] = xs[j] BY <2>3, <3>1
    <3>4. f[i + 1] \in Seq(S) /\ Len(f[i + 1]) = i + 1 BY <3>2, <3>3
    <3>5. \A j \in 1..(i + 1) : f[i + 1][j] = xs[j] BY <3>2, <3>3
    <3> QED BY <2>3, <3>4, <3>5
  <2>6. n \in T BY <1>3, <2>4, <2>5, InductionFromOne
  <2>7. f[n] \in Seq(S) /\ Len(f[n]) = n /\ \A j \in 1..n : f[n][j] = xs[j] BY <2>3, <2>6
  <2>8. f[n] = xs BY <1>0, <2>7
  <2> QED BY <1>a, <1>b, <2>1, <2>8
<1> QED BY <1>2, <1>3

-----------------------------------------------------------------------------
(* Lists with distinct elements, and the flattened list as it grows. *)

\* The elements of a list.
Elements(list) == {list[i] : i \in 1..Len(list)}

\* The flattened list as it grows, from the empty one on.
Flat(f, S, ss, n) ==
  /\ f[0] = <<>> /\ \A i \in 0..n : f[i] \in Seq(S)
  /\ \A i \in 0..(n - 1) : f[i + 1] = f[i] \o ss[i + 1]

LEMMA FlatFrom ==
  ASSUME NEW S, NEW ss \in Seq(Seq(S)), NEW n \in Nat, n = Len(ss)
  PROVE  \E f : Flat(f, S, ss, n) /\ FlattenSeq(ss) = f[n]
<1>1. CASE n = 0
  <2>1. ss = <<>> BY <1>1, NoLength
  <2>2. FlattenSeq(ss) = <<>> BY <2>1 DEF FlattenSeq
  <2>3. PICK none : none = <<>> OBVIOUS
  <2>4. none \in Seq(S) BY <2>3
  <2>5. PICK f : f = [i \in 0..0 |-> none] OBVIOUS
  <2>6. f[0] = none BY <2>5
  <2>7. 0..n = {0} /\ 0..(n - 1) = {} BY <1>1
  <2>8. Flat(f, S, ss, n) BY <2>3, <2>4, <2>6, <2>7, Zenon DEF Flat
  <2> QED BY <1>1, <2>2, <2>3, <2>6, <2>8
<1>2. CASE n # 0
  <2>0. PICK list : list = ss OBVIOUS
  <2>a. n \in Nat \ {0} /\ Len(list) = n BY <1>2, <2>0
  <2>1. PICK g : /\ g[1] = list[1]
                 /\ \A i \in 1..(n - 1) : g[i + 1] = g[i] \o list[i + 1]
                 /\ FlattenSeq(list) = g[n]
    BY <2>a, FlattenFrom, Zenon
  <2>2. \A i \in 1..n : ss[i] \in Seq(S) OBVIOUS
  <2>3. PICK none : none = <<>> OBVIOUS
  <2>4. PICK f : f = [i \in 0..n |-> IF i = 0 THEN none ELSE g[i]] OBVIOUS
  <2>5. f[0] = none /\ \A i \in 1..n : f[i] = g[i] BY <2>4
  <2>6. none \in Seq(S) BY <2>3
  <2>7. ASSUME NEW i \in 0..(n - 1) PROVE f[i + 1] = f[i] \o ss[i + 1]
    <3>1. i + 1 \in 1..n OBVIOUS
    <3>2. CASE i = 0
      <4>1. ss[1] \in Seq(S) BY <2>2, <3>1, <3>2
      <4>2. none \o ss[1] = ss[1] BY <2>3, <4>1
      <4>3. f[1] = ss[1] BY <2>0, <2>1, <2>5, <3>1, <3>2
      <4>4. i + 1 = 1 BY <3>2
      <4>5. f[i] = none BY <2>5, <3>2
      <4> QED BY <4>2, <4>3, <4>4, <4>5
    <3>3. CASE i # 0
      <4>1. i \in 1..(n - 1) /\ i \in 1..n BY <3>3
      <4> QED BY <2>0, <2>1, <2>5, <3>1, <4>1
    <3> QED BY <3>2, <3>3
  <2>8. PICK T : T = {i \in 0..n : f[i] \in Seq(S)} OBVIOUS
  <2>9. 0 \in T BY <2>5, <2>6, <2>8
  <2>10. ASSUME NEW i \in 0..n, i < n, i \in T PROVE i + 1 \in T
    <3>1. i \in 0..(n - 1) /\ i + 1 \in 1..n /\ i + 1 \in 0..n BY <2>10
    <3>2. f[i] \in Seq(S) /\ ss[i + 1] \in Seq(S) BY <2>2, <2>8, <2>10, <3>1
    <3>3. f[i] \o ss[i + 1] \in Seq(S) BY <3>2
    <3> QED BY <2>7, <2>8, <3>1, <3>3
  <2>11. \A i \in 0..n : i < n /\ i \in T => i + 1 \in T BY <2>10
  <2>12. 0..n \subseteq T BY <2>9, <2>11, Induction, Zenon
  <2>13. \A i \in 0..n : f[i] \in Seq(S) BY <2>8, <2>12
  <2>14. Flat(f, S, ss, n) BY <2>3, <2>5, <2>7, <2>13 DEF Flat
  <2>15. FlattenSeq(ss) = f[n] BY <2>0, <2>1, <2>5, <2>a
  <2> QED BY <2>14, <2>15
<1> QED BY <1>1, <1>2

\* One more list is appended at the end.
LEMMA FlattenAppend ==
  ASSUME NEW S, NEW ss \in Seq(Seq(S)), NEW s \in Seq(S)
  PROVE  FlattenSeq(Append(ss, s)) = FlattenSeq(ss) \o s
<1>1. PICK n \in Nat : n = Len(ss) OBVIOUS
<1>2. PICK tt : tt = Append(ss, s) OBVIOUS
<1>3. tt \in Seq(Seq(S)) /\ Len(tt) = n + 1 /\ tt[n + 1] = s /\ \A i \in 1..n : tt[i] = ss[i]
  BY <1>1, <1>2
<1>4. PICK f : Flat(f, S, ss, n) /\ FlattenSeq(ss) = f[n] BY <1>1, FlatFrom, Zenon
<1>5. n + 1 \in Nat BY <1>1
<1>6. PICK g : Flat(g, S, tt, n + 1) /\ FlattenSeq(tt) = g[n + 1] BY <1>3, <1>5, FlatFrom, Zenon
<1>7. PICK T : T = {i \in 0..n : f[i] = g[i]} OBVIOUS
<1>8. 0 \in T BY <1>4, <1>6, <1>7 DEF Flat
<1>9. ASSUME NEW i \in 0..n, i < n, i \in T PROVE i + 1 \in T
  <2>1. i \in 0..(n - 1) /\ i \in 0..((n + 1) - 1) /\ i + 1 \in 1..n /\ i + 1 \in 0..n BY <1>9
  <2>2. f[i + 1] = f[i] \o ss[i + 1] BY <1>4, <2>1 DEF Flat
  <2>3. g[i + 1] = g[i] \o tt[i + 1] BY <1>6, <2>1 DEF Flat
  <2> QED BY <1>3, <1>7, <1>9, <2>1, <2>2, <2>3
<1>10. \A i \in 0..n : i < n /\ i \in T => i + 1 \in T BY <1>9
<1>11. 0..n \subseteq T BY <1>8, <1>10, Induction, Zenon
<1>12. f[n] = g[n] BY <1>7, <1>11
<1>13. g[n + 1] = g[n] \o tt[n + 1]
  <2>1. n \in 0..((n + 1) - 1) OBVIOUS
  <2> QED BY <1>6, <2>1 DEF Flat
<1> QED BY <1>2, <1>3, <1>4, <1>6, <1>12, <1>13

Distinct(list) == \A i, j \in 1..Len(list) : list[i] = list[j] => i = j

LEMMA BothElements ==
  ASSUME NEW S, NEW one \in Seq(S), NEW two \in Seq(S)
  PROVE  Elements(one \o two) = Elements(one) \cup Elements(two)
<1>1. PICK n \in Nat, m \in Nat : n = Len(one) /\ m = Len(two) OBVIOUS
<1>2. PICK both : both = one \o two OBVIOUS
<1>3. /\ Len(both) = n + m
      /\ \A i \in 1..n : both[i] = one[i]
      /\ \A i \in 1..m : both[n + i] = two[i]
  BY <1>1, <1>2
<1>4. ASSUME NEW i \in 1..(n + m) PROVE both[i] \in Elements(one) \cup Elements(two)
  <2>1. i \in 1..n \/ (i - n \in 1..m /\ n + (i - n) = i) OBVIOUS
  <2>2. CASE i \in 1..n BY <1>1, <1>3, <2>2 DEF Elements
  <2>3. CASE i - n \in 1..m /\ n + (i - n) = i
    <3>1. both[i] = two[i - n] BY <1>3, <2>3
    <3> QED BY <1>1, <2>3, <3>1 DEF Elements
  <2> QED BY <2>1, <2>2, <2>3
<1>5. \A i \in 1..n : i \in 1..(n + m) OBVIOUS
<1>6. \A i \in 1..m : n + i \in 1..(n + m) OBVIOUS
<1>7. \A x \in Elements(one) : x \in Elements(both) BY <1>1, <1>3, <1>5 DEF Elements
<1>8. \A x \in Elements(two) : x \in Elements(both) BY <1>1, <1>3, <1>6 DEF Elements
<1>9. \A x \in Elements(both) : x \in Elements(one) \cup Elements(two)
  BY <1>3, <1>4 DEF Elements
<1> QED BY <1>2, <1>7, <1>8, <1>9

LEMMA BothDistinct ==
  ASSUME NEW S, NEW one \in Seq(S), NEW two \in Seq(S), Distinct(one), Distinct(two),
         Elements(one) \cap Elements(two) = {}
  PROVE  Distinct(one \o two)
<1>1. PICK n \in Nat, m \in Nat : n = Len(one) /\ m = Len(two) OBVIOUS
<1>2. PICK both : both = one \o two OBVIOUS
<1>3. /\ Len(both) = n + m
      /\ \A i \in 1..n : both[i] = one[i]
      /\ \A i \in 1..m : both[n + i] = two[i]
  BY <1>1, <1>2
<1>4. \A i \in 1..(n + m) : i \in 1..n \/ (i - n \in 1..m /\ n + (i - n) = i) OBVIOUS
<1>5. ASSUME NEW i \in 1..n, NEW j \in 1..m PROVE both[i] # both[n + j]
  <2>1. both[i] \in Elements(one) /\ both[n + j] \in Elements(two)
    BY <1>1, <1>3 DEF Elements
  <2> QED BY <2>1
<1>6. \A i, j \in 1..n : both[i] = both[j] => i = j BY <1>1, <1>3 DEF Distinct
<1>7. \A i, j \in 1..m : both[n + i] = both[n + j] => i = j BY <1>1, <1>3 DEF Distinct
<1>8. ASSUME NEW i \in 1..(n + m), NEW j \in 1..(n + m), both[i] = both[j] PROVE i = j
  <2>1. CASE i \in 1..n /\ j \in 1..n BY <1>6, <1>8, <2>1
  <2>2. CASE i \in 1..n /\ j \notin 1..n BY <1>4, <1>5, <1>8, <2>2
  <2>3. CASE i \notin 1..n /\ j \in 1..n BY <1>4, <1>5, <1>8, <2>3
  <2>4. CASE i \notin 1..n /\ j \notin 1..n
    <3>1. PICK a \in 1..m, b \in 1..m : n + a = i /\ n + b = j BY <1>4, <2>4
    <3> QED BY <1>7, <1>8, <3>1
  <2> QED BY <2>1, <2>2, <2>3, <2>4
<1> QED BY <1>2, <1>3, <1>8 DEF Distinct

\* The elements of a list that are in a set, in the order of the list.
Picked(list, set) ==
  FlattenSeq([i \in DOMAIN list |-> IF list[i] \in set THEN <<list[i]>> ELSE <<>>])

LEMMA PickedNone ==
  ASSUME NEW S, NEW list \in Seq(S), NEW set, \A i \in DOMAIN list : list[i] \notin set
  PROVE  Picked(list, set) = <<>>
<1>1. PICK n \in Nat : n = Len(list) OBVIOUS
<1>2. PICK ss : ss = [i \in DOMAIN list |-> IF list[i] \in set THEN <<list[i]>> ELSE <<>>] OBVIOUS
<1>3. ss = [i \in 1..n |-> <<>>] BY <1>1, <1>2
<1>4. FlattenSeq(ss) = <<>> BY <1>3, FlattenEmpty
<1> QED BY <1>2, <1>4 DEF Picked

LEMMA PickedType ==
  ASSUME NEW S, NEW list \in Seq(S), NEW set
  PROVE  Picked(list, set) \in Seq(S \cap set)
<1>1. PICK ss : ss = [i \in DOMAIN list |-> IF list[i] \in set THEN <<list[i]>> ELSE <<>>] OBVIOUS
<1>2. PICK n \in Nat : n = Len(list) OBVIOUS
<1>3. PICK Q : Q = Seq(S \cap set) OBVIOUS
<1>4. ASSUME NEW i \in 1..n PROVE ss[i] \in Q
  <2>1. list[i] \in S BY <1>2
  <2>2. ss[i] = IF list[i] \in set THEN <<list[i]>> ELSE <<>> BY <1>1, <1>2
  <2>3. <<>> \in Q BY <1>3
  <2>4. list[i] \in set => <<list[i]>> \in Q BY <1>3, <2>1
  <2> QED BY <2>2, <2>3, <2>4
<1>5. ss \in Seq(Q)
  <2>1. ss = [i \in 1..n |-> ss[i]] BY <1>1, <1>2
  <2>2. \A i \in 1..n : ss[i] \in Q BY <1>4
  <2>3. ss \in [1..n -> Q] BY <2>1, <2>2
  <2> QED BY <2>3
<1>6. FlattenSeq(ss) \in Seq(S \cap set) BY <1>3, <1>5, FlattenType
<1> QED BY <1>1, <1>6 DEF Picked

\* What Picked takes of a list.
LEMMA PickedIs ==
  ASSUME NEW S, NEW list \in Seq(S), NEW set
  PROVE  /\ Elements(Picked(list, set)) = Elements(list) \cap set
         /\ Distinct(list) => Distinct(Picked(list, set))
<1>1. PICK n \in Nat : n = Len(list) OBVIOUS
<1>2. PICK ss : ss = [i \in DOMAIN list |-> IF list[i] \in set THEN <<list[i]>> ELSE <<>>] OBVIOUS
<1>3. PICK Q : Q = Seq(S) OBVIOUS
<1>4. ASSUME NEW i \in 1..n PROVE ss[i] \in Q
  <2>1. list[i] \in S BY <1>1
  <2>2. ss[i] = IF list[i] \in set THEN <<list[i]>> ELSE <<>> BY <1>1, <1>2
  <2>3. <<>> \in Q /\ <<list[i]>> \in Q BY <1>3, <2>1
  <2> QED BY <2>2, <2>3
<1>5. ss \in Seq(Q) /\ Len(ss) = n
  <2>1. ss = [i \in 1..n |-> ss[i]] BY <1>1, <1>2
  <2>2. \A i \in 1..n : ss[i] \in Q BY <1>4
  <2>3. ss \in [1..n -> Q] BY <2>1, <2>2
  <2> QED BY <2>3
<1>6. ss \in Seq(Seq(S)) /\ n = Len(ss) BY <1>3, <1>5
<1>7. PICK f : Flat(f, S, ss, n) /\ FlattenSeq(ss) = f[n] BY <1>6, FlatFrom
<1>8. PICK T : T = {i \in 0..n : /\ Elements(f[i]) = {list[j] : j \in 1..i} \cap set
                                 /\ Distinct(list) => Distinct(f[i])} OBVIOUS
<1>9. 0 \in T
  <2>1. f[0] = <<>> BY <1>7 DEF Flat
  <2>2. Len(f[0]) = 0 BY <2>1
  <2>3. 1..0 = {} OBVIOUS
  <2>4. Elements(f[0]) = {} /\ Distinct(f[0]) BY <2>2, <2>3 DEF Elements, Distinct
  <2> QED BY <1>8, <2>3, <2>4
<1>10. ASSUME NEW i \in 0..n, i < n, i \in T PROVE i + 1 \in T
  <2>1. i \in 0..(n - 1) /\ i + 1 \in 1..n /\ i + 1 \in 0..n BY <1>10
  <2>2. PICK a, b : a = f[i] /\ b = ss[i + 1] OBVIOUS
  <2>3. a \in Seq(S) /\ b \in Seq(S) BY <1>3, <1>4, <1>7, <2>1, <2>2 DEF Flat
  <2>4. f[i + 1] = a \o b BY <1>7, <2>1, <2>2 DEF Flat
  <2>5. b = IF list[i + 1] \in set THEN <<list[i + 1]>> ELSE <<>> BY <1>1, <1>2, <2>1, <2>2
  <2>6. Elements(b) = {list[i + 1]} \cap set /\ Distinct(b)
    <3>1. CASE list[i + 1] \in set
      <4>1. Len(b) = 1 /\ b[1] = list[i + 1] BY <2>5, <3>1
      <4>2. 1..1 = {1} OBVIOUS
      <4> QED BY <3>1, <4>1, <4>2 DEF Elements, Distinct
    <3>2. CASE list[i + 1] \notin set
      <4>1. Len(b) = 0 BY <2>5, <3>2
      <4>2. 1..0 = {} OBVIOUS
      <4> QED BY <3>2, <4>1, <4>2 DEF Elements, Distinct
    <3> QED BY <3>1, <3>2
  <2>7. Elements(a) = {list[j] : j \in 1..i} \cap set /\ (Distinct(list) => Distinct(a))
    BY <1>8, <1>10, <2>2
  <2>8. Elements(a \o b) = Elements(a) \cup Elements(b) BY <2>3, BothElements
  <2>9. 1..(i + 1) = (1..i) \cup {i + 1} BY <2>1
  <2>10. Elements(f[i + 1]) = {list[j] : j \in 1..(i + 1)} \cap set
    BY <2>4, <2>6, <2>7, <2>8, <2>9
  <2>11. Distinct(list) => Distinct(f[i + 1])
    <3>1. SUFFICES ASSUME Distinct(list) PROVE Distinct(a \o b) BY <2>4
    <3>2. \A j \in 1..i : list[j] # list[i + 1] BY <1>1, <2>1, <3>1 DEF Distinct
    <3>3. Elements(a) \cap Elements(b) = {} BY <2>6, <2>7, <3>2
    <3> QED BY <2>3, <2>6, <2>7, <3>1, <3>3, BothDistinct
  <2> QED BY <1>8, <2>1, <2>10, <2>11
<1>11. n \in T
  <2>1. \A i \in 0..n : i < n /\ i \in T => i + 1 \in T BY <1>10
  <2>2. 0..n \subseteq T BY <1>9, <2>1, Induction, Zenon
  <2> QED BY <2>2
<1>12. Picked(list, set) = f[n] BY <1>2, <1>7 DEF Picked
<1>13. Elements(list) = {list[j] : j \in 1..n} BY <1>1 DEF Elements
<1> QED BY <1>8, <1>11, <1>12, <1>13

-----------------------------------------------------------------------------
(* Sets and functions as lists. *)

LEMMA FunctionIsList ==
  ASSUME NEW n \in Nat, NEW S, NEW f \in [1..n -> S]
  PROVE  f \in Seq(S) /\ Len(f) = n
OBVIOUS

\* SetToSeq makes a list of a set that has each of its elements.
LEMMA SetListed ==
  ASSUME NEW S, IsFiniteSet(S)
  PROVE  SetToSeq(S) \in Seq(S) /\ Elements(SetToSeq(S)) = S
<1>1. PICK n \in Nat : n = Cardinality(S) /\ ExistsBijection(1..n, S) BY FS_CardinalityType
<1>2. \E f \in [1..n -> S] : IsInjective(f)
  BY <1>1 DEF ExistsBijection, Bijection, Injection
<1>3. PICK f : f = SetToSeq(S) OBVIOUS
<1>4. f = CHOOSE g \in [1..n -> S] : IsInjective(g) BY <1>1, <1>3 DEF SetToSeq
<1>5. f \in [1..n -> S] /\ IsInjective(f) BY <1>2, <1>4
<1>6. f \in Injection(1..n, S) BY <1>5 DEF Injection
<1>7. Cardinality(1..n) = n BY FS_Interval
<1>8. f \in Surjection(1..n, S) BY <1>1, <1>6, <1>7, FS_Injection
<1>9. f \in Seq(S) /\ Len(f) = n BY <1>5, FunctionIsList
<1>10. \A x \in S : \E i \in 1..n : f[i] = x BY <1>8 DEF Surjection
<1>11. \A i \in 1..n : f[i] \in S BY <1>5
<1>12. Elements(f) = S BY <1>9, <1>10, <1>11 DEF Elements
<1> QED BY <1>3, <1>9, <1>12

\* The lists that SetToSeqs makes of a set, in any order.
LEMMA SeqsListed ==
  ASSUME NEW S, IsFiniteSet(S), NEW list \in SetToSeqs(S)
  PROVE  list \in Seq(S) /\ Elements(list) = S
<1>1. PICK n : n = Cardinality(S) OBVIOUS
<1>2. n \in Nat BY <1>1, FS_CardinalityType
<1>3. list \in [1..n -> S] /\ IsInjective(list) BY <1>1 DEF SetToSeqs, IsInjective
<1>4. list \in Seq(S) /\ Len(list) = n BY <1>2, <1>3, FunctionIsList
<1>5. IsFiniteSet(1..n) /\ Cardinality(1..n) = n BY <1>2, FS_Interval
<1>6. list \in Injection(1..n, S) BY <1>3 DEF IsInjective, Injection
<1>7. list \in Surjection(1..n, S) BY <1>1, <1>5, <1>6, FS_Injection
<1>8. \A x \in S : \E i \in 1..n : list[i] = x BY <1>7 DEF Surjection
<1> QED BY <1>3, <1>4, <1>8 DEF Elements
===============================================================================
