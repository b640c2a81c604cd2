------------------------------ MODULE DiffProofs ------------------------------
(***************************************************************************)
(* The diff engine, for every catalog and every edit of it that            *)
(* TidyCatalog allows: the migration that Compare yields makes the desired *)
(* schema out of the current one, and its down script, where every change  *)
(* is reversible and DownsAreAccepted holds, the current one out of the    *)
(* desired.                                                                *)
(***************************************************************************)
EXTENDS SchemaEdits, ListFacts
-----------------------------------------------------------------------------
(* TableOrder: the new tables, each after the ones that it references. *)

LEMMA OneSet ==
  ASSUME NEW A, NEW B, NEW C, NEW D, NEW st \in [temp : A, visited : B, sorted : C, ok : D],
         NEW v \in D
  PROVE  [st EXCEPT !.ok = v] \in [temp : A, visited : B, sorted : C, ok : D]
OBVIOUS

LEMMA TempSet ==
  ASSUME NEW A, NEW B, NEW C, NEW D, NEW st \in [temp : A, visited : B, sorted : C, ok : D],
         NEW v, v \in A
  PROVE  [st EXCEPT !.temp = v] \in [temp : A, visited : B, sorted : C, ok : D]
OBVIOUS

LEMMA AllSet ==
  ASSUME NEW A, NEW B, NEW C, NEW D, NEW st \in [temp : A, visited : B, sorted : C, ok : D],
         NEW u \in A, NEW v \in B, NEW w \in C
  PROVE  [st EXCEPT !.temp = u, !.visited = v, !.sorted = w]
            \in [temp : A, visited : B, sorted : C, ok : D]
OBVIOUS

LEMMA MarksKept ==
  ASSUME NEW deps, NEW st \in Marks(deps), NEW key \in DOMAIN deps
  PROVE  Begun(st, key) \in Marks(deps) /\ Ended(st, key) \in Marks(deps)
         /\ GivenUp(st) \in Marks(deps)
<1>1. PICK Lists, Sets, Bools :
        Lists = Seq(DOMAIN deps) /\ Sets = SUBSET DOMAIN deps /\ Bools = BOOLEAN OBVIOUS
<1>2. Marks(deps) = [temp : Sets, visited : Sets, sorted : Lists, ok : Bools]
  BY <1>1 DEF Marks
<1>3. st.temp \in Sets /\ st.visited \in Sets /\ st.sorted \in Lists BY <1>2
<1>4. st.temp \cup {key} \in Sets /\ st.temp \ {key} \in Sets /\ st.visited \cup {key} \in Sets
  BY <1>1, <1>3
<1>5. Append(st.sorted, key) \in Lists BY <1>1, <1>3
<1>6. FALSE \in Bools BY <1>1
<1>7. GivenUp(st) \in Marks(deps) BY <1>2, <1>6, OneSet, ZenonT(30) DEF GivenUp
<1>8. PICK a, b, c, d : /\ a = st.temp \cup {key} /\ b = st.temp \ {key}
                        /\ c = st.visited \cup {key} /\ d = Append(st.sorted, key) OBVIOUS
<1>9. Begun(st, key) = [st EXCEPT !.temp = a] BY <1>8 DEF Begun
<1>10. Ended(st, key) = [st EXCEPT !.temp = b, !.visited = c, !.sorted = d] BY <1>8 DEF Ended
<1>a. a \in Sets /\ b \in Sets /\ c \in Sets /\ d \in Lists BY <1>4, <1>5, <1>8
<1>b. st \in [temp : Sets, visited : Sets, sorted : Lists, ok : Bools] BY <1>2
<1>11. [st EXCEPT !.temp = a] \in [temp : Sets, visited : Sets, sorted : Lists, ok : Bools]
  BY <1>a, <1>b, TempSet
<1>12. [st EXCEPT !.temp = b, !.visited = c, !.sorted = d]
         \in [temp : Sets, visited : Sets, sorted : Lists, ok : Bools]
  BY <1>a, <1>b, AllSet
<1> QED BY <1>2, <1>7, <1>9, <1>10, <1>11, <1>12

LEMMA VisitAllFrom ==
  ASSUME NEW list, NEW st, NEW below, NEW n \in Nat, Len(list) = n
  PROVE  \E f : /\ f[0] = st
                /\ \A i \in 0..(n - 1) :
                     f[i + 1] = IF f[i].ok THEN below[list[i + 1]][f[i]] ELSE f[i]
                /\ VisitAll(list, st, below) = f[n]
<1> DEFINE Step(s, key) == IF s.ok THEN below[key][s] ELSE s
           Upto(m, f) == f = [i \in 0..m |-> IF i = 0 THEN st ELSE Step(f[i-1], list[i])]
<1>0. PICK T : T = {m \in 0..n : \E f : Upto(m, f)} OBVIOUS
<1>h. PICK h : h = CHOOSE f : Upto(n, f) OBVIOUS
<1>6. VisitAll(list, st, below) = h[n] BY <1>h, Zenon DEF VisitAll
<1> HIDE DEF Step
<1>1. 0 \in T
  <2>1. PICK f : f = [i \in 0..0 |-> st] OBVIOUS
  <2>2. Upto(0, f) BY <2>1
  <2> QED BY <2>2, <1>0
<1>2. ASSUME NEW m \in 0..n, m < n, m \in T PROVE m + 1 \in T
  <2>1. PICK f : Upto(m, f) BY <1>0, <1>2
  <2>2. PICK g : g = [i \in 0..(m + 1) |-> IF i = 0 THEN st ELSE Step(f[i-1], list[i])] OBVIOUS
  <2>3. \A i \in 0..m : f[i] = IF i = 0 THEN st ELSE Step(f[i-1], list[i]) BY <2>1
  <2>4. \A i \in 0..m : i \in 0..(m + 1) OBVIOUS
  <2>5. \A i \in 0..m : g[i] = f[i] BY <2>2, <2>3, <2>4
  <2>6. \A i \in 0..(m + 1) : i # 0 => i - 1 \in 0..m OBVIOUS
  <2>7. Upto(m + 1, g) BY <2>2, <2>5, <2>6
  <2>8. m + 1 \in 0..n BY <1>2
  <2> QED BY <1>0, <2>7, <2>8
<1>3. n \in T
  <2>1. 0..n \subseteq T BY <1>1, <1>2, Induction, Zenon
  <2> QED BY <2>1
<1>4. Upto(n, h) BY <1>0, <1>3, <1>h
<1>5. \A i \in 0..n : h[i] = IF i = 0 THEN st ELSE Step(h[i-1], list[i]) BY <1>4
<1>a. 0 \in 0..n OBVIOUS
<1>7. h[0] = st BY <1>5, <1>a
<1>8. ASSUME NEW i \in 0..(n - 1) PROVE h[i + 1] = Step(h[i], list[i + 1])
  <2>1. i + 1 \in 0..n /\ i + 1 # 0 /\ (i + 1) - 1 = i OBVIOUS
  <2> QED BY <1>5, <2>1
<1> QED BY <1>6, <1>7, <1>8 DEF Step

LEMMA VisitFrom ==
  ASSUME NEW deps, NEW n \in Nat, Cardinality(DOMAIN deps) = n
  PROVE  \E f : /\ \A key \in DOMAIN deps : \A st \in Marks(deps) : f[0][key][st] = GivenUp(st)
                /\ \A i \in 0..(n - 1) : \A key \in DOMAIN deps : \A st \in Marks(deps) :
                     f[i + 1][key][st] = VisitKey(key, deps, st, f[i])
                /\ Visit(deps) = f[n]
<1> DEFINE Base == [key \in DOMAIN deps |-> [st \in Marks(deps) |-> GivenUp(st)]]
           Step(below) ==
             [key \in DOMAIN deps |-> [st \in Marks(deps) |-> VisitKey(key, deps, st, below)]]
           Upto(m, f) == f = [i \in 0..m |-> IF i = 0 THEN Base ELSE Step(f[i-1])]
<1>0. PICK T : T = {m \in 0..n : \E f : Upto(m, f)} OBVIOUS
<1>h. PICK h : h = CHOOSE f : Upto(n, f) OBVIOUS
<1>6. Visit(deps) = h[n] BY <1>h, Zenon DEF Visit
<1> HIDE DEF Step, Base
<1>1. 0 \in T
  <2>1. PICK f : f = [i \in 0..0 |-> Base] OBVIOUS
  <2>2. Upto(0, f) BY <2>1
  <2> QED BY <2>2, <1>0
<1>2. ASSUME NEW m \in 0..n, m < n, m \in T PROVE m + 1 \in T
  <2>1. PICK f : Upto(m, f) BY <1>0, <1>2
  <2>2. PICK g : g = [i \in 0..(m + 1) |-> IF i = 0 THEN Base ELSE Step(f[i-1])] OBVIOUS
  <2>3. \A i \in 0..m : f[i] = IF i = 0 THEN Base ELSE Step(f[i-1]) BY <2>1
  <2>4. \A i \in 0..m : i \in 0..(m + 1) OBVIOUS
  <2>5. \A i \in 0..m : g[i] = f[i] BY <2>2, <2>3, <2>4
  <2>6. \A i \in 0..(m + 1) : i # 0 => i - 1 \in 0..m OBVIOUS
  <2>7. Upto(m + 1, g) BY <2>2, <2>5, <2>6
  <2>8. m + 1 \in 0..n BY <1>2
  <2> QED BY <1>0, <2>7, <2>8
<1>3. n \in T
  <2>1. 0..n \subseteq T BY <1>1, <1>2, Induction, Zenon
  <2> QED BY <2>1
<1>4. Upto(n, h) BY <1>0, <1>3, <1>h
<1>5. \A i \in 0..n : h[i] = IF i = 0 THEN Base ELSE Step(h[i-1]) BY <1>4
<1>a. 0 \in 0..n OBVIOUS
<1>7. h[0] = Base BY <1>5, <1>a
<1>8. ASSUME NEW i \in 0..(n - 1) PROVE h[i + 1] = Step(h[i])
  <2>1. i + 1 \in 0..n /\ i + 1 # 0 /\ (i + 1) - 1 = i OBVIOUS
  <2> QED BY <1>5, <2>1
<1>9. ASSUME NEW key \in DOMAIN deps, NEW st \in Marks(deps) PROVE h[0][key][st] = GivenUp(st)
  BY <1>7 DEF Base
<1>10. ASSUME NEW i \in 0..(n - 1), NEW key \in DOMAIN deps, NEW st \in Marks(deps)
       PROVE  h[i + 1][key][st] = VisitKey(key, deps, st, h[i])
  <2>1. h[i + 1] = Step(h[i]) BY <1>8
  <2>2. Step(h[i])[key] = [s \in Marks(deps) |-> VisitKey(key, deps, s, h[i])] BY DEF Step
  <2> QED BY <2>1, <2>2
<1> QED BY <1>6, <1>9, <1>10

\* What the loop over the first n tables has marked, one more each time.
Roots(f, tables, deps, n) ==
  /\ f[0] = Unmarked
  /\ \A i \in 0..(n - 1) :
       f[i + 1] = IF tables[i + 1] \in f[i].visited THEN f[i]
                  ELSE [Visit(deps)[tables[i + 1]][f[i]] EXCEPT !.ok = TRUE]

LEMMA SortFrom ==
  ASSUME NEW tables, NEW deps, NEW n \in Nat, n = Len(tables)
  PROVE  \E f : Roots(f, tables, deps, n) /\ sortTablesByDependency(tables, deps) = f[n].sorted
<1> DEFINE Step(st, key) == IF key \in st.visited THEN st
                            ELSE [Visit(deps)[key][st] EXCEPT !.ok = TRUE]
           Upto(m, f) == f = [i \in 0..m |-> IF i = 0 THEN Unmarked ELSE Step(f[i-1], tables[i])]
<1>0. PICK T : T = {m \in 0..n : \E f : Upto(m, f)} OBVIOUS
<1>h. PICK h : h = CHOOSE f : Upto(n, f) OBVIOUS
<1>6. sortTablesByDependency(tables, deps) = h[n].sorted
  BY <1>h, Zenon DEF sortTablesByDependency
<1> HIDE DEF Step
<1>1. 0 \in T
  <2>1. PICK f : f = [i \in 0..0 |-> Unmarked] OBVIOUS
  <2>2. Upto(0, f) BY <2>1
  <2> QED BY <2>2, <1>0
<1>2. ASSUME NEW m \in 0..n, m < n, m \in T PROVE m + 1 \in T
  <2>1. PICK f : Upto(m, f) BY <1>0, <1>2
  <2>2. PICK g : g = [i \in 0..(m + 1) |-> IF i = 0 THEN Unmarked ELSE Step(f[i-1], tables[i])]
    OBVIOUS
  <2>3. \A i \in 0..m : f[i] = IF i = 0 THEN Unmarked ELSE Step(f[i-1], tables[i]) BY <2>1
  <2>4. \A i \in 0..m : i \in 0..(m + 1) OBVIOUS
  <2>5. \A i \in 0..m : g[i] = f[i] BY <2>2, <2>3, <2>4
  <2>6. \A i \in 0..(m + 1) : i # 0 => i - 1 \in 0..m OBVIOUS
  <2>7. Upto(m + 1, g) BY <2>2, <2>5, <2>6
  <2>8. m + 1 \in 0..n BY <1>2
  <2> QED BY <1>0, <2>7, <2>8
<1>3. n \in T
  <2>1. 0..n \subseteq T BY <1>1, <1>2, Induction, Zenon
  <2> QED BY <2>1
<1>4. Upto(n, h) BY <1>0, <1>3, <1>h
<1>5. \A i \in 0..n : h[i] = IF i = 0 THEN Unmarked ELSE Step(h[i-1], tables[i]) BY <1>4
<1>a. 0 \in 0..n OBVIOUS
<1>7. h[0] = Unmarked BY <1>5, <1>a
<1>8. ASSUME NEW i \in 0..(n - 1) PROVE h[i + 1] = Step(h[i], tables[i + 1])
  <2>1. i + 1 \in 0..n /\ i + 1 # 0 /\ (i + 1) - 1 = i OBVIOUS
  <2> QED BY <1>5, <2>1
<1>9. Roots(h, tables, deps, n) BY <1>7, <1>8 DEF Step, Roots
<1> QED BY <1>6, <1>9

\* No table is in the list twice, and each is behind those that it references.
Ordered(deps, list) ==
  /\ \A i, j \in 1..Len(list) : list[i] = list[j] => i = j
  /\ \A i \in 1..Len(list) : \A d \in DOMAIN deps[list[i]] :
       \E j \in 1..(i - 1) : list[j] = deps[list[i]][d]

\* The list so far: every table that is marked visited, once and after what it references.
Sorted(deps, st) ==
  /\ st \in Marks(deps) /\ st.ok /\ st.temp \cap st.visited = {}
  /\ st.visited = Elements(st.sorted) /\ Ordered(deps, st.sorted)

\* A visit of key from these marks ends with the same marks, and key among the visited.
Visits(deps, below, key, marks) ==
  \A st : Sorted(deps, st) /\ st.temp = marks =>
    /\ Sorted(deps, below[key][st]) /\ below[key][st].temp = marks
    /\ st.visited \subseteq below[key][st].visited
    /\ key \in below[key][st].visited

VisitsEach(deps, below, list, marks) ==
  \A i \in 1..Len(list) : Visits(deps, below, list[i], marks)

LEMMA AllVisited ==
  ASSUME NEW deps, NEW below, NEW marks, NEW list, Len(list) \in Nat, NEW st,
         Sorted(deps, st), st.temp = marks,
         VisitsEach(deps, below, list, marks),
         NEW all, all = VisitAll(list, st, below)
  PROVE  /\ Sorted(deps, all) /\ all.temp = marks /\ st.visited \subseteq all.visited
         /\ \A i \in 1..Len(list) : list[i] \in all.visited
<1>1. PICK n \in Nat : n = Len(list) OBVIOUS
<1>2. PICK f : /\ f[0] = st
               /\ \A i \in 0..(n - 1) :
                    f[i + 1] = IF f[i].ok THEN below[list[i + 1]][f[i]] ELSE f[i]
               /\ VisitAll(list, st, below) = f[n]
  BY <1>1, VisitAllFrom
<1>3. PICK T : T = {i \in 0..n : /\ Sorted(deps, f[i]) /\ f[i].temp = marks
                                 /\ st.visited \subseteq f[i].visited
                                 /\ \A j \in 1..i : list[j] \in f[i].visited} OBVIOUS
<1>4. 0 \in T BY <1>2, <1>3
<1>5. ASSUME NEW i \in 0..n, i < n, i \in T PROVE i + 1 \in T
  <2>1. i \in 0..(n - 1) /\ i + 1 \in 1..n BY <1>5
  <2>2. /\ Sorted(deps, f[i]) /\ f[i].temp = marks /\ st.visited \subseteq f[i].visited
        /\ \A j \in 1..i : list[j] \in f[i].visited
    BY <1>3, <1>5
  <2>3. f[i].ok BY <2>2 DEF Sorted
  <2>4. f[i + 1] = below[list[i + 1]][f[i]] BY <1>2, <2>1, <2>3
  <2>5. Visits(deps, below, list[i + 1], marks) BY <1>1, <2>1 DEF VisitsEach
  <2>6. /\ Sorted(deps, f[i + 1]) /\ f[i + 1].temp = marks
        /\ f[i].visited \subseteq f[i + 1].visited /\ list[i + 1] \in f[i + 1].visited
    BY <2>2, <2>4, <2>5 DEF Visits
  <2>7. \A j \in 1..(i + 1) : list[j] \in f[i + 1].visited
    <3>1. \A j \in 1..(i + 1) : j \in 1..i \/ j = i + 1 OBVIOUS
    <3> QED BY <2>2, <2>6, <3>1
  <2>8. st.visited \subseteq f[i + 1].visited BY <2>2, <2>6
  <2>9. i + 1 \in 0..n BY <2>1
  <2> QED BY <1>3, <2>6, <2>7, <2>8, <2>9
<1>6. n \in T
  <2>1. \A i \in 0..n : i < n /\ i \in T => i + 1 \in T BY <1>5
  <2>2. 0..n \subseteq T BY <1>4, <2>1, Induction, Zenon
  <2> QED BY <2>2
<1>7. /\ Sorted(deps, f[n]) /\ f[n].temp = marks /\ st.visited \subseteq f[n].visited
      /\ \A j \in 1..n : list[j] \in f[n].visited
  BY <1>3, <1>6
<1> QED BY <1>1, <1>2, <1>7

Keyed(deps) == deps \in [DOMAIN deps -> Seq(DOMAIN deps)]

\* A table that is not being visited is put behind all that it references.
LEMMA KeyVisited ==
  ASSUME NEW deps, Keyed(deps), NEW below, NEW marks,
         NEW key \in DOMAIN deps, key \notin marks,
         VisitsEach(deps, below, deps[key], marks \cup {key}),
         NEW st, Sorted(deps, st), st.temp = marks,
         NEW r, r = VisitKey(key, deps, st, below)
  PROVE  /\ Sorted(deps, r) /\ r.temp = marks
         /\ st.visited \subseteq r.visited /\ key \in r.visited
<1>1. CASE key \in st.visited BY <1>1 DEF VisitKey
<1>2. CASE key \notin st.visited
  <2>1. PICK begun : begun = Begun(st, key) OBVIOUS
  <2>2. st \in Marks(deps) /\ begun \in Marks(deps) BY <2>1, MarksKept DEF Sorted
  <2>3. /\ begun.temp = marks \cup {key} /\ begun.visited = st.visited
        /\ begun.sorted = st.sorted /\ begun.ok = st.ok
    BY <2>1, <2>2 DEF Marks, Begun
  <2>4. Sorted(deps, begun) BY <1>2, <2>2, <2>3 DEF Sorted
  <2>5. PICK list : list = deps[key] OBVIOUS
  <2>6. list \in Seq(DOMAIN deps) /\ DOMAIN list = 1..Len(list) BY <2>5 DEF Keyed
  <2>7. PICK all : all = VisitAll(list, begun, below) OBVIOUS
  <2>9. PICK more : more = marks \cup {key} OBVIOUS
  <2>8. VisitsEach(deps, below, list, more) BY <2>5, <2>9
  <2>a. begun.temp = more BY <2>3, <2>9
  <2>b. Len(list) \in Nat BY <2>6
  <2>10. /\ Sorted(deps, all) /\ all.temp = more /\ begun.visited \subseteq all.visited
         /\ \A i \in 1..Len(list) : list[i] \in all.visited
    BY <2>4, <2>7, <2>8, <2>a, <2>b, AllVisited
  <2>11. all \in Marks(deps) /\ all.ok BY <2>10 DEF Sorted
  <2>12. r = Ended(all, key) BY <1>2, <2>1, <2>5, <2>7, <2>11 DEF VisitKey
  <2>13. /\ r.temp = all.temp \ {key} /\ r.visited = all.visited \cup {key}
         /\ r.sorted = Append(all.sorted, key) /\ r.ok = all.ok
    BY <2>11, <2>12 DEF Marks, Ended
  <2>14. r \in Marks(deps) BY <2>11, <2>12, MarksKept
  <2>15. r.temp = marks BY <2>9, <2>10, <2>13
  <2>16. key \notin all.visited BY <2>9, <2>10 DEF Sorted
  <2>17. PICK n \in Nat : n = Len(all.sorted) BY <2>11 DEF Marks
  <2>18. /\ Len(r.sorted) = n + 1 /\ r.sorted[n + 1] = key
         /\ \A i \in 1..n : r.sorted[i] = all.sorted[i]
    <3>1. all.sorted \in Seq(DOMAIN deps) BY <2>11 DEF Marks
    <3> QED BY <2>13, <2>17, <3>1
  <2>19. \A i \in 1..(n + 1) : i \in 1..n \/ i = n + 1 OBVIOUS
  <2>20. all.visited = {all.sorted[i] : i \in 1..n} BY <2>10, <2>17 DEF Sorted, Elements
  <2>21. r.visited = {r.sorted[i] : i \in 1..(n + 1)} BY <2>13, <2>18, <2>19, <2>20
  <2>22. \A i, j \in 1..(n + 1) : r.sorted[i] = r.sorted[j] => i = j
    <3>1. \A i, j \in 1..n : all.sorted[i] = all.sorted[j] => i = j
      BY <2>10, <2>17 DEF Sorted, Ordered
    <3>2. \A i \in 1..n : r.sorted[i] # key BY <2>16, <2>18, <2>20
    <3> QED BY <2>18, <2>19, <3>1, <3>2
  <2>23. ASSUME NEW i \in 1..(n + 1), NEW d \in DOMAIN deps[r.sorted[i]]
         PROVE  \E j \in 1..(i - 1) : r.sorted[j] = deps[r.sorted[i]][d]
    <3>1. CASE i \in 1..n
      <4>1. r.sorted[i] = all.sorted[i] BY <2>18, <3>1
      <4>2. PICK j \in 1..(i - 1) : all.sorted[j] = deps[all.sorted[i]][d]
        BY <2>10, <2>17, <3>1, <4>1 DEF Sorted, Ordered
      <4>3. j \in 1..n BY <3>1
      <4> QED BY <2>18, <4>1, <4>2, <4>3
    <3>2. CASE i = n + 1
      <4>1. r.sorted[i] = key BY <2>18, <3>2
      <4>2. deps[key][d] \in all.visited BY <2>5, <2>6, <2>10, <4>1
      <4>3. PICK j \in 1..n : all.sorted[j] = deps[key][d] BY <2>20, <4>2
      <4>4. j \in 1..(i - 1) BY <3>2
      <4> QED BY <2>18, <4>1, <4>3, <4>4
    <3> QED BY <2>19, <3>1, <3>2
  <2>24. r.temp \cap r.visited = {}
    <3>1. all.temp \cap all.visited = {} BY <2>10 DEF Sorted
    <3> QED BY <2>13, <3>1
  <2>25. Sorted(deps, r)
    <3>1. Len(r.sorted) = n + 1 /\ r.ok BY <2>11, <2>13, <2>18
    <3>2. \A i \in 1..(n + 1) : \A d \in DOMAIN deps[r.sorted[i]] :
            \E j \in 1..(i - 1) : r.sorted[j] = deps[r.sorted[i]][d] BY <2>23
    <3>3. Ordered(deps, r.sorted) /\ r.visited = Elements(r.sorted)
      BY <2>21, <2>22, <3>1, <3>2 DEF Ordered, Elements
    <3> QED BY <2>14, <2>24, <3>1, <3>3 DEF Sorted
  <2> QED BY <2>3, <2>10, <2>13, <2>15, <2>25
<1> QED BY <1>1, <1>2

\* The foreign keys among the tables to sort, none of them in a cycle: every table can be
\* given a number below the count of tables that is above those it references.
Acyclic(deps) ==
  /\ IsFiniteSet(DOMAIN deps) /\ Keyed(deps)
  /\ \E rank \in [DOMAIN deps -> 0..(Cardinality(DOMAIN deps) - 1)] :
       \A key \in DOMAIN deps : \A d \in DOMAIN deps[key] : rank[deps[key][d]] < rank[key]

LEMMA VisitVisits ==
  ASSUME NEW deps, Acyclic(deps), NEW key \in DOMAIN deps
  PROVE  Visits(deps, Visit(deps), key, {})
<1>1. PICK n \in Nat : n = Cardinality(DOMAIN deps) BY FS_CardinalityType DEF Acyclic
<1>2. PICK f : /\ \A k \in DOMAIN deps : \A st \in Marks(deps) : f[0][k][st] = GivenUp(st)
               /\ \A i \in 0..(n - 1) : \A k \in DOMAIN deps : \A st \in Marks(deps) :
                    f[i + 1][k][st] = VisitKey(k, deps, st, f[i])
               /\ Visit(deps) = f[n]
  BY <1>1, VisitFrom
<1>3. PICK rank \in [DOMAIN deps -> 0..(n - 1)] :
        \A k \in DOMAIN deps : \A d \in DOMAIN deps[k] : rank[deps[k][d]] < rank[k]
  BY <1>1 DEF Acyclic
<1>4. PICK T : T = {i \in 0..n : \A k \in DOMAIN deps : \A marks \in SUBSET DOMAIN deps :
                     rank[k] < i /\ (\A t \in marks : rank[k] < rank[t])
                       => Visits(deps, f[i], k, marks)} OBVIOUS
<1>5. 0 \in T
  <2>1. \A k \in DOMAIN deps : ~(rank[k] < 0) BY <1>3
  <2> QED BY <1>4, <2>1
<1>6. ASSUME NEW i \in 0..n, i < n, i \in T PROVE i + 1 \in T
  <2>1. i \in 0..(n - 1) /\ i + 1 \in 0..n BY <1>6
  <2>2. ASSUME NEW k \in DOMAIN deps, NEW marks \in SUBSET DOMAIN deps,
               rank[k] < i + 1, \A t \in marks : rank[k] < rank[t]
        PROVE  Visits(deps, f[i + 1], k, marks)
    <3>0. PICK below : below = f[i] OBVIOUS
    <3>1. k \notin marks BY <1>3, <2>2
    <3>a. ASSUME NEW d \in DOMAIN deps[k]
          PROVE  Visits(deps, below, deps[k][d], marks \cup {k})
      <4>1. deps[k] \in Seq(DOMAIN deps) BY DEF Acyclic, Keyed
      <4>2. deps[k][d] \in DOMAIN deps BY <4>1
      <4>3. rank[deps[k][d]] < rank[k] BY <1>3
      <4>4. rank[k] \in Nat /\ rank[deps[k][d]] \in Nat /\ \A t \in marks : rank[t] \in Nat
        BY <1>3, <4>2
      <4>5. rank[deps[k][d]] < i BY <2>2, <4>3, <4>4
      <4>6. \A t \in marks \cup {k} : rank[deps[k][d]] < rank[t] BY <2>2, <4>3, <4>4
      <4>7. marks \cup {k} \in SUBSET DOMAIN deps OBVIOUS
      <4> QED BY <1>4, <1>6, <3>0, <4>2, <4>5, <4>6, <4>7
    <3>2. VisitsEach(deps, below, deps[k], marks \cup {k})
      <4>1. deps[k] \in Seq(DOMAIN deps) BY DEF Acyclic, Keyed
      <4>2. DOMAIN deps[k] = 1..Len(deps[k]) BY <4>1
      <4> QED BY <3>a, <4>2 DEF VisitsEach
    <3>3. ASSUME NEW st, Sorted(deps, st), st.temp = marks
          PROVE  /\ Sorted(deps, f[i + 1][k][st]) /\ f[i + 1][k][st].temp = marks
                 /\ st.visited \subseteq f[i + 1][k][st].visited
                 /\ k \in f[i + 1][k][st].visited
      <4>1. st \in Marks(deps) BY <3>3 DEF Sorted
      <4>2. PICK r : r = f[i + 1][k][st] OBVIOUS
      <4>3. r = VisitKey(k, deps, st, below) BY <1>2, <2>1, <3>0, <4>1, <4>2
      <4>4. Keyed(deps) BY DEF Acyclic
      <4>5. /\ Sorted(deps, r) /\ r.temp = marks
            /\ st.visited \subseteq r.visited /\ k \in r.visited
        BY <3>1, <3>2, <3>3, <4>3, <4>4, KeyVisited
      <4> QED BY <4>2, <4>5
    <3> QED BY <3>3 DEF Visits
  <2> QED BY <1>4, <2>1, <2>2
<1>7. n \in T
  <2>1. \A i \in 0..n : i < n /\ i \in T => i + 1 \in T BY <1>6
  <2>2. 0..n \subseteq T BY <1>5, <2>1, Induction, Zenon
  <2> QED BY <2>2
<1>8. rank[key] < n /\ {} \in SUBSET DOMAIN deps BY <1>3
<1> QED BY <1>2, <1>4, <1>7, <1>8

(* Without a cycle of foreign keys, every new table is created, once, and after those it *)
(* references (internal/diff/table.go, sortTablesByDependency).                          *)
THEOREM TablesSorted ==
  ASSUME NEW deps, Acyclic(deps), NEW tables \in Seq(DOMAIN deps),
         Elements(tables) = DOMAIN deps,
         NEW sorted, sorted = sortTablesByDependency(tables, deps)
  PROVE  /\ sorted \in Seq(DOMAIN deps)
         /\ Elements(sorted) = DOMAIN deps /\ Ordered(deps, sorted)
<1>1. PICK n \in Nat : n = Len(tables) OBVIOUS
<1>r. PICK f : Roots(f, tables, deps, n) /\ sortTablesByDependency(tables, deps) = f[n].sorted
  BY <1>1, SortFrom
<1>2. /\ f[0] = Unmarked
      /\ \A i \in 0..(n - 1) :
           f[i + 1] = IF tables[i + 1] \in f[i].visited THEN f[i]
                      ELSE [Visit(deps)[tables[i + 1]][f[i]] EXCEPT !.ok = TRUE]
  BY <1>r DEF Roots
<1>3. PICK T : T = {i \in 0..n : /\ Sorted(deps, f[i]) /\ f[i].temp = {}
                                 /\ \A j \in 1..i : tables[j] \in f[i].visited} OBVIOUS
<1>4. 0 \in T
  <2>1. <<>> \in Seq(DOMAIN deps) /\ Len(<<>>) = 0 OBVIOUS
  <2>2. PICK none, Lists, Sets, Bools : /\ none = <<>> /\ Lists = Seq(DOMAIN deps)
                                        /\ Sets = SUBSET DOMAIN deps /\ Bools = BOOLEAN OBVIOUS
  <2>3. none \in Lists /\ {} \in Sets /\ TRUE \in Bools BY <2>1, <2>2
  <2>4. Unmarked \in Marks(deps) BY <2>2, <2>3 DEF Marks, Unmarked
  <2>5. Unmarked.sorted = <<>> /\ Unmarked.visited = {} /\ Unmarked.temp = {} /\ Unmarked.ok
    BY DEF Unmarked
  <2>6. Sorted(deps, Unmarked) BY <2>1, <2>4, <2>5 DEF Sorted, Elements, Ordered
  <2> QED BY <1>2, <1>3, <2>5, <2>6
<1>5. ASSUME NEW i \in 0..n, i < n, i \in T PROVE i + 1 \in T
  <2>1. i \in 0..(n - 1) /\ i + 1 \in 1..n /\ i + 1 \in 0..n BY <1>5
  <2>2. PICK st : st = f[i] OBVIOUS
  <2>3. Sorted(deps, st) /\ st.temp = {} /\ \A j \in 1..i : tables[j] \in st.visited
    BY <1>3, <1>5, <2>2
  <2>4. \A j \in 1..(i + 1) : j \in 1..i \/ j = i + 1 OBVIOUS
  <2>5. PICK key : key = tables[i + 1] OBVIOUS
  <2>6. CASE key \in st.visited
    <3>1. f[i + 1] = st BY <1>2, <2>1, <2>2, <2>5, <2>6
    <3>2. \A j \in 1..(i + 1) : tables[j] \in st.visited BY <2>3, <2>4, <2>5, <2>6
    <3> QED BY <1>3, <2>1, <2>3, <3>1, <3>2
  <2>7. CASE key \notin st.visited
    <3>1. key \in DOMAIN deps BY <1>1, <2>1, <2>5
    <3>2. PICK r : r = Visit(deps)[key][st] OBVIOUS
    <3>3. /\ Sorted(deps, r) /\ r.temp = {} /\ st.visited \subseteq r.visited
          /\ key \in r.visited
      BY <2>3, <3>1, <3>2, VisitVisits DEF Visits
    <3>4. f[i + 1] = [r EXCEPT !.ok = TRUE] BY <1>2, <2>1, <2>2, <2>5, <2>7, <3>2
    <3>5. r \in Marks(deps) /\ r.ok BY <3>3 DEF Sorted
    <3>6. [r EXCEPT !.ok = TRUE] = r BY <3>5 DEF Marks
    <3>7. \A j \in 1..(i + 1) : tables[j] \in r.visited BY <2>3, <2>4, <2>5, <3>3
    <3> QED BY <1>3, <2>1, <3>3, <3>4, <3>6, <3>7
  <2> QED BY <2>6, <2>7
<1>6. n \in T
  <2>1. \A i \in 0..n : i < n /\ i \in T => i + 1 \in T BY <1>5
  <2>2. 0..n \subseteq T BY <1>4, <2>1, Induction, Zenon
  <2> QED BY <2>2
<1>7. Sorted(deps, f[n]) /\ \A j \in 1..n : tables[j] \in f[n].visited BY <1>3, <1>6
<1>8. f[n].sorted \in Seq(DOMAIN deps) /\ f[n].visited \subseteq DOMAIN deps
  BY <1>7 DEF Sorted, Marks
<1>9. f[n].visited = DOMAIN deps BY <1>1, <1>7, <1>8 DEF Elements
<1>10. sorted = f[n].sorted BY <1>r
<1>a. PICK st : st = f[n] OBVIOUS
<1>b. st.visited = Elements(st.sorted) /\ Ordered(deps, st.sorted) BY <1>7, <1>a DEF Sorted
<1>c. sorted = st.sorted /\ st.visited = DOMAIN deps BY <1>9, <1>10, <1>a
<1>14. sorted \in Seq(DOMAIN deps) BY <1>8, <1>10
<1> QED BY <1>b, <1>c, <1>14

-----------------------------------------------------------------------------
(* Schemas, and what Run makes of a script. *)

\* What Run makes of the first statements of a script, one more each time.
Ran(f, base, script, n) ==
  /\ f[0] = [ok |-> TRUE, db |-> base]
  /\ \A i \in 0..(n - 1) : f[i + 1] =
       IF f[i].ok /\ Accepts(f[i].db, script[i + 1])
       THEN [ok |-> TRUE, db |-> Effect(f[i].db, script[i + 1])]
       ELSE [ok |-> FALSE, db |-> base]

LEMMA RunFrom ==
  ASSUME NEW base, NEW script, NEW n \in Nat, Len(script) = n
  PROVE  \E f : Ran(f, base, script, n) /\ Run(base, script) = f[n]
<1> DEFINE Step(r, s) == IF r.ok /\ Accepts(r.db, s) THEN [ok |-> TRUE, db |-> Effect(r.db, s)]
                         ELSE [ok |-> FALSE, db |-> base]
           Upto(m, f) == f = [i \in 0..m |-> IF i = 0 THEN [ok |-> TRUE, db |-> base]
                                             ELSE Step(f[i-1], script[i])]
<1>0. PICK T : T = {m \in 0..n : \E f : Upto(m, f)} OBVIOUS
<1>h. PICK h : h = CHOOSE f : Upto(n, f) OBVIOUS
<1>6. Run(base, script) = h[n] BY <1>h, Zenon DEF Run
<1> HIDE DEF Step
<1>1. 0 \in T
  <2>1. PICK f : f = [i \in 0..0 |-> [ok |-> TRUE, db |-> base]] OBVIOUS
  <2>2. Upto(0, f) BY <2>1
  <2> QED BY <2>2, <1>0
<1>2. ASSUME NEW m \in 0..n, m < n, m \in T PROVE m + 1 \in T
  <2>1. PICK f : Upto(m, f) BY <1>0, <1>2
  <2>2. PICK g : g = [i \in 0..(m + 1) |-> IF i = 0 THEN [ok |-> TRUE, db |-> base]
                                           ELSE Step(f[i-1], script[i])] OBVIOUS
  <2>3. \A i \in 0..m : f[i] = IF i = 0 THEN [ok |-> TRUE, db |-> base]
                               ELSE Step(f[i-1], script[i]) BY <2>1
  <2>4. \A i \in 0..m : i \in 0..(m + 1) OBVIOUS
  <2>5. \A i \in 0..m : g[i] = f[i] BY <2>2, <2>3, <2>4
  <2>6. \A i \in 0..(m + 1) : i # 0 => i - 1 \in 0..m OBVIOUS
  <2>7. Upto(m + 1, g) BY <2>2, <2>5, <2>6
  <2>8. m + 1 \in 0..n BY <1>2
  <2> QED BY <1>0, <2>7, <2>8
<1>3. n \in T
  <2>1. 0..n \subseteq T BY <1>1, <1>2, Induction, Zenon
  <2> QED BY <2>1
<1>4. Upto(n, h) BY <1>0, <1>3, <1>h
<1>5. \A i \in 0..n : h[i] = IF i = 0 THEN [ok |-> TRUE, db |-> base]
                             ELSE Step(h[i-1], script[i]) BY <1>4
<1>a. 0 \in 0..n OBVIOUS
<1>7. h[0] = [ok |-> TRUE, db |-> base] BY <1>5, <1>a
<1>8. ASSUME NEW i \in 0..(n - 1) PROVE h[i + 1] = Step(h[i], script[i + 1])
  <2>1. i + 1 \in 0..n /\ i + 1 # 0 /\ (i + 1) - 1 = i OBVIOUS
  <2> QED BY <1>5, <2>1
<1>9. Ran(h, base, script, n) BY <1>7, <1>8 DEF Ran, Step
<1> QED BY <1>6, <1>9

LEMMA ObjectsAreNumbered == \E n \in Nat : Objects = 1..n
<1>1. Catalog \in Seq([kind : STRING, schema : STRING, name : STRING, args : STRING])
  BY CatalogAssumption
<1> QED BY <1>1 DEF Objects

LEMMA AbsentOrDefined ==
  ASSUME NEW s \in Schemas, NEW o \in Objects
  PROVE  s[o] \in [Facets -> Nat]
<1>1. s[o] \in Versions[o] \cup {Absent} BY DEF Schemas
<1>2. Absent \in [Facets -> Nat] BY DEF Absent, Facets
<1>3. Versions[o] \subseteq [Facets -> Nat] BY EditsAssumption
<1> QED BY <1>1, <1>2, <1>3

\* What Among takes of a list.
LEMMA AmongPicks == ASSUME NEW list, NEW set PROVE Among(list, set) = Picked(list, set)
BY DEF Among, Picked

LEMMA AmongNone ==
  ASSUME NEW S, NEW list \in Seq(S), NEW set, \A i \in DOMAIN list : list[i] \notin set
  PROVE  Among(list, set) = <<>>
BY AmongPicks, PickedNone

LEMMA AmongType ==
  ASSUME NEW S, NEW list \in Seq(S), NEW set
  PROVE  Among(list, set) \in Seq(S \cap set)
BY AmongPicks, PickedType

LEMMA AmongIs ==
  ASSUME NEW S, NEW list \in Seq(S), NEW set
  PROVE  /\ Elements(Among(list, set)) = Elements(list) \cap set
         /\ Distinct(list) => Distinct(Among(list, set))
BY AmongPicks, PickedIs

LEMMA SameKeyIsSame ==
  ASSUME KeysDistinct, NEW s, NEW o \in Objects, Has(s, o)
  PROVE  SameKey(s, o) = {o} /\ Entry(s, o) = o
<1>1. SameKey(s, o) = {o} BY DEF SameKey, KeysDistinct
<1>2. o \in Nat BY ObjectsAreNumbered
<1>3. \A x \in SameKey(s, o) : (\A y \in SameKey(s, o) : y <= x) <=> x = o BY <1>1, <1>2
<1>4. Entry(s, o) = CHOOSE x \in {o} : \A y \in {o} : y <= x BY <1>1 DEF Entry
<1> QED BY <1>1, <1>2, <1>4

\* A definition does not differ from itself.
LEMMA NoDifference ==
  ASSUME NEW o \in Objects, NEW def \in [Facets -> Nat] PROVE ~Differs(o, def, def)
<1>1. CASE Catalog[o].kind = "enum"
  <2>1. KindOf(o) = EnumKind BY <1>1 DEF KindOf, Kinds
  <2>2. EnumKind.compares = {"main"} BY DEF EnumKind, Compared, ByName, Kind
  <2>3. def["main"] \in Nat BY DEF Facets
  <2> QED BY <1>1, <2>1, <2>2, <2>3 DEF Differs
<1>2. CASE Catalog[o].kind # "enum" BY <1>2 DEF Differs
<1> QED BY <1>1, <1>2

\* Without new tables there is nothing to sort.
LEMMA NothingSorted == ASSUME NEW deps PROVE sortTablesByDependency(<<>>, deps) = <<>>
<1> DEFINE Next0(prev, i) == IF <<>>[i] \in prev.visited THEN prev
                             ELSE [Visit(deps)[<<>>[i]][prev] EXCEPT !.ok = TRUE]
<1>1. PICK f : f = [i \in 0..0 |-> Unmarked] OBVIOUS
<1>2. f = [i \in 0..0 |-> IF i = 0 THEN Unmarked ELSE Next0(f[i-1], i)] BY <1>1
<1>3. PICK h : h = CHOOSE g : g = [i \in 0..0 |-> IF i = 0 THEN Unmarked ELSE Next0(g[i-1], i)]
  OBVIOUS
<1>4. h[0] = Unmarked BY <1>2, <1>3
<1>5. Len(<<>>) = 0 OBVIOUS
<1>6. sortTablesByDependency(<<>>, deps) = h[0].sorted
  BY <1>3, <1>5, Zenon DEF sortTablesByDependency
<1> QED BY <1>4, <1>6 DEF Unmarked

(* Compare finds nothing to change between a schema and itself, in whatever *)
(* order the tables come.                                                   *)
LEMMA NothingToChange ==
  ASSUME KeysDistinct, NEW s \in Schemas, NEW order \in Orders
  PROVE  Compare(s, s, order) = <<>>
<1>1. order \in Seq(Objects)
  <2>1. PICK n \in Nat : Objects = 1..n BY ObjectsAreNumbered
  <2>2. order \in [Objects -> Objects] BY DEF Orders, Tables, Bijection, Injection
  <2> QED BY <2>1, <2>2
<1>2. ASSUME NEW kind PROVE Listed(s, kind, order) \in Seq({o \in Objects : Has(s, o)})
  <2>1. Listed(s, kind, order)
          \in Seq(Objects \cap {o \in Objects : Catalog[o].kind = kind /\ Has(s, o)})
    BY <1>1, AmongType DEF Listed
  <2> QED BY <2>1
<1>3. ASSUME NEW o \in Objects, Has(s, o)
      PROVE  SameKey(s, o) # {} /\ ~Differs(o, s[Entry(s, o)], s[o])
  BY <1>3, SameKeyIsSame, AbsentOrDefined, NoDifference
<1>4. ASSUME NEW kind PROVE compareKind(s, s, kind, order) = <<>>
  <2>1. PICK list : list = Listed(s, kind, order) OBVIOUS
  <2>2. list \in Seq({o \in Objects : Has(s, o)}) BY <1>2, <2>1
  <2>3. Among(list, {o \in Objects : SameKey(s, o) = {} \/ Differs(o, s[Entry(s, o)], s[o])}) = <<>>
    BY <2>2, <1>3, AmongNone
  <2>4. Among(list, {o \in Objects : SameKey(s, o) = {}}) = <<>> BY <2>2, <1>3, AmongNone
  <2>5. Removed(s, s, kind, order) = <<>> BY <2>1, <2>4 DEF Removed
  <2>6. Removals(s, <<>>) = <<>> BY DEF Removals
  <2>7. PICK kept : kept = Among(list, {o \in Objects : SameKey(s, o) = {}
                                             \/ Differs(o, s[Entry(s, o)], s[o])}) OBVIOUS
  <2>8. kept = <<>> BY <2>3, <2>7
  <2>9. compareKind(s, s, kind, order) =
          [i \in DOMAIN kept |-> IF SameKey(s, kept[i]) = {} THEN Creation(s, kept[i])
                                 ELSE Alteration(s, s, kept[i])] \o <<>>
    BY <2>1, <2>5, <2>6, <2>7 DEF compareKind
  <2> QED BY <2>8, <2>9
<1>5. compareTables(s, s, order) = <<>>
  <2>1. PICK list : list = Listed(s, "table", order) OBVIOUS
  <2>2. list \in Seq({o \in Objects : Has(s, o)}) BY <1>2, <2>1
  <2>3. Among(list, {o \in Objects : SameKey(s, o) # {} /\ Differs(o, s[Entry(s, o)], s[o])}) = <<>>
    BY <2>2, <1>3, AmongNone
  <2>4. Among(list, {o \in Objects : SameKey(s, o) = {}}) = <<>> BY <2>2, <1>3, AmongNone
  <2>5. /\ Created(s, s, "table", order) = <<>>
        /\ Removed(s, s, "table", order) = <<>>
        /\ Altered(s, s, "table", order) = <<>>
    BY <2>1, <2>3, <2>4 DEF Created, Removed, Altered
  <2>6. /\ Creations(s, s, <<>>) = <<>> /\ Removals(s, <<>>) = <<>>
        /\ Alterations(s, s, <<>>) = <<>>
    BY DEF Creations, Removals, Alterations
  <2> QED BY <2>5, <2>6, NothingSorted DEF compareTables
<1>6. PICK n \in Nat : DOMAIN KindsInUse = 1..n
  <2>0. DOMAIN CompareOrder = 1..29 BY DEF CompareOrder
  <2>9. CompareOrder = [i \in 1..29 |-> CompareOrder[i]] BY DEF CompareOrder
  <2>a. PICK list : list = CompareOrder OBVIOUS
  <2>b. PICK K : K = {list[i] : i \in 1..29} OBVIOUS
  <2>1. CompareOrder \in Seq(K) BY <2>9, <2>a, <2>b
  <2>2. KindsInUse \in Seq(K \cap {Catalog[o].kind : o \in Objects})
    BY <2>1, AmongType DEF KindsInUse
  <2> QED BY <2>2
<1>7. PICK all : all = [i \in 1..n |-> IF KindsInUse[i] = "table" THEN compareTables(s, s, order)
                                       ELSE compareKind(s, s, KindsInUse[i], order)] OBVIOUS
<1>8. all = [i \in 1..n |-> <<>>] BY <1>4, <1>5, <1>7
<1>9. FlattenSeq(all) = <<>> BY <1>8, FlattenEmpty
<1> QED BY <1>6, <1>7, <1>9 DEF Compare

\* The script is accepted and makes b out of a.
Leads(a, script, b) == Run(a, script) = [ok |-> TRUE, db |-> b]

\* Two scripts that each do what they should, one after the other.
LEMMA RunBoth ==
  ASSUME NEW S, NEW one \in Seq(S), NEW two \in Seq(S), NEW a, NEW b, NEW c,
         Leads(a, one, b), Leads(b, two, c)
  PROVE  Leads(a, one \o two, c)
<1>1. PICK n \in Nat, m \in Nat : n = Len(one) /\ m = Len(two) OBVIOUS
<1>a. Len(one) = n /\ Len(two) = m BY <1>1
<1>2. PICK both : both = one \o two OBVIOUS
<1>3. /\ n + m \in Nat /\ Len(both) = n + m
      /\ \A i \in 1..n : both[i] = one[i]
      /\ \A i \in 1..m : both[n + i] = two[i]
  BY <1>1, <1>2
<1>4. PICK f : Ran(f, a, both, n + m) /\ Run(a, both) = f[n + m]
  BY <1>3, RunFrom
<1>b. PICK list : list = one OBVIOUS
<1>c. Len(list) = n BY <1>a, <1>b
<1>d. PICK g : Ran(g, a, list, n) /\ Run(a, list) = g[n]
  BY <1>c, RunFrom
<1>5. Ran(g, a, one, n) /\ Run(a, one) = g[n] BY <1>b, <1>d
<1>6. PICK h : Ran(h, b, two, m) /\ Run(b, two) = h[m]
  BY <1>a, RunFrom
<1>7. PICK T : T = {i \in 0..n : f[i] = g[i]} OBVIOUS
<1>8. 0 \in T BY <1>4, <1>5, <1>7 DEF Ran
<1>9. ASSUME NEW i \in 0..n, i < n, i \in T PROVE i + 1 \in T
  <2>1. i \in 0..(n - 1) /\ i \in 0..((n + m) - 1) /\ i + 1 \in 0..n /\ i + 1 \in 1..n BY <1>9
  <2>2. f[i] = g[i] /\ both[i + 1] = one[i + 1] BY <1>3, <1>7, <1>9, <2>1
  <2>3. f[i + 1] = g[i + 1] BY <1>4, <1>5, <2>1, <2>2 DEF Ran
  <2> QED BY <1>7, <2>1, <2>3
<1>10. n \in T
  <2>1. \A i \in 0..n : i < n /\ i \in T => i + 1 \in T BY <1>9
  <2>2. 0..n \subseteq T BY <1>8, <2>1, Induction, Zenon
  <2> QED BY <2>2
<1>11. f[n] = [ok |-> TRUE, db |-> b] BY <1>5, <1>7, <1>10 DEF Leads
<1>12. PICK U : U = {i \in 0..m : h[i].ok => f[n + i] = h[i]} OBVIOUS
<1>13. 0 \in U BY <1>6, <1>11, <1>12 DEF Ran
<1>14. ASSUME NEW i \in 0..m, i < m, i \in U PROVE i + 1 \in U
  <2>1. /\ i \in 0..(m - 1) /\ i + 1 \in 0..m /\ i + 1 \in 1..m
        /\ n + i \in 0..((n + m) - 1) /\ (n + i) + 1 = n + (i + 1)
    BY <1>14
  <2>2. both[(n + i) + 1] = two[i + 1] BY <1>3, <2>1
  <2>3. CASE h[i].ok /\ Accepts(h[i].db, two[i + 1])
    <3>1. f[n + i] = h[i] BY <1>12, <1>14, <2>3
    <3>2. h[i + 1] = [ok |-> TRUE, db |-> Effect(h[i].db, two[i + 1])] BY <1>6, <2>1, <2>3 DEF Ran
    <3>3. f[(n + i) + 1] = [ok |-> TRUE, db |-> Effect(h[i].db, two[i + 1])]
      BY <1>4, <2>1, <2>2, <2>3, <3>1 DEF Ran
    <3>4. f[n + (i + 1)] = h[i + 1] BY <2>1, <3>2, <3>3
    <3> QED BY <1>12, <2>1, <3>4
  <2>4. CASE ~(h[i].ok /\ Accepts(h[i].db, two[i + 1]))
    <3>1. h[i + 1] = [ok |-> FALSE, db |-> b] BY <1>6, <2>1, <2>4 DEF Ran
    <3>2. ~h[i + 1].ok BY <3>1
    <3> QED BY <1>12, <2>1, <3>2
  <2> QED BY <2>3, <2>4
<1>15. m \in U
  <2>1. \A i \in 0..m : i < m /\ i \in U => i + 1 \in U BY <1>14
  <2>2. 0..m \subseteq U BY <1>13, <2>1, Induction, Zenon
  <2> QED BY <2>2
<1>16. h[m] = [ok |-> TRUE, db |-> c] BY <1>6 DEF Leads
<1>17. f[n + m] = h[m] BY <1>12, <1>15, <1>16
<1> QED BY <1>2, <1>4, <1>16, <1>17 DEF Leads

LEMMA RunNone == ASSUME NEW a PROVE Leads(a, <<>>, a)
<1>1. PICK none : none = <<>> OBVIOUS
<1>2. Len(none) = 0 /\ 0 \in Nat BY <1>1
<1>3. PICK f : Ran(f, a, none, 0) /\ Run(a, none) = f[0] BY <1>2, RunFrom
<1> QED BY <1>1, <1>3 DEF Ran, Leads

LEMMA RunOne ==
  ASSUME NEW a, NEW st, Accepts(a, st) PROVE Leads(a, <<st>>, Effect(a, st))
<1>1. PICK one : one = <<st>> OBVIOUS
<1>2. Len(one) = 1 /\ 1 \in Nat /\ one[1] = st BY <1>1
<1>3. PICK f : Ran(f, a, one, 1) /\ Run(a, one) = f[1]
  BY <1>2, RunFrom
<1>4. 0 \in 0..(1 - 1) /\ 0 + 1 = 1 OBVIOUS
<1>6. f[0] = [ok |-> TRUE, db |-> a] BY <1>3 DEF Ran
<1>7. f[0 + 1] = IF f[0].ok /\ Accepts(f[0].db, one[0 + 1])
                 THEN [ok |-> TRUE, db |-> Effect(f[0].db, one[0 + 1])]
                 ELSE [ok |-> FALSE, db |-> a]
  BY <1>3, <1>4 DEF Ran
<1>8. f[0].ok /\ f[0].db = a BY <1>6
<1>9. Accepts(f[0].db, one[0 + 1]) /\ Effect(f[0].db, one[0 + 1]) = Effect(a, st)
  BY <1>2, <1>4, <1>8
<1>5. f[1] = [ok |-> TRUE, db |-> Effect(a, st)] BY <1>4, <1>7, <1>8, <1>9
<1> QED BY <1>1, <1>3, <1>5 DEF Leads

-----------------------------------------------------------------------------
(* The statements of one change. *)

Alters  == {"alter", "replace", "recreate"}
Creates == {"create", "replace", "ensure", "broken"}
Drops   == {"drop", "dropIf", "unset"}
Forms(kind) == kind.alter \in Alters /\ kind.create \in Creates /\ kind.drop \in Drops

LEMMA KindForms == ASSUME NEW k \in DOMAIN Kinds PROVE Forms(Kinds[k])
<1> USE DEF Alters, Creates, Drops
<1>1. ASSUME NEW key PROVE Forms(Kind(key)) BY DEF Forms, Kind
<1>2. Forms(ByName) /\ Forms(ByQualified) /\ Forms(BySignature)
  BY <1>1 DEF ByName, ByQualified, BySignature
<1>3. ASSUME NEW key, NEW parts PROVE Forms(Compared(Kind(key), parts))
  BY DEF Forms, Compared, Kind
<1>4. ASSUME NEW key PROVE Forms(Replaced(Kind(key))) BY DEF Forms, Replaced, Compared, Kind
<1>5. ASSUME NEW key, NEW create \in Creates, NEW drop \in Drops
      PROVE  Forms(Tolerant(Kind(key), create, drop))
  BY DEF Forms, Tolerant, Kind
<1>6. Forms(NamespaceKind) /\ Forms(ExtensionKind) /\ Forms(EnumKind)
  BY <1>2, <1>3, <1>5 DEF NamespaceKind, ExtensionKind, EnumKind, ByName
<1>7. Forms(DomainKind) /\ Forms(CompositeTypeKind) /\ Forms(SequenceKind) /\ Forms(IndexKind)
  BY <1>2 DEF DomainKind, CompositeTypeKind, SequenceKind, IndexKind
<1>8. Forms(TableKind) BY DEF Forms, TableKind, Compared, ByQualified, Kind
<1>9. Forms(ViewKind) /\ Forms(FunctionKind) /\ Forms(ProcedureKind)
  BY <1>4 DEF ViewKind, FunctionKind, ProcedureKind, ByName, BySignature
<1>10. Forms(MaterializedViewKind)
  BY DEF Forms, MaterializedViewKind, Replaced, Compared, ByQualified, Kind
<1>11. Forms(AggregateKind) /\ Forms(EventTriggerKind) /\ Forms(RuleKind) /\ Forms(PolicyKind)
  BY <1>2 DEF AggregateKind, EventTriggerKind, RuleKind, PolicyKind
<1>12. Forms(TriggerKind) BY DEF Forms, TriggerKind, ByName, Kind
<1>13. Forms(CollationKind) /\ Forms(TextSearchConfigKind) /\ Forms(PublicationKind)
       /\ Forms(SubscriptionKind)
  BY <1>2 DEF CollationKind, TextSearchConfigKind, PublicationKind, SubscriptionKind
<1>14. Forms(ForeignDataWrapperKind) /\ Forms(ForeignServerKind) /\ Forms(ForeignTableKind)
  BY <1>2 DEF ForeignDataWrapperKind, ForeignServerKind, ForeignTableKind
<1>15. Forms(OperatorKind) BY <1>1 DEF OperatorKind
<1>16. Forms(RoleKind) BY DEF Forms, RoleKind, Compared, ByName, Kind
<1>17. Forms(RoleGrantKind) /\ Forms(DefaultPrivilegeKind)
  BY <1>5 DEF RoleGrantKind, DefaultPrivilegeKind, BySignature
<1>18. Forms(CommentKind) BY DEF Forms, CommentKind, Tolerant, Replaced, Compared, BySignature, Kind
<1> QED BY <1>6, <1>7, <1>8, <1>9, <1>10, <1>11, <1>12, <1>13, <1>14, <1>15, <1>16, <1>17, <1>18
        DEF Kinds

LEMMA KindsListed ==
  /\ \A k \in DOMAIN Kinds : \E i \in 1..29 : CompareOrder[i] = k
  /\ \A i, j \in 1..29 : CompareOrder[i] = CompareOrder[j] => i = j
BY DEF Kinds, CompareOrder

States == [Objects -> [Facets -> Nat]]

\* Nothing that the database has needs the object.
Unneeded(d, o) == \A x \in Objects : Has(d, x) => o \notin Needs[x]

LEMMA FormsOf == ASSUME NEW o \in Objects PROVE Forms(KindOf(o))
BY KindForms, KindsAssumption DEF KindOf

LEMMA CreateWorks ==
  ASSUME NEW d \in States, NEW o \in Objects, ~Has(d, o), Ready(d, o),
         KindOf(o).create # "broken", NEW def, Shows(d, o, def)
  PROVE  Leads(d, CreateSQL(o, def), [d EXCEPT ![o] = def])
<1>1. PICK st : st = Statement(KindOf(o).create, o, def) OBVIOUS
<1>2. st.op = KindOf(o).create /\ st.obj = o /\ st.def = def BY <1>1 DEF Statement
<1>3. st.op \in {"create", "replace", "ensure"} BY <1>2, FormsOf DEF Forms, Creates
<1>a. Replaceable(o, d[o], def) BY DEF Replaceable, Has
<1>4. Accepts(d, st)
  <2>1. CASE st.op = "create" BY <1>2, <2>1 DEF Accepts
  <2>2. CASE st.op = "replace" BY <1>2, <1>a, <2>2 DEF Accepts
  <2>3. CASE st.op = "ensure" BY <1>2, <2>3 DEF Accepts
  <2> QED BY <1>3, <2>1, <2>2, <2>3
<1>5. Effect(d, st) = [d EXCEPT ![o] = def]
  <2>1. CASE st.op \in {"create", "replace"} BY <1>2, <2>1 DEF Effect
  <2>2. CASE st.op = "ensure" BY <1>2, <2>2 DEF Effect
  <2> QED BY <1>3, <2>1, <2>2
<1> QED BY <1>1, <1>4, <1>5, RunOne DEF CreateSQL

LEMMA OnlyItself ==
  ASSUME NEW d \in States, NEW o \in Objects, Unneeded(d, o)
  PROVE  Going(d, o) = {o} /\ ~Held(d, o)
<1>1. \A x \in Objects : o \in PartOf[x] => o \in Needs[x] BY CatalogAssumption
<1>2. Going(d, o) = {o} BY <1>1 DEF Going, Unneeded
<1> QED BY <1>2 DEF Held, Unneeded

LEMMA DropWorks ==
  ASSUME KeysDistinct, NEW d \in States, NEW o \in Objects, Has(d, o), Ready(d, o),
         Unneeded(d, o)
  PROVE  Leads(d, DropSQL(o), [d EXCEPT ![o] = Absent])
<1>1. PICK st : st = Statement(KindOf(o).drop, o, Absent) OBVIOUS
<1>2. st.op = KindOf(o).drop /\ st.obj = o BY <1>1 DEF Statement
<1>3. st.op \in {"drop", "dropIf", "unset"} BY <1>2, FormsOf DEF Forms, Drops
<1>4. ~Ambiguous(d, o)
  <2>1. SUFFICES ASSUME NEW x \in Objects \ {o}, Catalog[x].kind = "function",
                        Catalog[o].kind = "function", Catalog[x].name = Catalog[o].name
                 PROVE  FALSE
    BY DEF Ambiguous
  <2>2. KindOf(x) = FunctionKind /\ KindOf(o) = FunctionKind BY <2>1 DEF KindOf, Kinds
  <2>3. FunctionKind.key = {"name"} BY DEF FunctionKind, Replaced, Compared, ByName, Kind
  <2>4. Key(x) = [f \in {"name"} |-> Catalog[x][f]] /\ Key(o) = [f \in {"name"} |-> Catalog[o][f]]
    BY <2>2, <2>3 DEF Key
  <2>5. Key(x) = Key(o) BY <2>1, <2>4
  <2> QED BY <2>1, <2>5 DEF KeysDistinct
<1>5. Accepts(d, st) BY <1>2, <1>3, <1>4, OnlyItself DEF Accepts
<1>6. Effect(d, st) = [x \in Objects |-> IF x \in Going(d, o) THEN Absent ELSE d[x]]
  BY <1>2, <1>3 DEF Effect
<1>7. Effect(d, st) = [d EXCEPT ![o] = Absent] BY <1>6, OnlyItself, ZenonT(30) DEF States
<1> QED BY <1>1, <1>5, <1>7, RunOne DEF DropSQL

LEMMA AlterWorks ==
  ASSUME KeysDistinct, NEW d \in States, NEW o \in Objects, Has(d, o), Ready(d, o),
         NEW def \in [Facets -> Nat], Shows(d, o, def), Stripped(d, o, def) = {},
         KindOf(o).alter = "replace" => Replaceable(o, d[o], def),
         KindOf(o).alter = "recreate" => /\ KindOf(o).create # "broken"
                                         /\ Unneeded(d, o) /\ o \notin Needs[o],
         KindOf(o).alter = "alter" =>
           \A f \in Facets : f \notin KindOf(o).rewrites => def[f] = d[o][f]
  PROVE  Leads(d, AlterSQL(o, def), [d EXCEPT ![o] = def])
<1>1. CASE KindOf(o).alter = "recreate"
  <2>1. PICK gone : gone = [d EXCEPT ![o] = Absent] OBVIOUS
  <2>2. gone \in States BY <2>1 DEF States, Absent, Facets
  <2>3. Leads(d, DropSQL(o), gone) BY <1>1, <2>1, DropWorks
  <2>4. ~Has(gone, o) BY <2>1 DEF Has, States
  <2>5. Ready(gone, o)
    <3>1. \A x \in Needs[o] : x # o /\ x \in Objects /\ gone[x] = d[x]
      BY <1>1, <2>1, CatalogAssumption DEF States
    <3> QED BY <3>1 DEF Ready, Has
  <2>a. Shows(gone, o, def)
    <3>1. \A x \in Needs[o] : gone[x] = d[x]
      BY <1>1, <2>1, CatalogAssumption DEF States
    <3> QED BY <3>1 DEF Shows
  <2>6. Leads(gone, CreateSQL(o, def), [gone EXCEPT ![o] = def])
    BY <1>1, <2>2, <2>4, <2>5, <2>a, CreateWorks
  <2>7. [gone EXCEPT ![o] = def] = [d EXCEPT ![o] = def] BY <2>1 DEF States
  <2>8. PICK a, b, Sts : /\ a = Statement(KindOf(o).drop, o, Absent)
                         /\ b = Statement(KindOf(o).create, o, def) /\ Sts = {a, b} OBVIOUS
  <2>9. <<a>> \in Seq(Sts) /\ <<b>> \in Seq(Sts) BY <2>8
  <2>10. PICK after : after = [d EXCEPT ![o] = def] OBVIOUS
  <2>11. Leads(d, <<a>>, gone) BY <2>3, <2>8 DEF DropSQL
  <2>12. Leads(gone, <<b>>, after)
    BY <2>6, <2>7, <2>8, <2>10 DEF CreateSQL
  <2>13. Leads(d, <<a>> \o <<b>>, after)
    BY <2>9, <2>11, <2>12, RunBoth
  <2> QED BY <1>1, <2>8, <2>10, <2>13 DEF AlterSQL, DropSQL, CreateSQL
<1>2. CASE KindOf(o).alter # "recreate"
  <2>1. PICK st : st = Statement(KindOf(o).alter, o, def) OBVIOUS
  <2>2. st.op = KindOf(o).alter /\ st.obj = o /\ st.def = def BY <2>1 DEF Statement
  <2>3. st.op \in {"alter", "replace"} BY <1>2, <2>2, FormsOf DEF Forms, Alters
  <2>4. Accepts(d, st)
    <3>1. CASE st.op = "replace" BY <2>2, <3>1 DEF Accepts
    <3>2. CASE st.op = "alter" BY <2>2, <3>2 DEF Accepts
    <3> QED BY <2>3, <3>1, <3>2
  <2>5. Effect(d, st) = [d EXCEPT ![o] = def]
    <3>1. CASE st.op = "replace" BY <2>2, <3>1 DEF Effect
    <3>2. CASE st.op = "alter"
      <4>1. PICK new : new = [f \in Facets |-> IF f \in KindOf(o).rewrites THEN def[f] ELSE d[o][f]]
        OBVIOUS
      <4>2. new = def BY <2>2, <3>2, <4>1
      <4>3. Effect(d, st) = [x \in Objects |->
              CASE x = o -> [f \in Facets |-> IF f \in KindOf(x).rewrites THEN def[f]
                                              ELSE d[x][f]]
                [] x \in Stripped(d, o, def) -> Absent
                [] OTHER -> d[x]]
        BY <2>2, <3>2 DEF Effect
      <4>4. Effect(d, st) = [x \in Objects |-> IF x = o THEN new ELSE d[x]]
        BY <4>1, <4>3
      <4> QED BY <4>2, <4>4 DEF States
    <3> QED BY <2>3, <3>1, <3>2
  <2> QED BY <1>2, <2>1, <2>4, <2>5, RunOne DEF AlterSQL
<1> QED BY <1>1, <1>2

-----------------------------------------------------------------------------
(* The script of one change, up and down. *)

\* Every object that the database has is as some schema file defines it.
Fitting(d) == \A x \in Objects : d[x] \in Versions[x] \cup {Absent}

LEMMA ColumnsAreThere ==
  ASSUME ColumnsStay, NEW d, Fitting(d), NEW o \in Objects, NEW def \in Versions[o]
  PROVE  /\ Ready(d, o) => Shows(d, o, def)
         /\ Stripped(d, o, def) = {}
<1>1. ASSUME Ready(d, o), IsView(o), NEW x \in Needs[o], Catalog[x].kind = "table"
      PROVE  def.rest <= d[x].main
  <2>1. x \in Objects BY CatalogAssumption
  <2>2. d[x] \in Versions[x] BY <1>1, <2>1 DEF Fitting, Ready, Has
  <2> QED BY <1>1, <2>2 DEF ColumnsStay, IsTable
<1>2. ASSUME NEW x \in Objects, Catalog[o].kind = "table", o \in Needs[x],
             IsView(x) \/ Catalog[x].kind = "index", d[x].rest > def.main
      PROVE  FALSE
  <2>1. def.main \in Nat BY EditsAssumption DEF Facets
  <2>2. CASE d[x] = Absent BY <1>2, <2>1, <2>2 DEF Absent
  <2>3. CASE d[x] \in Versions[x]
    <3>1. d[x].rest \in Nat BY <2>3, EditsAssumption DEF Facets
    <3>2. d[x].rest <= def.main BY <1>2, <2>3 DEF ColumnsStay, IsTable
    <3> QED BY <1>2, <2>1, <3>1, <3>2
  <2> QED BY <2>2, <2>3 DEF Fitting
<1>3. Ready(d, o) => Shows(d, o, def) BY <1>1 DEF Shows
<1>4. Stripped(d, o, def) = {} BY <1>2 DEF Stripped
<1> QED BY <1>3, <1>4

\* The change of an object whose definitions in two schemas differ.
ChangeOf(s, t, o) ==
  Change(IF ~Has(s, o) THEN "create" ELSE IF ~Has(t, o) THEN "drop" ELSE "alter",
         o, t[o], o, s[o])

\* What an edit may do to one object.
LEMMA OneEdit ==
  ASSUME TidyCatalog, NEW s \in Schemas, NEW t \in Edits(s), NEW o \in Objects, s[o] # t[o]
  PROVE  /\ s[o] \in [Facets -> Nat] /\ t[o] \in [Facets -> Nat] /\ KindOf(o).create # "broken"
         /\ Has(s, o) \/ Has(t, o)
         /\ Has(s, o) => s[o] \in Versions[o]
         /\ Has(t, o) => t[o] \in Versions[o]
         /\ Has(s, o) /\ ~Has(t, o) => o \in Removable /\ \A x \in Objects : o \notin Needs[x]
         /\ Has(s, o) /\ Has(t, o) =>
              /\ Differs(o, s[o], t[o])
              /\ KindOf(o).alter = "replace" => /\ Replaceable(o, s[o], t[o])
                                                /\ DownsAreAccepted => Replaceable(o, t[o], s[o])
              /\ KindOf(o).alter = "alter" =>
                   \A f \in Facets : f \notin KindOf(o).rewrites => t[o][f] = s[o][f]
              /\ KindOf(o).alter = "recreate" => \A x \in Objects : o \notin Needs[x]
<1>1. t \in Schemas BY DEF Edits
<1>2. s[o] \in [Facets -> Nat] /\ t[o] \in [Facets -> Nat] BY <1>1, AbsentOrDefined
<1>3. KindOf(o).create # "broken" BY DEF TidyCatalog, CreatesWork
<1>4. Has(s, o) \/ Has(t, o) BY DEF Has
<1>a. /\ Has(s, o) => s[o] \in Versions[o]
      /\ Has(t, o) => t[o] \in Versions[o]
  BY <1>1 DEF Schemas, Has
<1>5. ASSUME Has(s, o), ~Has(t, o)
      PROVE  o \in Removable /\ \A x \in Objects : o \notin Needs[x]
  <2>1. o \in Removable BY <1>5 DEF Edits
  <2> QED BY <2>1 DEF TidyCatalog, DropsAreLeaves
<1>6. ASSUME Has(s, o), Has(t, o)
      PROVE  /\ Differs(o, s[o], t[o])
             /\ KindOf(o).alter = "replace" => /\ Replaceable(o, s[o], t[o])
                                               /\ DownsAreAccepted => Replaceable(o, t[o], s[o])
             /\ KindOf(o).alter = "alter" =>
                  \A f \in Facets : f \notin KindOf(o).rewrites => t[o][f] = s[o][f]
             /\ KindOf(o).alter = "recreate" => \A x \in Objects : o \notin Needs[x]
  <2>1. s[o] \in Versions[o] /\ t[o] \in Versions[o] BY <1>1, <1>6 DEF Schemas, Has
  <2>2. o \in GrowOnly => s[o].main <= t[o].main BY <1>6 DEF Edits
  <2>3. PICK d, e : d = s[o] /\ e = t[o] OBVIOUS
  <2>4. /\ Differs(o, d, e)
        /\ KindOf(o).alter = "alter" => \A f \in Facets : f \notin KindOf(o).rewrites => d[f] = e[f]
    BY <2>1, <2>2, <2>3 DEF TidyCatalog, EditsAreSeen
  <2>5. KindOf(o).alter = "recreate" => \A x \in Objects : o \notin Needs[x]
    BY <2>1 DEF TidyCatalog, DropsAreLeaves, Recreated
  <2>6. KindOf(o).alter = "replace" => Replaceable(o, d, e)
    BY <2>1, <2>2, <2>3 DEF TidyCatalog, EditsAreAccepted
  <2>7. DownsAreAccepted /\ KindOf(o).alter = "replace" => Replaceable(o, e, d)
    BY <2>1, <2>2, <2>3 DEF DownsAreAccepted
  <2> QED BY <2>3, <2>4, <2>5, <2>6, <2>7
<1> QED BY <1>2, <1>3, <1>4, <1>a, <1>5, <1>6

LEMMA UpChange ==
  ASSUME TidyCatalog, NEW s \in Schemas, NEW t \in Edits(s), NEW o \in Objects, s[o] # t[o],
         NEW d \in States, Fitting(d), d[o] = s[o], Ready(d, o)
  PROVE  Leads(d, SQL(ChangeOf(s, t, o)), [d EXCEPT ![o] = t[o]])
<1>1. PICK c : c = ChangeOf(s, t, o) OBVIOUS
<1>2. c.obj = o /\ c.new = t[o] BY <1>1 DEF ChangeOf, Change
<1>3. KeysDistinct /\ ColumnsStay BY DEF TidyCatalog
<1>4. CASE ~Has(s, o)
  <2>1. c.op = "create" BY <1>1, <1>4 DEF ChangeOf, Change
  <2>2. ~Has(d, o) BY <1>4 DEF Has
  <2>3. SQL(c) = CreateSQL(o, t[o]) BY <1>2, <2>1 DEF SQL
  <2>4. PICK def : def = t[o] OBVIOUS
  <2>5. def \in Versions[o] /\ KindOf(o).create # "broken" BY <1>4, <2>4, OneEdit
  <2>6. Shows(d, o, def) BY <1>3, <2>5, ColumnsAreThere
  <2>7. Leads(d, CreateSQL(o, def), [d EXCEPT ![o] = def]) BY <2>2, <2>5, <2>6, CreateWorks
  <2> QED BY <1>1, <2>3, <2>4, <2>7
<1>5. CASE Has(s, o) /\ ~Has(t, o)
  <2>1. c.op = "drop" BY <1>1, <1>5 DEF ChangeOf, Change
  <2>2. Has(d, o) /\ t[o] = Absent BY <1>5 DEF Has
  <2>3. SQL(c) = DropSQL(o) BY <1>2, <2>1 DEF SQL
  <2>4. Unneeded(d, o) BY <1>5, OneEdit DEF Unneeded
  <2> QED BY <1>1, <1>3, <2>2, <2>3, <2>4, DropWorks
<1>6. CASE Has(s, o) /\ Has(t, o)
  <2>1. c.op = "alter" BY <1>1, <1>6 DEF ChangeOf, Change
  <2>2. Has(d, o) BY <1>6 DEF Has
  <2>3. SQL(c) = AlterSQL(o, t[o]) BY <1>2, <2>1 DEF SQL
  <2>4. KindOf(o).alter = "recreate" => Unneeded(d, o) /\ o \notin Needs[o]
    BY <1>6, OneEdit DEF Unneeded
  <2>5. KindOf(o).alter = "alter" =>
          \A f \in Facets : f \notin KindOf(o).rewrites => t[o][f] = d[o][f]
    BY <1>6, OneEdit
  <2>6. PICK def : def = t[o] OBVIOUS
  <2>7. def \in [Facets -> Nat] /\ KindOf(o).create # "broken" /\ def \in Versions[o]
    BY <1>6, <2>6, OneEdit
  <2>9. Shows(d, o, def) /\ Stripped(d, o, def) = {} BY <1>3, <2>7, ColumnsAreThere
  <2>10. KindOf(o).alter = "replace" => Replaceable(o, d[o], def) BY <1>6, <2>6, OneEdit
  <2>8. Leads(d, AlterSQL(o, def), [d EXCEPT ![o] = def])
    BY <1>3, <2>2, <2>4, <2>5, <2>6, <2>7, <2>9, <2>10, AlterWorks
  <2> QED BY <1>1, <2>3, <2>6, <2>8
<1> QED BY <1>4, <1>5, <1>6

LEMMA DownChange ==
  ASSUME TidyCatalog, DownsAreAccepted,
         NEW s \in Schemas, NEW t \in Edits(s), NEW o \in Objects, s[o] # t[o],
         NEW d \in States, Fitting(d), d[o] = t[o], Ready(d, o), ~Has(s, o) => Unneeded(d, o),
         IsReversible(ChangeOf(s, t, o))
  PROVE  Leads(d, DownSQL(ChangeOf(s, t, o)), [d EXCEPT ![o] = s[o]])
<1>1. PICK c : c = ChangeOf(s, t, o) OBVIOUS
<1>2. c.obj = o /\ c.was = o /\ c.old = s[o] BY <1>1 DEF ChangeOf, Change
<1>3. KeysDistinct /\ ColumnsStay /\ IsReversible(c) BY <1>1 DEF TidyCatalog
<1>4. CASE ~Has(s, o)
  <2>1. c.op = "create" BY <1>1, <1>4 DEF ChangeOf, Change
  <2>2. Has(d, o) /\ s[o] = Absent BY <1>4 DEF Has
  <2>3. DownSQL(c) = DropSQL(o) BY <1>2, <1>3, <2>1 DEF DownSQL
  <2> QED BY <1>1, <1>3, <1>4, <2>2, <2>3, DropWorks
<1>5. CASE Has(s, o) /\ ~Has(t, o)
  <2>1. c.op = "drop" BY <1>1, <1>5 DEF ChangeOf, Change
  <2>2. ~Has(d, o) BY <1>5 DEF Has
  <2>3. DownSQL(c) = CreateSQL(o, Restored(o, s[o])) BY <1>2, <1>3, <2>1 DEF DownSQL
  <2>4. PICK def : def = s[o] OBVIOUS
  <2>5. def \in Versions[o] /\ KindOf(o).create # "broken" /\ o \in Removable
    BY <1>5, <2>4, OneEdit
  <2>6. Shows(d, o, def) BY <1>3, <2>5, ColumnsAreThere
  <2>7. Leads(d, CreateSQL(o, def), [d EXCEPT ![o] = def]) BY <2>2, <2>5, <2>6, CreateWorks
  <2>8. Restored(o, def) = def BY <2>5 DEF DownsAreAccepted
  <2> QED BY <1>1, <2>3, <2>4, <2>7, <2>8
<1>6. CASE Has(s, o) /\ Has(t, o)
  <2>1. c.op = "alter" BY <1>1, <1>6 DEF ChangeOf, Change
  <2>2. Has(d, o) BY <1>6 DEF Has
  <2>3. DownSQL(c) = AlterSQL(o, s[o]) BY <1>2, <1>3, <2>1 DEF DownSQL
  <2>4. KindOf(o).alter = "recreate" => Unneeded(d, o) /\ o \notin Needs[o]
    BY <1>6, OneEdit DEF Unneeded
  <2>5. KindOf(o).alter = "alter" =>
          \A f \in Facets : f \notin KindOf(o).rewrites => s[o][f] = d[o][f]
    BY <1>6, OneEdit
  <2>6. PICK def : def = s[o] OBVIOUS
  <2>7. def \in [Facets -> Nat] /\ KindOf(o).create # "broken" /\ def \in Versions[o]
    BY <1>6, <2>6, OneEdit
  <2>9. Shows(d, o, def) /\ Stripped(d, o, def) = {} BY <1>3, <2>7, ColumnsAreThere
  <2>10. KindOf(o).alter = "replace" => Replaceable(o, d[o], def) BY <1>6, <2>6, OneEdit
  <2>8. Leads(d, AlterSQL(o, def), [d EXCEPT ![o] = def])
    BY <1>3, <2>2, <2>4, <2>5, <2>6, <2>7, <2>9, <2>10, AlterWorks
  <2> QED BY <1>1, <2>3, <2>6, <2>8
<1> QED BY <1>4, <1>5, <1>6

-----------------------------------------------------------------------------
(* Lists of changes that cover a set of objects. *)

\* The changes of the objects of a list, in the order of the list.
ChangesOf(s, t, list) == [i \in DOMAIN list |-> ChangeOf(s, t, list[i])]

\* The list has each of the objects once, and what one of them needs is in s, is changed
\* before or comes earlier in the list.
Covers(s, t, list, objects, before) ==
  /\ list \in Seq(Objects) /\ Elements(list) = objects /\ Distinct(list)
  /\ \A i \in 1..Len(list) : Has(t, list[i]) =>
       \A x \in Needs[list[i]] : Has(s, x) \/ x \in before \/ \E j \in 1..(i - 1) : list[j] = x

LEMMA BothParts ==
  ASSUME NEW S, NEW one \in Seq(S), NEW two \in Seq(S), NEW n \in Nat, NEW m \in Nat,
         n = Len(one), m = Len(two)
  PROVE  /\ one \o two \in Seq(S) /\ Len(one \o two) = n + m
         /\ \A i \in 1..n : (one \o two)[i] = one[i]
         /\ \A i \in 1..m : (one \o two)[n + i] = two[i]
OBVIOUS

Apart(A, B, P, Q) == A \cap B = {} /\ Q = P \cup A

LEMMA CoversBoth ==
  ASSUME NEW s, NEW t, NEW one, NEW two, NEW both, both = one \o two,
         NEW A, NEW B, NEW P, NEW Q, Apart(A, B, P, Q),
         Covers(s, t, one, A, P), Covers(s, t, two, B, Q)
  PROVE  Covers(s, t, both, A \cup B, P)
<1>0. one \in Seq(Objects) /\ two \in Seq(Objects) BY DEF Covers
<1>1. PICK n \in Nat, m \in Nat : n = Len(one) /\ m = Len(two) BY <1>0
<1>2. both = one \o two /\ Q = P \cup A /\ A \cap B = {} BY DEF Apart
<1>3. /\ both \in Seq(Objects) /\ Len(both) = n + m
      /\ \A i \in 1..n : both[i] = one[i]
      /\ \A i \in 1..m : both[n + i] = two[i]
  BY <1>0, <1>1, <1>2
<1>4. \A i \in 1..(n + m) : i \in 1..n \/ (i - n \in 1..m /\ n + (i - n) = i) OBVIOUS
<1>5. Elements(both) = A \cup B BY <1>0, <1>2, BothElements DEF Covers
<1>6. Distinct(both) BY <1>0, <1>2, BothDistinct DEF Covers
<1>7. ASSUME NEW i \in 1..(n + m), Has(t, both[i]), NEW x \in Needs[both[i]]
      PROVE  Has(s, x) \/ x \in P \/ \E j \in 1..(i - 1) : both[j] = x
  <2>1. CASE i \in 1..n
    <3>1. both[i] = one[i] BY <1>3, <2>1
    <3>2. Has(s, x) \/ x \in P \/ \E j \in 1..(i - 1) : one[j] = x
      BY <1>1, <1>7, <2>1, <3>1 DEF Covers
    <3>3. \A j \in 1..(i - 1) : both[j] = one[j] BY <1>3, <2>1
    <3> QED BY <3>2, <3>3
  <2>2. CASE i - n \in 1..m /\ n + (i - n) = i
    <3>1. PICK k \in 1..m : k = i - n BY <2>2
    <3>2. both[i] = two[k] BY <1>3, <2>2, <3>1
    <3>3. Has(s, x) \/ x \in P \cup A \/ \E j \in 1..(k - 1) : two[j] = x
      BY <1>1, <1>2, <1>7, <3>2 DEF Covers
    <3>4. CASE x \in A
      <4>1. PICK j \in 1..n : one[j] = x BY <1>1, <3>4 DEF Covers, Elements
      <4>2. j \in 1..(i - 1) /\ both[j] = x BY <1>3, <3>1, <4>1
      <4> QED BY <4>2
    <3>5. CASE \E j \in 1..(k - 1) : two[j] = x
      <4>1. PICK j \in 1..(k - 1) : two[j] = x BY <3>5
      <4>2. j \in 1..m /\ n + j \in 1..(i - 1) BY <3>1
      <4>3. both[n + j] = x BY <1>3, <4>1, <4>2
      <4> QED BY <4>2, <4>3
    <3> QED BY <3>3, <3>4, <3>5
  <2> QED BY <1>4, <2>1, <2>2
<1>8. Covers(s, t, both, A \cup B, P)
  <2>1. \A i \in 1..Len(both) : Has(t, both[i]) =>
          \A x \in Needs[both[i]] : Has(s, x) \/ x \in P \/ \E j \in 1..(i - 1) : both[j] = x
    BY <1>3, <1>7
  <2> QED BY <1>3, <1>5, <1>6, <2>1 DEF Covers
<1> QED BY <1>8

Joined(one, two) == one \o two

LEMMA ChangesBoth ==
  ASSUME NEW s, NEW t, NEW one \in Seq(Objects), NEW two \in Seq(Objects),
         NEW ones, NEW twos, ones = ChangesOf(s, t, one), twos = ChangesOf(s, t, two),
         NEW both, both = Joined(one, two), NEW all, all = Joined(ones, twos)
  PROVE  all = ChangesOf(s, t, both)
<1>m. PICK n \in Nat, m \in Nat : n = Len(one) /\ m = Len(two) OBVIOUS
<1>b. both = one \o two /\ all = ones \o twos BY DEF Joined
<1>k. /\ both \in Seq(Objects) /\ Len(both) = n + m
      /\ \A i \in 1..n : both[i] = one[i]
      /\ \A i \in 1..m : both[n + i] = two[i]
  BY <1>b, <1>m
<1>j. \A i \in 1..(n + m) : i \in 1..n \/ (i - n \in 1..m /\ n + (i - n) = i) OBVIOUS
<1>1. PICK ofs : ofs = [o \in Objects |-> ChangeOf(s, t, o)] OBVIOUS
<1>2. \A list \in Seq(Objects) : ChangesOf(s, t, list) = [i \in 1..Len(list) |-> ofs[list[i]]]
  <2>1. SUFFICES ASSUME NEW list \in Seq(Objects)
                 PROVE  ChangesOf(s, t, list) = [i \in 1..Len(list) |-> ofs[list[i]]]
    OBVIOUS
  <2>2. DOMAIN list = 1..Len(list) /\ \A i \in 1..Len(list) : list[i] \in Objects OBVIOUS
  <2>3. \A i \in 1..Len(list) : ofs[list[i]] = ChangeOf(s, t, list[i]) BY <1>1, <2>2
  <2> QED BY <2>2, <2>3 DEF ChangesOf
<1>3. PICK S : S = {ofs[o] : o \in Objects} OBVIOUS
<1>4. PICK a, b, c : /\ a = [i \in 1..n |-> ofs[one[i]]] /\ b = [i \in 1..m |-> ofs[two[i]]]
                     /\ c = [i \in 1..(n + m) |-> ofs[both[i]]] OBVIOUS
<1>5. \A i \in 1..n : one[i] \in Objects BY <1>m
<1>6. \A i \in 1..m : two[i] \in Objects BY <1>m
<1>7. \A i \in 1..(n + m) : both[i] \in Objects BY <1>k
<1>8. a \in Seq(S) /\ Len(a) = n BY <1>3, <1>4, <1>5
<1>9. b \in Seq(S) /\ Len(b) = m BY <1>3, <1>4, <1>6
<1>10. c \in Seq(S) /\ Len(c) = n + m
  <2>1. PICK k \in Nat : k = n + m OBVIOUS
  <2>2. c = [i \in 1..k |-> ofs[both[i]]] /\ \A i \in 1..k : ofs[both[i]] \in S
    BY <1>3, <1>4, <1>7, <2>1
  <2>4. c \in [1..k -> S] BY <2>2
  <2>3. c \in Seq(S) /\ Len(c) = k BY <2>4
  <2> QED BY <2>1, <2>3
<1>11. PICK ab : ab = a \o b OBVIOUS
<1>12. /\ ab \in Seq(S) /\ Len(ab) = n + m
       /\ \A i \in 1..n : ab[i] = a[i]
       /\ \A i \in 1..m : ab[n + i] = b[i]
  <2>1. n = Len(a) /\ m = Len(b) BY <1>8, <1>9
  <2>2. a \in Seq(S) /\ b \in Seq(S) /\ n \in Nat /\ m \in Nat BY <1>8, <1>9
  <2>3. /\ a \o b \in Seq(S) /\ Len(a \o b) = n + m
        /\ \A i \in 1..n : (a \o b)[i] = a[i]
        /\ \A i \in 1..m : (a \o b)[n + i] = b[i]
    BY <2>1, <2>2, BothParts
  <2> QED BY <1>11, <2>3
<1>13. ASSUME NEW i \in 1..(n + m) PROVE ab[i] = c[i]
  <2>1. c[i] = ofs[both[i]] BY <1>4
  <2>2. CASE i \in 1..n BY <1>k, <1>4, <1>12, <2>1, <2>2
  <2>3. CASE i - n \in 1..m /\ n + (i - n) = i
    <3>1. PICK k \in 1..m : k = i - n /\ n + k = i BY <2>3
    <3>2. both[i] = two[k] BY <1>k, <3>1
    <3>3. ab[i] = b[k] BY <1>12, <3>1
    <3>4. b[k] = ofs[two[k]] BY <1>4
    <3> QED BY <2>1, <3>2, <3>3, <3>4
  <2> QED BY <1>j, <2>2, <2>3
<1>14. ab = c BY <1>10, <1>12, <1>13
<1> QED BY <1>m, <1>k, <1>b, <1>2, <1>4, <1>11, <1>14

LEMMA CoversNone == ASSUME NEW s, NEW t, NEW P PROVE Covers(s, t, <<>>, {}, P)
<1>1. PICK none : none = <<>> OBVIOUS
<1>2. none \in Seq(Objects) /\ Len(none) = 0 /\ 1..0 = {} BY <1>1
<1> QED BY <1>1, <1>2 DEF Covers, Elements, Distinct

\* The order in which introspection lists the objects has each of them once.
LEMMA OrderIs ==
  ASSUME NEW order \in Orders
  PROVE  order \in Seq(Objects) /\ Elements(order) = Objects /\ Distinct(order)
<1>1. PICK n \in Nat : Objects = 1..n BY ObjectsAreNumbered
<1>2. PICK p \in Bijection(Tables, Tables) :
        order = [o \in Objects |-> IF IsTable(o) THEN p[o] ELSE o] BY DEF Orders
<1>3. /\ p \in [Tables -> Tables] /\ \A x, y \in Tables : p[x] = p[y] => x = y
      /\ \A y \in Tables : \E x \in Tables : p[x] = y
  BY DEF Bijection, Injection, Surjection, IsInjective
<1>4. \A o \in Objects : IsTable(o) <=> o \in Tables BY DEF Tables
<1>5. Tables \subseteq Objects BY DEF Tables
<1>6. order \in Seq(Objects) /\ Len(order) = n
  <2>1. order \in [1..n -> Objects] BY <1>1, <1>2, <1>3, <1>4, <1>5
  <2> QED BY <2>1
<1>7. \A x, y \in Objects : order[x] = order[y] => x = y BY <1>2, <1>3, <1>4
<1>8. ASSUME NEW o \in Objects PROVE \E x \in Objects : order[x] = o
  <2>1. CASE IsTable(o)
    <3>1. PICK x \in Tables : p[x] = o BY <1>3, <1>4, <2>1
    <3> QED BY <1>2, <1>4, <1>5, <3>1
  <2>2. CASE ~IsTable(o) BY <1>2, <2>2
  <2> QED BY <2>1, <2>2
<1>9. \A x \in Objects : order[x] \in Objects BY <1>1, <1>6
<1>10. Elements(order) = Objects BY <1>1, <1>6, <1>8, <1>9 DEF Elements
<1>11. Distinct(order) BY <1>1, <1>6, <1>7 DEF Distinct
<1> QED BY <1>6, <1>10, <1>11

LEMMA ListedIs ==
  ASSUME NEW order \in Orders, NEW s, NEW kind, NEW set, NEW list,
         list = Among(Listed(s, kind, order), set)
  PROVE  /\ list \in Seq(Objects) /\ Distinct(list)
         /\ Elements(list) = {o \in Objects : Catalog[o].kind = kind /\ Has(s, o)} \cap set
<1>1. order \in Seq(Objects) /\ Elements(order) = Objects /\ Distinct(order) BY OrderIs
<1>2. PICK kept : kept = {o \in Objects : Catalog[o].kind = kind /\ Has(s, o)} OBVIOUS
<1>3. PICK all : all = Among(order, kept) OBVIOUS
<1>4. all \in Seq(Objects \cap kept) BY <1>1, <1>3, AmongType
<1>5. Elements(all) = Objects \cap kept /\ Distinct(all) BY <1>1, <1>3, AmongIs
<1>6. kept \subseteq Objects BY <1>2
<1>7. all \in Seq(Objects) BY <1>4, <1>6
<1>8. all = Listed(s, kind, order) BY <1>2, <1>3 DEF Listed
<1>9. list = Among(all, set) BY <1>8
<1>10. list \in Seq(Objects \cap set) BY <1>7, <1>9, AmongType
<1>11. list \in Seq(Objects) BY <1>10
<1>12. Elements(list) = Elements(all) \cap set /\ Distinct(list) BY <1>5, <1>7, <1>9, AmongIs
<1> QED BY <1>2, <1>5, <1>6, <1>11, <1>12

-----------------------------------------------------------------------------
(* The changes of one kind. *)

\* The objects of a kind that an edit changes.
ChangedOf(s, t, kind) == {o \in Objects : Catalog[o].kind = kind /\ s[o] # t[o]}

\* What the maps of Compare hold under the key of an object: the object, if there is one.
LEMMA KeyHolds ==
  ASSUME KeysDistinct, NEW s, NEW o \in Objects
  PROVE  (SameKey(s, o) = {} <=> ~Has(s, o)) /\ (Has(s, o) => Entry(s, o) = o)
<1>1. CASE Has(s, o)
  <2>1. SameKey(s, o) = {o} /\ Entry(s, o) = o BY <1>1, SameKeyIsSame
  <2> QED BY <1>1, <2>1
<1>2. CASE ~Has(s, o)
  <2>1. SameKey(s, o) = {} BY <1>2 DEF SameKey, KeysDistinct
  <2> QED BY <1>2, <2>1
<1> QED BY <1>1, <1>2

LEMMA CreationIs ==
  ASSUME NEW s, NEW t, NEW o, ~Has(s, o) PROVE Creation(t, o) = ChangeOf(s, t, o)
BY DEF Creation, ChangeOf, Has

LEMMA RemovalIs ==
  ASSUME NEW s, NEW t, NEW o, Has(s, o), ~Has(t, o) PROVE Removal(s, o) = ChangeOf(s, t, o)
BY DEF Removal, ChangeOf, Has

LEMMA AlterationIs ==
  ASSUME KeysDistinct, NEW s, NEW t, NEW o \in Objects, Has(s, o), Has(t, o)
  PROVE  Alteration(s, t, o) = ChangeOf(s, t, o)
BY KeyHolds DEF Alteration, ChangeOf

\* An altered object is one that both schemas have, with different definitions.
LEMMA DiffersIs ==
  ASSUME TidyCatalog, NEW s \in Schemas, NEW t \in Edits(s), NEW o \in Objects,
         Has(s, o), Has(t, o)
  PROVE  Differs(o, s[Entry(s, o)], t[o]) <=> s[o] # t[o]
<1>1. Entry(s, o) = o BY KeyHolds DEF TidyCatalog
<1>2. CASE s[o] = t[o]
  <2>1. s[o] \in [Facets -> Nat] BY AbsentOrDefined
  <2>2. PICK d : d = s[o] OBVIOUS
  <2>3. ~Differs(o, d, d) BY <2>1, <2>2, NoDifference
  <2> QED BY <1>1, <1>2, <2>2, <2>3
<1>3. CASE s[o] # t[o]
  <2>1. Differs(o, s[o], t[o]) BY <1>3, OneEdit
  <2> QED BY <1>1, <1>3, <2>1
<1> QED BY <1>2, <1>3

LEMMA RemovedIs ==
  ASSUME TidyCatalog, NEW s \in Schemas, NEW t \in Edits(s), NEW order \in Orders, NEW kind,
         NEW P, NEW list, list = Removed(s, t, kind, order)
  PROVE  /\ Removals(s, list) = ChangesOf(s, t, list)
         /\ Covers(s, t, list, {o \in ChangedOf(s, t, kind) : ~Has(t, o)}, P)
<1>1. PICK set : set = {o \in Objects : SameKey(t, o) = {}} OBVIOUS
<1>2. list = Among(Listed(s, kind, order), set) BY <1>1 DEF Removed
<1>3. /\ list \in Seq(Objects) /\ Distinct(list)
      /\ Elements(list) = {o \in Objects : Catalog[o].kind = kind /\ Has(s, o)} \cap set
  BY <1>2, ListedIs
<1>4. KeysDistinct BY DEF TidyCatalog
<1>5. set = {o \in Objects : ~Has(t, o)} BY <1>1, <1>4, KeyHolds
<1>6. Elements(list) = {o \in ChangedOf(s, t, kind) : ~Has(t, o)}
  BY <1>3, <1>5 DEF ChangedOf, Has
<1>7. \A i \in 1..Len(list) : list[i] \in Elements(list) BY DEF Elements
<1>8. \A i \in 1..Len(list) : Has(s, list[i]) /\ ~Has(t, list[i])
  BY <1>3, <1>5, <1>7
<1>9. DOMAIN list = 1..Len(list) BY <1>3
<1>10. \A i \in DOMAIN list : Removal(s, list[i]) = ChangeOf(s, t, list[i])
  BY <1>8, <1>9, RemovalIs
<1>11. Removals(s, list) = ChangesOf(s, t, list) BY <1>10 DEF Removals, ChangesOf
<1> QED BY <1>3, <1>6, <1>8, <1>11 DEF Covers

LEMMA KindCovered ==
  ASSUME TidyCatalog, NEW s \in Schemas, NEW t \in Edits(s), NEW order \in Orders, NEW kind,
         NEW P,
         \A o \in ChangedOf(s, t, kind) : Has(t, o) =>
           \A x \in Needs[o] : Has(s, x) \/ x \in P
  PROVE  \E list : /\ compareKind(s, t, kind, order) = ChangesOf(s, t, list)
                   /\ Covers(s, t, list, ChangedOf(s, t, kind), P)
<1>0. KeysDistinct BY DEF TidyCatalog
<1>1. PICK set : set = {o \in Objects : \/ SameKey(s, o) = {}
                                        \/ Differs(o, s[Entry(s, o)], t[o])} OBVIOUS
<1>2. PICK kept : kept = Among(Listed(t, kind, order), set) OBVIOUS
<1>3. /\ kept \in Seq(Objects) /\ Distinct(kept)
      /\ Elements(kept) = {o \in Objects : Catalog[o].kind = kind /\ Has(t, o)} \cap set
  BY <1>2, ListedIs
<1>4. ASSUME NEW o \in Objects, Has(t, o) PROVE o \in set <=> s[o] # t[o]
  <2>1. CASE ~Has(s, o)
    <3>1. SameKey(s, o) = {} BY <1>0, <2>1, KeyHolds
    <3>2. s[o] # t[o] BY <1>4, <2>1 DEF Has
    <3> QED BY <1>1, <3>1, <3>2
  <2>2. CASE Has(s, o)
    <3>1. SameKey(s, o) # {} BY <1>0, <2>2, KeyHolds
    <3>2. Differs(o, s[Entry(s, o)], t[o]) <=> s[o] # t[o] BY <1>4, <2>2, DiffersIs
    <3> QED BY <1>1, <3>1, <3>2
  <2> QED BY <2>1, <2>2
<1>5. PICK A : A = {o \in ChangedOf(s, t, kind) : Has(t, o)} OBVIOUS
<1>6. Elements(kept) = A BY <1>3, <1>4, <1>5 DEF ChangedOf
<1>7. DOMAIN kept = 1..Len(kept) BY <1>3
<1>8. \A i \in 1..Len(kept) : kept[i] \in A BY <1>6 DEF Elements
<1>9. Covers(s, t, kept, A, P)
  <2>1. \A i \in 1..Len(kept) : \A x \in Needs[kept[i]] : Has(s, x) \/ x \in P
    BY <1>5, <1>8
  <2> QED BY <1>3, <1>6, <2>1 DEF Covers
<1>10. PICK ups : ups = [i \in DOMAIN kept |->
                           IF SameKey(s, kept[i]) = {} THEN Creation(t, kept[i])
                           ELSE Alteration(s, t, kept[i])] OBVIOUS
<1>11. ASSUME NEW i \in DOMAIN kept
       PROVE  (IF SameKey(s, kept[i]) = {} THEN Creation(t, kept[i])
               ELSE Alteration(s, t, kept[i])) = ChangeOf(s, t, kept[i])
  <2>1. PICK o \in Objects : o = kept[i] BY <1>3, <1>7
  <2>2. Has(t, o) BY <1>5, <1>7, <1>8, <2>1
  <2>3. CASE Has(s, o)
    <3>1. SameKey(s, o) # {} BY <1>0, <2>3, KeyHolds
    <3> QED BY <1>0, <2>1, <2>2, <2>3, <3>1, AlterationIs
  <2>4. CASE ~Has(s, o)
    <3>1. SameKey(s, o) = {} BY <1>0, <2>4, KeyHolds
    <3> QED BY <2>1, <2>4, <3>1, CreationIs
  <2> QED BY <2>3, <2>4
<1>12. ups = ChangesOf(s, t, kept) BY <1>10, <1>11 DEF ChangesOf
<1>13. PICK gone : gone = Removed(s, t, kind, order) OBVIOUS
<1>14. PICK B : B = {o \in ChangedOf(s, t, kind) : ~Has(t, o)} OBVIOUS
<1>c. PICK Q, both : Q = P \cup A /\ both = kept \o gone OBVIOUS
<1>15. Removals(s, gone) = ChangesOf(s, t, gone) /\ Covers(s, t, gone, B, Q)
  BY <1>13, <1>14, RemovedIs
<1>16. A \cap B = {} /\ A \cup B = ChangedOf(s, t, kind) BY <1>5, <1>14
<1>17. Covers(s, t, both, A \cup B, P)
  <2>1. both = kept \o gone /\ Q = P \cup A BY <1>c
  <2>2. Apart(A, B, P, Q) BY <1>16, <2>1 DEF Apart
  <2>3. Covers(s, t, kept, A, P) BY <1>9
  <2>4. Covers(s, t, gone, B, Q) BY <1>15
  <2> QED BY <2>1, <2>2, <2>3, <2>4, CoversBoth
<1>18. PICK downs : downs = Removals(s, gone) OBVIOUS
<1>d. PICK all : all = ups \o downs OBVIOUS
<1>19. all = ChangesOf(s, t, both)
  <2>1. kept \in Seq(Objects) /\ gone \in Seq(Objects) BY <1>3, <1>15 DEF Covers
  <2>2. ups = ChangesOf(s, t, kept) /\ downs = ChangesOf(s, t, gone) BY <1>12, <1>15, <1>18
  <2>3. both = Joined(kept, gone) /\ all = Joined(ups, downs) BY <1>c, <1>d DEF Joined
  <2> QED BY <2>1, <2>2, <2>3, ChangesBoth
<1>20. compareKind(s, t, kind, order) = all
  BY <1>1, <1>2, <1>10, <1>13, <1>18, <1>d DEF compareKind
<1> QED BY <1>16, <1>17, <1>19, <1>20

LEMMA ObjectsFinite == ASSUME NEW A \in SUBSET Objects PROVE IsFiniteSet(A)
<1>1. PICK n \in Nat : Objects = 1..n BY ObjectsAreNumbered
<1>2. IsFiniteSet(1..n) BY FS_Interval
<1> QED BY <1>1, <1>2, FS_Subset

\* The foreign keys among some tables: those of each of them, to others of them.
Referenced(deps, A) ==
  /\ DOMAIN deps = A /\ Keyed(deps)
  /\ \A o \in A : Elements(deps[o]) = {x \in Needs[o] : x # o /\ IsTable(x) /\ x \in A}

LEMMA DepsAre ==
  ASSUME NEW new \in Seq(Objects), NEW A, A = Elements(new), NEW deps, deps = DepsAmong(new)
  PROVE  Referenced(deps, A)
<1>1. ToSet(new) = A
  <2>1. DOMAIN new = 1..Len(new) OBVIOUS
  <2> QED BY <2>1 DEF ToSet, Elements
<1>2. A \subseteq Objects BY DEF Elements
<1>3. deps = [o \in A |-> Among(ForeignKeys(o), A)] BY <1>1 DEF DepsAmong
<1>4. ASSUME NEW o \in A
      PROVE  /\ Among(ForeignKeys(o), A) \in Seq(A)
             /\ Elements(Among(ForeignKeys(o), A)) =
                  {x \in Needs[o] : x # o /\ IsTable(x) /\ x \in A}
  <2>1. PICK keys : keys = {x \in Needs[o] \ {o} : Catalog[x].kind = "table"} OBVIOUS
  <2>2. keys \subseteq Objects BY <1>2, <2>1, CatalogAssumption
  <2>3. IsFiniteSet(keys) BY <2>2, ObjectsFinite
  <2>4. PICK list : list = ForeignKeys(o) OBVIOUS
  <2>5. list = SetToSeq(keys) BY <2>1, <2>4 DEF ForeignKeys
  <2>6. list \in Seq(keys) /\ Elements(list) = keys BY <2>3, <2>5, SetListed
  <2>7. Among(list, A) \in Seq(keys \cap A) BY <2>6, AmongType
  <2>8. Elements(Among(list, A)) = keys \cap A BY <2>6, AmongIs
  <2>9. keys \cap A \subseteq A OBVIOUS
  <2>10. PICK few : few = keys \cap A OBVIOUS
  <2>11. \A l \in Seq(few) : l \in Seq(A) BY <2>9, <2>10
  <2>12. Among(list, A) \in Seq(A) BY <2>7, <2>10, <2>11
  <2> QED BY <2>1, <2>4, <2>8, <2>12 DEF IsTable
<1>5. DOMAIN deps = A BY <1>3
<1>6. Keyed(deps) BY <1>3, <1>4, <1>5 DEF Keyed
<1> QED BY <1>3, <1>4, <1>5, <1>6 DEF Referenced

\* Among fewer tables there is no cycle either.
LEMMA FewerRanks ==
  ASSUME NeedsComeFirst, NEW A \in SUBSET Tables
  PROVE  \E rank \in [A -> 0..(Cardinality(A) - 1)] :
           \A o \in A : \A x \in Needs[o] \cap A : rank[x] < rank[o]
<1>1. PICK high \in [Tables -> 1..Cardinality(Tables)] :
        \A o \in Tables : \A x \in Needs[o] \cap Tables : high[x] < high[o]
  BY DEF NeedsComeFirst
<1>2. IsFiniteSet(Tables) BY ObjectsFinite DEF Tables
<1>3. \A o \in Tables : high[o] \in Nat
  <2>1. Cardinality(Tables) \in Nat BY <1>2, FS_CardinalityType
  <2> QED BY <1>1, <2>1
<1>4. IsFiniteSet(A) BY <1>2, FS_Subset
<1>5. Cardinality(A) \in Nat BY <1>4, FS_CardinalityType
<1>6. PICK under : under = [o \in A |-> {y \in A : high[y] < high[o]}] OBVIOUS
<1>7. ASSUME NEW o \in A
      PROVE  /\ under[o] \in SUBSET A /\ IsFiniteSet(under[o])
             /\ Cardinality(under[o]) \in 0..(Cardinality(A) - 1)
  <2>1. under[o] \in SUBSET A /\ o \notin under[o]
    BY <1>3, <1>6
  <2>2. /\ IsFiniteSet(under[o]) /\ Cardinality(under[o]) <= Cardinality(A)
        /\ Cardinality(A) = Cardinality(under[o]) => A = under[o]
    BY <1>4, <2>1, FS_Subset
  <2>3. Cardinality(under[o]) \in Nat BY <2>2, FS_CardinalityType
  <2>4. Cardinality(A) # Cardinality(under[o]) BY <2>1, <2>2
  <2> QED BY <1>5, <2>1, <2>2, <2>3, <2>4
<1>8. PICK rank : rank = [o \in A |-> Cardinality(under[o])] OBVIOUS
<1>9. rank \in [A -> 0..(Cardinality(A) - 1)] BY <1>7, <1>8
<1>10. ASSUME NEW o \in A, NEW x \in Needs[o] \cap A PROVE rank[x] < rank[o]
  <2>1. high[x] < high[o] BY <1>1
  <2>2. under[x] \in SUBSET under[o] /\ x \in under[o] /\ x \notin under[x]
    BY <1>3, <1>6, <2>1
  <2>3. IsFiniteSet(under[o]) /\ IsFiniteSet(under[x]) BY <1>7
  <2>4. /\ Cardinality(under[x]) <= Cardinality(under[o])
        /\ Cardinality(under[o]) = Cardinality(under[x]) => under[o] = under[x]
    BY <2>2, <2>3, FS_Subset
  <2>5. Cardinality(under[x]) \in Nat /\ Cardinality(under[o]) \in Nat BY <2>3, FS_CardinalityType
  <2>6. Cardinality(under[x]) < Cardinality(under[o]) BY <2>2, <2>4, <2>5
  <2> QED BY <1>8, <2>6
<1> QED BY <1>9, <1>10

-----------------------------------------------------------------------------
(* The changes of the tables. *)

\* The new tables are created in an order in which each finds those that it references.
LEMMA NewTablesCovered ==
  ASSUME TidyCatalog, NEW s \in Schemas, NEW t \in Edits(s), NEW order \in Orders, NEW P,
         NEW A, A = {o \in ChangedOf(s, t, "table") : ~Has(s, o)},
         \A o \in A : \A x \in Needs[o] : Has(s, x) \/ x \in P \/ IsTable(x),
         NEW new, new = Created(s, t, "table", order),
         NEW sorted, sorted = sortTablesByDependency(new, DepsAmong(new))
  PROVE  Covers(s, t, sorted, A, P)
<1>0. KeysDistinct /\ NeedsComeFirst /\ t \in Schemas BY DEF TidyCatalog, Edits
<1>1. PICK set : set = {o \in Objects : SameKey(s, o) = {}} OBVIOUS
<1>2. new = Among(Listed(t, "table", order), set) BY <1>1 DEF Created
<1>3. /\ new \in Seq(Objects)
      /\ Elements(new) = {o \in Objects : Catalog[o].kind = "table" /\ Has(t, o)} \cap set
  BY <1>2, ListedIs
<1>4. set = {o \in Objects : ~Has(s, o)} BY <1>0, <1>1, KeyHolds
<1>5. Elements(new) = A BY <1>3, <1>4 DEF ChangedOf, Has
<1>6. A \in SUBSET Tables /\ A \subseteq Objects BY DEF ChangedOf, Tables, IsTable
<1>7. PICK deps : deps = DepsAmong(new) OBVIOUS
<1>8. /\ DOMAIN deps = A /\ Keyed(deps)
      /\ \A o \in A : Elements(deps[o]) = {x \in Needs[o] : x # o /\ IsTable(x) /\ x \in A}
  <2>1. PICK list \in Seq(Objects) : list = new BY <1>3
  <2>2. A = Elements(list) /\ deps = DepsAmong(list) BY <1>5, <1>7, <2>1
  <2>3. Referenced(deps, A) BY <2>2, DepsAre
  <2> QED BY <2>3 DEF Referenced
<1>9. ASSUME NEW o \in A, NEW d \in DOMAIN deps[o] PROVE deps[o][d] \in Needs[o] \cap A
  <2>1. deps[o] \in Seq(A) BY <1>8 DEF Keyed
  <2>2. DOMAIN deps[o] = 1..Len(deps[o]) BY <2>1
  <2>3. deps[o][d] \in Elements(deps[o]) BY <2>2 DEF Elements
  <2> QED BY <1>8, <2>3
<1>10. Acyclic(deps)
  <2>1. PICK rank \in [A -> 0..(Cardinality(A) - 1)] :
          \A o \in A : \A x \in Needs[o] \cap A : rank[x] < rank[o]
    BY <1>0, <1>6, FewerRanks
  <2>2. \A o \in A : \A d \in DOMAIN deps[o] : rank[deps[o][d]] < rank[o]
    BY <1>9, <2>1
  <2>3. IsFiniteSet(A) BY <1>6, ObjectsFinite
  <2> QED BY <1>8, <2>1, <2>2, <2>3 DEF Acyclic
<1>11. new \in Seq(A)
  <2>1. \A i \in 1..Len(new) : new[i] \in A BY <1>5 DEF Elements
  <2>2. PICK n \in Nat : n = Len(new) /\ new = [i \in 1..n |-> new[i]] BY <1>3
  <2>3. new \in [1..n -> A] BY <2>1, <2>2
  <2> QED BY <2>3, FunctionIsList
<1>12. PICK D : D = DOMAIN deps OBVIOUS
<1>13. /\ sorted \in Seq(D) /\ Elements(sorted) = D /\ Ordered(deps, sorted)
  BY <1>5, <1>7, <1>8, <1>10, <1>11, <1>12, TablesSorted
<1>14. sorted \in Seq(Objects)
  <2>1. D \subseteq Objects BY <1>6, <1>8, <1>12
  <2>2. \A l \in Seq(D) : l \in Seq(Objects) BY <2>1
  <2> QED BY <1>13, <2>2
<1>15. Distinct(sorted) BY <1>13 DEF Ordered, Distinct
<1>16. ASSUME NEW i \in 1..Len(sorted), NEW x \in Needs[sorted[i]]
       PROVE  Has(s, x) \/ x \in P \/ \E j \in 1..(i - 1) : sorted[j] = x
  <2>1. PICK o : o = sorted[i] OBVIOUS
  <2>2. o \in A BY <1>8, <1>12, <1>13, <2>1 DEF Elements
  <2>3. SUFFICES ASSUME ~Has(s, x), IsTable(x) PROVE \E j \in 1..(i - 1) : sorted[j] = x
    BY <2>1, <2>2
  <2>4. x \in Objects /\ x \in Needs[o] BY <1>6, <2>1, <2>2, CatalogAssumption
  <2>5. Has(t, o) BY <2>2 DEF ChangedOf, Has
  <2>6. Has(t, x) BY <1>0, <1>6, <2>2, <2>4, <2>5 DEF Schemas, Ready
  <2>7. x \in A BY <2>3, <2>4, <2>6 DEF ChangedOf, IsTable, Has
  <2>8. x # o
    <3>1. PICK rank \in [Tables -> 1..Cardinality(Tables)] :
            \A a \in Tables : \A b \in Needs[a] \cap Tables : rank[b] < rank[a]
      BY <1>0 DEF NeedsComeFirst
    <3>2. IsFiniteSet(Tables) BY ObjectsFinite DEF Tables
    <3>3. Cardinality(Tables) \in Nat BY <3>2, FS_CardinalityType
    <3>4. rank[o] \in Nat /\ o \in Tables BY <1>6, <2>2, <3>1, <3>3
    <3>5. x = o => rank[o] < rank[o] BY <2>4, <3>1, <3>4
    <3> QED BY <3>4, <3>5
  <2>9. x \in Elements(deps[o]) BY <1>8, <2>2, <2>3, <2>4, <2>7, <2>8
  <2>10. deps[o] \in Seq(A) BY <1>8, <2>2 DEF Keyed
  <2>11. PICK d \in DOMAIN deps[o] : deps[o][d] = x BY <2>9, <2>10 DEF Elements
  <2> QED BY <1>13, <2>1, <2>11 DEF Ordered
<1> QED BY <1>8, <1>12, <1>13, <1>14, <1>15, <1>16 DEF Covers

LEMMA AlteredTablesCovered ==
  ASSUME TidyCatalog, NEW s \in Schemas, NEW t \in Edits(s), NEW order \in Orders, NEW P,
         NEW list, list = Altered(s, t, "table", order)
  PROVE  /\ Alterations(s, t, list) = ChangesOf(s, t, list)
         /\ Covers(s, t, list,
                   {o \in ChangedOf(s, t, "table") : Has(s, o) /\ Has(t, o)}, P)
<1>0. KeysDistinct BY DEF TidyCatalog
<1>1. PICK set : set = {o \in Objects : /\ SameKey(s, o) # {}
                                        /\ Differs(o, s[Entry(s, o)], t[o])} OBVIOUS
<1>2. list = Among(Listed(t, "table", order), set) BY <1>1 DEF Altered
<1>3. /\ list \in Seq(Objects) /\ Distinct(list)
      /\ Elements(list) = {o \in Objects : Catalog[o].kind = "table" /\ Has(t, o)} \cap set
  BY <1>2, ListedIs
<1>4. ASSUME NEW o \in Objects, Has(t, o) PROVE o \in set <=> Has(s, o) /\ s[o] # t[o]
  <2>1. SameKey(s, o) # {} <=> Has(s, o) BY <1>0, KeyHolds
  <2>2. Has(s, o) => (Differs(o, s[Entry(s, o)], t[o]) <=> s[o] # t[o]) BY <1>4, DiffersIs
  <2> QED BY <1>1, <2>1, <2>2
<1>5. Elements(list) = {o \in ChangedOf(s, t, "table") : Has(s, o) /\ Has(t, o)}
  BY <1>3, <1>4 DEF ChangedOf
<1>6. \A i \in 1..Len(list) : list[i] \in Objects /\ Has(s, list[i]) /\ Has(t, list[i])
  BY <1>5 DEF Elements, ChangedOf
<1>7. DOMAIN list = 1..Len(list) BY <1>3
<1>8. \A i \in DOMAIN list : Alteration(s, t, list[i]) = ChangeOf(s, t, list[i])
  BY <1>0, <1>6, <1>7, AlterationIs
<1>9. Alterations(s, t, list) = ChangesOf(s, t, list) BY <1>8 DEF Alterations, ChangesOf
<1>10. \A i \in 1..Len(list) : \A x \in Needs[list[i]] : Has(s, x)
  BY <1>6 DEF Schemas, Ready
<1> QED BY <1>3, <1>5, <1>9, <1>10 DEF Covers

LEMMA TablesCovered ==
  ASSUME TidyCatalog, NEW s \in Schemas, NEW t \in Edits(s), NEW order \in Orders, NEW P,
         \A o \in ChangedOf(s, t, "table") : Has(t, o) =>
           \A x \in Needs[o] : Has(s, x) \/ x \in P \/ IsTable(x)
  PROVE  \E list : /\ compareTables(s, t, order) = ChangesOf(s, t, list)
                   /\ Covers(s, t, list, ChangedOf(s, t, "table"), P)
<1>1. PICK A, B, C, all : /\ all = ChangedOf(s, t, "table")
                          /\ A = {o \in ChangedOf(s, t, "table") : ~Has(s, o)}
                          /\ B = {o \in ChangedOf(s, t, "table") : ~Has(t, o)}
                          /\ C = {o \in ChangedOf(s, t, "table") : Has(s, o) /\ Has(t, o)} OBVIOUS
<1>2. A \cap B = {} /\ (A \cup B) \cap C = {} /\ (A \cup B) \cup C = all
  BY <1>1 DEF ChangedOf, Has
<1>3. \A o \in A : Has(t, o) BY <1>1 DEF ChangedOf, Has
<1>4. PICK new : new = Created(s, t, "table", order) OBVIOUS
<1>5. PICK one, two, three : /\ one = sortTablesByDependency(new, DepsAmong(new))
                             /\ two = Removed(s, t, "table", order)
                             /\ three = Altered(s, t, "table", order) OBVIOUS
<1>6. \A o \in A : \A x \in Needs[o] : Has(s, x) \/ x \in P \/ IsTable(x) BY <1>1, <1>3
<1>7. Covers(s, t, one, A, P) BY <1>1, <1>4, <1>5, <1>6, NewTablesCovered
<1>8. PICK AB, Q, R : AB = A \cup B /\ Q = P \cup A /\ R = P \cup AB OBVIOUS
<1>9. Covers(s, t, two, B, Q) /\ Removals(s, two) = ChangesOf(s, t, two)
  BY <1>1, <1>5, RemovedIs
<1>10. Covers(s, t, three, C, R) /\ Alterations(s, t, three) = ChangesOf(s, t, three)
  BY <1>1, <1>5, AlteredTablesCovered
<1>11. PICK both, list : both = one \o two /\ list = both \o three OBVIOUS
<1>12. Covers(s, t, both, AB, P)
  <2>1. Apart(A, B, P, Q) /\ both = one \o two BY <1>2, <1>8, <1>11 DEF Apart
  <2> QED BY <1>7, <1>8, <1>9, <2>1, CoversBoth
<1>13. Covers(s, t, list, all, P)
  <2>1. Apart(AB, C, P, R) /\ list = both \o three BY <1>2, <1>8, <1>11 DEF Apart
  <2>2. Covers(s, t, list, AB \cup C, P) BY <1>10, <1>12, <2>1, CoversBoth
  <2> QED BY <1>2, <1>8, <2>2
<1>14. /\ one \in Seq(Objects) /\ two \in Seq(Objects) /\ three \in Seq(Objects)
       /\ both \in Seq(Objects)
  BY <1>7, <1>9, <1>10, <1>12 DEF Covers
<1>15. PICK ones, twos, threes, boths :
         /\ ones = Creations(s, t, one) /\ twos = Removals(s, two)
         /\ threes = Alterations(s, t, three) /\ boths = ones \o twos OBVIOUS
<1>16. \A i \in 1..Len(one) : ~Has(s, one[i])
  BY <1>1, <1>7 DEF Covers, Elements
<1>17. ones = ChangesOf(s, t, one)
  <2>1. DOMAIN one = 1..Len(one) BY <1>14
  <2>2. \A i \in DOMAIN one : Creation(t, one[i]) = ChangeOf(s, t, one[i])
    BY <1>16, <2>1, CreationIs
  <2> QED BY <1>15, <2>2 DEF Creations, ChangesOf
<1>18. boths = ChangesOf(s, t, both)
  <2>1. both = Joined(one, two) /\ boths = Joined(ones, twos) BY <1>11, <1>15 DEF Joined
  <2>2. twos = ChangesOf(s, t, two) BY <1>9, <1>15
  <2> QED BY <1>14, <1>17, <2>1, <2>2, ChangesBoth
<1>19. PICK changes : changes = boths \o threes OBVIOUS
<1>20. changes = ChangesOf(s, t, list)
  <2>1. list = Joined(both, three) /\ changes = Joined(boths, threes) BY <1>11, <1>19 DEF Joined
  <2>2. threes = ChangesOf(s, t, three) BY <1>10, <1>15
  <2> QED BY <1>14, <1>18, <2>1, <2>2, ChangesBoth
<1>21. compareTables(s, t, order) = changes
  BY <1>4, <1>5, <1>15, <1>19 DEF compareTables
<1> QED BY <1>1, <1>13, <1>20, <1>21

-----------------------------------------------------------------------------
(* The changes of all kinds. *)

\* Every kind in use has one place in the order of Compare.
LEMMA KindsInPlace ==
  /\ \E n \in Nat : Len(KindsInUse) = n /\ DOMAIN KindsInUse = 1..n
  /\ Distinct(KindsInUse)
  /\ \A o \in Objects : \E i \in 1..Len(KindsInUse) : KindsInUse[i] = Catalog[o].kind
<1>1. PICK list, K : list = CompareOrder /\ K = {Catalog[o].kind : o \in Objects} OBVIOUS
<1>2. PICK S : S = {list[i] : i \in 1..29} OBVIOUS
<1>3. list \in Seq(S) /\ Len(list) = 29
  <2>1. list = [i \in 1..29 |-> list[i]]
    <3>1. CompareOrder = [i \in 1..29 |-> CompareOrder[i]] BY DEF CompareOrder
    <3> QED BY <1>1, <3>1
  <2> QED BY <1>2, <2>1
<1>4. Distinct(list) BY <1>1, <1>3, KindsListed DEF Distinct
<1>5. PICK used : used = KindsInUse OBVIOUS
<1>6. used = Among(list, K) BY <1>1, <1>5 DEF KindsInUse
<1>7. used \in Seq(S \cap K) BY <1>3, <1>6, AmongType
<1>8. Elements(used) = Elements(list) \cap K /\ Distinct(used) BY <1>3, <1>4, <1>6, AmongIs
<1>9. ASSUME NEW o \in Objects PROVE \E i \in 1..Len(used) : used[i] = Catalog[o].kind
  <2>1. Catalog[o].kind \in DOMAIN Kinds BY KindsAssumption
  <2>2. \E i \in 1..29 : list[i] = Catalog[o].kind BY <1>1, <2>1, KindsListed
  <2>3. Catalog[o].kind \in Elements(list) BY <1>3, <2>2 DEF Elements
  <2>4. Catalog[o].kind \in Elements(used) BY <1>1, <1>8, <2>3
  <2> QED BY <2>4 DEF Elements
<1>10. \E n \in Nat : Len(used) = n /\ DOMAIN used = 1..n BY <1>7
<1> QED BY <1>5, <1>8, <1>9, <1>10

LEMMA PlaceIs ==
  ASSUME NEW o \in Objects, NEW i \in DOMAIN KindsInUse
  PROVE  Place(o) \in DOMAIN KindsInUse /\ (Place(o) = i <=> KindsInUse[i] = Catalog[o].kind)
<1>1. PICK n \in Nat : Len(KindsInUse) = n /\ DOMAIN KindsInUse = 1..n BY KindsInPlace
<1>2. \E j \in 1..n : KindsInUse[j] = Catalog[o].kind BY <1>1, KindsInPlace
<1>3. Place(o) \in 1..n /\ KindsInUse[Place(o)] = Catalog[o].kind BY <1>1, <1>2 DEF Place
<1>4. \A j, k \in 1..n : KindsInUse[j] = KindsInUse[k] => j = k
  BY <1>1, KindsInPlace DEF Distinct
<1> QED BY <1>1, <1>3, <1>4

\* The changed objects of the first kinds.
ChangedUpto(s, t, i) == {o \in Objects : s[o] # t[o] /\ Place(o) <= i}

\* The changes of one kind, in the order in which Compare lists them.
ChangesIn(s, t, order, i) ==
  IF KindsInUse[i] = "table" THEN compareTables(s, t, order)
  ELSE compareKind(s, t, KindsInUse[i], order)

LEMMA KindInPlace ==
  ASSUME TidyCatalog, NEW s \in Schemas, NEW t \in Edits(s), NEW order \in Orders,
         NEW i, i + 1 \in DOMAIN KindsInUse, i \in Nat
  PROVE  \E list : /\ ChangesIn(s, t, order, i + 1) = ChangesOf(s, t, list)
                   /\ Covers(s, t, list, ChangedOf(s, t, KindsInUse[i + 1]), ChangedUpto(s, t, i))
<1>1. PICK kind, P : kind = KindsInUse[i + 1] /\ P = ChangedUpto(s, t, i) OBVIOUS
<1>2. PICK n \in Nat : DOMAIN KindsInUse = 1..n BY KindsInPlace
<1>3. ASSUME NEW o \in ChangedOf(s, t, kind), Has(t, o), NEW x \in Needs[o]
      PROVE  Has(s, x) \/ x \in P \/ (IsTable(x) /\ IsTable(o))
  <2>1. SUFFICES ASSUME ~Has(s, x), Place(x) < Place(o) PROVE x \in P
    BY DEF TidyCatalog, NeedsComeFirst, ChangedOf
  <2>2. o \in Objects /\ x \in Objects BY CatalogAssumption DEF ChangedOf
  <2>3. t \in Schemas BY DEF Edits
  <2>4. Has(t, x) BY <1>3, <2>2, <2>3 DEF Schemas, Ready
  <2>5. Place(o) = i + 1 BY <1>1, <2>2, PlaceIs DEF ChangedOf
  <2>6. Place(x) \in 1..n BY <1>2, <2>2, PlaceIs
  <2>7. Place(x) <= i BY <2>1, <2>5, <2>6
  <2>8. s[x] # t[x] BY <2>1, <2>4 DEF Has
  <2> QED BY <1>1, <2>2, <2>7, <2>8 DEF ChangedUpto
<1>4. CASE kind = "table"
  <2>1. \A o \in ChangedOf(s, t, "table") : Has(t, o) =>
          \A x \in Needs[o] : Has(s, x) \/ x \in P \/ IsTable(x)
    BY <1>3, <1>4
  <2>2. \E list : /\ compareTables(s, t, order) = ChangesOf(s, t, list)
                  /\ Covers(s, t, list, ChangedOf(s, t, "table"), P)
    BY <2>1, TablesCovered
  <2> QED BY <1>1, <1>4, <2>2 DEF ChangesIn
<1>5. CASE kind # "table"
  <2>1. \A o \in ChangedOf(s, t, kind) : Has(t, o) => \A x \in Needs[o] : Has(s, x) \/ x \in P
    BY <1>3, <1>5 DEF ChangedOf, IsTable
  <2>2. \E list : /\ compareKind(s, t, kind, order) = ChangesOf(s, t, list)
                  /\ Covers(s, t, list, ChangedOf(s, t, kind), P)
    BY <2>1, KindCovered
  <2> QED BY <1>1, <1>5, <2>2 DEF ChangesIn
<1> QED BY <1>4, <1>5

AllChanges(s, t) == {ChangeOf(s, t, o) : o \in Objects}

LEMMA ChangesTyped ==
  ASSUME NEW s, NEW t, NEW list \in Seq(Objects)
  PROVE  /\ ChangesOf(s, t, list) \in Seq(AllChanges(s, t))
         /\ Len(ChangesOf(s, t, list)) = Len(list)
<1>1. PICK n \in Nat : n = Len(list) /\ DOMAIN list = 1..n OBVIOUS
<1>2. PICK S, f : S = AllChanges(s, t) /\ f = ChangesOf(s, t, list) OBVIOUS
<1>3. \A i \in 1..n : list[i] \in Objects BY <1>1
<1>4. \A i \in 1..n : ChangeOf(s, t, list[i]) \in S BY <1>2, <1>3 DEF AllChanges
<1>5. f = [i \in 1..n |-> ChangeOf(s, t, list[i])] BY <1>1, <1>2 DEF ChangesOf
<1>6. f \in [1..n -> S] BY <1>4, <1>5
<1>7. f \in Seq(S) /\ Len(f) = n BY <1>6, FunctionIsList
<1> QED BY <1>1, <1>2, <1>7

(* Compare lists every object that an edit changes, once, and after all that it needs. *)
LEMMA CompareCovers ==
  ASSUME TidyCatalog, NEW s \in Schemas, NEW t \in Edits(s), NEW order \in Orders
  PROVE  \E list : /\ Compare(s, t, order) = ChangesOf(s, t, list)
                   /\ Covers(s, t, list, {o \in Objects : s[o] # t[o]}, {})
<1>1. PICK n \in Nat : DOMAIN KindsInUse = 1..n BY KindsInPlace
<1>2. PICK ss : ss = [i \in 1..n |-> ChangesIn(s, t, order, i)] OBVIOUS
<1>3. PICK S : S = AllChanges(s, t) OBVIOUS
<1>4. ASSUME NEW i \in 0..(n - 1)
      PROVE  \E list : /\ ss[i + 1] = ChangesOf(s, t, list)
                       /\ Covers(s, t, list, ChangedOf(s, t, KindsInUse[i + 1]),
                                 ChangedUpto(s, t, i))
  <2>1. i + 1 \in 1..n /\ i \in Nat /\ i + 1 \in DOMAIN KindsInUse BY <1>1
  <2> QED BY <1>2, <2>1, KindInPlace
<1>5. ASSUME NEW i \in 1..n PROVE ss[i] \in Seq(S)
  <2>1. PICK j \in 0..(n - 1) : j + 1 = i
    <3>1. i - 1 \in 0..(n - 1) /\ (i - 1) + 1 = i OBVIOUS
    <3> QED BY <3>1
  <2>2. PICK list \in Seq(Objects) : ss[i] = ChangesOf(s, t, list) BY <1>4, <2>1 DEF Covers
  <2> QED BY <1>3, <2>2, ChangesTyped
<1>6. PICK Q : Q = Seq(S) OBVIOUS
<1>7. ss \in [1..n -> Q] BY <1>2, <1>5, <1>6
<1>8. ss \in Seq(Q) /\ Len(ss) = n BY <1>7, FunctionIsList
<1>9. ss \in Seq(Seq(S)) /\ n = Len(ss) BY <1>6, <1>8
<1>10. PICK f : Flat(f, S, ss, n) /\ FlattenSeq(ss) = f[n] BY <1>9, FlatFrom
<1>11. PICK T : T = {i \in 0..n : \E list : /\ f[i] = ChangesOf(s, t, list)
                                            /\ Covers(s, t, list, ChangedUpto(s, t, i), {})}
  OBVIOUS
<1>12. \A o \in Objects : Place(o) \in 1..n
  <2>1. SUFFICES ASSUME NEW o \in Objects PROVE Place(o) \in 1..n OBVIOUS
  <2>2. \E i \in 1..Len(KindsInUse) : KindsInUse[i] = Catalog[o].kind BY KindsInPlace
  <2>3. \E i \in DOMAIN KindsInUse : TRUE BY <2>2, KindsInPlace
  <2> QED BY <1>1, <2>3, PlaceIs
<1>13. 0 \in T
  <2>1. PICK none : none = <<>> OBVIOUS
  <2>2. none \in Seq(Objects) /\ Len(none) = 0 BY <2>1
  <2>3. ChangesOf(s, t, none) \in Seq(AllChanges(s, t)) /\ Len(ChangesOf(s, t, none)) = 0
    BY <2>2, ChangesTyped
  <2>4. ChangesOf(s, t, none) = <<>> BY <2>3
  <2>5. ChangedUpto(s, t, 0) = {} BY <1>12 DEF ChangedUpto
  <2>6. Covers(s, t, none, {}, {}) BY <2>1, CoversNone
  <2>7. f[0] = ChangesOf(s, t, none) BY <1>10, <2>4 DEF Flat
  <2> QED BY <1>11, <2>5, <2>6, <2>7
<1>14. ASSUME NEW i \in 0..n, i < n, i \in T PROVE i + 1 \in T
  <2>1. i \in 0..(n - 1) /\ i + 1 \in 0..n /\ i + 1 \in DOMAIN KindsInUse BY <1>1, <1>14
  <2>2. PICK A, B, N : /\ A = ChangedUpto(s, t, i) /\ B = ChangedOf(s, t, KindsInUse[i + 1])
                       /\ N = {} OBVIOUS
  <2>3. PICK one : f[i] = ChangesOf(s, t, one) /\ Covers(s, t, one, A, N)
    BY <1>11, <1>14, <2>2
  <2>4. PICK two : ss[i + 1] = ChangesOf(s, t, two) /\ Covers(s, t, two, B, A)
    BY <1>4, <2>1, <2>2
  <2>5. \A o \in Objects : Place(o) = i + 1 <=> Catalog[o].kind = KindsInUse[i + 1]
    BY <2>1, PlaceIs
  <2>6. A \cap B = {} /\ A = N \cup A
    BY <1>12, <2>2, <2>5 DEF ChangedUpto, ChangedOf
  <2>7. A \cup B = ChangedUpto(s, t, i + 1)
    BY <1>12, <2>1, <2>2, <2>5 DEF ChangedUpto, ChangedOf
  <2>8. PICK both : both = one \o two OBVIOUS
  <2>9. Apart(A, B, N, A) BY <2>6 DEF Apart
  <2>10. Covers(s, t, both, A \cup B, N) BY <2>3, <2>4, <2>8, <2>9, CoversBoth
  <2>11. PICK ones, twos, all : ones = f[i] /\ twos = ss[i + 1] /\ all = f[i + 1] OBVIOUS
  <2>12. all = ones \o twos BY <1>10, <2>1, <2>11 DEF Flat
  <2>13. both = Joined(one, two) /\ all = Joined(ones, twos) BY <2>8, <2>12 DEF Joined
  <2>14. one \in Seq(Objects) /\ two \in Seq(Objects) BY <2>3, <2>4 DEF Covers
  <2>15. ones = ChangesOf(s, t, one) /\ twos = ChangesOf(s, t, two) BY <2>3, <2>4, <2>11
  <2>16. all = ChangesOf(s, t, both) BY <2>13, <2>14, <2>15, ChangesBoth
  <2> QED BY <1>11, <2>1, <2>2, <2>7, <2>10, <2>11, <2>16
<1>15. n \in T
  <2>1. \A i \in 0..n : i < n /\ i \in T => i + 1 \in T BY <1>14
  <2>2. 0..n \subseteq T BY <1>13, <2>1, Induction, Zenon
  <2> QED BY <2>2
<1>16. ChangedUpto(s, t, n) = {o \in Objects : s[o] # t[o]} BY <1>12 DEF ChangedUpto
<1>17. Compare(s, t, order) = f[n]
  <2>1. ss = [i \in DOMAIN KindsInUse |->
                IF KindsInUse[i] = "table" THEN compareTables(s, t, order)
                ELSE compareKind(s, t, KindsInUse[i], order)] BY <1>1, <1>2 DEF ChangesIn
  <2>2. Compare(s, t, order) = FlattenSeq(ss) BY <2>1 DEF Compare
  <2> QED BY <1>10, <2>2
<1> QED BY <1>11, <1>15, <1>16, <1>17

-----------------------------------------------------------------------------
(* The script, statement after statement. *)

Operations == (Alters \cup Creates) \cup (Drops \cup {"remark"})
Statements == {Statement(op, o, def) : op \in Operations, o \in Objects, def \in [Facets -> Nat]}

LEMMA OneStatement ==
  ASSUME NEW op \in Operations, NEW o \in Objects, NEW def \in [Facets -> Nat]
  PROVE  <<Statement(op, o, def)>> \in Seq(Statements)
<1>1. PICK st : st = Statement(op, o, def) OBVIOUS
<1>2. st \in Statements BY <1>1 DEF Statements
<1>3. <<st>> \in Seq(Statements) BY <1>2
<1> QED BY <1>1, <1>3

LEMMA AbsentDefined == Absent \in [Facets -> Nat]
BY DEF Absent, Facets

LEMMA PartsTyped ==
  ASSUME NEW o \in Objects, NEW def \in [Facets -> Nat]
  PROVE  /\ CreateSQL(o, def) \in Seq(Statements) /\ DropSQL(o) \in Seq(Statements)
         /\ AlterSQL(o, def) \in Seq(Statements) /\ Remark(o) \in Seq(Statements)
<1>1. Forms(KindOf(o)) BY FormsOf
<1>2. /\ KindOf(o).create \in Operations /\ KindOf(o).drop \in Operations
      /\ KindOf(o).alter \in Operations /\ "remark" \in Operations
  BY <1>1 DEF Forms, Operations
<1>3. CreateSQL(o, def) \in Seq(Statements) BY <1>2, OneStatement DEF CreateSQL
<1>4. DropSQL(o) \in Seq(Statements) BY <1>2, AbsentDefined, OneStatement DEF DropSQL
<1>5. Remark(o) \in Seq(Statements) BY <1>2, AbsentDefined, OneStatement DEF Remark
<1>6. <<Statement(KindOf(o).alter, o, def)>> \in Seq(Statements) BY <1>2, OneStatement
<1>7. PICK a, b : a = DropSQL(o) /\ b = CreateSQL(o, def) OBVIOUS
<1>8. a \o b \in Seq(Statements) BY <1>3, <1>4, <1>7
<1>9. AlterSQL(o, def) \in Seq(Statements) BY <1>6, <1>7, <1>8 DEF AlterSQL
<1> QED BY <1>3, <1>4, <1>5, <1>9

LEMMA SQLTyped ==
  ASSUME NEW s \in Schemas, NEW t \in Schemas, NEW o \in Objects
  PROVE  /\ SQL(ChangeOf(s, t, o)) \in Seq(Statements)
         /\ DownSQL(ChangeOf(s, t, o)) \in Seq(Statements)
<1>1. PICK c : c = ChangeOf(s, t, o) OBVIOUS
<1>2. /\ c.op \in {"create", "drop", "alter"}
      /\ c.obj = o /\ c.was = o /\ c.new = t[o] /\ c.old = s[o]
  BY <1>1 DEF ChangeOf, Change
<1>3. PICK old, new : old = s[o] /\ new = t[o] OBVIOUS
<1>4. old \in [Facets -> Nat] /\ new \in [Facets -> Nat] BY <1>3, AbsentOrDefined
<1>b. PICK back : back = Restored(o, old) OBVIOUS
<1>a. back \in [Facets -> Nat] BY <1>4, <1>b DEF Restored
<1>5. /\ CreateSQL(o, new) \in Seq(Statements) /\ DropSQL(o) \in Seq(Statements)
      /\ AlterSQL(o, new) \in Seq(Statements) /\ Remark(o) \in Seq(Statements)
      /\ CreateSQL(o, back) \in Seq(Statements) /\ AlterSQL(o, old) \in Seq(Statements)
  BY <1>4, <1>a, PartsTyped
<1>6. SQL(c) \in Seq(Statements)
  <2>1. CASE c.op = "create"
    <3>1. SQL(c) = CreateSQL(o, new) BY <1>2, <1>3, <2>1 DEF SQL
    <3> QED BY <1>5, <3>1
  <2>2. CASE c.op = "drop"
    <3>1. SQL(c) = DropSQL(o) BY <1>2, <1>3, <2>2 DEF SQL
    <3> QED BY <1>5, <3>1
  <2>3. CASE c.op = "alter"
    <3>1. SQL(c) = AlterSQL(o, new) BY <1>2, <1>3, <2>3 DEF SQL
    <3> QED BY <1>5, <3>1
  <2> QED BY <1>2, <2>1, <2>2, <2>3
<1>7. DownSQL(c) \in Seq(Statements)
  <2>0. CASE ~IsReversible(c)
    <3>1. DownSQL(c) = Remark(o) BY <1>2, <2>0 DEF DownSQL
    <3> QED BY <1>5, <3>1
  <2>1. CASE IsReversible(c) /\ c.op = "create"
    <3>1. DownSQL(c) = DropSQL(o) BY <1>2, <2>1 DEF DownSQL
    <3> QED BY <1>5, <3>1
  <2>2. CASE IsReversible(c) /\ c.op = "drop"
    <3>1. DownSQL(c) = CreateSQL(o, back) BY <1>2, <1>3, <1>b, <2>2 DEF DownSQL
    <3> QED BY <1>5, <3>1
  <2>3. CASE IsReversible(c) /\ c.op = "alter"
    <3>1. DownSQL(c) = AlterSQL(o, old) BY <1>2, <1>3, <2>3 DEF DownSQL
    <3> QED BY <1>5, <3>1
  <2> QED BY <1>2, <2>0, <2>1, <2>2, <2>3
<1> QED BY <1>1, <1>6, <1>7

\* The database when the first i objects of the list are changed, and the others are not.
Midway(s, t, list, i) ==
  [o \in Objects |-> IF \E j \in 1..i : list[j] = o THEN t[o] ELSE s[o]]

Changed(s, t) == {o \in Objects : s[o] # t[o]}

\* What an object of the list needs is there when its turn comes, whichever way the
\* script runs, and what is new is needed only by what comes later.
LEMMA MidwayReady ==
  ASSUME TidyCatalog, NEW s \in Schemas, NEW t \in Edits(s), NEW list,
         Covers(s, t, list, Changed(s, t), {}),
         NEW i \in 0..(Len(list) - 1), NEW o, o = list[i + 1],
         NEW d, d = Midway(s, t, list, i), NEW e, e = Midway(s, t, list, i + 1)
  PROVE  /\ o \in Objects /\ s[o] # t[o] /\ d \in States /\ e \in States
         /\ Fitting(d) /\ Fitting(e) /\ d[o] = s[o] /\ e[o] = t[o]
         /\ e = [d EXCEPT ![o] = t[o]] /\ d = [e EXCEPT ![o] = s[o]]
         /\ Ready(d, o) /\ Ready(e, o) /\ (~Has(s, o) => Unneeded(e, o))
<1>1. PICK n \in Nat : n = Len(list) BY DEF Covers
<1>2. d = Midway(s, t, list, i) /\ e = Midway(s, t, list, i + 1) OBVIOUS
<1>3. t \in Schemas /\ i + 1 \in 1..n /\ i \in Nat /\ 1..(i + 1) = (1..i) \cup {i + 1}
  BY <1>1 DEF Edits
<1>4. \A j \in 1..n : list[j] \in Objects /\ s[list[j]] # t[list[j]]
  BY <1>1 DEF Covers, Elements, Changed
<1>5. \A j, k \in 1..n : list[j] = list[k] => j = k BY <1>1 DEF Covers, Distinct
<1>6. o \in Objects /\ s[o] # t[o] BY <1>3, <1>4
<1>7. d \in States /\ e \in States
  <2>1. \A x \in Objects : s[x] \in [Facets -> Nat] /\ t[x] \in [Facets -> Nat]
    BY <1>3, AbsentOrDefined
  <2>2. PICK V : V = [Facets -> Nat] OBVIOUS
  <2>3. \A x \in Objects : s[x] \in V /\ t[x] \in V BY <2>1, <2>2
  <2>4. d \in [Objects -> V] /\ e \in [Objects -> V] BY <1>2, <2>3 DEF Midway
  <2> QED BY <2>2, <2>4 DEF States
<1>a. Fitting(d) /\ Fitting(e)
  <2>1. \A x \in Objects : s[x] \in Versions[x] \cup {Absent} /\ t[x] \in Versions[x] \cup {Absent}
    BY <1>3 DEF Schemas
  <2> QED BY <1>2, <2>1 DEF Fitting, Midway
<1>8. \A j \in 1..i : list[j] # o BY <1>1, <1>3, <1>5
<1>9. d[o] = s[o] /\ e[o] = t[o] BY <1>2, <1>3, <1>6, <1>8 DEF Midway
<1>10. \A x \in Objects : x # o => e[x] = d[x] BY <1>2, <1>3 DEF Midway
<1>11. e = [d EXCEPT ![o] = t[o]] /\ d = [e EXCEPT ![o] = s[o]]
  BY <1>6, <1>7, <1>9, <1>10 DEF States
<1>12. ASSUME NEW x \in Needs[o] PROVE Has(d, x) /\ Has(e, x)
  <2>1. x \in Objects BY <1>6, CatalogAssumption
  <2>2. Has(s, x) /\ Has(t, x) => Has(d, x) /\ Has(e, x) BY <1>2, <2>1 DEF Has, Midway
  <2>3. CASE Has(t, o)
    <3>1. Has(t, x) BY <1>3, <1>6, <2>1, <2>3 DEF Schemas, Ready
    <3>2. CASE Has(s, x) BY <2>2, <3>1, <3>2
    <3>3. CASE ~Has(s, x)
      <4>1. PICK j \in 1..i : list[j] = x
        <5>1. \E j \in 1..((i + 1) - 1) : list[j] = x BY <1>1, <1>3, <2>3, <3>3 DEF Covers
        <5>2. (i + 1) - 1 = i BY <1>3
        <5> QED BY <5>1, <5>2
      <4>2. j \in 1..(i + 1) BY <1>3
      <4>3. d[x] = t[x] /\ e[x] = t[x] BY <1>2, <2>1, <4>1, <4>2 DEF Midway
      <4> QED BY <3>1, <4>3 DEF Has
    <3> QED BY <3>2, <3>3
  <2>4. CASE ~Has(t, o)
    <3>1. Has(s, o) BY <1>6, <2>4 DEF Has
    <3>2. Has(s, x) BY <1>6, <2>1, <3>1 DEF Schemas, Ready
    <3>3. Has(t, x)
      <4>1. SUFFICES ASSUME ~Has(t, x) PROVE FALSE OBVIOUS
      <4>2. x \in Removable BY <2>1, <3>2, <4>1 DEF Edits
      <4>3. x \notin Needs[o] BY <1>6, <2>1, <4>2 DEF TidyCatalog, DropsAreLeaves
      <4> QED BY <4>3
    <3> QED BY <2>2, <3>2, <3>3
  <2> QED BY <2>3, <2>4
<1>13. ASSUME ~Has(s, o), NEW y \in Objects, Has(e, y), o \in Needs[y] PROVE FALSE
  <2>1. CASE \E j \in 1..(i + 1) : list[j] = y
    <3>1. PICK j \in 1..(i + 1) : list[j] = y BY <2>1
    <3>2. e[y] = t[y] /\ j \in 1..n BY <1>1, <1>2, <3>1 DEF Midway
    <3>3. Has(t, list[j]) BY <1>13, <3>1, <3>2 DEF Has
    <3>4. PICK k \in 1..(j - 1) : list[k] = o BY <1>1, <1>13, <3>1, <3>2, <3>3 DEF Covers
    <3>5. k \in 1..i BY <1>3, <3>1, <3>4
    <3> QED BY <1>8, <3>4, <3>5
  <2>2. CASE ~(\E j \in 1..(i + 1) : list[j] = y)
    <3>1. e[y] = s[y] BY <1>2, <2>2 DEF Midway
    <3>2. Has(s, y) BY <1>13, <3>1 DEF Has
    <3> QED BY <1>13, <3>2 DEF Schemas, Ready
  <2> QED BY <2>1, <2>2
<1> QED BY <1>6, <1>7, <1>a, <1>9, <1>11, <1>12, <1>13 DEF Ready, Unneeded

LEMMA MidwayEnds ==
  ASSUME NEW s \in Schemas, NEW t \in Edits(s), NEW list, Covers(s, t, list, Changed(s, t), {})
  PROVE  Midway(s, t, list, 0) = s /\ Midway(s, t, list, Len(list)) = t
<1>1. s \in [Objects -> Definitions] /\ t \in [Objects -> Definitions] BY DEF Edits, Schemas
<1>2. Midway(s, t, list, 0) = s
  <2>1. 1..0 = {} OBVIOUS
  <2>2. Midway(s, t, list, 0) = [o \in Objects |-> s[o]] BY <2>1 DEF Midway
  <2> QED BY <1>1, <2>2
<1>3. Midway(s, t, list, Len(list)) = t
  <2>1. \A o \in Objects : s[o] # t[o] => \E j \in 1..Len(list) : list[j] = o
    BY DEF Covers, Elements, Changed
  <2>2. Midway(s, t, list, Len(list)) = [o \in Objects |-> t[o]] BY <2>1 DEF Midway
  <2> QED BY <1>1, <2>2
<1> QED BY <1>2, <1>3

(* The up script of an edit runs, and makes the schema that the edit asks for. *)
LEMMA UpRuns ==
  ASSUME TidyCatalog, NEW s \in Schemas, NEW t \in Edits(s), NEW list,
         Covers(s, t, list, Changed(s, t), {}),
         NEW changes, changes = ChangesOf(s, t, list)
  PROVE  Leads(s, UpScript(changes), t)
<1>1. PICK n \in Nat : n = Len(list) /\ DOMAIN list = 1..n BY DEF Covers
<1>2. \A i \in 1..n : list[i] \in Objects BY <1>1 DEF Covers
<1>3. PICK ss : ss = [i \in 1..n |-> SQL(ChangeOf(s, t, list[i]))] OBVIOUS
<1>4. PICK Q : Q = Seq(Statements) OBVIOUS
<1>5. \A i \in 1..n : ss[i] \in Q BY <1>2, <1>3, <1>4, SQLTyped DEF Edits
<1>6. ss \in [1..n -> Q] BY <1>3, <1>5
<1>7. ss \in Seq(Q) /\ Len(ss) = n BY <1>6, FunctionIsList
<1>8. ss \in Seq(Seq(Statements)) /\ n = Len(ss) BY <1>4, <1>7
<1>9. PICK f : Flat(f, Statements, ss, n) /\ FlattenSeq(ss) = f[n] BY <1>8, FlatFrom
<1>10. PICK T : T = {i \in 0..n : Leads(s, f[i], Midway(s, t, list, i))} OBVIOUS
<1>11. 0 \in T
  <2>1. f[0] = <<>> BY <1>9 DEF Flat
  <2> QED BY <1>10, <2>1, RunNone, MidwayEnds
<1>12. ASSUME NEW i \in 0..n, i < n, i \in T PROVE i + 1 \in T
  <2>1. i \in 0..(n - 1) /\ i + 1 \in 1..n /\ i + 1 \in 0..n BY <1>12
  <2>2. PICK o : o = list[i + 1] OBVIOUS
  <2>3. PICK d, e : d = Midway(s, t, list, i) /\ e = Midway(s, t, list, i + 1) OBVIOUS
  <2>4. /\ o \in Objects /\ s[o] # t[o] /\ d \in States /\ d[o] = s[o] /\ Ready(d, o)
        /\ Fitting(d)
        /\ e = [d EXCEPT ![o] = t[o]]
    <3>1. i \in 0..(Len(list) - 1) BY <1>1, <2>1
    <3> QED BY <2>2, <2>3, <3>1, MidwayReady
  <2>5. Leads(d, SQL(ChangeOf(s, t, o)), [d EXCEPT ![o] = t[o]]) BY <2>4, UpChange
  <2>6. PICK one, two : one = f[i] /\ two = ss[i + 1] OBVIOUS
  <2>7. Leads(d, two, e) BY <1>3, <2>1, <2>2, <2>4, <2>5, <2>6
  <2>8. Leads(s, one, d) BY <1>10, <1>12, <2>3, <2>6
  <2>9. one \in Seq(Statements) /\ two \in Seq(Statements)
    BY <1>4, <1>5, <1>9, <2>1, <2>6 DEF Flat
  <2>10. Leads(s, one \o two, e) BY <2>7, <2>8, <2>9, RunBoth
  <2>11. f[i + 1] = one \o two BY <1>9, <2>1, <2>6 DEF Flat
  <2> QED BY <1>10, <2>1, <2>3, <2>10, <2>11
<1>13. n \in T
  <2>1. \A i \in 0..n : i < n /\ i \in T => i + 1 \in T BY <1>12
  <2>2. 0..n \subseteq T BY <1>11, <2>1, Induction, Zenon
  <2> QED BY <2>2
<1>14. UpScript(changes) = f[n]
  <2>1. changes = [i \in 1..n |-> ChangeOf(s, t, list[i])] BY <1>1 DEF ChangesOf
  <2>2. ss = [i \in DOMAIN changes |-> SQL(changes[i])] BY <1>3, <2>1
  <2> QED BY <1>9, <2>2 DEF UpScript
<1>15. Midway(s, t, list, n) = t BY <1>1, MidwayEnds
<1> QED BY <1>10, <1>13, <1>14, <1>15

(* When no change loses anything, the down script runs, and makes the old schema again. *)
LEMMA DownRuns ==
  ASSUME TidyCatalog, DownsAreAccepted, NEW s \in Schemas, NEW t \in Edits(s), NEW list,
         Covers(s, t, list, Changed(s, t), {}),
         NEW changes, changes = ChangesOf(s, t, list),
         \A i \in DOMAIN changes : IsReversible(changes[i])
  PROVE  Leads(t, DownScript(changes), s)
<1>1. PICK n \in Nat : n = Len(list) /\ DOMAIN list = 1..n BY DEF Covers
<1>2. \A i \in 1..n : list[i] \in Objects BY <1>1 DEF Covers
<1>3. PICK ss : ss = [k \in 1..n |-> DownSQL(ChangeOf(s, t, list[(n - k) + 1]))] OBVIOUS
<1>4. PICK Q : Q = Seq(Statements) OBVIOUS
<1>5. ASSUME NEW k \in 1..n PROVE ss[k] \in Q
  <2>1. (n - k) + 1 \in 1..n OBVIOUS
  <2> QED BY <1>2, <1>3, <1>4, <2>1, SQLTyped DEF Edits
<1>6. ss \in [1..n -> Q] BY <1>3, <1>5
<1>7. ss \in Seq(Q) /\ Len(ss) = n BY <1>6, FunctionIsList
<1>8. ss \in Seq(Seq(Statements)) /\ n = Len(ss) BY <1>4, <1>7
<1>9. PICK f : Flat(f, Statements, ss, n) /\ FlattenSeq(ss) = f[n] BY <1>8, FlatFrom
<1>10. PICK T : T = {k \in 0..n : Leads(t, f[k], Midway(s, t, list, n - k))} OBVIOUS
<1>a. changes = [i \in 1..n |-> ChangeOf(s, t, list[i])] BY <1>1 DEF ChangesOf
<1>11. 0 \in T
  <2>1. f[0] = <<>> BY <1>9 DEF Flat
  <2>2. n - 0 = Len(list) BY <1>1
  <2> QED BY <1>10, <2>1, <2>2, RunNone, MidwayEnds
<1>12. ASSUME NEW k \in 0..n, k < n, k \in T PROVE k + 1 \in T
  <2>1. PICK i \in 0..(n - 1) : i + 1 = n - k /\ i = n - (k + 1) /\ i + 1 = (n - (k + 1)) + 1
    <3>1. PICK i : i = n - (k + 1) OBVIOUS
    <3>2. i \in 0..(n - 1) /\ i + 1 = n - k BY <1>12, <3>1
    <3> QED BY <3>1, <3>2
  <2>a. k \in 0..(n - 1) /\ k + 1 \in 1..n /\ k + 1 \in 0..n /\ i + 1 \in 1..n BY <1>12
  <2>2. PICK o : o = list[i + 1] OBVIOUS
  <2>3. PICK d, e : d = Midway(s, t, list, i) /\ e = Midway(s, t, list, i + 1) OBVIOUS
  <2>4. /\ o \in Objects /\ s[o] # t[o] /\ e \in States /\ e[o] = t[o] /\ Ready(e, o)
        /\ Fitting(e)
        /\ d = [e EXCEPT ![o] = s[o]] /\ (~Has(s, o) => Unneeded(e, o))
    <3>1. i \in 0..(Len(list) - 1) BY <1>1, <2>1
    <3> QED BY <2>2, <2>3, <3>1, MidwayReady
  <2>b. IsReversible(ChangeOf(s, t, o)) BY <1>a, <2>2, <2>a
  <2>5. Leads(e, DownSQL(ChangeOf(s, t, o)), [e EXCEPT ![o] = s[o]]) BY <2>4, <2>b, DownChange
  <2>6. PICK one, two : one = f[k] /\ two = ss[k + 1] OBVIOUS
  <2>7. Leads(e, two, d) BY <1>3, <2>1, <2>2, <2>4, <2>5, <2>6, <2>a
  <2>8. Leads(t, one, e) BY <1>10, <1>12, <2>1, <2>3, <2>6
  <2>9. one \in Seq(Statements) /\ two \in Seq(Statements)
    BY <1>4, <1>5, <1>9, <2>6, <2>a DEF Flat
  <2>10. Leads(t, one \o two, d) BY <2>7, <2>8, <2>9, RunBoth
  <2>11. f[k + 1] = one \o two BY <1>9, <2>6, <2>a DEF Flat
  <2> QED BY <1>10, <2>1, <2>3, <2>10, <2>11, <2>a
<1>13. n \in T
  <2>1. \A k \in 0..n : k < n /\ k \in T => k + 1 \in T BY <1>12
  <2>2. 0..n \subseteq T BY <1>11, <2>1, Induction, Zenon
  <2> QED BY <2>2
<1>14. DownScript(changes) = f[n]
  <2>1. PICK last : last = Reverse(changes) OBVIOUS
  <2>2. Len(changes) = n BY <1>1, ChangesTyped DEF Covers
  <2>3. last = [k \in 1..n |-> changes[(n - k) + 1]] BY <2>1, <2>2 DEF Reverse
  <2>4. \A k \in 1..n : (n - k) + 1 \in 1..n OBVIOUS
  <2>5. last = [k \in 1..n |-> ChangeOf(s, t, list[(n - k) + 1])] BY <1>a, <2>3, <2>4
  <2>6. ss = [k \in DOMAIN last |-> DownSQL(last[k])] BY <1>3, <2>5
  <2> QED BY <1>9, <2>1, <2>6 DEF DownScript
<1>15. n - n = 0 /\ Midway(s, t, list, 0) = s BY MidwayEnds
<1> QED BY <1>10, <1>13, <1>14, <1>15

(* What Compare writes for an edit: an up script that runs and makes the new schema, and, *)
(* when every change is reversible, a down script that makes the old one again            *)
(* (internal/diff/diff.go, Compare; cli/migrate.go, which writes the two files).          *)
THEOREM ScriptsAreRight ==
  ASSUME TidyCatalog, NEW s \in Schemas, NEW t \in Edits(s), NEW order \in Orders,
         NEW changes, changes = Compare(s, t, order)
  PROVE  /\ Leads(s, UpScript(changes), t)
         /\ DownsAreAccepted /\ (\A i \in DOMAIN changes : IsReversible(changes[i]))
              => Leads(t, DownScript(changes), s)
<1>1. PICK list : /\ changes = ChangesOf(s, t, list)
                  /\ Covers(s, t, list, Changed(s, t), {})
  BY CompareCovers DEF Changed
<1> QED BY <1>1, UpRuns, DownRuns
===============================================================================
