--------------------------- MODULE EditingProofs ----------------------------
(***************************************************************************)
(* Proofs about Editing: the tree stays a forest, undo and redo walk the   *)
(* abstract timeline, saves are lossless and dependencies stay acyclic.    *)
(*                                                                         *)
(* The argument.  Two trees are the Same if they agree on everything undo  *)
(* restores.  Running a command and undoing it respect Same, and undoing   *)
(* what was just run gives a tree that is the Same as before.  So the      *)
(* commands of the undo stack, undone one after the other from the present *)
(* tree, and those of the redo stack, run one after the other, pass through*)
(* a line of sound trees, on which each command Goes from its tree to the  *)
(* next and back.  That line is the inductive invariant (History): a new   *)
(* command, an undo and a redo each lengthen or shorten it at its ends.    *)
(*                                                                         *)
(* Lists are handled with recursive functions, and the facts about them    *)
(* are proved by taking the least number at which they would fail.         *)
(***************************************************************************)
EXTENDS Editing, WellFoundedInduction, SequenceTheorems, TLAPS

-----------------------------------------------------------------------------
(* Numbers                                                                 *)

\* A set of numbers that is not empty has a least one.
LEMMA LeastNumber ==
    ASSUME NEW T \in SUBSET Nat, T # {}
    PROVE  \E x \in T : \A y \in T : x <= y
<1>1. IsWellFoundedOn({ss \in Nat \X Nat : ss[1] < ss[2]}, Nat)
  BY NatLessThanWellFounded DEF OpToRel
<1>2. PICK x \in T : \A y \in T : ~(<<y, x>> \in {ss \in Nat \X Nat : ss[1] < ss[2]})
  <2>. DEFINE R == {ss \in Nat \X Nat : ss[1] < ss[2]}
  <2>1. IsWellFoundedOn(R, Nat)
    BY <1>1
  <2>. HIDE DEF R
  <2>2. \E x \in T : \A y \in T : ~(<<y, x>> \in R)
    BY <2>1, WFMin
  <2>. QED BY <2>2 DEF R
<1>3. ASSUME NEW y \in T PROVE x <= y
  <2>1. <<y, x>> \in Nat \X Nat /\ <<y, x>>[1] = y /\ <<y, x>>[2] = x
    OBVIOUS
  <2>2. ~(y < x)
    BY <1>2, <2>1
  <2>. QED BY <2>2
<1>. QED BY <1>3

\* Induction up to a bound, over the set of the numbers a fact holds of.
LEMMA UpTo ==
    ASSUME NEW m \in Nat, NEW T, 0 \in T, \A n \in 1 .. m : n - 1 \in T => n \in T
    PROVE  0 .. m \subseteq T
<1>1. SUFFICES ASSUME NEW z \in 0 .. m, z \notin T PROVE FALSE
  OBVIOUS
<1>2. PICK x \in (0 .. m) \ T : \A y \in (0 .. m) \ T : x <= y
  <2>1. (0 .. m) \ T \in SUBSET Nat /\ (0 .. m) \ T # {}
    BY <1>1
  <2>. QED BY <2>1, LeastNumber
<1>3. x - 1 \in 0 .. m /\ x - 1 \in T /\ x \in 1 .. m
  BY <1>2
<1>. QED BY <1>2, <1>3

\* The same downwards.
LEMMA DownTo ==
    ASSUME NEW m \in Nat, NEW T, m + 1 \in T, \A n \in 1 .. m : n + 1 \in T => n \in T
    PROVE  1 .. m + 1 \subseteq T
<1>. DEFINE U == {n \in 0 .. m : m + 1 - n \in T}
<1>1. 0 \in U
  OBVIOUS
<1>2. ASSUME NEW n \in 1 .. m, n - 1 \in U PROVE n \in U
  <2>1. m + 1 - n \in 1 .. m /\ (m + 1 - n) + 1 = m + 1 - (n - 1)
    OBVIOUS
  <2>. QED BY <1>2, <2>1
<1>3. 0 .. m \subseteq U
  <2>. HIDE DEF U
  <2>. QED BY <1>1, <1>2, UpTo
<1>4. ASSUME NEW i \in 1 .. m + 1 PROVE i \in T
  <2>1. m + 1 - i \in 0 .. m /\ m + 1 - (m + 1 - i) = i
    OBVIOUS
  <2>. QED BY <2>1, <1>3
<1>. QED BY <1>4

-----------------------------------------------------------------------------
(* Lists                                                                   *)

\* What Retained makes of the first n members of list.
Chosen(list, S, f) ==
    f = [n \in 0 .. Len(list) |->
            IF n = 0 THEN <<>>
            ELSE IF list[n] \in S THEN Append(f[n - 1], list[n])
            ELSE f[n - 1]]

\* The recursion of Retained has a solution.
LEMMA ChosenExists ==
    ASSUME NEW X, NEW list \in Seq(X), NEW S
    PROVE  \E f : Chosen(list, S, f) /\ Retained(list, S) = f[Len(list)]
<1>. DEFINE Step(f, n) == IF n = 0 THEN <<>>
                          ELSE IF list[n] \in S THEN Append(f[n - 1], list[n])
                          ELSE f[n - 1]
            T == {m \in 0 .. Len(list) : \E f : f = [n \in 0 .. m |-> Step(f, n)]}
<1>0. Len(list) \in Nat
  OBVIOUS
<1>1. 0 \in T
  <2>. DEFINE g == [n \in 0 .. 0 |-> <<>>]
  <2>1. g = [n \in 0 .. 0 |-> Step(g, n)]
    OBVIOUS
  <2>. HIDE DEF g
  <2>. QED BY <2>1, <1>0
<1>2. ASSUME NEW m \in 1 .. Len(list), m - 1 \in T PROVE m \in T
  <2>1. PICK f : f = [n \in 0 .. m - 1 |-> Step(f, n)]
    BY <1>2
  <2>. DEFINE g == [n \in 0 .. m |-> IF n = m THEN Step(f, m) ELSE f[n]]
  <2>2. ASSUME NEW n \in 0 .. m PROVE g[n] = Step(g, n)
    <3>1. CASE n = m
      <4>1. g[n] = Step(f, m)
        BY <3>1
      <4>2. n - 1 \in 0 .. m /\ n - 1 # m /\ n # 0 /\ g[n - 1] = f[n - 1]
        BY <3>1
      <4>. QED BY <4>1, <4>2, <3>1
    <3>2. CASE n # m /\ n # 0
      <4>1. n - 1 \in 0 .. m /\ n - 1 # m /\ g[n - 1] = f[n - 1] /\ g[n] = f[n]
        BY <3>2
      <4>2. n \in 0 .. m - 1
        BY <3>2
      <4>3. f[n] = Step(f, n)
        BY <4>2, <2>1
      <4>. QED BY <4>1, <4>3
    <3>3. CASE n = 0
      <4>1. g[n] = f[0] /\ 0 \in 0 .. m - 1
        BY <3>3
      <4>2. f[0] = Step(f, 0)
        BY <4>1, <2>1
      <4>. QED BY <4>1, <4>2, <3>3
    <3>. QED BY <3>1, <3>2, <3>3
  <2>3. g = [n \in 0 .. m |-> Step(g, n)]
    <3>. DEFINE h == [n \in 0 .. m |-> Step(g, n)]
    <3>1. \A n \in 0 .. m : g[n] = h[n]
      BY <2>2
    <3>. QED BY <3>1
  <2>. HIDE DEF g
  <2>. QED BY <2>3
<1>3. Len(list) \in T
  <2>. HIDE DEF T
  <2>1. 0 .. Len(list) \subseteq T
    BY <1>0, <1>1, <1>2, UpTo
  <2>. QED BY <1>0, <2>1
<1>4. \E f : Chosen(list, S, f)
  BY <1>3 DEF Chosen
<1>5. Retained(list, S) = (CHOOSE f : Chosen(list, S, f))[Len(list)]
  BY Zenon DEF Retained, Chosen
<1>. QED BY <1>4, <1>5

\* Two lists with the same members at the same places are the same.
LEMMA SameList ==
    ASSUME NEW X, NEW r \in Seq(X), NEW s \in Seq(X),
           Len(r) = Len(s), \A i \in 1 .. Len(r) : r[i] = s[i]
    PROVE  r = s
OBVIOUS

\* Retained makes a list of members of its list.
LEMMA RetainedType ==
    ASSUME NEW X, NEW list \in Seq(X), NEW S
    PROVE  /\ Retained(list, S) \in Seq(X)
           /\ ToSet(Retained(list, S)) \subseteq ToSet(list) \cap S
<1>1. PICK f : Chosen(list, S, f) /\ Retained(list, S) = f[Len(list)]
  BY ChosenExists
<1>. DEFINE T == {m \in 0 .. Len(list) :
                    f[m] \in Seq(X) /\ \A i \in 1 .. Len(f[m]) : f[m][i] \in ToSet(list) \cap S}
<1>2. 0 \in T
  BY <1>1 DEF Chosen
<1>3. ASSUME NEW m \in 1 .. Len(list), m - 1 \in T PROVE m \in T
  <2>1. list[m] \in X /\ list[m] \in ToSet(list) /\ m \in 0 .. Len(list) /\ m # 0
    BY DEF ToSet
  <2>2. f[m] = IF list[m] \in S THEN Append(f[m - 1], list[m]) ELSE f[m - 1]
    BY <1>1, <2>1 DEF Chosen
  <2>3. CASE list[m] \in S
    <3>1. f[m] = Append(f[m - 1], list[m]) /\ f[m - 1] \in Seq(X)
      BY <2>2, <2>3, <1>3
    <3>2. f[m] \in Seq(X) /\ \A i \in 1 .. Len(f[m]) : f[m][i] \in ToSet(list) \cap S
      BY <3>1, <2>1, <2>3, <1>3
    <3>. QED BY <3>2, <2>1
  <2>4. CASE list[m] \notin S
    BY <2>2, <2>4, <2>1, <1>3
  <2>. QED BY <2>3, <2>4
<1>4. Len(list) \in Nat /\ Len(list) \in 0 .. Len(list)
  OBVIOUS
<1>5. Len(list) \in T
  <2>. HIDE DEF T
  <2>. QED BY <1>2, <1>3, <1>4, UpTo
<1>6. DOMAIN f[Len(list)] = 1 .. Len(f[Len(list)])
  BY <1>5
<1>. QED BY <1>1, <1>5, <1>6 DEF ToSet

\* A list without what is not in it.
LEMMA OthersAbsent ==
    ASSUME NEW X, NEW list \in Seq(X), NEW id, id \notin ToSet(list)
    PROVE  Others(list, id) = list
<1>. DEFINE S == ToSet(list) \ {id}
<1>1. PICK f : Chosen(list, S, f) /\ Retained(list, S) = f[Len(list)]
  BY ChosenExists
<1>. DEFINE T == {m \in 0 .. Len(list) :
                    /\ f[m] \in Seq(X)
                    /\ Len(f[m]) = m
                    /\ \A i \in 1 .. m : f[m][i] = list[i]}
<1>2. 0 \in T
  BY <1>1 DEF Chosen
<1>3. ASSUME NEW m \in 1 .. Len(list), m - 1 \in T PROVE m \in T
  <2>1. list[m] \in X /\ list[m] \in S /\ m \in 0 .. Len(list) /\ m # 0
    BY DEF ToSet
  <2>2. f[m] = Append(f[m - 1], list[m])
    BY <1>1, <2>1 DEF Chosen
  <2>3. f[m - 1] \in Seq(X) /\ Len(f[m - 1]) = m - 1 /\ \A i \in 1 .. m - 1 : f[m - 1][i] = list[i]
    BY <1>3
  <2>. HIDE DEF S
  <2>4. f[m] \in Seq(X) /\ Len(f[m]) = m /\ \A i \in 1 .. m : f[m][i] = list[i]
    BY <2>1, <2>2, <2>3
  <2>. QED BY <2>1, <2>4
<1>4. Len(list) \in Nat /\ Len(list) \in 0 .. Len(list)
  OBVIOUS
<1>5. Len(list) \in T
  <2>. HIDE DEF T
  <2>. QED BY <1>2, <1>3, <1>4, UpTo
<1>6. f[Len(list)] = list
  <2>1. f[Len(list)] \in Seq(X) /\ Len(f[Len(list)]) = Len(list)
        /\ \A i \in 1 .. Len(list) : f[Len(list)][i] = list[i]
    BY <1>5
  <2>. QED BY <2>1, SameList
<1>. QED BY <1>1, <1>6 DEF Others

\* A list without what is in it once.
LEMMA OthersOnce ==
    ASSUME NEW X, NEW list \in Seq(X), NEW k \in 1 .. Len(list),
           \A i \in 1 .. Len(list) : list[i] = list[k] => i = k
    PROVE  /\ Others(list, list[k]) \in Seq(X)
           /\ Len(Others(list, list[k])) = Len(list) - 1
           /\ \A i \in 1 .. Len(list) - 1 :
                 Others(list, list[k])[i] = IF i < k THEN list[i] ELSE list[i + 1]
<1>. DEFINE S == ToSet(list) \ {list[k]}
<1>1. PICK f : Chosen(list, S, f) /\ Retained(list, S) = f[Len(list)]
  BY ChosenExists
<1>. DEFINE n(m) == IF m < k THEN m ELSE m - 1
            T == {m \in 0 .. Len(list) :
                    /\ f[m] \in Seq(X)
                    /\ Len(f[m]) = n(m)
                    /\ \A i \in 1 .. n(m) : f[m][i] = IF i < k THEN list[i] ELSE list[i + 1]}
<1>2. 0 \in T
  BY <1>1 DEF Chosen
<1>3. ASSUME NEW m \in 1 .. Len(list), m - 1 \in T PROVE m \in T
  <2>1. list[m] \in X /\ (list[m] \in S <=> m # k) /\ m \in 0 .. Len(list) /\ m # 0
    BY DEF ToSet
  <2>2. f[m] = IF m # k THEN Append(f[m - 1], list[m]) ELSE f[m - 1]
    BY <1>1, <2>1 DEF Chosen
  <2>3. /\ f[m - 1] \in Seq(X) /\ Len(f[m - 1]) = n(m - 1)
        /\ \A i \in 1 .. n(m - 1) : f[m - 1][i] = IF i < k THEN list[i] ELSE list[i + 1]
    BY <1>3
  <2>. HIDE DEF S
  <2>4. CASE m # k
    <3>1. f[m] \in Seq(X) /\ Len(f[m]) = n(m - 1) + 1 /\ n(m) = n(m - 1) + 1
      BY <2>1, <2>2, <2>3, <2>4
    <3>2. ASSUME NEW i \in 1 .. n(m) PROVE f[m][i] = IF i < k THEN list[i] ELSE list[i + 1]
      <4>1. CASE i \in 1 .. n(m - 1)
        <5>1. f[m][i] = f[m - 1][i]
          BY <2>1, <2>2, <2>3, <2>4, <4>1
        <5>. QED BY <5>1, <2>3, <4>1
      <4>2. CASE i = n(m)
        <5>1. f[m][i] = list[m]
          BY <2>1, <2>2, <2>3, <2>4, <3>1, <4>2
        <5>. QED BY <5>1, <4>2, <2>4
      <4>. QED BY <3>1, <4>1, <4>2
    <3>. QED BY <2>1, <3>1, <3>2
  <2>5. CASE m = k
    BY <2>1, <2>2, <2>3, <2>5
  <2>. QED BY <2>4, <2>5
<1>4. Len(list) \in Nat /\ Len(list) \in 0 .. Len(list)
  OBVIOUS
<1>5. Len(list) \in T
  <2>. HIDE DEF T
  <2>. QED BY <1>2, <1>3, <1>4, UpTo
<1>6. n(Len(list)) = Len(list) - 1
  BY <1>4
<1>7. Others(list, list[k]) = f[Len(list)]
  BY <1>1 DEF Others
<1>8. /\ f[Len(list)] \in Seq(X)
      /\ Len(f[Len(list)]) = n(Len(list))
      /\ \A i \in 1 .. n(Len(list)) : f[Len(list)][i] = IF i < k THEN list[i] ELSE list[i + 1]
  BY <1>5
<1>. QED BY <1>6, <1>7, <1>8

\* The end of a list.
LEMMA RestOfList ==
    ASSUME NEW X, NEW list \in Seq(X), NEW q \in 0 .. Len(list)
    PROVE  /\ SubSeq(list, q + 1, Len(list)) \in Seq(X)
           /\ Len(SubSeq(list, q + 1, Len(list))) = Len(list) - q
           /\ \A i \in 1 .. Len(list) - q : SubSeq(list, q + 1, Len(list))[i] = list[q + i]
<1>1. \A i \in q + 1 .. Len(list) : list[i] \in X
  OBVIOUS
<1>2. /\ SubSeq(list, q + 1, Len(list)) \in Seq(X)
      /\ Len(SubSeq(list, q + 1, Len(list))) =
            IF q + 1 <= Len(list) THEN Len(list) - (q + 1) + 1 ELSE 0
      /\ \A i \in 1 .. Len(list) - (q + 1) + 1 :
            SubSeq(list, q + 1, Len(list))[i] = list[(q + 1) + i - 1]
  BY <1>1, SubSeqProperties
<1>3. Len(list) \in Nat /\ \A i \in Nat : (q + 1) + i - 1 = q + i
  OBVIOUS
<1>. QED BY <1>2, <1>3

\* Arithmetic of the part behind position q.
LEMMA TheRest ==
    ASSUME NEW n \in Nat, NEW q \in 0 .. n
    PROVE  n - q \in Nat /\ (q + 1) + (n - q) = n + 1
OBVIOUS

\* new is list with id as a new member after the first q members.
IsInserted(new, X, list, q, id) ==
    /\ new \in Seq(X)
    /\ Len(new) = Len(list) + 1
    /\ \A i \in 1 .. Len(list) + 1 :
          new[i] = IF i <= q THEN list[i] ELSE IF i = q + 1 THEN id ELSE list[i - 1]

\* What InsertAt of the community modules makes of a list.
LEMMA InsertedAt ==
    ASSUME NEW X, NEW list \in Seq(X), NEW id \in X, NEW q \in 0 .. Len(list),
           NEW new, new = InsertAt(list, q + 1, id)
    PROVE  IsInserted(new, X, list, q, id)
<1>. DEFINE a == SubSeq(list, 1, q)
            b == SubSeq(list, q + 1, Len(list))
<1>1. q \in 0 .. Len(list) /\ Len(list) \in Nat
  OBVIOUS
<1>2. a \in Seq(X) /\ Len(a) = q /\ \A i \in 1 .. q : a[i] = list[i]
  BY <1>1
<1>3. b \in Seq(X) /\ Len(b) = Len(list) - q /\ \A i \in 1 .. Len(list) - q : b[i] = list[q + i]
  BY <1>1, RestOfList
<1>4. new = a \o <<id>> \o b
  <2>1. (q + 1) - 1 = q /\ q + 1 = q + 1
    BY <1>1
  <2>. QED BY <2>1 DEF InsertAt
<1>. HIDE DEF a, b
<1>5. /\ a \o <<id>> \in Seq(X) /\ Len(a \o <<id>>) = q + 1
      /\ \A i \in 1 .. q + 1 : (a \o <<id>>)[i] = IF i <= q THEN list[i] ELSE id
  BY <1>1, <1>2
<1>. DEFINE c == a \o <<id>>
<1>. HIDE DEF c
<1>9. c \in Seq(X) /\ Len(c) = q + 1 /\ \A i \in 1 .. q + 1 : c[i] = IF i <= q THEN list[i] ELSE id
  BY <1>5 DEF c
<1>6. /\ c \o b \in Seq(X) /\ Len(c \o b) = Len(list) + 1
      /\ \A i \in 1 .. Len(list) + 1 : (c \o b)[i] = IF i <= q + 1 THEN c[i] ELSE b[i - (q + 1)]
  <2>1. c \in Seq(X) /\ Len(c) = q + 1 /\ Len(b) \in Nat /\ Len(c) + Len(b) = Len(list) + 1
    <3>1. Len(c) = q + 1 /\ Len(b) = Len(list) - q
      BY <1>3, <1>9
    <3>2. Len(list) - q \in Nat /\ (q + 1) + (Len(list) - q) = Len(list) + 1
      BY <1>1, TheRest
    <3>. QED BY <3>1, <3>2, <1>9
  <2>2. c \o b \in Seq(X) /\ Len(c \o b) = Len(list) + 1
    <3>1. c \o b \in Seq(X) /\ Len(c \o b) = Len(c) + Len(b)
      BY <1>3, <1>9, ConcatProperties
    <3>. QED BY <3>1, <2>1
  <2>3. ASSUME NEW i \in 1 .. Len(list) + 1
        PROVE  (c \o b)[i] = IF i <= q + 1 THEN c[i] ELSE b[i - (q + 1)]
    <3>1. \A j \in 1 .. Len(c) + Len(b) :
             (c \o b)[j] = IF j <= Len(c) THEN c[j] ELSE b[j - Len(c)]
      BY <1>3, <1>9, ConcatProperties
    <3>. QED BY <3>1, <2>1
  <2>. QED BY <2>2, <2>3
<1>7. ASSUME NEW i \in 1 .. Len(list) + 1
      PROVE  (c \o b)[i] = IF i <= q THEN list[i] ELSE IF i = q + 1 THEN id ELSE list[i - 1]
  <2>1. CASE i <= q + 1
    <3>1. (c \o b)[i] = c[i] /\ i \in 1 .. q + 1
      BY <1>1, <1>6, <2>1
    <3>2. c[i] = IF i <= q THEN list[i] ELSE id
      BY <1>9, <3>1
    <3>3. i <= q \/ i = q + 1
      BY <1>1, <2>1
    <3>. QED BY <3>1, <3>2, <3>3
  <2>2. CASE i > q + 1
    <3>1. i - (q + 1) \in 1 .. Len(list) - q /\ q + (i - (q + 1)) = i - 1
      BY <1>1, <2>2
    <3>2. (c \o b)[i] = b[i - (q + 1)]
      BY <1>6, <2>2, <1>1
    <3>3. b[i - (q + 1)] = list[i - 1]
      BY <1>3, <3>1
    <3>. QED BY <3>2, <3>3, <2>2, <1>1
  <2>3. i <= q + 1 \/ i > q + 1
    BY <1>1
  <2>. QED BY <2>1, <2>2, <2>3
<1>. DEFINE d == c \o b
<1>8. new = d
  BY <1>4 DEF c
<1>10. d \in Seq(X) /\ Len(d) = Len(list) + 1
  BY <1>6
<1>11. \A i \in 1 .. Len(list) + 1 :
          d[i] = IF i <= q THEN list[i] ELSE IF i = q + 1 THEN id ELSE list[i - 1]
  BY <1>7
<1>. HIDE DEF d
<1>. QED BY <1>8, <1>10, <1>11 DEF IsInserted

\* A new member joins the members.
LEMMA InsertChildMembers ==
    ASSUME NEW X, NEW list \in Seq(X), NEW pos \in Nat, NEW id \in X
    PROVE  /\ InsertChild(list, pos, id) \in Seq(X)
           /\ ToSet(InsertChild(list, pos, id)) = ToSet(list) \cup {id}
           /\ IsInjective(list) /\ id \notin ToSet(list) => IsInjective(InsertChild(list, pos, id))
<1>. DEFINE q == IF pos <= Len(list) THEN pos ELSE Len(list)
            new == InsertChild(list, pos, id)
<1>1. Len(list) \in Nat /\ q \in 0 .. Len(list) /\ DOMAIN list = 1 .. Len(list)
  OBVIOUS
<1>2. /\ new \in Seq(X) /\ Len(new) = Len(list) + 1
      /\ \A i \in 1 .. Len(list) + 1 :
            new[i] = IF i <= q THEN list[i] ELSE IF i = q + 1 THEN id ELSE list[i - 1]
  <2>1. new = InsertAt(list, q + 1, id)
    BY DEF InsertChild
  <2>. HIDE DEF new, q
  <2>2. IsInserted(new, X, list, q, id)
    BY <1>1, <2>1, InsertedAt
  <2>. QED BY <2>2 DEF IsInserted
<1>3. DOMAIN new = 1 .. Len(list) + 1
  BY <1>1, <1>2
<1>. HIDE DEF q, new
<1>4. ToSet(new) \subseteq ToSet(list) \cup {id}
  <2>1. ASSUME NEW i \in 1 .. Len(list) + 1 PROVE new[i] \in ToSet(list) \cup {id}
    <3>1. CASE i <= q
      <4>1. i \in DOMAIN list /\ new[i] = list[i]
        BY <1>1, <1>2, <3>1
      <4>. QED BY <4>1 DEF ToSet
    <3>2. CASE i = q + 1
      BY <1>1, <1>2, <3>2
    <3>3. CASE i > q + 1
      <4>1. i - 1 \in DOMAIN list /\ new[i] = list[i - 1]
        BY <1>1, <1>2, <3>3
      <4>. QED BY <4>1 DEF ToSet
    <3>. QED BY <1>1, <3>1, <3>2, <3>3
  <2>. QED BY <1>3, <2>1 DEF ToSet
<1>5. ToSet(list) \cup {id} \subseteq ToSet(new)
  <2>1. ASSUME NEW i \in 1 .. Len(list) PROVE list[i] \in ToSet(new)
    <3>1. CASE i <= q
      <4>1. i \in DOMAIN new /\ new[i] = list[i]
        BY <1>1, <1>2, <1>3, <3>1
      <4>. QED BY <4>1 DEF ToSet
    <3>2. CASE i > q
      <4>1. i + 1 \in DOMAIN new /\ new[i + 1] = list[i]
        BY <1>1, <1>2, <1>3, <3>2
      <4>. QED BY <4>1 DEF ToSet
    <3>. QED BY <1>1, <3>1, <3>2
  <2>2. q + 1 \in DOMAIN new /\ new[q + 1] = id
    BY <1>1, <1>2, <1>3
  <2>. QED BY <1>1, <2>1, <2>2 DEF ToSet
<1>6. ASSUME IsInjective(list), id \notin ToSet(list) PROVE IsInjective(new)
  <2>. DEFINE from(i) == IF i <= q THEN i ELSE i - 1
  <2>1. ASSUME NEW i \in 1 .. Len(list) + 1, i # q + 1
        PROVE  from(i) \in DOMAIN list /\ new[i] = list[from(i)] /\ new[i] # id
    <3>1. from(i) \in DOMAIN list /\ new[i] = list[from(i)]
      BY <1>1, <1>2, <2>1
    <3>. QED BY <3>1, <1>6 DEF ToSet
  <2>2. new[q + 1] = id
    BY <1>1, <1>2
  <2>3. ASSUME NEW i \in 1 .. Len(list) + 1, NEW j \in 1 .. Len(list) + 1, new[i] = new[j]
        PROVE  i = j
    <3>1. CASE i = q + 1 \/ j = q + 1
      BY <2>1, <2>2, <2>3, <3>1
    <3>2. CASE i # q + 1 /\ j # q + 1
      <4>1. from(i) \in DOMAIN list /\ from(j) \in DOMAIN list /\ list[from(i)] = list[from(j)]
        BY <2>1, <2>3, <3>2
      <4>. HIDE DEF from
      <4>2. from(i) = from(j)
        BY <4>1, <1>6 DEF IsInjective
      <4>. QED BY <4>2, <3>2, <1>1 DEF from
    <3>. QED BY <3>1, <3>2
  <2>. QED BY <1>3, <2>3 DEF IsInjective
<1>. QED BY <1>2, <1>4, <1>5, <1>6 DEF new

\* The members of a list without id; a list that names nothing twice still does.
LEMMA OthersMembers ==
    ASSUME NEW X, NEW list \in Seq(X), NEW id, IsInjective(list)
    PROVE  /\ Others(list, id) \in Seq(X)
           /\ ToSet(Others(list, id)) = ToSet(list) \ {id}
           /\ IsInjective(Others(list, id))
<1>. DEFINE new == Others(list, id)
<1>0. DOMAIN list = 1 .. Len(list) /\ Len(list) \in Nat
  OBVIOUS
<1>1. CASE id \notin ToSet(list)
  BY <1>1, OthersAbsent
<1>2. CASE id \in ToSet(list)
  <2>1. PICK k \in 1 .. Len(list) : list[k] = id
    BY <1>0, <1>2 DEF ToSet
  <2>2. \A i \in 1 .. Len(list) : list[i] = list[k] => i = k
    BY <1>0 DEF IsInjective
  <2>3. /\ new \in Seq(X) /\ Len(new) = Len(list) - 1
        /\ \A i \in 1 .. Len(list) - 1 : new[i] = IF i < k THEN list[i] ELSE list[i + 1]
    BY <2>1, <2>2, OthersOnce
  <2>4. DOMAIN new = 1 .. Len(list) - 1
    BY <2>3, <1>0
  <2>. HIDE DEF new
  <2>. DEFINE from(i) == IF i < k THEN i ELSE i + 1
  <2>5. \A i \in 1 .. Len(list) - 1 :
           from(i) \in DOMAIN list /\ from(i) # k /\ new[i] = list[from(i)]
    BY <1>0, <2>3
  <2>6. \A i \in 1 .. Len(list) : i # k => \E j \in 1 .. Len(list) - 1 : from(j) = i
    <3>1. ASSUME NEW i \in 1 .. Len(list), i < k
          PROVE  i \in 1 .. Len(list) - 1 /\ from(i) = i
      BY <1>0, <3>1
    <3>2. ASSUME NEW i \in 1 .. Len(list), i > k
          PROVE  i - 1 \in 1 .. Len(list) - 1 /\ from(i - 1) = i
      BY <1>0, <3>2
    <3>. HIDE DEF from
    <3>3. \A i \in 1 .. Len(list) : i # k => i < k \/ i > k
      BY <1>0
    <3>. QED BY <3>1, <3>2, <3>3
  <2>7. \A i, j \in 1 .. Len(list) - 1 : from(i) = from(j) => i = j
    BY <1>0
  <2>. HIDE DEF from
  <2>8. ToSet(new) = ToSet(list) \ {id}
    <3>1. ASSUME NEW i \in 1 .. Len(list) - 1 PROVE new[i] \in ToSet(list) \ {id}
      <4>1. from(i) \in 1 .. Len(list) /\ from(i) # k /\ new[i] = list[from(i)]
        BY <2>5, <1>0
      <4>2. list[from(i)] # id
        BY <4>1, <2>1, <2>2
      <4>. QED BY <4>1, <4>2, <1>0 DEF ToSet
    <3>2. ASSUME NEW i \in 1 .. Len(list), list[i] # id PROVE list[i] \in ToSet(new)
      <4>1. PICK j \in 1 .. Len(list) - 1 : from(j) = i
        BY <2>1, <2>6, <3>2
      <4>2. new[j] = list[i]
        BY <4>1, <2>5
      <4>. QED BY <4>2, <2>4 DEF ToSet
    <3>. QED BY <3>1, <3>2, <2>4, <1>0 DEF ToSet
  <2>9. IsInjective(new)
    <3>1. ASSUME NEW i \in 1 .. Len(list) - 1, NEW j \in 1 .. Len(list) - 1, new[i] = new[j]
          PROVE  i = j
      <4>1. from(i) \in DOMAIN list /\ from(j) \in DOMAIN list /\ list[from(i)] = list[from(j)]
        BY <2>5, <3>1
      <4>2. from(i) = from(j)
        BY <4>1 DEF IsInjective
      <4>. QED BY <4>2, <2>7
    <3>. QED BY <3>1, <2>4 DEF IsInjective
  <2>. QED BY <2>3, <2>8, <2>9 DEF new
<1>. QED BY <1>1, <1>2

\* Putting a member back where it was.
LEMMA PutBack ==
    ASSUME NEW X, NEW list \in Seq(X), IsInjective(list), NEW k \in 1 .. Len(list)
    PROVE  InsertChild(Others(list, list[k]), k - 1, list[k]) = list
<1>. DEFINE less == Others(list, list[k])
            new == InsertChild(less, k - 1, list[k])
<1>0. DOMAIN list = 1 .. Len(list) /\ Len(list) \in Nat /\ k - 1 \in Nat /\ list[k] \in X
  OBVIOUS
<1>1. \A i \in 1 .. Len(list) : list[i] = list[k] => i = k
  BY <1>0 DEF IsInjective
<1>2. /\ less \in Seq(X) /\ Len(less) = Len(list) - 1
      /\ \A i \in 1 .. Len(list) - 1 : less[i] = IF i < k THEN list[i] ELSE list[i + 1]
  BY <1>1, OthersOnce
<1>. HIDE DEF less
<1>3. k - 1 \in 0 .. Len(less) /\ new = InsertAt(less, (k - 1) + 1, list[k])
  BY <1>0, <1>2 DEF InsertChild
<1>4. /\ new \in Seq(X) /\ Len(new) = Len(less) + 1
      /\ \A i \in 1 .. Len(less) + 1 :
            new[i] = IF i <= k - 1 THEN less[i] ELSE IF i = (k - 1) + 1 THEN list[k] ELSE less[i - 1]
  <2>. HIDE DEF new
  <2>1. IsInserted(new, X, less, k - 1, list[k])
    BY <1>0, <1>2, <1>3, InsertedAt
  <2>. QED BY <2>1 DEF IsInserted
<1>. HIDE DEF new
<1>5. Len(new) = Len(list)
  <2>1. (Len(list) - 1) + 1 = Len(list)
    BY <1>0
  <2>. QED BY <2>1, <1>2, <1>4
<1>6. ASSUME NEW i \in 1 .. Len(list) PROVE new[i] = list[i]
  <2>1. CASE i < k
    <3>1. i <= k - 1 /\ i \in 1 .. Len(list) - 1 /\ i \in 1 .. Len(less) + 1
      BY <1>0, <1>2, <2>1
    <3>2. new[i] = less[i]
      BY <1>4, <3>1
    <3>. QED BY <1>2, <2>1, <3>1, <3>2
  <2>2. CASE i = k
    BY <1>0, <1>2, <1>4, <2>2
  <2>3. CASE i > k
    <3>1. new[i] = less[i - 1] /\ i - 1 \in 1 .. Len(list) - 1 /\ (i - 1) + 1 = i /\ ~(i - 1 < k)
      BY <1>0, <1>2, <1>4, <2>3
    <3>. QED BY <1>2, <3>1
  <2>. QED BY <1>0, <2>1, <2>2, <2>3
<1>7. new = list
  BY <1>4, <1>5, <1>6, SameList
<1>. QED BY <1>7 DEF new, less

\* Taking a member away that was put at the end.
LEMMA TakeAgain ==
    ASSUME NEW X, NEW list \in Seq(X), NEW id \in X, id \notin ToSet(list)
    PROVE  Others(InsertChild(list, Len(list), id), id) = list
<1>. DEFINE n == Len(list)
            more == InsertChild(list, n, id)
<1>0. n \in Nat /\ DOMAIN list = 1 .. n /\ n \in 0 .. Len(list)
  OBVIOUS
<1>1. /\ more \in Seq(X) /\ Len(more) = n + 1
      /\ \A i \in 1 .. n + 1 :
            more[i] = IF i <= n THEN list[i] ELSE IF i = n + 1 THEN id ELSE list[i - 1]
  <2>1. more = InsertAt(list, n + 1, id)
    BY <1>0 DEF InsertChild
  <2>2. n = Len(list)
    OBVIOUS
  <2>. HIDE DEF more, n
  <2>3. IsInserted(more, X, list, n, id)
    BY <1>0, <2>1, <2>2, InsertedAt
  <2>. QED BY <2>2, <2>3 DEF IsInserted
<1>. HIDE DEF more
<1>2. n + 1 \in 1 .. Len(more) /\ more[n + 1] = id
  BY <1>0, <1>1
<1>3. \A i \in 1 .. n : more[i] = list[i] /\ more[i] # id
  BY <1>0, <1>1 DEF ToSet
<1>4. \A i \in 1 .. Len(more) : more[i] = more[n + 1] => i = n + 1
  BY <1>0, <1>1, <1>2, <1>3
<1>. DEFINE less == Others(more, more[n + 1])
<1>5. /\ less \in Seq(X) /\ Len(less) = Len(more) - 1
      /\ \A i \in 1 .. Len(more) - 1 : less[i] = IF i < n + 1 THEN more[i] ELSE more[i + 1]
  BY <1>1, <1>2, <1>4, OthersOnce
<1>. HIDE DEF less
<1>6. Len(less) = n /\ \A i \in 1 .. n : less[i] = list[i]
  BY <1>0, <1>1, <1>3, <1>5
<1>7. less = list
  BY <1>5, <1>6, SameList
<1>. QED BY <1>2, <1>7 DEF less, more

-----------------------------------------------------------------------------
(* Trees                                                                   *)

\* The parents a list may be kept by.
Parents(t) == TaskIds(t) \cup {NoTask}

\* A set of tasks with all their children.
IsClosed(t, S) == \A j \in S : ToSet(t.task[j].children) \subseteq S

\* The parts of IsForest, the last one in the form proofs use.
ListsAreSets(t) ==
    \A p \in Parents(t) : IsInjective(Siblings(t, p)) /\ ToSet(Siblings(t, p)) \subseteq TaskIds(t)

ListsAreApart(t) ==
    \A p, q \in Parents(t) :
        p # q => ToSet(Siblings(t, p)) \cap ToSet(Siblings(t, q)) = {}

IsRooted(t) ==
    \A S \in SUBSET TaskIds(t) : ToSet(t.roots) \subseteq S /\ IsClosed(t, S) => S = TaskIds(t)

\* The parts of a tree have their types, and 0 is no task.
LEMMA TreeParts ==
    ASSUME NEW t, IsTree(t)
    PROVE  /\ TaskIds(t) \in SUBSET Ids
           /\ t.roots \in Seq(Ids)
           /\ t.task \in [TaskIds(t) -> Task]
           /\ t = [roots |-> t.roots, task |-> t.task]
           /\ NoTask \notin TaskIds(t)
<1>1. PICK I \in SUBSET Ids : t \in [roots : Seq(Ids), task : [I -> Task]]
  BY DEF IsTree
<1>2. TaskIds(t) = I
  BY <1>1 DEF TaskIds
<1>3. NoTask \notin Ids
  BY EditingConstants DEF Ids, NoTask
<1>. QED BY <1>1, <1>2, <1>3

\* Roots and tasks of the right types make a tree.
LEMMA TreeMade ==
    ASSUME NEW I \in SUBSET Ids, NEW roots \in Seq(Ids), NEW task \in [I -> Task]
    PROVE  /\ IsTree([roots |-> roots, task |-> task])
           /\ TaskIds([roots |-> roots, task |-> task]) = I
BY DEF IsTree, TaskIds

\* Lists of tasks are lists of ids.
LEMMA ListType ==
    ASSUME NEW t, IsTree(t), NEW p \in Parents(t)
    PROVE  /\ Siblings(t, p) \in Seq(Ids)
           /\ p = NoTask => Siblings(t, p) = t.roots
           /\ p \in TaskIds(t) => Siblings(t, p) = t.task[p].children
<1>1. t.roots \in Seq(Ids) /\ NoTask \notin TaskIds(t) /\ t.task \in [TaskIds(t) -> Task]
  BY TreeParts
<1>2. CASE p = NoTask
  BY <1>1, <1>2 DEF Siblings
<1>3. CASE p \in TaskIds(t)
  <2>1. t.task[p].children \in Seq(Ids)
    BY <1>1, <1>3 DEF Task
  <2>. QED BY <1>1, <1>3, <2>1 DEF Siblings
<1>. QED BY <1>2, <1>3 DEF Parents

\* Below is the least set with id that contains the children of its members.
LEMMA BelowIsLeast ==
    ASSUME NEW t, NEW id, NEW S, id \in S,
           \A j \in S \cap TaskIds(t) : ToSet(t.task[j].children) \cap TaskIds(t) \subseteq S
    PROVE  Below(t, id) \subseteq S
<1>. DEFINE T == S \cap TaskIds(t)
<1>1. T \in SUBSET TaskIds(t) /\ {id} \cap TaskIds(t) \subseteq T
  OBVIOUS
<1>2. \A j \in T : ToSet(t.task[j].children) \cap TaskIds(t) \subseteq T
  OBVIOUS
<1>3. ASSUME NEW i \in Below(t, id) PROVE i \in T
  <2>. HIDE DEF T
  <2>. QED BY <1>1, <1>2, <1>3 DEF Below
<1>. QED BY <1>3

\* Below holds its task and the children of its members.
LEMMA BelowIsClosed ==
    ASSUME NEW t, NEW id
    PROVE  /\ Below(t, id) \subseteq TaskIds(t)
           /\ id \in TaskIds(t) => id \in Below(t, id)
           /\ \A j \in Below(t, id) : ToSet(t.task[j].children) \cap TaskIds(t) \subseteq Below(t, id)
<1>1. ASSUME NEW j \in Below(t, id), NEW i \in ToSet(t.task[j].children) \cap TaskIds(t)
      PROVE  i \in Below(t, id)
  <2>1. ASSUME NEW S \in SUBSET TaskIds(t), {id} \cap TaskIds(t) \subseteq S,
               \A x \in S : ToSet(t.task[x].children) \cap TaskIds(t) \subseteq S
        PROVE  i \in S
    <3>1. j \in S
      BY <1>1, <2>1 DEF Below
    <3>. QED BY <3>1, <2>1, <1>1
  <2>. QED BY <1>1, <2>1 DEF Below
<1>2. id \in TaskIds(t) => id \in Below(t, id)
  BY DEF Below
<1>3. Below(t, id) \subseteq TaskIds(t)
  BY DEF Below
<1>. QED BY <1>1, <1>2, <1>3

\* What is below id but not id has a parent there.
LEMMA BelowHasParents ==
    ASSUME NEW t, NEW id, NEW i \in Below(t, id), i # id
    PROVE  \E j \in Below(t, id) : i \in ToSet(t.task[j].children)
<1>. DEFINE S == {x \in TaskIds(t) \cup {id} :
                    x = id \/ \E j \in Below(t, id) : x \in ToSet(t.task[j].children)}
            U == S \cap (Below(t, id) \cup {id})
<1>1. id \in U
  OBVIOUS
<1>2. ASSUME NEW j \in U \cap TaskIds(t), NEW x \in ToSet(t.task[j].children) \cap TaskIds(t)
      PROVE  x \in U
  <2>1. j \in Below(t, id)
    BY BelowIsClosed
  <2>2. x \in Below(t, id)
    BY <2>1, BelowIsClosed
  <2>. QED BY <2>1, <2>2
<1>3. Below(t, id) \subseteq U
  <2>. HIDE DEF U
  <2>. QED BY <1>1, <1>2, BelowIsLeast
<1>. QED BY <1>3

\* A forest by its parts: lists without repetition, lists that are apart, and
\* no tasks away from the roots.
LEMMA ForestParts ==
    ASSUME NEW t, IsTree(t)
    PROVE  IsForest(t) <=> ListsAreSets(t) /\ ListsAreApart(t) /\ IsRooted(t)
<1>. DEFINE U == UNION {Below(t, r) : r \in ToSet(t.roots)}
<1>1. NoTask \in Parents(t) /\ Siblings(t, NoTask) = t.roots /\ TaskIds(t) \subseteq Parents(t)
      /\ \A p \in TaskIds(t) : Siblings(t, p) = t.task[p].children
  BY ListType DEF Parents, Siblings
<1>2. ASSUME ListsAreSets(t), U = TaskIds(t) PROVE IsRooted(t)
  <2>1. ASSUME NEW S \in SUBSET TaskIds(t), ToSet(t.roots) \subseteq S, IsClosed(t, S)
        PROVE  TaskIds(t) \subseteq S
    <3>1. ASSUME NEW r \in ToSet(t.roots) PROVE Below(t, r) \subseteq S
      <4>1. r \in S /\ \A j \in S \cap TaskIds(t) : ToSet(t.task[j].children) \cap TaskIds(t) \subseteq S
        BY <2>1 DEF IsClosed
      <4>. QED BY <4>1, BelowIsLeast
    <3>. QED BY <3>1, <1>2
  <2>. QED BY <2>1 DEF IsRooted
<1>3. ASSUME ListsAreSets(t), IsRooted(t) PROVE U = TaskIds(t)
  <2>1. U \in SUBSET TaskIds(t)
    BY BelowIsClosed
  <2>2. ToSet(t.roots) \subseteq U
    BY <1>1, <1>3, BelowIsClosed DEF ListsAreSets
  <2>3. IsClosed(t, U)
    <3>1. ASSUME NEW j \in U PROVE ToSet(t.task[j].children) \subseteq U
      <4>1. PICK r \in ToSet(t.roots) : j \in Below(t, r)
        OBVIOUS
      <4>2. ToSet(t.task[j].children) \subseteq TaskIds(t)
        BY <1>1, <1>3, <2>1 DEF ListsAreSets
      <4>3. ToSet(t.task[j].children) \subseteq Below(t, r)
        BY <4>1, <4>2, BelowIsClosed
      <4>. QED BY <4>3
    <3>. QED BY <3>1 DEF IsClosed
  <2>. HIDE DEF U
  <2>. QED BY <2>1, <2>2, <2>3, <1>3 DEF IsRooted
<1>4. IsForest(t) <=> ListsAreSets(t) /\ ListsAreApart(t) /\ U = TaskIds(t)
  BY DEF IsForest, ListsAreSets, ListsAreApart, Parents
<1>. QED BY <1>2, <1>3, <1>4

\* Trees with the same tasks and the same lists.
SameShape(a, b) ==
    /\ a.roots = b.roots
    /\ TaskIds(a) = TaskIds(b)
    /\ \A i \in TaskIds(a) : a.task[i].children = b.task[i].children

\* Below depends on the lists of children alone.
LEMMA ShapeBelow ==
    ASSUME NEW a, NEW b, SameShape(a, b)
    PROVE  \A id : Below(a, id) = Below(b, id)
BY DEF SameShape, Below

\* So does being a forest.
LEMMA ShapeForest ==
    ASSUME NEW a, NEW b, SameShape(a, b), IsForest(a), NoTask \notin TaskIds(a)
    PROVE  IsForest(b)
<1>1. TaskIds(a) = TaskIds(b) /\ a.roots = b.roots /\ \A id : Below(a, id) = Below(b, id)
  BY ShapeBelow DEF SameShape
<1>2. \A p \in TaskIds(a) \cup {NoTask} : Siblings(a, p) = Siblings(b, p)
  BY <1>1 DEF SameShape, Siblings
<1>. QED BY <1>1, <1>2 DEF IsForest

\* Every task of a forest is in a list.
LEMMA EveryTaskIsListed ==
    ASSUME NEW t, IsTree(t), IsForest(t), NEW id \in TaskIds(t)
    PROVE  \E p \in Parents(t) : id \in ToSet(Siblings(t, p))
<1>. SUFFICES ASSUME \A p \in Parents(t) : id \notin ToSet(Siblings(t, p)) PROVE FALSE
  OBVIOUS
<1>. DEFINE S == TaskIds(t) \ {id}
<1>1. ListsAreSets(t) /\ IsRooted(t)
  BY ForestParts
<1>2. ToSet(t.roots) \subseteq S
  BY <1>1, ListType DEF ListsAreSets, Parents
<1>3. ASSUME NEW j \in S PROVE ToSet(t.task[j].children) \subseteq S
  <2>1. j \in Parents(t) /\ Siblings(t, j) = t.task[j].children
    BY ListType DEF Parents
  <2>. QED BY <1>1, <2>1 DEF ListsAreSets
<1>4. S = TaskIds(t)
  BY <1>1, <1>2, <1>3 DEF IsRooted, IsClosed
<1>. QED BY <1>4

\* find_parent finds the one list that has the task.
LEMMA ParentLists ==
    ASSUME NEW t, IsTree(t), IsForest(t), NEW id \in TaskIds(t)
    PROVE  /\ ParentOf(t, id) \in Parents(t)
           /\ id \in ToSet(Siblings(t, ParentOf(t, id)))
           /\ \A p \in Parents(t) : p # ParentOf(t, id) => id \notin ToSet(Siblings(t, p))
<1>. DEFINE P == ParentOf(t, id)
<1>1. P \in Parents(t) /\ id \in ToSet(Siblings(t, P))
  <2>1. CASE \E p \in TaskIds(t) : id \in ToSet(t.task[p].children)
    <3>1. P \in TaskIds(t) /\ id \in ToSet(t.task[P].children)
      BY <2>1 DEF ParentOf
    <3>. QED BY <3>1, ListType DEF Parents
  <2>2. CASE ~\E p \in TaskIds(t) : id \in ToSet(t.task[p].children)
    <3>1. P = NoTask /\ P \in Parents(t)
      BY <2>2 DEF ParentOf, Parents
    <3>2. PICK p \in Parents(t) : id \in ToSet(Siblings(t, p))
      BY EveryTaskIsListed
    <3>3. p \notin TaskIds(t)
      <4>. SUFFICES ASSUME p \in TaskIds(t) PROVE FALSE
        OBVIOUS
      <4>1. Siblings(t, p) = t.task[p].children
        BY ListType DEF Parents
      <4>. QED BY <4>1, <3>2, <2>2
    <3>. QED BY <3>1, <3>2, <3>3 DEF Parents
  <2>. QED BY <2>1, <2>2
<1>2. ListsAreApart(t)
  BY ForestParts
<1>. HIDE DEF P
<1>3. \A p \in Parents(t) : p # P => id \notin ToSet(Siblings(t, p))
  BY <1>1, <1>2 DEF ListsAreApart
<1>. QED BY <1>1, <1>3 DEF P

\* No task is below itself: its parent is not in its subtree.
LEMMA ParentIsOutside ==
    ASSUME NEW t, IsTree(t), IsForest(t), NEW id \in TaskIds(t)
    PROVE  ParentOf(t, id) \notin Below(t, id)
<1>. DEFINE B == Below(t, id)
            S == TaskIds(t) \ B
<1>. SUFFICES ASSUME ParentOf(t, id) \in B PROVE FALSE
  OBVIOUS
<1>0. B \subseteq TaskIds(t) /\ id \in B /\ NoTask \notin TaskIds(t)
  BY BelowIsClosed, TreeParts
<1>. HIDE DEF B
<1>1. ListsAreSets(t) /\ ListsAreApart(t) /\ IsRooted(t)
  BY ForestParts
<1>2. ASSUME NEW x \in B PROVE \E j \in B : x \in ToSet(Siblings(t, j))
  <2>1. CASE x = id
    BY <2>1, ParentLists
  <2>2. CASE x # id
    <3>1. PICK j \in B : x \in ToSet(t.task[j].children)
      BY <2>2, BelowHasParents DEF B
    <3>2. j \in TaskIds(t) /\ Siblings(t, j) = t.task[j].children
      BY <1>0, ListType DEF Parents
    <3>. QED BY <3>1, <3>2
  <2>. QED BY <2>1, <2>2
<1>3. ASSUME NEW p \in Parents(t) \ B, NEW x \in ToSet(Siblings(t, p)) PROVE x \in S
  <2>1. x \in TaskIds(t)
    BY <1>1, <1>3 DEF ListsAreSets
  <2>2. x \notin B
    <3>. SUFFICES ASSUME x \in B PROVE FALSE
      OBVIOUS
    <3>1. PICK j \in B : x \in ToSet(Siblings(t, j))
      BY <1>2
    <3>2. j # p /\ j \in Parents(t) /\ p \in Parents(t)
      BY <1>0, <1>3 DEF Parents
    <3>. QED BY <3>1, <3>2, <1>1, <1>3 DEF ListsAreApart
  <2>. QED BY <2>1, <2>2
<1>4. ToSet(t.roots) \subseteq S
  <2>1. NoTask \in Parents(t) \ B /\ Siblings(t, NoTask) = t.roots
    BY <1>0, ListType DEF Parents
  <2>. QED BY <2>1, <1>3
<1>5. ASSUME NEW j \in S PROVE ToSet(t.task[j].children) \subseteq S
  <2>1. j \in Parents(t) \ B /\ Siblings(t, j) = t.task[j].children
    BY <1>5, ListType DEF Parents
  <2>. QED BY <2>1, <1>3
<1>6. S = TaskIds(t)
  BY <1>1, <1>4, <1>5 DEF IsRooted, IsClosed
<1>. QED BY <1>0, <1>6

\* No list of a task outside the subtree of id names a task in it, but for the
\* parent of id.
LEMMA SubtreeIsApart ==
    ASSUME NEW t, IsTree(t), IsForest(t), NEW id \in TaskIds(t),
           NEW p \in Parents(t) \ Below(t, id), NEW x \in ToSet(Siblings(t, p)), x # id
    PROVE  x \in TaskIds(t) \ Below(t, id)
<1>1. ListsAreSets(t) /\ ListsAreApart(t)
  BY ForestParts
<1>2. x \in TaskIds(t)
  BY <1>1 DEF ListsAreSets
<1>3. ASSUME x \in Below(t, id) PROVE FALSE
  <2>1. PICK j \in Below(t, id) : x \in ToSet(t.task[j].children)
    BY <1>3, BelowHasParents
  <2>2. j \in TaskIds(t) /\ j # p
    BY BelowIsClosed
  <2>3. j \in Parents(t) /\ p \in Parents(t) /\ Siblings(t, j) = t.task[j].children
    BY <2>2, ListType DEF Parents
  <2>. QED BY <1>1, <2>1, <2>2, <2>3 DEF ListsAreApart
<1>. QED BY <1>2, <1>3

\* A task with other children.
LEMMA WithChildren ==
    ASSUME NEW k \in Task, NEW list \in Seq(Ids)
    PROVE  /\ [k EXCEPT !.children = list] \in Task
           /\ [k EXCEPT !.children = list].children = list
BY DEF Task

\* Two trees are the same if they have the same tasks and roots.
LEMMA SameTree ==
    ASSUME NEW a, NEW b, IsTree(a), IsTree(b), a.roots = b.roots, TaskIds(a) = TaskIds(b),
           \A i \in TaskIds(a) : a.task[i] = b.task[i]
    PROVE  a = b
<1>1. /\ a.task \in [TaskIds(a) -> Task] /\ b.task \in [TaskIds(a) -> Task]
      /\ a = [roots |-> a.roots, task |-> a.task] /\ b = [roots |-> b.roots, task |-> b.task]
  BY TreeParts
<1>2. a.task = b.task
  BY <1>1
<1>. QED BY <1>1, <1>2

\* What remove_task leaves.
LEMMA Removed ==
    ASSUME NEW t, IsTree(t), NEW id, NEW r, r = RemoveTask(t, id)
    PROVE  /\ IsTree(r)
           /\ TaskIds(r) = TaskIds(t) \ Below(t, id)
           /\ r.roots = Others(t.roots, id)
           /\ \A i \in TaskIds(r) : /\ r.task[i] = [t.task[i] EXCEPT !.children = Others(@, id)]
                                    /\ r.task[i].children = Others(t.task[i].children, id)
           /\ \A p \in Parents(r) : p \in Parents(t) /\ Siblings(r, p) = Others(Siblings(t, p), id)
<1>. DEFINE I == TaskIds(t) \ Below(t, id)
            f == [i \in I |-> [t.task[i] EXCEPT !.children = Others(t.task[i].children, id)]]
<1>0. /\ TaskIds(t) \in SUBSET Ids /\ t.roots \in Seq(Ids) /\ t.task \in [TaskIds(t) -> Task]
      /\ NoTask \notin TaskIds(t)
  BY TreeParts
<1>1. Others(t.roots, id) \in Seq(Ids)
  BY <1>0, RetainedType DEF Others
<1>2. ASSUME NEW i \in I
      PROVE  f[i] \in Task /\ f[i].children = Others(t.task[i].children, id)
  <2>1. t.task[i] \in Task /\ t.task[i].children \in Seq(Ids)
    BY <1>0 DEF Task
  <2>2. Others(t.task[i].children, id) \in Seq(Ids)
    BY <2>1, RetainedType DEF Others
  <2>. QED BY <2>1, <2>2, WithChildren
<1>3. I \in SUBSET Ids /\ f \in [I -> Task]
  BY <1>0, <1>2
<1>4. r = [roots |-> Others(t.roots, id), task |-> f]
  BY DEF RemoveTask
<1>. HIDE DEF f, I
<1>5. IsTree(r) /\ TaskIds(r) = I
  <2>. DEFINE roots == Others(t.roots, id)
  <2>1. roots \in Seq(Ids) /\ r = [roots |-> roots, task |-> f]
    BY <1>1, <1>4
  <2>. HIDE DEF roots
  <2>2. IsTree([roots |-> roots, task |-> f]) /\ TaskIds([roots |-> roots, task |-> f]) = I
    BY <1>3, <2>1, TreeMade
  <2>. QED BY <2>1, <2>2
<1>6. r.roots = Others(t.roots, id) /\ r.task = f
  BY <1>4
<1>7. \A i \in TaskIds(r) : r.task[i].children = Others(t.task[i].children, id)
  BY <1>2, <1>5, <1>6
<1>8. \A p \in Parents(r) : p \in Parents(t) /\ Siblings(r, p) = Others(Siblings(t, p), id)
  <2>1. ASSUME NEW p \in TaskIds(r) PROVE p \in Parents(t) /\ Siblings(r, p) = Others(Siblings(t, p), id)
    <3>1. p \in TaskIds(t)
      BY <1>5 DEF I
    <3>2. Siblings(r, p) = r.task[p].children /\ Siblings(t, p) = t.task[p].children
      BY <1>5, <3>1, ListType DEF Parents
    <3>. QED BY <1>7, <3>1, <3>2 DEF Parents
  <2>2. NoTask \in Parents(t) /\ Siblings(r, NoTask) = Others(Siblings(t, NoTask), id)
    BY <1>6 DEF Siblings, Parents
  <2>. QED BY <2>1, <2>2 DEF Parents
<1>. QED BY <1>5, <1>6, <1>7, <1>8 DEF I, f

\* A forest without a subtree is a forest.
LEMMA RemovedForest ==
    ASSUME NEW t, IsTree(t), IsForest(t), NEW id \in TaskIds(t), NEW r, r = RemoveTask(t, id)
    PROVE  IsForest(r)
<1>. DEFINE B == Below(t, id)
<1>1. /\ IsTree(r) /\ TaskIds(r) = TaskIds(t) \ B
      /\ \A p \in Parents(r) : p \in Parents(t) /\ Siblings(r, p) = Others(Siblings(t, p), id)
  BY Removed
<1>2. ListsAreSets(t) /\ ListsAreApart(t) /\ IsRooted(t)
  BY ForestParts
<1>3. B \subseteq TaskIds(t) /\ id \in B /\ NoTask \notin TaskIds(t)
  BY BelowIsClosed, TreeParts
<1>4. ASSUME NEW p \in Parents(r)
      PROVE  /\ IsInjective(Siblings(r, p))
             /\ ToSet(Siblings(r, p)) = ToSet(Siblings(t, p)) \ {id}
  <2>1. p \in Parents(t) /\ Siblings(t, p) \in Seq(Ids) /\ IsInjective(Siblings(t, p))
    BY <1>1, <1>2, ListType DEF ListsAreSets
  <2>. QED BY <1>1, <2>1, OthersMembers
<1>5. ASSUME NEW p \in Parents(r) PROVE p \in Parents(t) \ B
  BY <1>1, <1>3 DEF Parents
<1>6. ListsAreSets(r)
  <2>1. ASSUME NEW p \in Parents(r) PROVE ToSet(Siblings(r, p)) \subseteq TaskIds(r)
    BY <1>1, <1>4, <1>5, SubtreeIsApart
  <2>. QED BY <1>4, <2>1 DEF ListsAreSets
<1>7. ListsAreApart(r)
  BY <1>1, <1>2, <1>4 DEF ListsAreApart
<1>8. IsRooted(r)
  <2>. SUFFICES ASSUME NEW S \in SUBSET TaskIds(r), ToSet(r.roots) \subseteq S, IsClosed(r, S)
                PROVE  S = TaskIds(r)
    BY DEF IsRooted
  <2>. DEFINE U == S \cup B
  <2>1. U \in SUBSET TaskIds(t)
    BY <1>1, <1>3
  <2>2. ToSet(t.roots) \subseteq U
    <3>1. NoTask \in Parents(r) /\ Siblings(r, NoTask) = r.roots /\ Siblings(t, NoTask) = t.roots
      BY DEF Parents, Siblings
    <3>. QED BY <1>3, <1>4, <3>1
  <2>3. ASSUME NEW j \in U PROVE ToSet(t.task[j].children) \subseteq U
    <3>1. CASE j \in B
      <4>1. j \in TaskIds(t) /\ Siblings(t, j) = t.task[j].children /\ j \in Parents(t)
        BY <1>3, <3>1, ListType DEF Parents
      <4>2. ToSet(t.task[j].children) \subseteq TaskIds(t)
        BY <1>2, <4>1 DEF ListsAreSets
      <4>. QED BY <3>1, <4>2, BelowIsClosed
    <3>2. CASE j \in S
      <4>1. j \in TaskIds(r) /\ j \in Parents(r) /\ Siblings(r, j) = r.task[j].children
        BY <1>1, <3>2, ListType DEF Parents
      <4>2. Siblings(t, j) = t.task[j].children
        BY <1>1, <4>1, ListType DEF Parents
      <4>3. ToSet(r.task[j].children) \subseteq S
        BY <3>2 DEF IsClosed
      <4>. QED BY <1>3, <1>4, <4>1, <4>2, <4>3
    <3>. QED BY <3>1, <3>2
  <2>4. U = TaskIds(t)
    <3>. HIDE DEF U
    <3>. QED BY <1>2, <2>1, <2>2, <2>3 DEF IsRooted, IsClosed
  <2>. QED BY <1>1, <2>4
<1>. QED BY <1>1, <1>6, <1>7, <1>8, ForestParts

\* What the helpers of the undoable commands make of a tree.
LEMMA TaskAdded ==
    ASSUME NEW t, IsTree(t), NEW id \in Ids \ TaskIds(t), NEW k \in Task, NEW r, r = AddTask(t, id, k)
    PROVE  /\ IsTree(r)
           /\ TaskIds(r) = TaskIds(t) \cup {id}
           /\ r.roots = t.roots
           /\ \A i \in TaskIds(r) : r.task[i] = IF i = id THEN k ELSE t.task[i]
<1>. DEFINE I == TaskIds(t) \cup {id}
            f == [i \in I |-> IF i = id THEN k ELSE t.task[i]]
<1>0. /\ TaskIds(t) \in SUBSET Ids /\ t.roots \in Seq(Ids) /\ t.task \in [TaskIds(t) -> Task]
      /\ t = [roots |-> t.roots, task |-> t.task]
  BY TreeParts
<1>1. I \in SUBSET Ids /\ f \in [I -> Task]
  BY <1>0
<1>2. r = [roots |-> t.roots, task |-> f]
  BY <1>0 DEF AddTask
<1>. HIDE DEF I, f
<1>3. IsTree(r) /\ TaskIds(r) = I
  <2>. DEFINE roots == t.roots
  <2>1. roots \in Seq(Ids) /\ r = [roots |-> roots, task |-> f]
    BY <1>0, <1>2
  <2>. HIDE DEF roots
  <2>2. IsTree([roots |-> roots, task |-> f]) /\ TaskIds([roots |-> roots, task |-> f]) = I
    BY <1>1, <2>1, TreeMade
  <2>. QED BY <2>1, <2>2
<1>. QED BY <1>2, <1>3 DEF I, f

\* r is t with id put into the list of p.
IsAttached(r, t, p, pos, id) ==
    /\ IsTree(r)
    /\ TaskIds(r) = TaskIds(t)
    /\ r.roots = IF p = NoTask THEN InsertChild(t.roots, pos, id) ELSE t.roots
    /\ \A i \in TaskIds(r) : r.task[i] =
          IF i = p THEN [t.task[i] EXCEPT !.children = InsertChild(@, pos, id)] ELSE t.task[i]

\* Attach puts the task into one list and leaves the other lists alone.
LEMMA Attached ==
    ASSUME NEW t, IsTree(t), NEW p, NEW pos \in Nat, NEW id \in Ids, NEW r, r = Attach(t, p, pos, id)
    PROVE  IsAttached(r, t, p, pos, id)
<1>. SUFFICES
        /\ IsTree(r)
        /\ TaskIds(r) = TaskIds(t)
        /\ r.roots = IF p = NoTask THEN InsertChild(t.roots, pos, id) ELSE t.roots
        /\ \A i \in TaskIds(r) : r.task[i] =
              IF i = p THEN [t.task[i] EXCEPT !.children = InsertChild(@, pos, id)] ELSE t.task[i]
  BY DEF IsAttached
<1>0. /\ TaskIds(t) \in SUBSET Ids /\ t.roots \in Seq(Ids) /\ t.task \in [TaskIds(t) -> Task]
      /\ t = [roots |-> t.roots, task |-> t.task] /\ NoTask \notin TaskIds(t)
  BY TreeParts
<1>1. CASE p = NoTask
  <2>1. InsertChild(t.roots, pos, id) \in Seq(Ids)
    BY <1>0, InsertChildMembers
  <2>2. r = [roots |-> InsertChild(t.roots, pos, id), task |-> t.task]
    BY <1>0, <1>1 DEF Attach
  <2>3. IsTree(r) /\ TaskIds(r) = TaskIds(t)
    <3>. DEFINE roots == InsertChild(t.roots, pos, id)
    <3>1. roots \in Seq(Ids) /\ r = [roots |-> roots, task |-> t.task]
      BY <1>0, <2>1, <2>2
    <3>. HIDE DEF roots
    <3>2. IsTree([roots |-> roots, task |-> t.task]) /\ TaskIds([roots |-> roots, task |-> t.task]) = TaskIds(t)
      BY <1>0, <3>1, TreeMade
    <3>. QED BY <3>1, <3>2
  <2>4. r.roots = InsertChild(t.roots, pos, id) /\ r.task = t.task
    BY <2>2
  <2>5. \A i \in TaskIds(r) : i # p
    BY <1>0, <1>1, <2>3
  <2>. QED BY <1>1, <2>3, <2>4, <2>5
<1>2. CASE p # NoTask /\ p \in TaskIds(t)
  <2>. DEFINE k == [t.task[p] EXCEPT !.children = InsertChild(t.task[p].children, pos, id)]
  <2>1. k \in Task
    <3>1. t.task[p] \in Task /\ t.task[p].children \in Seq(Ids)
      BY <1>0, <1>2 DEF Task
    <3>. QED BY <3>1, InsertChildMembers, WithChildren
  <2>2. r = [roots |-> t.roots, task |-> [t.task EXCEPT ![p] = k]]
    BY <1>0, <1>2 DEF Attach
  <2>. DEFINE f == [t.task EXCEPT ![p] = k]
  <2>3. f \in [TaskIds(t) -> Task] /\ r = [roots |-> t.roots, task |-> f]
    <3>. HIDE DEF k
    <3>. QED BY <1>0, <2>1, <2>2
  <2>4. IsTree(r) /\ TaskIds(r) = TaskIds(t)
    <3>. DEFINE roots == t.roots
                I == TaskIds(t)
    <3>1. roots \in Seq(Ids) /\ I \in SUBSET Ids /\ f \in [I -> Task] /\ r = [roots |-> roots, task |-> f]
      BY <1>0, <2>3
    <3>. HIDE DEF f, roots, I
    <3>2. IsTree([roots |-> roots, task |-> f]) /\ TaskIds([roots |-> roots, task |-> f]) = I
      BY <3>1, TreeMade
    <3>. QED BY <3>1, <3>2 DEF I
  <2>5. r.roots = t.roots /\ \A i \in TaskIds(t) : r.task[i] = IF i = p THEN k ELSE t.task[i]
    <3>. HIDE DEF k
    <3>. QED BY <1>0, <2>3
  <2>. QED BY <1>2, <2>4, <2>5
<1>3. CASE p # NoTask /\ p \notin TaskIds(t)
  BY <1>3 DEF Attach
<1>. QED BY <1>1, <1>2, <1>3

\* The first position of a member of a list, counted from 0.
LEMMA FirstPosition ==
    ASSUME NEW X, NEW list \in Seq(X), NEW id \in ToSet(list)
    PROVE  \E k \in 1 .. Len(list) : PositionIn(list, id) = k - 1 /\ list[k] = id
<1>. DEFINE T == {n \in 1 .. Len(list) : list[n] = id}
<1>0. DOMAIN list = 1 .. Len(list) /\ Len(list) \in Nat
  OBVIOUS
<1>1. T \in SUBSET Nat /\ T # {}
  BY <1>0 DEF ToSet
<1>2. PICK n \in T : \A m \in T : n <= m
  <2>. HIDE DEF T
  <2>. QED BY <1>1, LeastNumber
<1>3. n \in DOMAIN list /\ list[n] = id /\ \A m \in 1 .. n - 1 : list[m] # id
  BY <1>0, <1>2
<1>. DEFINE k == CHOOSE x \in DOMAIN list : list[x] = id /\ \A m \in 1 .. x - 1 : list[m] # id
<1>4. k \in DOMAIN list /\ list[k] = id
  BY <1>3
<1>5. PositionIn(list, id) = k - 1
  BY DEF PositionIn
<1>. HIDE DEF k
<1>. QED BY <1>0, <1>4, <1>5

\* The task with its own children in the place of others.
LEMMA OwnChildren ==
    ASSUME NEW k \in Task, NEW list
    PROVE  [[k EXCEPT !.children = list] EXCEPT !.children = k.children] = k
BY DEF Task

\* The task that AddTask stores has the type of tasks.
LEMMA BlankIsTask == BlankTask \in Task /\ BlankTask.children = <<>>
BY DEF BlankTask, Task, None

\* The tree with a new task id at the end of the list of p.
WithTask(t, p, id) == Attach(AddTask(t, id, BlankTask), p, Len(Siblings(t, p)), id)

\* What AddTask makes of a forest.
LEMMA Added ==
    ASSUME NEW t, IsTree(t), NEW p \in Parents(t), NEW id \in Ids \ TaskIds(t),
           NEW r, r = WithTask(t, p, id)
    PROVE  /\ IsTree(r)
           /\ TaskIds(r) = TaskIds(t) \cup {id}
           /\ \A q \in Parents(t) :
                 Siblings(r, q) = IF q = p THEN InsertChild(Siblings(t, p), Len(Siblings(t, p)), id)
                                  ELSE Siblings(t, q)
           /\ r.task[id] = BlankTask
           /\ \A i \in TaskIds(t) : r.task[i] = [t.task[i] EXCEPT !.children = Siblings(r, i)]
<1>. DEFINE a == AddTask(t, id, BlankTask)
            pos == Len(Siblings(t, p))
<1>0. /\ TaskIds(t) \in SUBSET Ids /\ NoTask \notin TaskIds(t) /\ NoTask \notin Ids
      /\ t.task \in [TaskIds(t) -> Task] /\ pos \in Nat
  BY TreeParts, ListType, EditingConstants DEF Ids, NoTask
<1>1. /\ IsTree(a) /\ TaskIds(a) = TaskIds(t) \cup {id} /\ a.roots = t.roots
      /\ \A i \in TaskIds(a) : a.task[i] = IF i = id THEN BlankTask ELSE t.task[i]
  BY TaskAdded, BlankIsTask
<1>2. r = Attach(a, p, pos, id)
  BY DEF WithTask
<1>. HIDE DEF a, pos
<1>3. /\ IsTree(r) /\ TaskIds(r) = TaskIds(a)
      /\ r.roots = IF p = NoTask THEN InsertChild(a.roots, pos, id) ELSE a.roots
      /\ \A i \in TaskIds(r) : r.task[i] =
            IF i = p THEN [a.task[i] EXCEPT !.children = InsertChild(@, pos, id)] ELSE a.task[i]
  <2>1. id \in Ids /\ IsTree(a) /\ pos \in Nat
    BY <1>0, <1>1
  <2>2. IsAttached(r, a, p, pos, id)
    BY <1>2, <2>1, Attached
  <2>. QED BY <2>2 DEF IsAttached
<1>4. p # id
  BY <1>0 DEF Parents
<1>5. ASSUME NEW i \in TaskIds(t)
      PROVE  /\ Siblings(r, i) = r.task[i].children
             /\ Siblings(r, i) = IF i = p THEN InsertChild(Siblings(t, p), pos, id) ELSE Siblings(t, i)
             /\ r.task[i] = [t.task[i] EXCEPT !.children = Siblings(r, i)]
  <2>. DEFINE k == t.task[i]
              more == InsertChild(k.children, pos, id)
  <2>1. k \in Task /\ Siblings(t, i) = k.children /\ Siblings(r, i) = r.task[i].children
    BY <1>0, <1>1, <1>3, ListType DEF Parents
  <2>2. r.task[i] = IF i = p THEN [k EXCEPT !.children = more] ELSE k
    BY <1>1, <1>3
  <2>3. more \in Seq(Ids) /\ k.children \in Seq(Ids)
    <3>1. k.children \in Seq(Ids)
      BY <2>1 DEF Task
    <3>. HIDE DEF k
    <3>. QED BY <3>1, <1>0, InsertChildMembers
  <2>4. k = [k EXCEPT !.children = k.children]
    BY <2>1 DEF Task
  <2>5. [k EXCEPT !.children = more].children = more
    <3>. HIDE DEF k, more
    <3>. QED BY <2>1, <2>3, WithChildren
  <2>6. CASE i = p
    <3>1. more = InsertChild(Siblings(t, p), pos, id)
      BY <2>1, <2>6
    <3>. HIDE DEF k, more
    <3>2. r.task[i] = [k EXCEPT !.children = more] /\ r.task[i].children = more
      BY <2>2, <2>5, <2>6
    <3>. QED BY <2>1, <2>6, <3>1, <3>2 DEF k
  <2>7. CASE i # p
    <3>. HIDE DEF k, more
    <3>1. r.task[i] = k /\ Siblings(r, i) = k.children
      BY <2>1, <2>2, <2>7
    <3>2. k = [k EXCEPT !.children = Siblings(r, i)]
      BY <3>1, <2>4
    <3>. QED BY <2>1, <2>7, <3>1, <3>2 DEF k
  <2>. QED BY <2>6, <2>7
<1>6. ASSUME NEW q \in Parents(t)
      PROVE  Siblings(r, q) = IF q = p THEN InsertChild(Siblings(t, p), pos, id) ELSE Siblings(t, q)
  <2>1. CASE q = NoTask
    <3>1. Siblings(r, q) = r.roots /\ Siblings(t, q) = t.roots
      BY <2>1 DEF Siblings
    <3>. QED BY <2>1, <3>1, <1>1, <1>3
  <2>2. CASE q \in TaskIds(t)
    BY <2>2, <1>5
  <2>. QED BY <2>1, <2>2 DEF Parents
<1>7. r.task[id] = BlankTask
  BY <1>1, <1>3, <1>4
<1>. QED BY <1>1, <1>3, <1>5, <1>6, <1>7 DEF pos

\* A forest with a new task is a forest.
LEMMA AddedForest ==
    ASSUME NEW t, IsTree(t), IsForest(t), NEW p \in Parents(t), NEW id \in Ids \ TaskIds(t),
           NEW r, r = WithTask(t, p, id)
    PROVE  IsForest(r)
<1>. DEFINE more == InsertChild(Siblings(t, p), Len(Siblings(t, p)), id)
<1>0. /\ IsTree(r) /\ TaskIds(r) = TaskIds(t) \cup {id}
      /\ \A q \in Parents(t) : Siblings(r, q) = IF q = p THEN more ELSE Siblings(t, q)
      /\ r.task[id] = BlankTask
  BY Added
<1>1. NoTask \notin TaskIds(t) /\ NoTask \notin Ids /\ id # p /\ id # NoTask
      /\ Parents(r) = Parents(t) \cup {id}
  BY <1>0, TreeParts, EditingConstants DEF Ids, NoTask, Parents
<1>2. ListsAreSets(t) /\ ListsAreApart(t) /\ IsRooted(t)
  BY ForestParts
<1>3. Siblings(r, id) = <<>> /\ ToSet(<<>>) = {} /\ IsInjective(<<>>)
  BY <1>0, <1>1, BlankIsTask DEF Siblings, ToSet, IsInjective
<1>4. ToSet(more) = ToSet(Siblings(t, p)) \cup {id} /\ IsInjective(more)
  <2>1. Siblings(t, p) \in Seq(Ids) /\ IsInjective(Siblings(t, p)) /\ id \notin ToSet(Siblings(t, p))
    BY <1>2, ListType DEF ListsAreSets
  <2>2. Len(Siblings(t, p)) \in Nat
    BY <2>1
  <2>. QED BY <2>1, <2>2, InsertChildMembers
<1>. HIDE DEF more
<1>5. ASSUME NEW q \in Parents(r)
      PROVE  /\ IsInjective(Siblings(r, q))
             /\ q = id => ToSet(Siblings(r, q)) = {}
             /\ q = p => ToSet(Siblings(r, q)) = ToSet(Siblings(t, q)) \cup {id}
             /\ q # p /\ q # id => ToSet(Siblings(r, q)) = ToSet(Siblings(t, q))
             /\ q # id => q \in Parents(t) /\ ToSet(Siblings(t, q)) \subseteq TaskIds(t)
  <2>1. CASE q = id
    BY <2>1, <1>1, <1>3
  <2>2. CASE q # id
    <3>1. q \in Parents(t) /\ IsInjective(Siblings(t, q)) /\ ToSet(Siblings(t, q)) \subseteq TaskIds(t)
      BY <1>1, <1>2, <2>2 DEF ListsAreSets
    <3>. QED BY <2>2, <3>1, <1>0, <1>4
  <2>. QED BY <2>1, <2>2
<1>6. ListsAreSets(r)
  BY <1>0, <1>5 DEF ListsAreSets
<1>7. ListsAreApart(r)
  <2>1. ASSUME NEW q \in Parents(r), NEW s \in Parents(r), q # s,
               NEW x \in ToSet(Siblings(r, q)), x \in ToSet(Siblings(r, s))
        PROVE  FALSE
    <3>1. q # id /\ s # id /\ q \in Parents(t) /\ s \in Parents(t)
      BY <2>1, <1>5
    <3>2. x = id => q = p /\ s = p
      BY <2>1, <3>1, <1>5
    <3>3. x # id => x \in ToSet(Siblings(t, q)) /\ x \in ToSet(Siblings(t, s))
      BY <2>1, <3>1, <1>5
    <3>. QED BY <2>1, <3>1, <3>2, <3>3, <1>2 DEF ListsAreApart
  <2>. QED BY <2>1 DEF ListsAreApart
<1>8. IsRooted(r)
  <2>. SUFFICES ASSUME NEW S \in SUBSET TaskIds(r), ToSet(r.roots) \subseteq S, IsClosed(r, S)
                PROVE  S = TaskIds(r)
    BY DEF IsRooted
  <2>. DEFINE U == S \ {id}
  <2>1. U \in SUBSET TaskIds(t)
    BY <1>0
  <2>2. ASSUME NEW q \in Parents(r), q = NoTask \/ q \in S
        PROVE  ToSet(Siblings(r, q)) \subseteq S
    <3>1. CASE q = NoTask
      BY <3>1 DEF Siblings
    <3>2. CASE q # NoTask
      BY <3>2, <2>2 DEF Siblings, IsClosed
    <3>. QED BY <3>1, <3>2
  <2>3. ASSUME NEW q \in Parents(t), q = NoTask \/ q \in U
        PROVE  ToSet(Siblings(t, q)) \subseteq U
    <3>1. q \in Parents(r) /\ q # id /\ (q = NoTask \/ q \in S)
      BY <1>1, <2>3 DEF Parents
    <3>2. ToSet(Siblings(r, q)) \subseteq S
      BY <3>1, <2>2
    <3>3. ToSet(Siblings(t, q)) \subseteq ToSet(Siblings(r, q)) /\ id \notin ToSet(Siblings(t, q))
      BY <3>1, <1>5
    <3>. QED BY <3>2, <3>3
  <2>4. ToSet(t.roots) \subseteq U
    BY <2>3 DEF Siblings, Parents
  <2>5. IsClosed(t, U)
    <3>1. ASSUME NEW j \in U PROVE ToSet(t.task[j].children) \subseteq U
      <4>1. j \in TaskIds(t) /\ j \in Parents(t) /\ Siblings(t, j) = t.task[j].children
        BY <2>1, ListType DEF Parents
      <4>. HIDE DEF U
      <4>. QED BY <4>1, <2>3
    <3>. QED BY <3>1 DEF IsClosed
  <2>6. U = TaskIds(t)
    <3>. HIDE DEF U
    <3>. QED BY <1>2, <2>1, <2>4, <2>5 DEF IsRooted
  <2>7. id \in S
    <3>1. p = NoTask \/ p \in S
      BY <2>6 DEF Parents
    <3>2. p \in Parents(r)
      BY <1>1
    <3>. QED BY <3>1, <3>2, <2>2, <1>5
  <2>. QED BY <2>6, <2>7, <1>0
<1>. QED BY <1>0, <1>6, <1>7, <1>8, ForestParts

\* Taking the new task away gives the tree that was.
LEMMA AddUndone ==
    ASSUME NEW t, IsTree(t), IsForest(t), NEW p \in Parents(t), NEW id \in Ids \ TaskIds(t),
           NEW r, r = WithTask(t, p, id)
    PROVE  RemoveTask(r, id) = t
<1>. DEFINE more == InsertChild(Siblings(t, p), Len(Siblings(t, p)), id)
            u == RemoveTask(r, id)
<1>0. /\ IsTree(r) /\ TaskIds(r) = TaskIds(t) \cup {id}
      /\ \A q \in Parents(t) : Siblings(r, q) = IF q = p THEN more ELSE Siblings(t, q)
      /\ r.task[id] = BlankTask
      /\ \A i \in TaskIds(t) : r.task[i] = [t.task[i] EXCEPT !.children = Siblings(r, i)]
  BY Added
<1>1. Below(r, id) = {id}
  <2>1. ToSet(BlankTask.children) = {}
    BY BlankIsTask DEF ToSet
  <2>2. Below(r, id) \subseteq {id}
    <3>. DEFINE S == {id}
    <3>1. id \in S /\ \A j \in S \cap TaskIds(r) : ToSet(r.task[j].children) \cap TaskIds(r) \subseteq S
      BY <1>0, <2>1
    <3>. HIDE DEF S
    <3>2. Below(r, id) \subseteq S
      BY <3>1, BelowIsLeast
    <3>. QED BY <3>2 DEF S
  <2>. QED BY <1>0, <2>2, BelowIsClosed
<1>2. /\ IsTree(u) /\ TaskIds(u) = TaskIds(r) \ Below(r, id)
      /\ \A i \in TaskIds(u) : /\ u.task[i] = [r.task[i] EXCEPT !.children = Others(@, id)]
                               /\ u.task[i].children = Others(r.task[i].children, id)
      /\ \A q \in Parents(u) : q \in Parents(r) /\ Siblings(u, q) = Others(Siblings(r, q), id)
  BY <1>0, Removed
<1>3. TaskIds(u) = TaskIds(t)
  BY <1>0, <1>1, <1>2
<1>4. ListsAreSets(t) /\ t.task \in [TaskIds(t) -> Task]
  BY ForestParts, TreeParts
<1>5. ASSUME NEW q \in Parents(t) PROVE Others(Siblings(r, q), id) = Siblings(t, q)
  <2>1. Siblings(t, q) \in Seq(Ids) /\ id \notin ToSet(Siblings(t, q))
    BY <1>4, ListType DEF ListsAreSets
  <2>2. CASE q = p
    BY <1>0, <2>1, <2>2, TakeAgain
  <2>3. CASE q # p
    <3>1. Siblings(r, q) = Siblings(t, q)
      BY <1>0, <2>3
    <3>. QED BY <2>1, <3>1, OthersAbsent
  <2>. QED BY <2>2, <2>3
<1>. HIDE DEF u, more
<1>6. u.roots = t.roots
  <2>1. NoTask \in Parents(t) /\ NoTask \in Parents(u) /\ Siblings(u, NoTask) = u.roots
        /\ Siblings(t, NoTask) = t.roots
    BY DEF Parents, Siblings
  <2>. QED BY <2>1, <1>2, <1>5
<1>7. ASSUME NEW i \in TaskIds(t) PROVE u.task[i] = t.task[i]
  <2>1. i \in Parents(t) /\ Siblings(r, i) = r.task[i].children /\ Siblings(t, i) = t.task[i].children
        /\ t.task[i] \in Task
    BY <1>0, <1>4, ListType DEF Parents
  <2>2. Others(r.task[i].children, id) = t.task[i].children
    BY <1>5, <2>1
  <2>. DEFINE k == t.task[i]
              list == Siblings(r, i)
  <2>3. r.task[i] = [k EXCEPT !.children = list]
    BY <1>0
  <2>4. u.task[i] = [r.task[i] EXCEPT !.children = k.children]
    BY <1>2, <1>3, <2>2
  <2>. HIDE DEF list
  <2>5. u.task[i] = [[k EXCEPT !.children = list] EXCEPT !.children = k.children]
    BY <2>3, <2>4
  <2>6. k \in Task
    BY <2>1
  <2>. HIDE DEF k
  <2>7. u.task[i] = k
    BY <2>5, <2>6, OwnChildren
  <2>. QED BY <2>7 DEF k
<1>8. u = t
  BY <1>2, <1>3, <1>6, <1>7, SameTree
<1>. QED BY <1>8 DEF u

\* What DeleteTask captures of task id.
Cut(t, id) ==
    [tasks  |-> [i \in Below(t, id) |-> t.task[i]],
     parent |-> ParentOf(t, id),
     pos    |-> PositionIn(Siblings(t, ParentOf(t, id)), id)]

\* What a deletion captures: the subtree, its parent and its place.
LEMMA CutParts ==
    ASSUME NEW t, IsTree(t), IsForest(t), NEW id \in TaskIds(t)
    PROVE  /\ DOMAIN Cut(t, id).tasks = Below(t, id)
           /\ Cut(t, id).tasks \in [Below(t, id) -> Task]
           /\ \A i \in Below(t, id) : Cut(t, id).tasks[i] = t.task[i]
           /\ Cut(t, id).parent = ParentOf(t, id)
           /\ Cut(t, id).parent \in Ids \cup {NoTask}
           /\ Cut(t, id).pos \in Nat
<1>1. t.task \in [TaskIds(t) -> Task] /\ TaskIds(t) \in SUBSET Ids /\ Below(t, id) \subseteq TaskIds(t)
  BY TreeParts, BelowIsClosed
<1>2. ParentOf(t, id) \in Parents(t) /\ id \in ToSet(Siblings(t, ParentOf(t, id)))
  BY ParentLists
<1>3. Siblings(t, ParentOf(t, id)) \in Seq(Ids)
  BY <1>2, ListType
<1>. DEFINE list == Siblings(t, ParentOf(t, id))
<1>4. PositionIn(list, id) \in Nat
  <2>. HIDE DEF list
  <2>1. list \in Seq(Ids) /\ id \in ToSet(list)
    BY <1>2, <1>3 DEF list
  <2>2. PICK k \in 1 .. Len(list) : PositionIn(list, id) = k - 1
    BY <2>1, FirstPosition
  <2>3. Len(list) \in Nat
    BY <2>1
  <2>. QED BY <2>2, <2>3
<1>. QED BY <1>1, <1>2, <1>4 DEF Cut, Parents

\* The tree with the tasks that are missing.
WithTasks(t, tasks) ==
    [t EXCEPT !.task = [i \in TaskIds(t) \cup DOMAIN tasks |->
                            IF i \in TaskIds(t) THEN t.task[i] ELSE tasks[i]]]

\* r is t with tasks for the ids of J that it did not have.
IsJoined(r, t, J, tasks) ==
    /\ IsTree(r) /\ TaskIds(r) = TaskIds(t) \cup J /\ r.roots = t.roots
    /\ \A i \in TaskIds(r) : r.task[i] = IF i \in TaskIds(t) THEN t.task[i] ELSE tasks[i]

\* The tree with missing tasks put back.
LEMMA TasksBack ==
    ASSUME NEW t, IsTree(t), NEW J \in SUBSET Ids, NEW tasks \in [J -> Task],
           NEW r, r = WithTasks(t, tasks)
    PROVE  IsJoined(r, t, J, tasks)
<1>. DEFINE I == TaskIds(t) \cup J
            f == [i \in I |-> IF i \in TaskIds(t) THEN t.task[i] ELSE tasks[i]]
<1>0. /\ TaskIds(t) \in SUBSET Ids /\ t.roots \in Seq(Ids) /\ t.task \in [TaskIds(t) -> Task]
      /\ t = [roots |-> t.roots, task |-> t.task]
  BY TreeParts
<1>1. I \in SUBSET Ids /\ f \in [I -> Task]
  BY <1>0
<1>2. r = [roots |-> t.roots, task |-> f]
  BY <1>0 DEF WithTasks
<1>. HIDE DEF I, f
<1>. DEFINE roots == t.roots
<1>3. roots \in Seq(Ids) /\ r = [roots |-> roots, task |-> f]
  BY <1>0, <1>2
<1>. HIDE DEF roots
<1>4. IsTree([roots |-> roots, task |-> f]) /\ TaskIds([roots |-> roots, task |-> f]) = I
  BY <1>1, <1>3, TreeMade
<1>5. IsTree(r) /\ TaskIds(r) = I /\ r.roots = roots /\ r.task = f
  BY <1>3, <1>4
<1>. QED BY <1>5 DEF I, f, roots, IsJoined

\* Undoing a deletion gives the tree that was.
LEMMA DeleteUndone ==
    ASSUME NEW t, IsTree(t), IsForest(t), NEW id \in TaskIds(t),
           NEW c, c.task = id, c.was = Cut(t, id)
    PROVE  Restore(c, RemoveTask(t, id)) = t
<1>. DEFINE r == RemoveTask(t, id)
            B == Below(t, id)
            p == ParentOf(t, id)
            back == WithTasks(r, c.was.tasks)
<1>0. /\ TaskIds(t) \in SUBSET Ids /\ NoTask \notin TaskIds(t) /\ t.task \in [TaskIds(t) -> Task]
      /\ B \subseteq TaskIds(t) /\ id \in B
  BY TreeParts, BelowIsClosed
<1>1. /\ DOMAIN c.was.tasks = B /\ c.was.tasks \in [B -> Task]
      /\ \A i \in B : c.was.tasks[i] = t.task[i]
      /\ c.was.parent = p /\ c.was.pos \in Nat
  BY CutParts
<1>2. /\ p \in Parents(t) /\ p \notin B /\ id \in ToSet(Siblings(t, p))
      /\ \A q \in Parents(t) : q # p => id \notin ToSet(Siblings(t, q))
  BY ParentLists, ParentIsOutside
<1>3. ListsAreSets(t)
  BY ForestParts
<1>4. /\ IsTree(r) /\ TaskIds(r) = TaskIds(t) \ B
      /\ \A i \in TaskIds(r) : r.task[i] = [t.task[i] EXCEPT !.children = Others(@, id)]
      /\ \A q \in Parents(r) : q \in Parents(t) /\ Siblings(r, q) = Others(Siblings(t, q), id)
  BY Removed
<1>. HIDE DEF r
<1>5. /\ IsTree(back) /\ TaskIds(back) = TaskIds(t) /\ back.roots = r.roots
      /\ \A i \in TaskIds(t) : back.task[i] = IF i \in TaskIds(r) THEN r.task[i] ELSE t.task[i]
  <2>. DEFINE tasks == c.was.tasks
  <2>1. B \in SUBSET Ids /\ tasks \in [B -> Task] /\ back = WithTasks(r, tasks)
    BY <1>0, <1>1
  <2>. HIDE DEF B, back, tasks
  <2>2. /\ IsTree(back) /\ TaskIds(back) = TaskIds(r) \cup B /\ back.roots = r.roots
        /\ \A i \in TaskIds(back) : back.task[i] = IF i \in TaskIds(r) THEN r.task[i] ELSE tasks[i]
    <3>1. IsJoined(back, r, B, tasks)
      BY <1>4, <2>1, TasksBack
    <3>. QED BY <3>1 DEF IsJoined
  <2>3. TaskIds(back) = TaskIds(t)
    BY <1>0, <1>4, <2>2
  <2>4. \A i \in TaskIds(t) : i \notin TaskIds(r) => tasks[i] = t.task[i]
    BY <1>1, <1>4 DEF tasks
  <2>. QED BY <2>2, <2>3, <2>4
<1>6. p \in Parents(r) /\ p \in Parents(back) /\ Parents(back) = Parents(t)
  BY <1>2, <1>4, <1>5 DEF Parents
<1>7. ASSUME NEW q \in Parents(r) PROVE Siblings(back, q) = Others(Siblings(t, q), id)
  <2>1. Siblings(back, q) = Siblings(r, q)
    <3>1. CASE q = NoTask
      BY <3>1, <1>5 DEF Siblings
    <3>2. CASE q # NoTask
      <4>1. q \in TaskIds(r) /\ q \in TaskIds(t)
        BY <3>2, <1>4 DEF Parents
      <4>. QED BY <3>2, <4>1, <1>5 DEF Siblings
    <3>. QED BY <3>1, <3>2
  <2>. QED BY <2>1, <1>4
<1>. DEFINE list == Siblings(t, p)
            pos == c.was.pos
<1>8. list \in Seq(Ids) /\ IsInjective(list) /\ id \in ToSet(list)
  BY <1>2, <1>3, ListType DEF ListsAreSets
<1>9. pos = PositionIn(list, id)
  BY DEF Cut
<1>. HIDE DEF list, pos, back
<1>10. InsertChild(Others(list, id), pos, id) = list
  <2>1. PICK k \in 1 .. Len(list) : PositionIn(list, id) = k - 1 /\ list[k] = id
    BY <1>8, FirstPosition
  <2>. QED BY <2>1, <1>8, <1>9, PutBack
<1>11. id \notin ToSet(Siblings(back, p))
  <2>1. Siblings(back, p) = Others(list, id)
    BY <1>6, <1>7 DEF list
  <2>. QED BY <2>1, <1>8, OthersMembers
<1>. DEFINE u == Restore(c, r)
<1>12. u = Attach(back, p, pos, id)
  <2>1. p \in TaskIds(back) \cup {NoTask}
    BY <1>6 DEF Parents
  <2>2. back = [r EXCEPT !.task = [i \in TaskIds(r) \cup DOMAIN c.was.tasks |->
                    IF i \in TaskIds(r) THEN r.task[i] ELSE c.was.tasks[i]]]
    BY DEF back, WithTasks
  <2>3. c.was.parent = p
    BY <1>1
  <2>. HIDE DEF p
  <2>. QED BY <2>1, <2>2, <2>3, <1>11 DEF Restore, pos
<1>. HIDE DEF u
<1>13. /\ IsTree(u) /\ TaskIds(u) = TaskIds(back)
       /\ u.roots = IF p = NoTask THEN InsertChild(back.roots, pos, id) ELSE back.roots
       /\ \A i \in TaskIds(u) : u.task[i] =
             IF i = p THEN [back.task[i] EXCEPT !.children = InsertChild(@, pos, id)] ELSE back.task[i]
  <2>. HIDE DEF p
  <2>1. id \in Ids /\ pos \in Nat
    BY <1>0, <1>1 DEF pos
  <2>2. IsAttached(u, back, p, pos, id)
    BY <1>5, <1>12, <2>1, Attached
  <2>. QED BY <2>2 DEF IsAttached
<1>14. ASSUME NEW q \in Parents(r), q # p PROVE Others(Siblings(t, q), id) = Siblings(t, q)
  <2>1. q \in Parents(t) /\ Siblings(t, q) \in Seq(Ids) /\ id \notin ToSet(Siblings(t, q))
    BY <1>2, <1>4, <1>14, ListType
  <2>. QED BY <2>1, OthersAbsent
<1>15. u.roots = t.roots
  <2>1. NoTask \in Parents(r) /\ back.roots = Others(t.roots, id)
    BY <1>7 DEF Parents, Siblings
  <2>2. CASE p = NoTask
    <3>1. list = t.roots
      BY <2>2 DEF list, Siblings
    <3>2. u.roots = InsertChild(Others(t.roots, id), pos, id)
      BY <1>13, <2>1, <2>2
    <3>. QED BY <1>10, <3>1, <3>2
  <2>3. CASE p # NoTask
    BY <1>13, <1>14, <2>1, <2>3 DEF Siblings
  <2>. QED BY <2>2, <2>3
<1>16. ASSUME NEW i \in TaskIds(t) PROVE u.task[i] = t.task[i]
  <2>. DEFINE k == t.task[i]
              less == Others(k.children, id)
  <2>1. k \in Task /\ Siblings(t, i) = k.children /\ i \in Parents(t)
    BY <1>0, ListType DEF Parents
  <2>2. CASE i \in B
    <3>1. i \notin TaskIds(r) /\ i # p
      BY <1>2, <1>4, <2>2
    <3>. QED BY <1>5, <1>13, <3>1
  <2>3. CASE i \notin B
    <3>1. i \in TaskIds(r) /\ i \in Parents(r)
      BY <1>4, <2>3 DEF Parents
    <3>2. back.task[i] = [k EXCEPT !.children = less]
      BY <1>4, <1>5, <3>1
    <3>3. less \in Seq(Ids)
      <4>1. k.children \in Seq(Ids)
        BY <2>1 DEF Task
      <4>. HIDE DEF k
      <4>. QED BY <4>1, RetainedType DEF Others
    <3>4. CASE i = p
      <4>1. less = Others(list, id) /\ list = k.children
        BY <2>1, <3>4 DEF list
      <4>. DEFINE m == [k EXCEPT !.children = less]
      <4>2. u.task[i] = [m EXCEPT !.children = InsertChild(m.children, pos, id)]
        BY <1>5, <1>13, <3>2, <3>4
      <4>3. m.children = less
        <5>. HIDE DEF k, less
        <5>. QED BY <2>1, <3>3, WithChildren
      <4>. HIDE DEF m
      <4>4. u.task[i] = [m EXCEPT !.children = k.children]
        BY <4>1, <4>2, <4>3, <1>10
      <4>5. u.task[i] = [[k EXCEPT !.children = less] EXCEPT !.children = k.children]
        BY <4>4 DEF m
      <4>. HIDE DEF k, less
      <4>6. u.task[i] = k
        BY <2>1, <4>5, OwnChildren
      <4>. QED BY <4>6 DEF k
    <3>5. CASE i # p
      <4>1. less = k.children
        BY <2>1, <3>1, <3>5, <1>14
      <4>2. u.task[i] = [k EXCEPT !.children = k.children]
        BY <1>5, <1>13, <3>2, <3>5, <4>1
      <4>3. [k EXCEPT !.children = k.children] = k
        <5>. HIDE DEF k
        <5>. QED BY <2>1 DEF Task
      <4>. QED BY <4>2, <4>3
    <3>. QED BY <3>4, <3>5
  <2>. QED BY <2>2, <2>3
<1>17. u = t
  BY <1>5, <1>13, <1>15, <1>16, SameTree
<1>. QED BY <1>17 DEF u, r

-----------------------------------------------------------------------------
(* Commands that edit one task                                             *)

\* What running and undoing a command make of its task.
After(c, k) ==
    CASE c.kind = "field" -> SetField(k, c.arg.field, c.arg.value)
      [] c.kind = "complete" -> [k EXCEPT !.done = c.arg]
      [] c.kind = "role" -> SetRole(k, c)
      [] c.kind = "link" -> SetLinks(k, c)
      [] c.kind = "attachment" -> SetAttachments(k, c)
      [] c.kind = "depend" -> PushDependency(k, c.arg)
      [] OTHER -> TakeDependency(k, c.arg)

Before(c, k) ==
    CASE c.kind = "field" -> SetField(k, c.arg.field, c.was)
      [] c.kind = "complete" -> [k EXCEPT !.done = c.was]
      [] c.kind = "role" ->
            [k EXCEPT !.owners = c.was.owners, !.people = c.was.people, !.by = c.was.by]
      [] c.kind = "link" -> [k EXCEPT !.links = c.was]
      [] c.kind = "attachment" -> [k EXCEPT !.atts = c.was.atts, !.files = c.was.files]
      [] c.kind = "depend" -> DropDependency(k, c.arg)
      [] OTHER -> [k EXCEPT !.deps = InsertChild(@, c.was.pos - 1, c.was.dep)]

LocalKinds == {"field", "complete", "role", "link", "attachment", "depend", "undepend"}

\* t with k as its task id, if it has one.
Replaced(t, id, k) == IF id \in TaskIds(t) THEN [t EXCEPT !.task[id] = k] ELSE t

\* Running a command that edits one task replaces that task.
LEMMA ExecuteLocal ==
    ASSUME NEW c, c.kind \in LocalKinds, NEW t
    PROVE  Execute(c, t) = Replaced(t, c.task, After(c, t.task[c.task]))
<1>1. CASE c.kind = "field"
  BY <1>1 DEF Execute, Edited, After, Replaced
<1>2. CASE c.kind = "complete"
  BY <1>2 DEF Execute, Edited, After, Replaced
<1>3. CASE c.kind = "role"
  BY <1>3 DEF Execute, Edited, After, Replaced
<1>4. CASE c.kind = "link"
  BY <1>4 DEF Execute, Edited, After, Replaced
<1>5. CASE c.kind = "attachment"
  BY <1>5 DEF Execute, Edited, After, Replaced
<1>6. CASE c.kind = "depend"
  BY <1>6 DEF Execute, Edited, After, Replaced
<1>7. CASE c.kind = "undepend"
  BY <1>7 DEF Execute, Edited, After, Replaced
<1>. QED BY <1>1, <1>2, <1>3, <1>4, <1>5, <1>6, <1>7 DEF LocalKinds

\* Undoing it does, too.
LEMMA UndoLocal ==
    ASSUME NEW c, c.kind \in LocalKinds, NEW t
    PROVE  Undo(c, t) = Replaced(t, c.task, Before(c, t.task[c.task]))
<1>1. CASE c.kind = "field"
  BY <1>1 DEF Undo, Edited, Before, Replaced
<1>2. CASE c.kind = "complete"
  BY <1>2 DEF Undo, Edited, Before, Replaced
<1>3. CASE c.kind = "role"
  BY <1>3 DEF Undo, Edited, Before, Replaced
<1>4. CASE c.kind = "link"
  BY <1>4 DEF Undo, Edited, Before, Replaced
<1>5. CASE c.kind = "attachment"
  BY <1>5 DEF Undo, Edited, Before, Replaced
<1>6. CASE c.kind = "depend"
  BY <1>6 DEF Undo, Edited, Before, Replaced
<1>7. CASE c.kind = "undepend"
  BY <1>7 DEF Undo, Edited, Before, Replaced
<1>. QED BY <1>1, <1>2, <1>3, <1>4, <1>5, <1>6, <1>7 DEF LocalKinds

\* r is t with k as the task of id.
IsReplaced(r, t, id, k) ==
    /\ IsTree(r) /\ TaskIds(r) = TaskIds(t) /\ r.roots = t.roots
    /\ \A i \in TaskIds(r) : r.task[i] = IF i = id THEN k ELSE t.task[i]

\* Replacing a task keeps the type of the tree, the ids and the roots.
LEMMA ReplacedTree ==
    ASSUME NEW t, IsTree(t), NEW id \in TaskIds(t), NEW k \in Task, NEW r, r = Replaced(t, id, k)
    PROVE  IsReplaced(r, t, id, k)
<1>0. /\ TaskIds(t) \in SUBSET Ids /\ t.roots \in Seq(Ids) /\ t.task \in [TaskIds(t) -> Task]
      /\ t = [roots |-> t.roots, task |-> t.task]
  BY TreeParts
<1>. DEFINE I == TaskIds(t)
            f == [t.task EXCEPT ![id] = k]
            roots == t.roots
<1>1. roots \in Seq(Ids) /\ I \in SUBSET Ids /\ f \in [I -> Task] /\ r = [roots |-> roots, task |-> f]
  BY <1>0 DEF Replaced
<1>. HIDE DEF roots, I, f
<1>2. IsTree([roots |-> roots, task |-> f]) /\ TaskIds([roots |-> roots, task |-> f]) = I
  BY <1>1, TreeMade
<1>3. IsTree(r) /\ TaskIds(r) = I /\ r.roots = roots /\ r.task = f
  BY <1>1, <1>2
<1>. QED BY <1>0, <1>3 DEF I, f, roots, IsReplaced

-----------------------------------------------------------------------------
(* Types of tasks and commands                                             *)

Edge       == [doc : OtherDocs \cup {Here}, on : Ids]
Link       == [id : 1 .. MaxEdits, url : {"site", "moved"}]
Attachment == [id : 1 .. MaxEdits, path : {"file"}, name : {"file", "renamed"}]

\* The values a field may have, and those it is given: no field is made absent.
FieldValues(f) ==
    CASE f = "title"  -> {"old", "new"}
      [] f = "note"   -> {"absent", "empty", "text"}
      [] f = "due"    -> {None, "monday"}
      [] OTHER        -> SUBSET Names

GivenValues(f) == IF f = "note" THEN {"empty", "text"} ELSE FieldValues(f)

\* The arguments of the commands the session runs.
ArgOK(c) ==
    CASE c.kind = "field" -> /\ c.arg.field \in {"title", "note", "due", "owners"}
                             /\ c.arg.value \in GivenValues(c.arg.field)
      [] c.kind = "complete" -> c.arg \in {None, "monday"}
      [] c.kind = "add" -> /\ c.arg.new = BlankTask
                           /\ c.arg.parent \in Ids \cup {NoTask} /\ c.arg.pos \in Nat
      [] c.kind = "role" -> /\ c.arg.role \in {"to", "by"} /\ c.arg.add \in BOOLEAN
                            /\ c.arg.name \in Names
      [] c.kind = "link" -> /\ c.arg.op \in {"add", "update", "remove"}
                            /\ c.arg.op # "remove" => c.arg.link \in Link
      [] c.kind = "attachment" -> /\ c.arg.op \in {"add", "remove", "rename"}
                                  /\ c.arg.op = "add" => c.arg.att \in Attachment
                                  /\ c.arg.op = "rename" => c.arg.name \in {"file", "renamed"}
      [] c.kind = "depend" -> c.arg \in Edge
      [] OTHER -> TRUE

\* What they have captured.
WasOK(c) ==
    CASE c.kind = "field" -> c.was \in FieldValues(c.arg.field)
      [] c.kind = "complete" -> c.was \in {None, "monday"}
      [] c.kind = "delete" -> /\ \E J \in SUBSET Ids : c.was.tasks \in [J -> Task]
                              /\ c.was.parent \in Ids \cup {NoTask} /\ c.was.pos \in Nat
      [] c.kind = "role" -> /\ c.was.owners \in SUBSET Names /\ c.was.people \in SUBSET Names
                            /\ c.was.by \in Names \cup {None}
      [] c.kind = "link" -> c.was \in Seq(Link)
      [] c.kind = "attachment" -> c.was.atts \in Seq(Attachment) /\ c.was.files \in Seq({"file"})
      [] c.kind = "undepend" -> c.was.pos - 1 \in Nat /\ c.was.dep \in Edge
      [] OTHER -> TRUE

\* A command of the undo manager.
IsCommand(c) ==
    /\ c = [kind |-> c.kind, task |-> c.task, arg |-> c.arg, was |-> c.was]
    /\ c.kind \in LocalKinds \cup {"add", "delete"}
    /\ c.task \in Ids
    /\ ArgOK(c)

\* The fields of a task have their types.
LEMMA TaskParts ==
    ASSUME NEW k \in Task
    PROVE  /\ k.children \in Seq(Ids) /\ k.title \in {"old", "new"} /\ k.note \in {"absent", "empty", "text"}
           /\ k.due \in {None, "monday"} /\ k.dueText \in {None, "monday", "monday at nine"}
           /\ k.done \in {None, "monday"} /\ k.owners \in SUBSET Names /\ k.people \in SUBSET Names
           /\ k.by \in Names \cup {None} /\ k.deps \in Seq(Edge) /\ k.links \in Seq(Link)
           /\ k.atts \in Seq(Attachment) /\ k.files \in Seq({"file"}) /\ k.extra \in {None, "custom"}
BY DEF Task, Edge, Link, Attachment

\* The fields of a task that undo keeps.
SameTask(k, l) ==
    /\ k.children = l.children /\ k.title = l.title /\ k.note = l.note /\ k.due = l.due
    /\ k.done = l.done /\ k.by = l.by /\ k.links = l.links /\ k.atts = l.atts
    /\ k.files = l.files /\ k.extra = l.extra

\* A list lists its own members.
LEMMA OwnMembers ==
    ASSUME NEW X, NEW list \in Seq(X)
    PROVE  list \in Seq(ToSet(list)) /\ ToSet(list) \subseteq X
<1>1. DOMAIN list = 1 .. Len(list) /\ Len(list) \in Nat /\ \A i \in 1 .. Len(list) : list[i] \in X
  OBVIOUS
<1>2. \A i \in 1 .. Len(list) : list[i] \in ToSet(list)
  BY <1>1 DEF ToSet
<1>3. ToSet(list) \subseteq X
  BY <1>1 DEF ToSet
<1>. QED BY <1>1, <1>2, <1>3

\* A list of members of a set is one of members of a larger set.
LEMMA WiderList ==
    ASSUME NEW X, NEW Y, X \subseteq Y, NEW list \in Seq(X)
    PROVE  list \in Seq(Y) /\ ToSet(list) \subseteq X
<1>1. DOMAIN list = 1 .. Len(list) /\ Len(list) \in Nat /\ \A i \in 1 .. Len(list) : list[i] \in X
  OBVIOUS
<1>. QED BY <1>1 DEF ToSet

\* Without makes a list of members of its list.
LEMMA WithoutType ==
    ASSUME NEW X, NEW list \in Seq(X), NEW id
    PROVE  Without(list, id) \in Seq(X)
BY RetainedType DEF Without

\* WithNew makes a list of members of its list and of the new one.
LEMMA WithNewType ==
    ASSUME NEW X, NEW list \in Seq(X), NEW x \in X
    PROVE  WithNew(list, x) \in Seq(X)
BY DEF WithNew

\* A list without the member at one place.
LEMMA RemoveAtType ==
    ASSUME NEW X, NEW list \in Seq(X), NEW n \in 1 .. Len(list)
    PROVE  RemoveAt(list, n) \in Seq(X)
<1>. DEFINE a == SubSeq(list, 1, n - 1)
            b == SubSeq(list, n + 1, Len(list))
<1>1. a \in Seq(X) /\ b \in Seq(X)
  OBVIOUS
<1>2. RemoveAt(list, n) = a \o b
  BY DEF RemoveAt
<1>. HIDE DEF a, b
<1>. QED BY <1>1, <1>2

\* a and b are k and l edited in the same way.
Alike(a, b, k, l) ==
    /\ SameTask(a, b)
    /\ a.children = k.children
    /\ a.extra = k.extra

\* A command that changes nothing keeps what others rely on.
LEMMA SameIsAlike ==
    ASSUME NEW k, NEW l, SameTask(k, l)
    PROVE  Alike(k, l, k, l)
BY DEF Alike, SameTask

\* SameTask is an equivalence.
LEMMA SameTaskIsEquivalence ==
    /\ \A k : SameTask(k, k)
    /\ \A k, l : SameTask(k, l) => SameTask(l, k)
    /\ \A k, l, m : SameTask(k, l) /\ SameTask(l, m) => SameTask(k, m)
BY DEF SameTask

\* The edits of a task that commands are made of.
WithTitle(k, v) == [k EXCEPT !.title = v]
WithNote(k, v) == [k EXCEPT !.note = v]
WithDue(k, v) == [k EXCEPT !.due = v, !.dueText = v]
WithDone(k, v) == [k EXCEPT !.done = v]
WithBy(k, v) == [k EXCEPT !.by = v]
WithOwners(k, v) == [k EXCEPT !.owners = v]
WithRoles(k, v, w) == [k EXCEPT !.people = v, !.owners = w]
WithAllRoles(k, v, w, b) == [k EXCEPT !.owners = v, !.people = w, !.by = b]
WithDeps(k, v) == [k EXCEPT !.deps = v]
WithLinks(k, v) == [k EXCEPT !.links = v]
WithAtts(k, v) == [k EXCEPT !.atts = v]
WithFiles(k, v, w) == [k EXCEPT !.atts = v, !.files = w]

\* Each of them gives a task, keeps the rest of it, and can be taken back.
LEMMA TitleSet ==
    ASSUME NEW k \in Task, NEW v \in {"old", "new"}
    PROVE  WithTitle(k, v) \in Task
BY DEF WithTitle, Task

\* Setting the title takes tasks that are the same to tasks that are.
LEMMA TitleAlike ==
    ASSUME NEW k \in Task, NEW l \in Task, SameTask(k, l), NEW v
    PROVE  Alike(WithTitle(k, v), WithTitle(l, v), k, l)
BY DEF WithTitle, Task, SameTask, Alike

\* Setting the title back restores the task.
LEMMA TitleBack ==
    ASSUME NEW k \in Task, NEW l \in Task, NEW v, SameTask(l, WithTitle(k, v))
    PROVE  SameTask(WithTitle(l, k.title), k)
BY DEF WithTitle, Task, SameTask

\* Setting the note keeps the type.
LEMMA NoteSet ==
    ASSUME NEW k \in Task, NEW v \in {"absent", "empty", "text"}
    PROVE  WithNote(k, v) \in Task
BY DEF WithNote, Task

\* Setting the note takes tasks that are the same to tasks that are.
LEMMA NoteAlike ==
    ASSUME NEW k \in Task, NEW l \in Task, SameTask(k, l), NEW v
    PROVE  Alike(WithNote(k, v), WithNote(l, v), k, l)
BY DEF WithNote, Task, SameTask, Alike

\* Setting the note back restores the task.
LEMMA NoteBack ==
    ASSUME NEW k \in Task, NEW l \in Task, NEW v, SameTask(l, WithNote(k, v))
    PROVE  SameTask(WithNote(l, k.note), k)
BY DEF WithNote, Task, SameTask

\* Setting the due date keeps the type.
LEMMA DueSet ==
    ASSUME NEW k \in Task, NEW v \in {None, "monday"}
    PROVE  WithDue(k, v) \in Task
BY DEF WithDue, Task

\* Setting the due date takes tasks that are the same to tasks that are.
LEMMA DueAlike ==
    ASSUME NEW k \in Task, NEW l \in Task, SameTask(k, l), NEW v
    PROVE  Alike(WithDue(k, v), WithDue(l, v), k, l)
BY DEF WithDue, Task, SameTask, Alike

\* Setting the due date back restores the task but for the display text.
LEMMA DueBack ==
    ASSUME NEW k \in Task, NEW l \in Task, NEW v, SameTask(l, WithDue(k, v))
    PROVE  SameTask(WithDue(l, k.due), k)
BY DEF WithDue, Task, SameTask

\* Setting the completion date keeps the type.
LEMMA DoneSet ==
    ASSUME NEW k \in Task, NEW v \in {None, "monday"}
    PROVE  WithDone(k, v) \in Task
BY DEF WithDone, Task

\* Setting the completion date takes tasks that are the same to tasks that are.
LEMMA DoneAlike ==
    ASSUME NEW k \in Task, NEW l \in Task, SameTask(k, l), NEW v
    PROVE  Alike(WithDone(k, v), WithDone(l, v), k, l)
BY DEF WithDone, Task, SameTask, Alike

\* Setting the completion date back restores the task.
LEMMA DoneBack ==
    ASSUME NEW k \in Task, NEW l \in Task, NEW v, SameTask(l, WithDone(k, v))
    PROVE  SameTask(WithDone(l, k.done), k)
BY DEF WithDone, Task, SameTask

\* Setting who allocated the task keeps the type.
LEMMA BySet ==
    ASSUME NEW k \in Task, NEW v \in Names \cup {None}
    PROVE  WithBy(k, v) \in Task
BY DEF WithBy, Task

\* Setting who allocated it takes tasks that are the same to tasks that are.
LEMMA ByAlike ==
    ASSUME NEW k \in Task, NEW l \in Task, SameTask(k, l), NEW v
    PROVE  Alike(WithBy(k, v), WithBy(l, v), k, l)
BY DEF WithBy, Task, SameTask, Alike

\* Setting who allocated it back restores the task.
LEMMA ByBack ==
    ASSUME NEW k \in Task, NEW l \in Task, NEW v, SameTask(l, WithBy(k, v))
    PROVE  SameTask(WithBy(l, k.by), k)
BY DEF WithBy, Task, SameTask

\* Setting the owners keeps the type.
LEMMA OwnersSet ==
    ASSUME NEW k \in Task, NEW v \in SUBSET Names
    PROVE  WithOwners(k, v) \in Task
BY DEF WithOwners, Task

\* Setting the owners keeps tasks the same: undo does not keep owners.
LEMMA OwnersAlike ==
    ASSUME NEW k \in Task, NEW l \in Task, SameTask(k, l), NEW v, NEW v2
    PROVE  /\ Alike(WithOwners(k, v), WithOwners(l, v2), k, l)
           /\ Alike(WithOwners(k, v), l, k, l)
           /\ Alike(k, WithOwners(l, v), k, l)
<1>1. Alike(WithOwners(k, v), WithOwners(l, v2), k, l)
  BY DEF WithOwners, Task, SameTask, Alike
<1>2. Alike(WithOwners(k, v), l, k, l)
  BY DEF WithOwners, Task, SameTask, Alike
<1>3. Alike(k, WithOwners(l, v), k, l)
  BY DEF WithOwners, Task, SameTask, Alike
<1>. QED BY <1>1, <1>2, <1>3

\* Setting owners and participants keeps the type.
LEMMA RolesSet ==
    ASSUME NEW k \in Task, NEW v \in SUBSET Names, NEW w \in SUBSET Names
    PROVE  WithRoles(k, v, w) \in Task
BY DEF WithRoles, Task

\* Setting owners and participants keeps tasks the same.
LEMMA RolesAlike ==
    ASSUME NEW k \in Task, NEW l \in Task, SameTask(k, l), NEW v, NEW w, NEW v2, NEW w2
    PROVE  /\ Alike(WithRoles(k, v, w), WithRoles(l, v2, w2), k, l)
           /\ Alike(WithRoles(k, v, w), l, k, l)
           /\ Alike(k, WithRoles(l, v, w), k, l)
<1>1. Alike(WithRoles(k, v, w), WithRoles(l, v2, w2), k, l)
  BY DEF WithRoles, Task, SameTask, Alike
<1>2. Alike(WithRoles(k, v, w), l, k, l)
  BY DEF WithRoles, Task, SameTask, Alike
<1>3. Alike(k, WithRoles(l, v, w), k, l)
  BY DEF WithRoles, Task, SameTask, Alike
<1>. QED BY <1>1, <1>2, <1>3

\* Setting every role keeps the type.
LEMMA AllRolesSet ==
    ASSUME NEW k \in Task, NEW v \in SUBSET Names, NEW w \in SUBSET Names, NEW b \in Names \cup {None}
    PROVE  WithAllRoles(k, v, w, b) \in Task
BY DEF WithAllRoles, Task

\* Setting every role takes tasks that are the same to tasks that are.
LEMMA AllRolesAlike ==
    ASSUME NEW k \in Task, NEW l \in Task, SameTask(k, l), NEW v, NEW w, NEW b
    PROVE  Alike(WithAllRoles(k, v, w, b), WithAllRoles(l, v, w, b), k, l)
BY DEF WithAllRoles, Task, SameTask, Alike

\* Setting every role back restores the task but for owners and participants.
LEMMA AllRolesBack ==
    ASSUME NEW k \in Task, NEW l \in Task, SameTask(k, WithBy(l, k.by)), NEW v, NEW w
    PROVE  SameTask(WithAllRoles(l, v, w, k.by), k)
BY DEF WithAllRoles, WithBy, Task, SameTask

\* Setting the dependencies keeps the type.
LEMMA DepsSet ==
    ASSUME NEW k \in Task, NEW v \in Seq(Edge)
    PROVE  WithDeps(k, v) \in Task
BY DEF WithDeps, Task, Edge

\* Setting the dependencies keeps tasks the same: undo does not keep them.
LEMMA DepsAlike ==
    ASSUME NEW k \in Task, NEW l \in Task, SameTask(k, l), NEW v, NEW v2
    PROVE  /\ Alike(WithDeps(k, v), WithDeps(l, v2), k, l)
           /\ Alike(WithDeps(k, v), l, k, l)
           /\ Alike(k, WithDeps(l, v), k, l)
<1>1. Alike(WithDeps(k, v), WithDeps(l, v2), k, l)
  BY DEF WithDeps, Task, SameTask, Alike
<1>2. Alike(WithDeps(k, v), l, k, l)
  BY DEF WithDeps, Task, SameTask, Alike
<1>3. Alike(k, WithDeps(l, v), k, l)
  BY DEF WithDeps, Task, SameTask, Alike
<1>. QED BY <1>1, <1>2, <1>3

\* Setting the links keeps the type.
LEMMA LinksSet ==
    ASSUME NEW k \in Task, NEW v \in Seq(Link)
    PROVE  WithLinks(k, v) \in Task
BY DEF WithLinks, Task, Link

\* Setting the links takes tasks that are the same to tasks that are.
LEMMA LinksAlike ==
    ASSUME NEW k \in Task, NEW l \in Task, SameTask(k, l), NEW v
    PROVE  Alike(WithLinks(k, v), WithLinks(l, v), k, l)
BY DEF WithLinks, Task, SameTask, Alike

\* Setting the links back restores the task.
LEMMA LinksBack ==
    ASSUME NEW k \in Task, NEW l \in Task, NEW v, SameTask(l, WithLinks(k, v))
    PROVE  SameTask(WithLinks(l, k.links), k)
BY DEF WithLinks, Task, SameTask

\* Setting the attachments keeps the type.
LEMMA AttsSet ==
    ASSUME NEW k \in Task, NEW v \in Seq(Attachment)
    PROVE  WithAtts(k, v) \in Task
BY DEF WithAtts, Task, Attachment

\* Setting the attachments takes tasks that are the same to tasks that are.
LEMMA AttsAlike ==
    ASSUME NEW k \in Task, NEW l \in Task, SameTask(k, l), NEW v
    PROVE  Alike(WithAtts(k, v), WithAtts(l, v), k, l)
BY DEF WithAtts, Task, SameTask, Alike

\* Setting attachments and FILEREFPATH keeps the type.
LEMMA FilesSet ==
    ASSUME NEW k \in Task, NEW v \in Seq(Attachment), NEW w \in Seq({"file"})
    PROVE  WithFiles(k, v, w) \in Task
BY DEF WithFiles, Task, Attachment

\* Setting both takes tasks that are the same to tasks that are.
LEMMA FilesAlike ==
    ASSUME NEW k \in Task, NEW l \in Task, SameTask(k, l), NEW v, NEW w
    PROVE  Alike(WithFiles(k, v, w), WithFiles(l, v, w), k, l)
BY DEF WithFiles, Task, SameTask, Alike

\* Setting both back restores the task.
LEMMA FilesBack ==
    ASSUME NEW k \in Task, NEW l \in Task, NEW v, NEW w, SameTask(l, WithFiles(k, v, w))
    PROVE  SameTask(WithFiles(l, k.atts, k.files), k)
BY DEF WithFiles, Task, SameTask

\* remove_dependency leaves dependencies that were there.
LEMMA TakeDependencyType ==
    ASSUME NEW k \in Task, NEW on
    PROVE  \E deps \in Seq(ToSet(k.deps)) : TakeDependency(k, on) = WithDeps(k, deps)
<1>. DEFINE list == k.deps
            I == {i \in 1 .. Len(list) : list[i].on = on}
            less == IF \E i \in 1 .. Len(list) : list[i].on = on THEN RemoveAt(list, Min(I)) ELSE list
<1>1. list \in Seq(ToSet(list)) /\ Len(list) \in Nat
  <2>1. list \in Seq(Edge)
    BY TaskParts
  <2>. HIDE DEF list
  <2>. QED BY <2>1, OwnMembers
<1>2. RemoveFirstMatch(list, LAMBDA e : e.on = on) = less
  BY DEF RemoveFirstMatch, SelectInSeq
<1>3. less \in Seq(ToSet(list))
  <2>1. CASE I = {}
    BY <1>1, <2>1
  <2>2. CASE I # {}
    <3>1. Min(I) \in I
      <4>1. I \in SUBSET Nat
        BY <1>1
      <4>. HIDE DEF I
      <4>2. \E x \in I : \A y \in I : x <= y
        BY <2>2, <4>1, LeastNumber
      <4>. QED BY <4>2 DEF Min
    <3>2. Min(I) \in 1 .. Len(list)
      BY <3>1
    <3>3. less = RemoveAt(list, Min(I))
      BY <2>2
    <3>. HIDE DEF I, list, less
    <3>. QED BY <1>1, <3>2, <3>3, RemoveAtType
  <2>. QED BY <2>1, <2>2
<1>4. TakeDependency(k, on) = WithDeps(k, less)
  <2>1. TakeDependency(k, on) = [k EXCEPT !.deps = RemoveFirstMatch(list, LAMBDA e : e.on = on)]
    BY DEF TakeDependency
  <2>. HIDE DEF less, list
  <2>. QED BY <1>2, <2>1 DEF WithDeps
<1>. HIDE DEF less
<1>. QED BY <1>3, <1>4

\* Running a command that edits one task keeps the types, the children and the
\* unknown data, and takes tasks that are the same to tasks that are the same.
LEMMA AfterField ==
    ASSUME NEW c, IsCommand(c), c.kind = "field", NEW k \in Task, NEW l \in Task, SameTask(k, l)
    PROVE  After(c, k) \in Task /\ Alike(After(c, k), After(c, l), k, l)
<1>0. /\ c.arg.field \in {"title", "note", "due", "owners"}
      /\ c.arg.value \in GivenValues(c.arg.field)
  BY DEF IsCommand, ArgOK
<1>. DEFINE v == c.arg.value
<1>1. CASE c.arg.field = "title"
  <2>1. v \in {"old", "new"}
    BY <1>0, <1>1 DEF GivenValues, FieldValues
  <2>2. After(c, k) = WithTitle(k, v) /\ After(c, l) = WithTitle(l, v)
    BY <1>1 DEF After, SetField, WithTitle
  <2>. HIDE DEF v
  <2>. QED BY <2>1, <2>2, TitleSet, TitleAlike
<1>2. CASE c.arg.field = "note"
  <2>1. v \in {"empty", "text"}
    BY <1>0, <1>2 DEF GivenValues, FieldValues
  <2>2. k.note = l.note
    BY DEF SameTask
  <2>3. CASE v = "empty" /\ k.note = "absent"
    <3>1. After(c, k) = k /\ After(c, l) = l
      BY <1>2, <2>2, <2>3 DEF After, SetField
    <3>. QED BY <3>1, SameIsAlike
  <2>4. CASE ~(v = "empty" /\ k.note = "absent")
    <3>1. After(c, k) = WithNote(k, v) /\ After(c, l) = WithNote(l, v)
      BY <1>2, <2>2, <2>4 DEF After, SetField, WithNote
    <3>. HIDE DEF v
    <3>. QED BY <2>1, <3>1, NoteSet, NoteAlike
  <2>. QED BY <2>3, <2>4
<1>3. CASE c.arg.field = "due"
  <2>1. v \in {None, "monday"}
    BY <1>0, <1>3 DEF GivenValues, FieldValues
  <2>2. After(c, k) = WithDue(k, v) /\ After(c, l) = WithDue(l, v)
    BY <1>3 DEF After, SetField, WithDue
  <2>. HIDE DEF v
  <2>. QED BY <2>1, <2>2, DueSet, DueAlike
<1>4. CASE c.arg.field = "owners"
  <2>1. v \in SUBSET Names
    BY <1>0, <1>4 DEF GivenValues, FieldValues
  <2>2. After(c, k) = WithOwners(k, v) /\ After(c, l) = WithOwners(l, v)
    BY <1>4 DEF After, SetField, WithOwners
  <2>. HIDE DEF v
  <2>. QED BY <2>1, <2>2, OwnersSet, OwnersAlike
<1>. QED BY <1>0, <1>1, <1>2, <1>3, <1>4

\* The same of the commands on participants.
LEMMA AfterRole ==
    ASSUME NEW c, IsCommand(c), c.kind = "role", NEW k \in Task, NEW l \in Task, SameTask(k, l)
    PROVE  After(c, k) \in Task /\ Alike(After(c, k), After(c, l), k, l)
<1>0. c.arg.role \in {"to", "by"} /\ c.arg.add \in BOOLEAN /\ c.arg.name \in Names
  BY DEF IsCommand, ArgOK
<1>1. k.by = l.by /\ k.by \in Names \cup {None} /\ k.people \in SUBSET Names /\ k.owners \in SUBSET Names
  BY TaskParts DEF SameTask
<1>2. After(c, k) = SetRole(k, c) /\ After(c, l) = SetRole(l, c)
  BY DEF After
<1>. DEFINE n == c.arg.name
<1>3. CASE c.arg.role = "by"
  <2>. DEFINE b == IF c.arg.add THEN n ELSE IF k.by = n THEN None ELSE k.by
  <2>1. SetRole(k, c) = WithBy(k, b) /\ SetRole(l, c) = WithBy(l, b)
    BY <1>0, <1>1, <1>3 DEF SetRole, WithBy
  <2>2. b \in Names \cup {None}
    BY <1>0, <1>1
  <2>. HIDE DEF b
  <2>. QED BY <1>2, <2>1, <2>2, BySet, ByAlike
<1>4. CASE c.arg.role = "to" /\ c.arg.add
  <2>. DEFINE v(m) == m.people \cup {n}
              w(m) == m.owners \cup {n}
  <2>1. \A m : SetRole(m, c) = IF n \in m.people THEN m ELSE WithRoles(m, v(m), w(m))
    BY <1>0, <1>4 DEF SetRole, WithRoles
  <2>2. v(k) \in SUBSET Names /\ w(k) \in SUBSET Names
    BY <1>0, <1>1
  <2>. HIDE DEF v, w
  <2>3. SetRole(k, c) \in Task
    BY <2>1, <2>2, RolesSet
  <2>4. Alike(SetRole(k, c), SetRole(l, c), k, l)
    <3>. DEFINE x == WithRoles(k, v(k), w(k))
                y == WithRoles(l, v(l), w(l))
    <3>1. /\ SetRole(k, c) = k \/ SetRole(k, c) = x
          /\ SetRole(l, c) = l \/ SetRole(l, c) = y
      BY <2>1
    <3>2. Alike(x, y, k, l) /\ Alike(x, l, k, l) /\ Alike(k, y, k, l)
      BY RolesAlike
    <3>3. Alike(k, l, k, l)
      BY SameIsAlike
    <3>. HIDE DEF x, y
    <3>. QED BY <3>1, <3>2, <3>3
  <2>. QED BY <1>2, <2>3, <2>4
<1>5. CASE c.arg.role = "to" /\ ~c.arg.add
  <2>. DEFINE v(m) == m.people \ {n}
              w(m) == m.owners \ {n}
  <2>1. \A m : SetRole(m, c) = WithRoles(m, v(m), w(m))
    BY <1>0, <1>5 DEF SetRole, WithRoles
  <2>2. v(k) \in SUBSET Names /\ w(k) \in SUBSET Names
    BY <1>0, <1>1
  <2>. HIDE DEF v, w
  <2>3. SetRole(k, c) \in Task
    BY <2>1, <2>2, RolesSet
  <2>4. Alike(SetRole(k, c), SetRole(l, c), k, l)
    BY <2>1, SameIsAlike, RolesAlike
  <2>. QED BY <1>2, <2>3, <2>4
<1>. QED BY <1>0, <1>3, <1>4, <1>5

\* The same of the commands on progress links.
LEMMA AfterLink ==
    ASSUME NEW c, IsCommand(c), c.kind = "link", NEW k \in Task, NEW l \in Task, SameTask(k, l)
    PROVE  After(c, k) \in Task /\ Alike(After(c, k), After(c, l), k, l)
<1>0. /\ c.arg.op \in {"add", "update", "remove"}
      /\ c.arg.op # "remove" => c.arg.link \in Link
  BY DEF IsCommand, ArgOK
<1>. DEFINE v == CASE c.arg.op = "add" -> WithNew(k.links, c.arg.link)
                   [] c.arg.op = "remove" -> Without(k.links, c.arg.id)
                   [] OTHER -> WithNew(Without(k.links, c.arg.id), c.arg.link)
<1>1. k.links = l.links /\ k.links \in Seq(Link)
  BY TaskParts DEF SameTask
<1>2. After(c, k) = WithLinks(k, v) /\ After(c, l) = WithLinks(l, v)
  BY <1>0, <1>1 DEF After, SetLinks, WithLinks
<1>3. v \in Seq(Link)
  <2>. DEFINE list == k.links
              less == Without(list, c.arg.id)
  <2>1. list \in Seq(Link)
    BY <1>1
  <2>. HIDE DEF list
  <2>2. less \in Seq(Link)
    BY <2>1, WithoutType
  <2>. HIDE DEF less
  <2>3. c.arg.op # "remove" => WithNew(list, c.arg.link) \in Seq(Link) /\ WithNew(less, c.arg.link) \in Seq(Link)
    BY <1>0, <2>1, <2>2, WithNewType
  <2>. QED BY <1>0, <2>2, <2>3 DEF list, less
<1>. HIDE DEF v
<1>. QED BY <1>2, <1>3, LinksSet, LinksAlike

\* The same of the commands on dependencies.
LEMMA AfterDependency ==
    ASSUME NEW c, IsCommand(c), c.kind \in {"depend", "undepend"},
           NEW k \in Task, NEW l \in Task, SameTask(k, l)
    PROVE  After(c, k) \in Task /\ Alike(After(c, k), After(c, l), k, l)
<1>1. k.deps \in Seq(Edge) /\ l.deps \in Seq(Edge)
  BY TaskParts
<1>2. CASE c.kind = "depend"
  <2>1. c.arg \in Edge
    BY <1>2 DEF IsCommand, ArgOK
  <2>. DEFINE v(m) == Append(m.deps, c.arg)
  <2>2. \A m : After(c, m) = m \/ After(c, m) = WithDeps(m, v(m))
    BY <1>2 DEF After, PushDependency, WithDeps
  <2>3. v(k) \in Seq(Edge)
    BY <1>1, <2>1
  <2>. HIDE DEF v
  <2>4. After(c, k) \in Task
    BY <2>2, <2>3, DepsSet
  <2>5. Alike(After(c, k), After(c, l), k, l)
    BY <2>2, SameIsAlike, DepsAlike
  <2>. QED BY <2>4, <2>5
<1>3. CASE c.kind = "undepend"
  <2>1. After(c, k) = TakeDependency(k, c.arg) /\ After(c, l) = TakeDependency(l, c.arg)
    BY <1>3 DEF After
  <2>2. PICK v \in Seq(ToSet(k.deps)) : After(c, k) = WithDeps(k, v)
    BY <2>1, TakeDependencyType
  <2>3. PICK w \in Seq(ToSet(l.deps)) : After(c, l) = WithDeps(l, w)
    BY <2>1, TakeDependencyType
  <2>4. v \in Seq(Edge)
    <3>1. ToSet(k.deps) \subseteq Edge
      BY <1>1, OwnMembers
    <3>. QED BY <3>1, WiderList
  <2>. QED BY <2>2, <2>3, <2>4, DepsSet, DepsAlike
<1>. QED BY <1>2, <1>3

\* The same of the commands on attachments.
LEMMA AfterAttachment ==
    ASSUME NEW c, IsCommand(c), c.kind = "attachment", NEW k \in Task, NEW l \in Task, SameTask(k, l)
    PROVE  After(c, k) \in Task /\ Alike(After(c, k), After(c, l), k, l)
<1>0. /\ c.arg.op \in {"add", "remove", "rename"}
      /\ c.arg.op = "add" => c.arg.att \in Attachment
      /\ c.arg.op = "rename" => c.arg.name \in {"file", "renamed"}
  BY DEF IsCommand, ArgOK
<1>1. k.atts = l.atts /\ k.files = l.files /\ k.atts \in Seq(Attachment) /\ k.files \in Seq({"file"})
  BY TaskParts DEF SameTask
<1>2. After(c, k) = SetAttachments(k, c) /\ After(c, l) = SetAttachments(l, c)
  BY DEF After
<1>3. CASE c.arg.op = "add"
  <2>. DEFINE a == c.arg.att
              v == Append(k.atts, a)
              w == IF a.path \in ToSet(k.files) THEN k.files ELSE Append(k.files, a.path)
  <2>1. a \in Attachment /\ a.path = "file"
    BY <1>0, <1>3 DEF Attachment
  <2>2. v \in Seq(Attachment) /\ w \in Seq({"file"})
    BY <1>1, <2>1
  <2>3. SetAttachments(k, c) = PushAttachment(k, a) /\ SetAttachments(l, c) = PushAttachment(l, a)
    BY <1>3 DEF SetAttachments
  <2>4. \/ PushAttachment(k, a) = k /\ PushAttachment(l, a) = l
        \/ PushAttachment(k, a) = WithFiles(k, v, w) /\ PushAttachment(l, a) = WithFiles(l, v, w)
    BY <1>1 DEF PushAttachment, WithFiles
  <2>. HIDE DEF v, w, a
  <2>. QED BY <1>2, <2>2, <2>3, <2>4, SameIsAlike, FilesSet, FilesAlike
<1>4. CASE c.arg.op = "remove"
  <2>. DEFINE x == c.arg.id
              gone == {a.path : a \in {b \in ToSet(k.atts) : b.id = x}}
              v == Without(k.atts, x)
              w == Retained(k.files, ToSet(k.files) \ gone)
  <2>1. SetAttachments(k, c) = DropAttachment(k, x) /\ SetAttachments(l, c) = DropAttachment(l, x)
    BY <1>4 DEF SetAttachments
  <2>2. DropAttachment(k, x) = WithFiles(k, v, w) /\ DropAttachment(l, x) = WithFiles(l, v, w)
    BY <1>1 DEF DropAttachment, WithFiles
  <2>. HIDE DEF gone, x
  <2>3. v \in Seq(Attachment)
    <3>. DEFINE list == k.atts
    <3>1. list \in Seq(Attachment)
      BY <1>1
    <3>. HIDE DEF list
    <3>2. Without(list, x) \in Seq(Attachment)
      BY <3>1, WithoutType
    <3>. QED BY <3>2 DEF list
  <2>4. w \in Seq({"file"})
    <3>. DEFINE list == k.files
                S == ToSet(k.files) \ gone
    <3>1. list \in Seq({"file"})
      BY <1>1
    <3>. HIDE DEF list, S
    <3>2. Retained(list, S) \in Seq({"file"})
      BY <3>1, RetainedType
    <3>. QED BY <3>2 DEF list, S
  <2>. HIDE DEF v, w
  <2>. QED BY <1>2, <2>1, <2>2, <2>3, <2>4, FilesSet, FilesAlike
<1>5. CASE c.arg.op = "rename"
  <2>. DEFINE x == c.arg.id
              name == c.arg.name
              v == [n \in DOMAIN k.atts |->
                        IF k.atts[n].id = x THEN [k.atts[n] EXCEPT !.name = name] ELSE k.atts[n]]
  <2>1. SetAttachments(k, c) = RenamedTo(k, x, name) /\ SetAttachments(l, c) = RenamedTo(l, x, name)
    BY <1>5 DEF SetAttachments
  <2>2. RenamedTo(k, x, name) = WithAtts(k, v) /\ RenamedTo(l, x, name) = WithAtts(l, v)
    BY <1>1 DEF RenamedTo, WithAtts
  <2>3. v \in Seq(Attachment)
    <3>1. Len(k.atts) \in Nat /\ DOMAIN k.atts = 1 .. Len(k.atts) /\ \A n \in 1 .. Len(k.atts) : k.atts[n] \in Attachment
      BY <1>1
    <3>2. \A n \in 1 .. Len(k.atts) : [k.atts[n] EXCEPT !.name = name] \in Attachment
      BY <1>0, <1>5, <3>1 DEF Attachment
    <3>3. v \in [1 .. Len(k.atts) -> Attachment]
      BY <3>1, <3>2
    <3>. HIDE DEF v
    <3>. QED BY <3>1, <3>3
  <2>. HIDE DEF v, x, name
  <2>. QED BY <1>2, <2>1, <2>2, <2>3, AttsSet, AttsAlike
<1>. QED BY <1>0, <1>3, <1>4, <1>5

\* The same of the completion date.
LEMMA AfterComplete ==
    ASSUME NEW c, IsCommand(c), c.kind = "complete", NEW k \in Task, NEW l \in Task, SameTask(k, l)
    PROVE  After(c, k) \in Task /\ Alike(After(c, k), After(c, l), k, l)
<1>. DEFINE v == c.arg
<1>1. v \in {None, "monday"}
  BY DEF IsCommand, ArgOK
<1>2. After(c, k) = WithDone(k, v) /\ After(c, l) = WithDone(l, v)
  BY DEF After, WithDone
<1>. HIDE DEF v
<1>. QED BY <1>1, <1>2, DoneSet, DoneAlike

\* The same of every command that edits one task.
LEMMA AfterAlike ==
    ASSUME NEW c, IsCommand(c), c.kind \in LocalKinds, NEW k \in Task, NEW l \in Task, SameTask(k, l)
    PROVE  After(c, k) \in Task /\ Alike(After(c, k), After(c, l), k, l)
BY AfterField, AfterRole, AfterLink, AfterDependency, AfterAttachment, AfterComplete DEF LocalKinds

\* The same of undoing it.
LEMMA BeforeAlike ==
    ASSUME NEW c, IsCommand(c), WasOK(c), c.kind \in LocalKinds,
           NEW k \in Task, NEW l \in Task, SameTask(k, l)
    PROVE  Before(c, k) \in Task /\ Alike(Before(c, k), Before(c, l), k, l)
<1>. DEFINE v == c.was
<1>0. k.deps \in Seq(Edge) /\ k.note = l.note
  BY TaskParts DEF SameTask
<1>1. CASE c.kind = "field"
  <2>0. c.arg.field \in {"title", "note", "due", "owners"} /\ v \in FieldValues(c.arg.field)
    BY <1>1 DEF IsCommand, ArgOK, WasOK
  <2>1. \A m : Before(c, m) = SetField(m, c.arg.field, v)
    BY <1>1 DEF Before
  <2>. HIDE DEF v
  <2>2. CASE c.arg.field = "title"
    <3>1. v \in {"old", "new"}
      BY <2>0, <2>2 DEF FieldValues
    <3>2. \A m : Before(c, m) = WithTitle(m, v)
      BY <2>1, <2>2 DEF SetField, WithTitle
    <3>. QED BY <3>1, <3>2, TitleSet, TitleAlike
  <2>3. CASE c.arg.field = "note"
    <3>1. v \in {"absent", "empty", "text"}
      BY <2>0, <2>3 DEF FieldValues
    <3>2. CASE v = "empty" /\ k.note = "absent"
      <4>1. Before(c, k) = k /\ Before(c, l) = l
        BY <1>0, <2>1, <2>3, <3>2 DEF SetField
      <4>. QED BY <4>1, SameIsAlike
    <3>3. CASE ~(v = "empty" /\ k.note = "absent")
      <4>1. Before(c, k) = WithNote(k, v) /\ Before(c, l) = WithNote(l, v)
        BY <1>0, <2>1, <2>3, <3>3 DEF SetField, WithNote
      <4>. QED BY <3>1, <4>1, NoteSet, NoteAlike
    <3>. QED BY <3>2, <3>3
  <2>4. CASE c.arg.field = "due"
    <3>1. v \in {None, "monday"}
      BY <2>0, <2>4 DEF FieldValues
    <3>2. \A m : Before(c, m) = WithDue(m, v)
      BY <2>1, <2>4 DEF SetField, WithDue
    <3>. QED BY <3>1, <3>2, DueSet, DueAlike
  <2>5. CASE c.arg.field = "owners"
    <3>1. v \in SUBSET Names
      BY <2>0, <2>5 DEF FieldValues
    <3>2. \A m : Before(c, m) = WithOwners(m, v)
      BY <2>1, <2>5 DEF SetField, WithOwners
    <3>. QED BY <3>1, <3>2, OwnersSet, OwnersAlike
  <2>. QED BY <2>0, <2>2, <2>3, <2>4, <2>5
<1>2. CASE c.kind = "complete"
  <2>1. v \in {None, "monday"}
    BY <1>2 DEF WasOK
  <2>2. \A m : Before(c, m) = WithDone(m, v)
    BY <1>2 DEF Before, WithDone
  <2>. HIDE DEF v
  <2>. QED BY <2>1, <2>2, DoneSet, DoneAlike
<1>3. CASE c.kind = "role"
  <2>. DEFINE o == v.owners
              p == v.people
              b == v.by
  <2>1. o \in SUBSET Names /\ p \in SUBSET Names /\ b \in Names \cup {None}
    BY <1>3 DEF WasOK
  <2>2. \A m : Before(c, m) = WithAllRoles(m, o, p, b)
    BY <1>3 DEF Before, WithAllRoles
  <2>. HIDE DEF o, p, b
  <2>. QED BY <2>1, <2>2, AllRolesSet, AllRolesAlike
<1>4. CASE c.kind = "link"
  <2>1. v \in Seq(Link)
    BY <1>4 DEF WasOK
  <2>2. \A m : Before(c, m) = WithLinks(m, v)
    BY <1>4 DEF Before, WithLinks
  <2>. HIDE DEF v
  <2>. QED BY <2>1, <2>2, LinksSet, LinksAlike
<1>5. CASE c.kind = "attachment"
  <2>. DEFINE a == v.atts
              f == v.files
  <2>1. a \in Seq(Attachment) /\ f \in Seq({"file"})
    BY <1>5 DEF WasOK
  <2>2. \A m : Before(c, m) = WithFiles(m, a, f)
    BY <1>5 DEF Before, WithFiles
  <2>. HIDE DEF a, f
  <2>. QED BY <2>1, <2>2, FilesSet, FilesAlike
<1>6. CASE c.kind = "depend"
  <2>. DEFINE added(e) == e.on = c.arg.on /\ (c.arg.doc = Here \/ e.doc = c.arg.doc)
              d(m) == Retained(m.deps, {e \in ToSet(m.deps) : ~added(e)})
  <2>1. \A m : Before(c, m) = WithDeps(m, d(m))
    BY <1>6 DEF Before, DropDependency, WithDeps
  <2>2. d(k) \in Seq(Edge)
    <3>. DEFINE list == k.deps
                S == {e \in ToSet(k.deps) : ~added(e)}
    <3>1. list \in Seq(Edge)
      BY <1>0
    <3>. HIDE DEF list, S
    <3>2. Retained(list, S) \in Seq(Edge)
      BY <3>1, RetainedType
    <3>. QED BY <3>2 DEF list, S
  <2>. HIDE DEF d
  <2>. QED BY <2>1, <2>2, DepsSet, DepsAlike
<1>7. CASE c.kind = "undepend"
  <2>. DEFINE n == v.pos - 1
              e == v.dep
              d(m) == InsertChild(m.deps, n, e)
  <2>1. n \in Nat /\ e \in Edge
    BY <1>7 DEF WasOK
  <2>2. \A m : Before(c, m) = WithDeps(m, d(m))
    BY <1>7 DEF Before, WithDeps
  <2>3. d(k) \in Seq(Edge)
    <3>. DEFINE list == k.deps
    <3>1. list \in Seq(Edge)
      BY <1>0
    <3>. HIDE DEF list, n, e
    <3>2. InsertChild(list, n, e) \in Seq(Edge)
      BY <2>1, <3>1, InsertChildMembers
    <3>. QED BY <3>2 DEF list
  <2>. HIDE DEF d
  <2>. QED BY <2>2, <2>3, DepsSet, DepsAlike
<1>. QED BY <1>1, <1>2, <1>3, <1>4, <1>5, <1>6, <1>7 DEF LocalKinds

\* What a command captures of its task.
Captured(c, k) ==
    CASE c.kind = "field" -> k[c.arg.field]
      [] c.kind = "complete" -> k.done
      [] c.kind = "role" -> [owners |-> k.owners, people |-> k.people, by |-> k.by]
      [] c.kind = "link" -> k.links
      [] c.kind = "attachment" -> [atts |-> k.atts, files |-> k.files]
      [] c.kind = "undepend" ->
            IF \E e \in ToSet(k.deps) : e.on = c.arg
            THEN [pos |-> DependencyAt(k, c.arg), dep |-> k.deps[DependencyAt(k, c.arg)]]
            ELSE c.was
      [] OTHER -> c.was

\* What such a command captures.
LEMMA CaptureLocal ==
    ASSUME NEW c, c.kind \in LocalKinds, NEW t, c.task \in TaskIds(t)
    PROVE  Capture(c, t) = Captured(c, t.task[c.task])
<1>1. CASE c.kind = "field"
  BY <1>1 DEF Capture, Captured
<1>2. CASE c.kind = "complete"
  BY <1>2 DEF Capture, Captured
<1>3. CASE c.kind = "role"
  BY <1>3 DEF Capture, Captured
<1>4. CASE c.kind = "link"
  BY <1>4 DEF Capture, Captured
<1>5. CASE c.kind = "attachment"
  BY <1>5 DEF Capture, Captured
<1>6. CASE c.kind = "depend"
  BY <1>6 DEF Capture, Captured
<1>7. CASE c.kind = "undepend"
  BY <1>7 DEF Capture, Captured
<1>. QED BY <1>1, <1>2, <1>3, <1>4, <1>5, <1>6, <1>7 DEF LocalKinds

\* d is c with w captured.
IsRun(d, c, w) ==
    /\ d.kind = c.kind /\ d.task = c.task /\ d.arg = c.arg
    /\ d.was = w

\* Undoing what was run gives the task that was, but for its dependencies, its
\* participants and the display text of its date.
LEMMA LocalUndone ==
    ASSUME NEW c, IsCommand(c), c.kind \in LocalKinds, NEW k \in Task, NEW l \in Task,
           SameTask(l, After(c, k)), NEW d, IsRun(d, c, Captured(c, k)),
           c.kind = "undepend" => WasOK(c) \/ \E e \in ToSet(k.deps) : e.on = c.arg
    PROVE  WasOK(d) /\ SameTask(Before(d, l), k)
<1>. DEFINE v == c.arg
            was == Captured(c, k)
<1>0. d.kind = c.kind /\ d.arg = c.arg /\ d.was = was
  BY DEF IsRun
<1>1. CASE c.kind = "field"
  <2>0. c.arg.field \in {"title", "note", "due", "owners"} /\ c.arg.value \in GivenValues(c.arg.field)
    BY <1>1 DEF IsCommand, ArgOK
  <2>. DEFINE x == c.arg.value
  <2>1. /\ Before(d, l) = SetField(l, c.arg.field, was) /\ was = k[c.arg.field]
        /\ After(c, k) = SetField(k, c.arg.field, x)
    BY <1>0, <1>1 DEF Before, After, Captured
  <2>2. WasOK(d) <=> was \in FieldValues(c.arg.field)
    BY <1>0, <1>1 DEF WasOK
  <2>. HIDE DEF was, x
  <2>3. CASE c.arg.field = "title"
    <3>1. was = k.title /\ k.title \in {"old", "new"}
      BY <2>1, <2>3, TaskParts DEF Task
    <3>2. After(c, k) = WithTitle(k, x) /\ Before(d, l) = WithTitle(l, k.title)
      BY <2>1, <2>3, <3>1 DEF SetField, WithTitle
    <3>3. WasOK(d)
      BY <2>2, <2>3, <3>1 DEF FieldValues
    <3>. QED BY <3>2, <3>3, TitleBack
  <2>4. CASE c.arg.field = "note"
    <3>1. was = k.note /\ k.note \in {"absent", "empty", "text"} /\ x \in {"empty", "text"}
      BY <2>0, <2>1, <2>4, TaskParts DEF Task, GivenValues, x
    <3>2. WasOK(d)
      BY <2>2, <2>4, <3>1 DEF FieldValues
    <3>3. CASE x = "empty" /\ k.note = "absent"
      <4>1. After(c, k) = k /\ Before(d, l) = WithNote(l, k.note)
        BY <2>1, <2>4, <3>1, <3>3 DEF SetField, WithNote
      <4>2. SameTask(k, WithNote(k, k.note))
        BY DEF SameTask, WithNote, Task
      <4>3. SameTask(l, WithNote(k, k.note))
        BY <4>1, <4>2, SameTaskIsEquivalence
      <4>. QED BY <3>2, <4>1, <4>3, NoteBack
    <3>4. CASE ~(x = "empty" /\ k.note = "absent")
      <4>1. After(c, k) = WithNote(k, x)
        BY <2>1, <2>4, <3>1, <3>4 DEF SetField, WithNote
      <4>2. l.note = x
        <5>1. WithNote(k, x).note = x
          BY DEF WithNote, Task
        <5>. QED BY <4>1, <5>1 DEF SameTask
      <4>3. Before(d, l) = WithNote(l, k.note)
        BY <2>1, <2>4, <3>1, <4>2 DEF SetField, WithNote
      <4>. QED BY <3>2, <4>1, <4>3, NoteBack
    <3>. QED BY <3>3, <3>4
  <2>5. CASE c.arg.field = "due"
    <3>1. was = k.due /\ k.due \in {None, "monday"}
      BY <2>1, <2>5, TaskParts DEF Task
    <3>2. After(c, k) = WithDue(k, x) /\ Before(d, l) = WithDue(l, k.due)
      BY <2>1, <2>5, <3>1 DEF SetField, WithDue
    <3>3. WasOK(d)
      BY <2>2, <2>5, <3>1 DEF FieldValues
    <3>. QED BY <3>2, <3>3, DueBack
  <2>6. CASE c.arg.field = "owners"
    <3>1. was = k.owners /\ k.owners \in SUBSET Names
      BY <2>1, <2>6, TaskParts DEF Task
    <3>2. After(c, k) = WithOwners(k, x) /\ Before(d, l) = WithOwners(l, k.owners)
      BY <2>1, <2>6, <3>1 DEF SetField, WithOwners
    <3>3. WasOK(d)
      BY <2>2, <2>6, <3>1 DEF FieldValues
    <3>4. SameTask(k, k) /\ SameTask(WithOwners(k, x), k) /\ SameTask(WithOwners(l, k.owners), l)
      BY OwnersAlike, SameTaskIsEquivalence DEF Alike
    <3>. QED BY <3>2, <3>3, <3>4, SameTaskIsEquivalence
  <2>. QED BY <2>0, <2>3, <2>4, <2>5, <2>6
<1>2. CASE c.kind = "complete"
  <2>1. was = k.done /\ k.done \in {None, "monday"}
    BY <1>2, TaskParts DEF Captured
  <2>2. After(c, k) = WithDone(k, v) /\ Before(d, l) = WithDone(l, k.done)
    BY <1>0, <1>2, <2>1 DEF After, Before, WithDone
  <2>3. WasOK(d)
    BY <1>0, <1>2, <2>1 DEF WasOK
  <2>. HIDE DEF v
  <2>. QED BY <2>2, <2>3, DoneBack
<1>3. CASE c.kind = "role"
  <2>1. was = [owners |-> k.owners, people |-> k.people, by |-> k.by]
    BY <1>3 DEF Captured
  <2>2. was.owners = k.owners /\ was.people = k.people /\ was.by = k.by
    BY <2>1
  <2>3. k.owners \in SUBSET Names /\ k.people \in SUBSET Names /\ k.by \in Names \cup {None}
    BY TaskParts
  <2>4. WasOK(d)
    BY <1>0, <1>3, <2>2, <2>3 DEF WasOK
  <2>5. Before(d, l) = WithAllRoles(l, k.owners, k.people, k.by)
    BY <1>0, <1>3, <2>2 DEF Before, WithAllRoles
  <2>6. SameTask(k, WithBy(l, k.by))
    <3>1. \/ \E b : SetRole(k, c) = WithBy(k, b)
          \/ \E p, o : SetRole(k, c) = WithRoles(k, p, o)
          \/ SetRole(k, c) = k
      <4>1. c.arg.role \in {"to", "by"} /\ c.arg.add \in BOOLEAN
        BY <1>3 DEF IsCommand, ArgOK
      <4>2. CASE c.arg.role = "by"
        BY <4>1, <4>2 DEF SetRole, WithBy
      <4>3. CASE c.arg.role = "to" /\ c.arg.add
        BY <4>3 DEF SetRole, WithRoles
      <4>4. CASE c.arg.role = "to" /\ ~c.arg.add
        BY <4>4 DEF SetRole, WithRoles
      <4>. QED BY <4>1, <4>2, <4>3, <4>4
    <3>2. After(c, k) = SetRole(k, c)
      BY <1>3 DEF After
    <3>3. SameTask(k, k)
      BY DEF SameTask
    <3>4. CASE \E b : SetRole(k, c) = WithBy(k, b)
      <4>1. PICK b : SetRole(k, c) = WithBy(k, b)
        BY <3>4
      <4>2. SameTask(l, WithBy(k, b))
        BY <3>2, <4>1
      <4>3. SameTask(WithBy(l, k.by), k)
        BY <4>2, ByBack
      <4>. QED BY <4>3, SameTaskIsEquivalence
    <3>5. CASE SetRole(k, c) = k \/ \E p, o : SetRole(k, c) = WithRoles(k, p, o)
      <4>1. SameTask(SetRole(k, c), k)
        BY <3>3, <3>5, RolesAlike DEF Alike
      <4>2. SameTask(l, k)
        BY <3>2, <4>1, SameTaskIsEquivalence
      <4>3. l.by = k.by
        BY <4>2 DEF SameTask
      <4>4. SameTask(l, WithBy(l, l.by))
        BY DEF SameTask, WithBy, Task
      <4>. QED BY <4>2, <4>3, <4>4, SameTaskIsEquivalence
    <3>. QED BY <3>1, <3>4, <3>5
  <2>. QED BY <2>4, <2>5, <2>6, AllRolesBack
<1>4. CASE c.kind = "link"
  <2>1. was = k.links /\ k.links \in Seq(Link)
    BY <1>4, TaskParts DEF Captured
  <2>2. \E x : After(c, k) = WithLinks(k, x)
    BY <1>4 DEF After, SetLinks, WithLinks
  <2>3. Before(d, l) = WithLinks(l, k.links)
    BY <1>0, <1>4, <2>1 DEF Before, WithLinks
  <2>4. WasOK(d)
    BY <1>0, <1>4, <2>1 DEF WasOK
  <2>. QED BY <2>2, <2>3, <2>4, LinksBack
<1>5. CASE c.kind = "attachment"
  <2>1. was = [atts |-> k.atts, files |-> k.files] /\ k.atts \in Seq(Attachment) /\ k.files \in Seq({"file"})
    BY <1>5, TaskParts DEF Captured
  <2>2. was.atts = k.atts /\ was.files = k.files
    BY <2>1
  <2>3. \E x, y : SameTask(l, WithFiles(k, x, y))
    <3>1. After(c, k) = SetAttachments(k, c)
      BY <1>5 DEF After
    <3>2. SetAttachments(k, c) = k \/ (\E x, y : SetAttachments(k, c) = WithFiles(k, x, y))
            \/ \E x : SetAttachments(k, c) = WithAtts(k, x)
      BY DEF SetAttachments, PushAttachment, DropAttachment, RenamedTo, WithFiles, WithAtts
    <3>3. SameTask(k, WithFiles(k, k.atts, k.files))
      BY DEF SameTask, WithFiles, Task
    <3>4. ASSUME NEW x PROVE SameTask(WithAtts(k, x), WithFiles(k, x, k.files))
      BY DEF SameTask, WithFiles, WithAtts, Task
    <3>. QED BY <3>1, <3>2, <3>3, <3>4, SameTaskIsEquivalence
  <2>4. Before(d, l) = WithFiles(l, k.atts, k.files)
    BY <1>0, <1>5, <2>2 DEF Before, WithFiles
  <2>5. WasOK(d)
    BY <1>0, <1>5, <2>1, <2>2 DEF WasOK
  <2>. QED BY <2>3, <2>4, <2>5, FilesBack
<1>6. CASE c.kind = "depend"
  <2>1. After(c, k) = k \/ \E x : After(c, k) = WithDeps(k, x)
    BY <1>6 DEF After, PushDependency, WithDeps
  <2>2. \E x : Before(d, l) = WithDeps(l, x)
    BY <1>0, <1>6 DEF Before, DropDependency, WithDeps
  <2>3. WasOK(d)
    BY <1>0, <1>6 DEF WasOK
  <2>4. SameTask(k, k) /\ SameTask(l, l)
    BY DEF SameTask
  <2>5. SameTask(After(c, k), k) /\ SameTask(Before(d, l), l)
    BY <2>1, <2>2, <2>4, DepsAlike DEF Alike
  <2>. QED BY <2>3, <2>5, SameTaskIsEquivalence
<1>7. CASE c.kind = "undepend"
  <2>1. \E x : After(c, k) = WithDeps(k, x)
    BY <1>7, TakeDependencyType DEF After
  <2>2. \E x : Before(d, l) = WithDeps(l, x)
    BY <1>0, <1>7 DEF Before, WithDeps
  <2>3. WasOK(d)
    <3>1. was = IF \E e \in ToSet(k.deps) : e.on = c.arg
                THEN [pos |-> DependencyAt(k, c.arg), dep |-> k.deps[DependencyAt(k, c.arg)]]
                ELSE c.was
      BY <1>7 DEF Captured
    <3>2. CASE \E e \in ToSet(k.deps) : e.on = c.arg
      <4>. DEFINE n == DependencyAt(k, c.arg)
                  list == k.deps
                  T == {i \in 1 .. Len(list) : list[i].on = c.arg}
      <4>1. list \in Seq(Edge) /\ DOMAIN list = 1 .. Len(list) /\ Len(list) \in Nat
        <5>1. list \in Seq(Edge)
          BY TaskParts
        <5>. HIDE DEF list
        <5>. QED BY <5>1
      <4>2. \E x \in T : \A y \in T : x <= y
        <5>1. T \in SUBSET Nat /\ T # {}
          BY <3>2, <4>1 DEF ToSet
        <5>. HIDE DEF T
        <5>. QED BY <5>1, LeastNumber
      <4>3. \E x \in DOMAIN list : list[x].on = c.arg /\ \A m \in 1 .. x - 1 : list[m].on # c.arg
        BY <4>1, <4>2
      <4>4. n \in DOMAIN list
        BY <4>3 DEF DependencyAt
      <4>. HIDE DEF n
      <4>5. was.pos = n /\ was.dep = list[n]
        BY <3>1, <3>2 DEF n
      <4>. HIDE DEF list
      <4>6. was.pos - 1 \in Nat /\ was.dep \in Edge
        BY <4>1, <4>4, <4>5
      <4>. QED BY <1>0, <1>7, <4>6 DEF WasOK
    <3>3. CASE ~\E e \in ToSet(k.deps) : e.on = c.arg
      BY <1>0, <1>7, <3>1, <3>3 DEF WasOK
    <3>. QED BY <3>2, <3>3
  <2>4. SameTask(k, k) /\ SameTask(l, l)
    BY DEF SameTask
  <2>5. SameTask(After(c, k), k) /\ SameTask(Before(d, l), l)
    BY <2>1, <2>2, <2>4, DepsAlike DEF Alike
  <2>. QED BY <2>3, <2>5, SameTaskIsEquivalence
<1>. QED BY <1>1, <1>2, <1>3, <1>4, <1>5, <1>6, <1>7 DEF LocalKinds

-----------------------------------------------------------------------------
(* Commands on trees                                                       *)

\* Trees that are the same in what undo keeps.
Same(a, b) ==
    /\ IsTree(a) /\ IsTree(b)
    /\ a.roots = b.roots
    /\ TaskIds(a) = TaskIds(b)
    /\ \A i \in TaskIds(a) : SameTask(a.task[i], b.task[i])

\* Same is an equivalence on trees.
LEMMA SameIsEquivalence ==
    /\ \A a : IsTree(a) => Same(a, a)
    /\ \A a, b : Same(a, b) => Same(b, a)
    /\ \A a, b, x : Same(a, b) /\ Same(b, x) => Same(a, x)
<1>1. \A a : IsTree(a) => Same(a, a)
  BY SameTaskIsEquivalence DEF Same
<1>2. \A a, b : Same(a, b) => Same(b, a)
  BY SameTaskIsEquivalence DEF Same
<1>3. \A a, b, x : Same(a, b) /\ Same(b, x) => Same(a, x)
  BY SameTaskIsEquivalence DEF Same
<1>. QED BY <1>1, <1>2, <1>3

\* Trees that are the same have the same lists, subtrees and parents.
LEMMA SameLists ==
    ASSUME NEW a, NEW b, Same(a, b)
    PROVE  /\ SameShape(a, b)
           /\ \A id : Below(a, id) = Below(b, id)
           /\ Parents(a) = Parents(b)
           /\ \A p \in Parents(a) : Siblings(a, p) = Siblings(b, p)
           /\ \A i \in TaskIds(a) : a.task[i] \in Task /\ b.task[i] \in Task
<1>1. SameShape(a, b)
  BY DEF Same, SameShape, SameTask
<1>2. Parents(a) = Parents(b) /\ \A p \in Parents(a) : Siblings(a, p) = Siblings(b, p)
  BY <1>1 DEF SameShape, Siblings, Parents
<1>3. \A i \in TaskIds(a) : a.task[i] \in Task /\ b.task[i] \in Task
  <2>1. a.task \in [TaskIds(a) -> Task] /\ b.task \in [TaskIds(b) -> Task] /\ TaskIds(a) = TaskIds(b)
    BY TreeParts DEF Same
  <2>. QED BY <2>1
<1>. QED BY <1>1, <1>2, <1>3, ShapeBelow

\* A tree that is the same as a forest is one.
LEMMA SameForest ==
    ASSUME NEW a, NEW b, Same(a, b), IsForest(a)
    PROVE  IsForest(b)
<1>1. IsTree(a) /\ NoTask \notin TaskIds(a) /\ SameShape(a, b)
  BY SameLists, TreeParts DEF Same
<1>. QED BY <1>1, ShapeForest

\* Tasks that are the same stay so with the same children.
LEMMA SameChildren ==
    ASSUME NEW k \in Task, NEW l \in Task, SameTask(k, l), NEW list
    PROVE  /\ SameTask([k EXCEPT !.children = list], [l EXCEPT !.children = list])
           /\ [k EXCEPT !.children = list].extra = k.extra
<1>1. SameTask([k EXCEPT !.children = list], [l EXCEPT !.children = list])
  BY DEF SameTask, Task
<1>2. [k EXCEPT !.children = list].extra = k.extra
  BY DEF Task
<1>. QED BY <1>1, <1>2

\* Replacing a task by tasks that are the same keeps trees the same.
LEMMA ReplacedSame ==
    ASSUME NEW a, NEW b, Same(a, b), NEW id \in TaskIds(a),
           NEW k \in Task, NEW l \in Task, SameTask(k, l),
           NEW x, x = Replaced(a, id, k), NEW y, y = Replaced(b, id, l)
    PROVE  Same(x, y)
<1>0. IsTree(a) /\ IsTree(b) /\ id \in TaskIds(b) /\ TaskIds(a) = TaskIds(b)
  BY DEF Same
<1>1. /\ IsTree(x) /\ TaskIds(x) = TaskIds(a) /\ x.roots = a.roots
      /\ \A i \in TaskIds(x) : x.task[i] = IF i = id THEN k ELSE a.task[i]
  <2>1. IsReplaced(x, a, id, k)
    BY <1>0, ReplacedTree
  <2>. QED BY <2>1 DEF IsReplaced
<1>2. /\ IsTree(y) /\ TaskIds(y) = TaskIds(b) /\ y.roots = b.roots
      /\ \A i \in TaskIds(y) : y.task[i] = IF i = id THEN l ELSE b.task[i]
  <2>1. IsReplaced(y, b, id, l)
    BY <1>0, ReplacedTree
  <2>. QED BY <2>1 DEF IsReplaced
<1>3. \A i \in TaskIds(x) : SameTask(x.task[i], y.task[i])
  BY <1>0, <1>1, <1>2 DEF Same
<1>. QED BY <1>0, <1>1, <1>2, <1>3 DEF Same

\* So does removing a subtree.
LEMMA RemovedSame ==
    ASSUME NEW a, NEW b, Same(a, b), NEW id, NEW x, x = RemoveTask(a, id), NEW y, y = RemoveTask(b, id)
    PROVE  Same(x, y)
<1>0. IsTree(a) /\ IsTree(b) /\ a.roots = b.roots /\ TaskIds(a) = TaskIds(b)
  BY DEF Same
<1>1. /\ IsTree(x) /\ TaskIds(x) = TaskIds(a) \ Below(a, id) /\ x.roots = Others(a.roots, id)
      /\ \A i \in TaskIds(x) : x.task[i] = [a.task[i] EXCEPT !.children = Others(@, id)]
  BY <1>0, Removed
<1>2. /\ IsTree(y) /\ TaskIds(y) = TaskIds(b) \ Below(b, id) /\ y.roots = Others(b.roots, id)
      /\ \A i \in TaskIds(y) : y.task[i] = [b.task[i] EXCEPT !.children = Others(@, id)]
  BY <1>0, Removed
<1>3. TaskIds(x) = TaskIds(y) /\ x.roots = y.roots
  BY <1>0, <1>1, <1>2, SameLists
<1>4. ASSUME NEW i \in TaskIds(x) PROVE SameTask(x.task[i], y.task[i])
  <2>. DEFINE k == a.task[i]
              l == b.task[i]
              list == Others(k.children, id)
  <2>1. k \in Task /\ l \in Task /\ SameTask(k, l)
    BY <1>1, SameLists DEF Same
  <2>2. l.children = k.children
    BY <2>1 DEF SameTask
  <2>3. x.task[i] = [k EXCEPT !.children = list] /\ y.task[i] = [l EXCEPT !.children = list]
    BY <1>1, <1>2, <1>3, <2>2
  <2>. HIDE DEF k, l, list
  <2>. QED BY <2>1, <2>3, SameChildren
<1>. QED BY <1>1, <1>2, <1>3, <1>4 DEF Same

\* So does putting a task into a list.
LEMMA AttachedSame ==
    ASSUME NEW a, NEW b, Same(a, b), NEW p, NEW pos \in Nat, NEW id \in Ids,
           NEW x, x = Attach(a, p, pos, id), NEW y, y = Attach(b, p, pos, id)
    PROVE  Same(x, y)
<1>0. IsTree(a) /\ IsTree(b) /\ a.roots = b.roots /\ TaskIds(a) = TaskIds(b)
  BY DEF Same
<1>1. IsAttached(x, a, p, pos, id) /\ IsAttached(y, b, p, pos, id)
  BY <1>0, Attached
<1>2. /\ IsTree(x) /\ IsTree(y) /\ TaskIds(x) = TaskIds(a) /\ TaskIds(y) = TaskIds(b)
      /\ x.roots = y.roots
      /\ \A i \in TaskIds(x) : x.task[i] =
            IF i = p THEN [a.task[i] EXCEPT !.children = InsertChild(@, pos, id)] ELSE a.task[i]
      /\ \A i \in TaskIds(y) : y.task[i] =
            IF i = p THEN [b.task[i] EXCEPT !.children = InsertChild(@, pos, id)] ELSE b.task[i]
  BY <1>0, <1>1 DEF IsAttached
<1>4. ASSUME NEW i \in TaskIds(x) PROVE SameTask(x.task[i], y.task[i])
  <2>. DEFINE k == a.task[i]
              l == b.task[i]
              list == InsertChild(k.children, pos, id)
  <2>1. k \in Task /\ l \in Task /\ SameTask(k, l)
    BY <1>2, SameLists DEF Same
  <2>2. l.children = k.children
    BY <2>1 DEF SameTask
  <2>3. CASE i # p
    BY <1>0, <1>2, <2>1, <2>3
  <2>4. CASE i = p
    <3>1. x.task[i] = [k EXCEPT !.children = list] /\ y.task[i] = [l EXCEPT !.children = list]
      BY <1>0, <1>2, <2>2, <2>4
    <3>. HIDE DEF k, l, list
    <3>. QED BY <2>1, <3>1, SameChildren
  <2>. QED BY <2>3, <2>4
<1>. QED BY <1>0, <1>2, <1>4 DEF Same

\* So does putting tasks back.
LEMMA TasksBackSame ==
    ASSUME NEW a, NEW b, Same(a, b), NEW J \in SUBSET Ids, NEW tasks \in [J -> Task],
           NEW x, x = WithTasks(a, tasks), NEW y, y = WithTasks(b, tasks)
    PROVE  Same(x, y)
<1>0. IsTree(a) /\ IsTree(b) /\ a.roots = b.roots /\ TaskIds(a) = TaskIds(b)
  BY DEF Same
<1>1. /\ IsTree(x) /\ TaskIds(x) = TaskIds(a) \cup J /\ x.roots = a.roots
      /\ \A i \in TaskIds(x) : x.task[i] = IF i \in TaskIds(a) THEN a.task[i] ELSE tasks[i]
  <2>1. IsJoined(x, a, J, tasks)
    BY <1>0, TasksBack
  <2>. QED BY <2>1 DEF IsJoined
<1>2. /\ IsTree(y) /\ TaskIds(y) = TaskIds(b) \cup J /\ y.roots = b.roots
      /\ \A i \in TaskIds(y) : y.task[i] = IF i \in TaskIds(b) THEN b.task[i] ELSE tasks[i]
  <2>1. IsJoined(y, b, J, tasks)
    BY <1>0, TasksBack
  <2>. QED BY <2>1 DEF IsJoined
<1>3. \A i \in TaskIds(x) : SameTask(x.task[i], y.task[i])
  BY <1>0, <1>1, <1>2, SameTaskIsEquivalence DEF Same
<1>. QED BY <1>0, <1>1, <1>2, <1>3 DEF Same

\* So does undoing a deletion.
LEMMA RestoredSame ==
    ASSUME NEW c, IsCommand(c), c.kind = "delete", WasOK(c), NEW a, NEW b, Same(a, b),
           NEW x, x = Restore(c, a), NEW y, y = Restore(c, b)
    PROVE  Same(x, y)
<1>. DEFINE p == c.was.parent
            pos == c.was.pos
            tasks == c.was.tasks
            backa == WithTasks(a, tasks)
            backb == WithTasks(b, tasks)
<1>1. c.task \in Ids /\ pos \in Nat
  BY DEF IsCommand, WasOK
<1>2. PICK J \in SUBSET Ids : tasks \in [J -> Task]
  BY DEF WasOK
<1>3. /\ x = IF p \in TaskIds(backa) \cup {NoTask} /\ c.task \in ToSet(Siblings(backa, p)) THEN backa
             ELSE Attach(backa, p, pos, c.task)
      /\ y = IF p \in TaskIds(backb) \cup {NoTask} /\ c.task \in ToSet(Siblings(backb, p)) THEN backb
             ELSE Attach(backb, p, pos, c.task)
  BY DEF Restore, WithTasks
<1>. HIDE DEF p, pos, tasks
<1>4. Same(backa, backb)
  <2>. HIDE DEF backa, backb
  <2>1. backa = WithTasks(a, tasks) /\ backb = WithTasks(b, tasks)
    BY DEF backa, backb
  <2>. QED BY <1>2, <2>1, TasksBackSame
<1>. HIDE DEF backa, backb
<1>5. /\ TaskIds(backa) = TaskIds(backb)
      /\ p \in TaskIds(backa) \cup {NoTask} => Siblings(backa, p) = Siblings(backb, p)
  BY <1>4, SameLists DEF Same, Parents
<1>6. CASE p \in TaskIds(backa) \cup {NoTask} /\ c.task \in ToSet(Siblings(backa, p))
  BY <1>3, <1>4, <1>5, <1>6
<1>7. CASE ~(p \in TaskIds(backa) \cup {NoTask} /\ c.task \in ToSet(Siblings(backa, p)))
  <2>1. x = Attach(backa, p, pos, c.task) /\ y = Attach(backb, p, pos, c.task)
    BY <1>3, <1>5, <1>7
  <2>. QED BY <1>1, <1>4, <2>1, AttachedSame
<1>. QED BY <1>6, <1>7

\* The tree is one a command may be run on.
Fits(c, t) ==
    IF c.kind = "add" THEN /\ c.task \in Ids \ TaskIds(t)
                           /\ c.arg.parent \in Parents(t)
                           /\ c.arg.pos = Len(Siblings(t, c.arg.parent))
    ELSE c.task \in TaskIds(t)

\* Whether a command may run does not depend on what undo does not keep.
LEMMA FitsSame ==
    ASSUME NEW c, NEW a, NEW b, Same(a, b), Fits(c, a)
    PROVE  Fits(c, b)
BY SameLists DEF Fits, Same

\* Running AddTaskCommand appends a blank task.
LEMMA ExecuteAdd ==
    ASSUME NEW c, IsCommand(c), c.kind = "add", NEW t, Fits(c, t)
    PROVE  Execute(c, t) = WithTask(t, c.arg.parent, c.task)
BY DEF IsCommand, ArgOK, Fits, Execute, WithTask

\* Running DeleteTaskCommand removes the subtree, undoing it restores it.
LEMMA ExecuteDelete ==
    ASSUME NEW c, c.kind = "delete", NEW t
    PROVE  Execute(c, t) = RemoveTask(t, c.task) /\ Undo(c, t) = Restore(c, t)
BY DEF Execute, Undo

\* Undoing AddTaskCommand removes the subtree.
LEMMA UndoAdd ==
    ASSUME NEW c, c.kind = "add", NEW t
    PROVE  Undo(c, t) = RemoveTask(t, c.task)
BY DEF Undo

\* A command takes trees that are the same to trees that are the same.
LEMMA ExecuteSame ==
    ASSUME NEW c, IsCommand(c), NEW a, NEW b, Same(a, b), Fits(c, a)
    PROVE  Same(Execute(c, a), Execute(c, b))
<1>1. CASE c.kind = "add"
  <2>. DEFINE id == c.task
              p == c.arg.parent
              pos == Len(Siblings(a, p))
              x == AddTask(a, id, BlankTask)
              y == AddTask(b, id, BlankTask)
  <2>0. /\ id \in Ids \ TaskIds(a) /\ p \in Parents(a) /\ IsTree(a) /\ IsTree(b)
        /\ TaskIds(a) = TaskIds(b) /\ a.roots = b.roots /\ BlankTask \in Task
    BY <1>1, BlankIsTask DEF Fits, Same
  <2>1. Fits(c, b) /\ Siblings(b, p) = Siblings(a, p)
    BY <2>0, FitsSame, SameLists
  <2>2. Execute(c, a) = Attach(x, p, pos, id) /\ Execute(c, b) = Attach(y, p, pos, id)
    BY <1>1, <2>1, ExecuteAdd DEF WithTask
  <2>. HIDE DEF id, p
  <2>3. pos \in Nat
    <3>1. Siblings(a, p) \in Seq(Ids)
      BY <2>0, ListType
    <3>. QED BY <3>1
  <2>. HIDE DEF pos
  <2>4. Same(x, y)
    <3>. HIDE DEF x, y
    <3>1. /\ IsTree(x) /\ TaskIds(x) = TaskIds(a) \cup {id} /\ x.roots = a.roots
          /\ \A i \in TaskIds(x) : x.task[i] = IF i = id THEN BlankTask ELSE a.task[i]
      BY <2>0, TaskAdded DEF x
    <3>2. /\ IsTree(y) /\ TaskIds(y) = TaskIds(b) \cup {id} /\ y.roots = b.roots
          /\ \A i \in TaskIds(y) : y.task[i] = IF i = id THEN BlankTask ELSE b.task[i]
      BY <2>0, TaskAdded DEF y
    <3>3. \A i \in TaskIds(x) : SameTask(x.task[i], y.task[i])
      BY <2>0, <3>1, <3>2, SameTaskIsEquivalence DEF Same
    <3>. QED BY <2>0, <3>1, <3>2, <3>3 DEF Same
  <2>. HIDE DEF x, y
  <2>5. id \in Ids
    BY <2>0
  <2>. QED BY <2>2, <2>3, <2>4, <2>5, AttachedSame
<1>2. CASE c.kind = "delete"
  BY <1>2, ExecuteDelete, RemovedSame
<1>3. CASE c.kind \in LocalKinds
  <2>. DEFINE id == c.task
              k == a.task[id]
              l == b.task[id]
  <2>1. id \in TaskIds(a)
    BY <1>3 DEF Fits, LocalKinds
  <2>2. k \in Task /\ l \in Task /\ SameTask(k, l)
    BY <2>1, SameLists DEF Same
  <2>3. Execute(c, a) = Replaced(a, id, After(c, k)) /\ Execute(c, b) = Replaced(b, id, After(c, l))
    BY <1>3, ExecuteLocal
  <2>. HIDE DEF k, l, id
  <2>4. After(c, k) \in Task /\ After(c, l) \in Task /\ SameTask(After(c, k), After(c, l))
    BY <1>3, <2>2, AfterAlike, SameTaskIsEquivalence DEF Alike
  <2>. QED BY <2>1, <2>3, <2>4, ReplacedSame
<1>. QED BY <1>1, <1>2, <1>3 DEF IsCommand

\* Undoing a command takes trees that are the same to trees that are the same.
LEMMA UndoSame ==
    ASSUME NEW c, IsCommand(c), WasOK(c), NEW a, NEW b, Same(a, b)
    PROVE  Same(Undo(c, a), Undo(c, b))
<1>1. CASE c.kind = "add"
  BY <1>1, UndoAdd, RemovedSame
<1>2. CASE c.kind = "delete"
  BY <1>2, ExecuteDelete, RestoredSame
<1>3. CASE c.kind \in LocalKinds
  <2>. DEFINE id == c.task
              k == a.task[id]
              l == b.task[id]
  <2>1. CASE id \notin TaskIds(a)
    <3>1. id \notin TaskIds(b)
      BY <2>1 DEF Same
    <3>2. Undo(c, a) = a /\ Undo(c, b) = b
      BY <1>3, <2>1, <3>1, UndoLocal DEF Replaced
    <3>. QED BY <3>2
  <2>2. CASE id \in TaskIds(a)
    <3>2. k \in Task /\ l \in Task /\ SameTask(k, l)
      BY <2>2, SameLists DEF Same
    <3>3. Undo(c, a) = Replaced(a, id, Before(c, k)) /\ Undo(c, b) = Replaced(b, id, Before(c, l))
      BY <1>3, UndoLocal
    <3>. HIDE DEF k, l, id
    <3>4. Before(c, k) \in Task /\ Before(c, l) \in Task /\ SameTask(Before(c, k), Before(c, l))
      BY <1>3, <3>2, BeforeAlike, SameTaskIsEquivalence DEF Alike
    <3>. QED BY <2>2, <3>3, <3>4, ReplacedSame
  <2>. QED BY <2>1, <2>2
<1>. QED BY <1>1, <1>2, <1>3 DEF IsCommand

\* The unknown data that the writer finds for task i in the opened document.
KnownExtra(s, i) == IF i \in TaskIds(s) THEN s.task[i].extra ELSE None

\* A forest whose tasks carry no unknown data but that of the opened document s.
Sound(t, s) ==
    /\ IsTree(t)
    /\ IsForest(t)
    /\ \A i \in TaskIds(t) : t.task[i].extra \in {None, KnownExtra(s, i)}

\* A tree that is the same as a sound one is sound.
LEMMA SoundSame ==
    ASSUME NEW s, NEW a, NEW b, Same(a, b), Sound(a, s)
    PROVE  Sound(b, s)
<1>1. IsForest(b)
  BY SameForest DEF Sound
<1>2. TaskIds(a) = TaskIds(b) /\ \A i \in TaskIds(a) : a.task[i].extra = b.task[i].extra
  BY DEF Same, SameTask
<1>. QED BY <1>1, <1>2 DEF Sound, Same

\* Running a command on a sound tree gives a sound tree.
LEMMA ExecuteSound ==
    ASSUME NEW s, NEW c, IsCommand(c), NEW t, Sound(t, s), Fits(c, t)
    PROVE  Sound(Execute(c, t), s)
<1>0. IsTree(t) /\ IsForest(t) /\ t.task \in [TaskIds(t) -> Task]
      /\ \A i \in TaskIds(t) : t.task[i].extra \in {None, KnownExtra(s, i)}
  BY TreeParts DEF Sound
<1>1. CASE c.kind = "add"
  <2>. DEFINE id == c.task
              p == c.arg.parent
              r == Execute(c, t)
  <2>1. id \in Ids \ TaskIds(t) /\ p \in Parents(t) /\ r = WithTask(t, p, id)
    BY <1>1, ExecuteAdd DEF Fits
  <2>. HIDE DEF id, p, r
  <2>2. IsForest(r)
    BY <1>0, <2>1, AddedForest
  <2>3. /\ IsTree(r) /\ TaskIds(r) = TaskIds(t) \cup {id} /\ r.task[id] = BlankTask
        /\ \A i \in TaskIds(t) : r.task[i] = [t.task[i] EXCEPT !.children = Siblings(r, i)]
    BY <1>0, <2>1, Added
  <2>4. ASSUME NEW i \in TaskIds(r) PROVE r.task[i].extra \in {None, KnownExtra(s, i)}
    <3>1. CASE i = id
      BY <2>3, <3>1 DEF BlankTask
    <3>2. CASE i \in TaskIds(t)
      <4>. DEFINE k == t.task[i]
                  list == Siblings(r, i)
      <4>1. k \in Task /\ k.extra \in {None, KnownExtra(s, i)} /\ r.task[i] = [k EXCEPT !.children = list]
        BY <1>0, <2>3, <3>2
      <4>. HIDE DEF k, list
      <4>2. [k EXCEPT !.children = list].extra = k.extra
        BY <4>1 DEF Task
      <4>. QED BY <4>1, <4>2
    <3>. QED BY <2>3, <3>1, <3>2
  <2>. QED BY <2>2, <2>3, <2>4 DEF Sound, r
<1>2. CASE c.kind = "delete"
  <2>. DEFINE id == c.task
              r == Execute(c, t)
  <2>1. id \in TaskIds(t) /\ r = RemoveTask(t, id)
    BY <1>2, ExecuteDelete DEF Fits
  <2>. HIDE DEF id, r
  <2>2. IsForest(r)
    BY <1>0, <2>1, RemovedForest
  <2>3. /\ IsTree(r) /\ TaskIds(r) = TaskIds(t) \ Below(t, id)
        /\ \A i \in TaskIds(r) : r.task[i] = [t.task[i] EXCEPT !.children = Others(@, id)]
    BY <1>0, <2>1, Removed
  <2>4. ASSUME NEW i \in TaskIds(r) PROVE r.task[i].extra \in {None, KnownExtra(s, i)}
    <3>. DEFINE k == t.task[i]
                list == Others(k.children, id)
    <3>1. i \in TaskIds(t)
      BY <2>3
    <3>2. k \in Task /\ k.extra \in {None, KnownExtra(s, i)} /\ r.task[i] = [k EXCEPT !.children = list]
      BY <1>0, <2>3, <3>1
    <3>. HIDE DEF k, list
    <3>3. [k EXCEPT !.children = list].extra = k.extra
      BY <3>2 DEF Task
    <3>. QED BY <3>2, <3>3
  <2>. QED BY <2>2, <2>3, <2>4 DEF Sound, r
<1>3. CASE c.kind \in LocalKinds
  <2>. DEFINE id == c.task
              k == t.task[id]
              r == Execute(c, t)
  <2>1. id \in TaskIds(t)
    BY <1>3 DEF Fits, LocalKinds
  <2>2. k \in Task /\ SameTask(k, k) /\ k.extra \in {None, KnownExtra(s, id)}
    BY <1>0, <2>1, SameTaskIsEquivalence
  <2>3. r = Replaced(t, id, After(c, k))
    BY <1>3, ExecuteLocal
  <2>. HIDE DEF r
  <2>4. After(c, k) \in Task /\ After(c, k).children = k.children /\ After(c, k).extra = k.extra
    <3>. HIDE DEF k, id
    <3>. QED BY <1>3, <2>2, AfterAlike DEF Alike
  <2>. HIDE DEF id
  <2>5. /\ IsTree(r) /\ TaskIds(r) = TaskIds(t) /\ r.roots = t.roots
        /\ \A i \in TaskIds(r) : r.task[i] = IF i = id THEN After(c, k) ELSE t.task[i]
    <3>. DEFINE m == After(c, k)
    <3>1. m \in Task /\ r = Replaced(t, id, m) /\ IsTree(t)
      BY <1>0, <2>3, <2>4
    <3>. HIDE DEF m, k
    <3>2. /\ IsTree(r) /\ TaskIds(r) = TaskIds(t) /\ r.roots = t.roots
          /\ \A i \in TaskIds(r) : r.task[i] = IF i = id THEN m ELSE t.task[i]
      <4>1. IsReplaced(r, t, id, m)
        BY <2>1, <3>1, ReplacedTree
      <4>. QED BY <4>1 DEF IsReplaced
    <3>. QED BY <3>2 DEF m
  <2>6. IsForest(r)
    <3>1. SameShape(t, r)
      BY <2>4, <2>5 DEF SameShape
    <3>. QED BY <1>0, <3>1, ShapeForest, TreeParts
  <2>7. \A i \in TaskIds(r) : r.task[i].extra \in {None, KnownExtra(s, i)}
    BY <1>0, <2>2, <2>4, <2>5
  <2>. QED BY <2>5, <2>6, <2>7 DEF Sound, r
<1>. QED BY <1>1, <1>2, <1>3 DEF IsCommand

\* The command on the stack is the one that ran, with what it captured.
LEMMA ExecutedParts ==
    ASSUME NEW c, IsCommand(c), NEW t
    PROVE  /\ IsRun(Executed(c, t), c, Capture(c, t))
           /\ IsCommand(Executed(c, t))
<1>. DEFINE w == Capture(c, t)
            d == [kind |-> c.kind, task |-> c.task, arg |-> c.arg, was |-> w]
<1>1. Executed(c, t) = d
  BY DEF Executed, IsCommand
<1>. HIDE DEF w
<1>2. IsRun(d, c, w) /\ d = [kind |-> d.kind, task |-> d.task, arg |-> d.arg, was |-> d.was]
  BY DEF IsRun
<1>3. d.kind = c.kind /\ d.task = c.task /\ d.arg = c.arg
  OBVIOUS
<1>. HIDE DEF d
<1>4. ArgOK(d)
  BY <1>3 DEF IsCommand, ArgOK
<1>5. IsCommand(d)
  BY <1>2, <1>3, <1>4 DEF IsCommand
<1>. QED BY <1>1, <1>2, <1>5 DEF w

\* Running a command does not depend on what it has captured.
LEMMA SameCommand ==
    ASSUME NEW c, NEW d, NEW w, IsRun(d, c, w), c.kind \in LocalKinds \cup {"add", "delete"}, NEW t
    PROVE  Execute(d, t) = Execute(c, t) /\ (Fits(d, t) <=> Fits(c, t))
<1>0. d.kind = c.kind /\ d.task = c.task /\ d.arg = c.arg
  BY DEF IsRun
<1>4. Fits(d, t) <=> Fits(c, t)
  BY <1>0 DEF Fits
<1>1. CASE c.kind = "add"
  BY <1>0, <1>1, <1>4 DEF Execute
<1>2. CASE c.kind = "delete"
  BY <1>0, <1>2, <1>4, ExecuteDelete
<1>3. CASE c.kind \in LocalKinds
  <2>1. \A k : After(d, k) = After(c, k)
    BY <1>0 DEF After, SetRole, SetLinks, SetAttachments
  <2>. QED BY <1>0, <1>3, <1>4, <2>1, ExecuteLocal
<1>. QED BY <1>1, <1>2, <1>3

\* remove_dependency removes one that is there; redo may find it gone, and
\* keeps what the command captured before.
HasCapture(c, t) ==
    c.kind = "undepend" => WasOK(c) \/ \E e \in ToSet(t.task[c.task].deps) : e.on = c.arg

\* Undoing the command that was run gives the tree that was, but for what
\* undo does not keep.
LEMMA Undone ==
    ASSUME NEW c, IsCommand(c), NEW t, IsTree(t), IsForest(t), Fits(c, t), HasCapture(c, t),
           NEW d, d = Executed(c, t), NEW x, Same(x, Execute(c, t))
    PROVE  WasOK(d) /\ Same(Undo(d, x), t)
<1>0. IsRun(d, c, Capture(c, t)) /\ IsCommand(d) /\ IsTree(x)
      /\ d.kind = c.kind /\ d.task = c.task /\ d.arg = c.arg /\ d.was = Capture(c, t)
  BY ExecutedParts DEF IsRun, Same
<1>. SUFFICES WasOK(d) /\ Same(Undo(d, Execute(c, t)), t)
  <2>1. ASSUME WasOK(d) PROVE Same(Undo(d, x), Undo(d, Execute(c, t)))
    BY <1>0, <2>1, UndoSame
  <2>. QED BY <2>1, SameIsEquivalence
<1>1. CASE c.kind = "add"
  <2>. DEFINE id == c.task
              p == c.arg.parent
              r == Execute(c, t)
  <2>1. id \in Ids \ TaskIds(t) /\ p \in Parents(t) /\ r = WithTask(t, p, id)
    BY <1>1, ExecuteAdd DEF Fits
  <2>2. Undo(d, r) = RemoveTask(r, id)
    BY <1>0, <1>1, UndoAdd
  <2>. HIDE DEF id, p, r
  <2>3. Undo(d, r) = t
    BY <2>1, <2>2, AddUndone
  <2>4. WasOK(d)
    BY <1>0, <1>1 DEF WasOK
  <2>. QED BY <2>3, <2>4, SameIsEquivalence DEF r
<1>2. CASE c.kind = "delete"
  <2>. DEFINE id == c.task
  <2>1. id \in TaskIds(t)
    BY <1>2 DEF Fits
  <2>2. d.was = Cut(t, id) /\ d.task = id
    BY <1>0, <1>2, <2>1 DEF Capture, Cut
  <2>3. Undo(d, Execute(c, t)) = Restore(d, RemoveTask(t, id))
    BY <1>0, <1>2, ExecuteDelete
  <2>. HIDE DEF id
  <2>4. Restore(d, RemoveTask(t, id)) = t
    BY <2>1, <2>2, DeleteUndone
  <2>5. WasOK(d)
    <3>1. Below(t, id) \in SUBSET Ids
      <4>1. TaskIds(t) \in SUBSET Ids
        BY TreeParts
      <4>2. Below(t, id) \subseteq TaskIds(t)
        BY BelowIsClosed
      <4>. QED BY <4>1, <4>2
    <3>2. /\ Cut(t, id).tasks \in [Below(t, id) -> Task]
          /\ Cut(t, id).parent \in Ids \cup {NoTask} /\ Cut(t, id).pos \in Nat
      BY <2>1, CutParts
    <3>. QED BY <1>0, <1>2, <2>2, <3>1, <3>2 DEF WasOK
  <2>. QED BY <2>3, <2>4, <2>5, SameIsEquivalence
<1>3. CASE c.kind \in LocalKinds
  <2>. DEFINE id == c.task
              k == t.task[id]
              m == After(c, k)
              r == Execute(c, t)
              l == r.task[id]
              u == Undo(d, r)
  <2>1. id \in TaskIds(t)
    BY <1>3 DEF Fits, LocalKinds
  <2>2. k \in Task /\ m \in Task
    <3>1. k \in Task
      BY <2>1, TreeParts
    <3>2. SameTask(k, k)
      BY SameTaskIsEquivalence
    <3>. HIDE DEF k
    <3>. QED BY <1>3, <3>1, <3>2, AfterAlike
  <2>3. r = Replaced(t, id, m)
    BY <1>3, ExecuteLocal
  <2>4. d.was = Captured(c, k)
    BY <1>0, <1>3, <2>1, CaptureLocal
  <2>5. u = Replaced(r, id, Before(d, l))
    BY <1>0, <1>3, UndoLocal
  <2>. HIDE DEF u, l, r, m
  <2>6. /\ IsTree(r) /\ TaskIds(r) = TaskIds(t) /\ r.roots = t.roots
        /\ \A i \in TaskIds(r) : r.task[i] = IF i = id THEN m ELSE t.task[i]
    <3>. HIDE DEF k, id
    <3>1. IsReplaced(r, t, id, m)
      BY <2>1, <2>2, <2>3, ReplacedTree
    <3>. QED BY <3>1 DEF IsReplaced
  <2>7. l = m /\ SameTask(l, m)
    BY <2>1, <2>6, SameTaskIsEquivalence DEF l
  <2>8. WasOK(d) /\ SameTask(Before(d, l), k)
    <3>1. IsRun(d, c, Captured(c, k))
      BY <1>0, <2>4 DEF IsRun
    <3>2. c.kind = "undepend" => WasOK(c) \/ \E e \in ToSet(k.deps) : e.on = c.arg
      BY DEF HasCapture
    <3>3. SameTask(l, After(c, k)) /\ l \in Task
      BY <2>2, <2>7 DEF m
    <3>. HIDE DEF k, id
    <3>. QED BY <1>3, <2>2, <3>1, <3>2, <3>3, LocalUndone
  <2>9. Before(d, l) \in Task
    <3>1. l \in Task /\ d.kind \in LocalKinds /\ SameTask(l, l)
      BY <1>0, <1>3, <2>2, <2>7, SameTaskIsEquivalence
    <3>. QED BY <1>0, <2>8, <3>1, BeforeAlike
  <2>10. /\ IsTree(u) /\ TaskIds(u) = TaskIds(t) /\ u.roots = t.roots
         /\ \A i \in TaskIds(u) : u.task[i] = IF i = id THEN Before(d, l) ELSE r.task[i]
    <3>1. id \in TaskIds(r)
      BY <2>1, <2>6
    <3>. HIDE DEF k, id
    <3>2. IsReplaced(u, r, id, Before(d, l))
      BY <2>5, <2>6, <2>9, <3>1, ReplacedTree
    <3>. QED BY <2>6, <3>2 DEF IsReplaced
  <2>11. \A i \in TaskIds(u) : SameTask(u.task[i], t.task[i])
    BY <2>6, <2>8, <2>10, SameTaskIsEquivalence
  <2>12. Same(u, t)
    BY <2>10, <2>11 DEF Same
  <2>. QED BY <2>8, <2>12 DEF u, r
<1>. QED BY <1>1, <1>2, <1>3 DEF IsCommand

-----------------------------------------------------------------------------
(* The line of states                                                      *)

\* A list, whatever its members are.
IsList(list) == list \in Seq(ToSet(list))

\* Length, domain and members of a list.
LEMMA ListParts ==
    ASSUME NEW list, IsList(list)
    PROVE  /\ Len(list) \in Nat /\ DOMAIN list = 1 .. Len(list)
           /\ ToSet(list) = {list[i] : i \in 1 .. Len(list)}
<1>. DEFINE X == ToSet(list)
<1>1. list \in Seq(X)
  BY DEF IsList
<1>. HIDE DEF X
<1>2. Len(list) \in Nat /\ DOMAIN list = 1 .. Len(list)
  BY <1>1
<1>. QED BY <1>2 DEF ToSet

\* more is list with c at the end.
IsAppended(more, list, c) ==
    /\ IsList(more) /\ Len(more) = Len(list) + 1
    /\ more[Len(list) + 1] = c
    /\ \A i \in 1 .. Len(list) : more[i] = list[i]

\* What Append makes of a list.
LEMMA AppendParts ==
    ASSUME NEW list, IsList(list), NEW c, NEW more, more = Append(list, c)
    PROVE  IsAppended(more, list, c)
<1>. DEFINE X == ToSet(list)
            Y == X \cup {c}
<1>1. list \in Seq(X)
  BY DEF IsList
<1>2. list \in Seq(Y)
  <2>. HIDE DEF X, Y
  <2>1. X \subseteq Y
    BY DEF Y
  <2>. QED BY <1>1, <2>1, WiderList
<1>. HIDE DEF X
<1>3. c \in Y
  OBVIOUS
<1>. HIDE DEF Y
<1>4. more \in Seq(Y) /\ Len(more) = Len(list) + 1
      /\ more[Len(list) + 1] = c /\ \A i \in 1 .. Len(list) : more[i] = list[i]
  BY <1>2, <1>3
<1>. QED BY <1>4, OwnMembers DEF IsList, IsAppended

\* What Front makes of a list.
LEMMA FrontParts ==
    ASSUME NEW list, IsList(list), list # <<>>, NEW less, less = Front(list)
    PROVE  /\ IsList(less) /\ Len(list) \in Nat /\ Len(list) >= 1 /\ Len(less) = Len(list) - 1
           /\ \A i \in 1 .. Len(list) - 1 : less[i] = list[i]
           /\ Last(list) = list[Len(list)]
<1>. DEFINE X == ToSet(list)
<1>1. list \in Seq(X)
  BY DEF IsList
<1>. HIDE DEF X
<1>2. /\ less \in Seq(X) /\ Len(list) \in Nat /\ Len(list) >= 1 /\ Len(less) = Len(list) - 1
      /\ \A i \in 1 .. Len(list) - 1 : less[i] = list[i]
  <2>1. Len(list) \in Nat /\ Len(list) >= 1 /\ \A i \in 1 .. Len(list) : list[i] \in X
    BY <1>1
  <2>2. less = SubSeq(list, 1, Len(list) - 1)
    BY DEF Front
  <2>. DEFINE n == Len(list) - 1
  <2>3. n \in Nat /\ less = SubSeq(list, 1, n) /\ \A i \in 1 .. n : list[i] \in X
    BY <2>1, <2>2
  <2>. HIDE DEF n
  <2>4. /\ less \in Seq(X) /\ Len(less) = IF 1 <= n THEN n - 1 + 1 ELSE 0
        /\ \A i \in 1 .. n - 1 + 1 : less[i] = list[1 + i - 1]
    BY <2>3, SubSeqProperties
  <2>5. Len(less) = n
    BY <2>3, <2>4
  <2>6. ASSUME NEW i \in 1 .. n PROVE less[i] = list[i]
    <3>1. i \in 1 .. n - 1 + 1 /\ 1 + i - 1 = i
      BY <2>3
    <3>. QED BY <2>4, <3>1
  <2>. QED BY <2>1, <2>4, <2>5, <2>6 DEF n
<1>. QED BY <1>2, OwnMembers DEF IsList, Last

\* What Tail makes of a list.
LEMMA TailParts ==
    ASSUME NEW list, IsList(list), Len(list) >= 1, NEW less, less = Tail(list)
    PROVE  /\ IsList(less) /\ Len(list) \in Nat /\ Len(less) = Len(list) - 1
           /\ \A i \in 1 .. Len(list) - 1 : less[i] = list[i + 1]
<1>. DEFINE X == ToSet(list)
<1>1. list \in Seq(X)
  BY DEF IsList
<1>. HIDE DEF X
<1>2. list # <<>>
  BY <1>1
<1>3. /\ less \in Seq(X) /\ Len(list) \in Nat /\ Len(less) = Len(list) - 1
      /\ \A i \in 1 .. Len(list) - 1 : less[i] = list[i + 1]
  BY <1>1, <1>2
<1>. QED BY <1>3, OwnMembers DEF IsList

\* f[i] is where the commands of stack from the last down to number i lead.
IsLine(f, undoing, stack, t) ==
    /\ f[Len(stack) + 1] = t
    /\ \A i \in 1 .. Len(stack) : f[i] = Turn(undoing, stack[i], f[i + 1])

\* The recursion of Line has a solution.
LEMMA LineExists ==
    ASSUME NEW undoing, NEW stack, IsList(stack), NEW t
    PROVE  IsLine(Line(undoing, stack, t), undoing, stack, t)
<1>. DEFINE n == Len(stack)
            Step(f, i) == IF i = n + 1 THEN t ELSE Turn(undoing, stack[i], f[i + 1])
            IsAt(f) == f = [i \in 1 .. n + 1 |-> IF i = n + 1 THEN t ELSE Turn(undoing, stack[i], f[i + 1])]
            T == {m \in 1 .. n + 1 : \E f : f = [i \in m .. n + 1 |-> Step(f, i)]}
<1>0. n \in Nat
  BY ListParts
<1>. HIDE DEF n
<1>1. n + 1 \in T
  <2>. DEFINE g == [i \in n + 1 .. n + 1 |-> t]
  <2>1. g = [i \in n + 1 .. n + 1 |-> Step(g, i)]
    BY <1>0
  <2>. HIDE DEF g
  <2>2. n + 1 \in 1 .. n + 1
    BY <1>0
  <2>. QED BY <2>1, <2>2
<1>2. ASSUME NEW m \in 1 .. n, m + 1 \in T PROVE m \in T
  <2>1. PICK f : f = [i \in m + 1 .. n + 1 |-> Step(f, i)]
    BY <1>2
  <2>. DEFINE g == [i \in m .. n + 1 |-> IF i = m THEN Step(f, m) ELSE f[i]]
  <2>2. ASSUME NEW i \in m .. n + 1 PROVE g[i] = Step(g, i)
    <3>1. CASE i = m
      <4>1. g[i] = Step(f, m)
        BY <3>1
      <4>2. i + 1 \in m .. n + 1 /\ i + 1 # m /\ i # n + 1
        BY <1>0, <3>1
      <4>3. g[i + 1] = f[i + 1]
        BY <4>2
      <4>. QED BY <4>1, <4>2, <4>3, <3>1
    <3>2. CASE i # m
      <4>1. i \in m + 1 .. n + 1 /\ (i # n + 1 => i + 1 \in m .. n + 1 /\ i + 1 # m)
        BY <1>0, <3>2
      <4>2. f[i] = Step(f, i)
        BY <4>1, <2>1
      <4>3. g[i] = f[i] /\ (i # n + 1 => g[i + 1] = f[i + 1])
        BY <4>1, <3>2
      <4>. QED BY <4>2, <4>3
    <3>. QED BY <3>1, <3>2
  <2>3. g = [i \in m .. n + 1 |-> Step(g, i)]
    <3>. DEFINE h == [i \in m .. n + 1 |-> Step(g, i)]
    <3>1. \A i \in m .. n + 1 : g[i] = h[i]
      BY <2>2
    <3>. QED BY <3>1
  <2>. HIDE DEF g
  <2>4. m \in 1 .. n + 1
    BY <1>0
  <2>. QED BY <2>3, <2>4
<1>3. 1 \in T
  <2>. HIDE DEF T
  <2>1. 1 .. n + 1 \subseteq T
    BY <1>0, <1>1, <1>2, DownTo
  <2>. QED BY <1>0, <2>1
<1>4. \E f : IsAt(f)
  BY <1>3
<1>. DEFINE at == CHOOSE f : IsAt(f)
<1>5. Line(undoing, stack, t) = at
  BY Zenon DEF Line, n
<1>6. IsAt(at)
  <2>. HIDE DEF IsAt
  <2>. QED BY <1>4
<1>. HIDE DEF at
<1>7. at[n + 1] = t
  BY <1>0, <1>6
<1>8. ASSUME NEW i \in 1 .. n PROVE at[i] = Turn(undoing, stack[i], at[i + 1])
  <2>1. i \in 1 .. n + 1 /\ i # n + 1
    BY <1>0
  <2>. QED BY <1>6, <2>1
<1>. QED BY <1>5, <1>7, <1>8 DEF IsLine, n

\* What undo restores is the same of trees that are the same.
LEMMA KeptSame ==
    ASSUME NEW a, NEW b, Same(a, b)
    PROVE  Kept(a) = Kept(b)
<1>1. a.roots = b.roots /\ TaskIds(a) = TaskIds(b)
  BY DEF Same
<1>2. ASSUME NEW k \in Task, NEW l \in Task, SameTask(k, l)
      PROVE  [k EXCEPT !.deps = <<>>, !.owners = {}, !.people = {}, !.dueText = None] =
             [l EXCEPT !.deps = <<>>, !.owners = {}, !.people = {}, !.dueText = None]
  BY <1>2, ZenonT(60) DEF Task, SameTask
<1>. DEFINE keep(k) == [k EXCEPT !.deps = <<>>, !.owners = {}, !.people = {}, !.dueText = None]
<1>3. \A i \in TaskIds(a) : keep(a.task[i]) = keep(b.task[i])
  <2>. TAKE i \in TaskIds(a)
  <2>1. a.task[i] \in Task /\ b.task[i] \in Task /\ SameTask(a.task[i], b.task[i])
    BY SameLists DEF Same
  <2>. DEFINE x == a.task[i]
              y == b.task[i]
  <2>2. x \in Task /\ y \in Task /\ SameTask(x, y)
    BY <2>1
  <2>. HIDE DEF x, y
  <2>3. keep(x) = keep(y)
    BY <1>2, <2>2
  <2>. QED BY <2>3 DEF x, y
<1>4. /\ Kept(a) = [roots |-> a.roots, task |-> [i \in TaskIds(a) |-> keep(a.task[i])]]
      /\ Kept(b) = [roots |-> b.roots, task |-> [i \in TaskIds(b) |-> keep(b.task[i])]]
  BY DEF Kept
<1>. HIDE DEF keep
<1>5. [i \in TaskIds(a) |-> keep(a.task[i])] = [i \in TaskIds(b) |-> keep(b.task[i])]
  BY <1>1, <1>3
<1>. QED BY <1>1, <1>4, <1>5

\* Command c leads from a to b, and back.
Goes(c, a, b, s) ==
    /\ IsCommand(c) /\ WasOK(c)
    /\ Sound(a, s) /\ Sound(b, s)
    /\ Fits(c, a)
    /\ Same(Execute(c, a), b)
    /\ Same(Undo(c, b), a)

\* A command leads between trees that are the same as those it led between.
LEMMA GoesSame ==
    ASSUME NEW c, NEW s, NEW a, NEW b, Goes(c, a, b, s), NEW x, NEW y, Same(a, x), Same(b, y)
    PROVE  Goes(c, x, y, s)
<1>1. Sound(x, s) /\ Sound(y, s) /\ Fits(c, x)
  BY SoundSame, FitsSame DEF Goes
<1>2. Same(Execute(c, x), Execute(c, a)) /\ Same(Execute(c, a), b)
  BY ExecuteSame, SameIsEquivalence DEF Goes
<1>3. Same(Undo(c, y), Undo(c, b)) /\ Same(Undo(c, b), a)
  BY UndoSame, SameIsEquivalence DEF Goes
<1>4. Same(Execute(c, x), y) /\ Same(Undo(c, y), x)
  BY <1>2, <1>3, SameIsEquivalence
<1>. QED BY <1>1, <1>4 DEF Goes

\* The same of turning c from a to b, by undoing it or by running it.
Leads(undoing, c, a, b, s) == IF undoing THEN Goes(c, b, a, s) ELSE Goes(c, a, b, s)

\* The same in either direction, and turning it gives trees that are the same.
LEMMA LeadsSame ==
    ASSUME NEW undoing \in BOOLEAN, NEW c, NEW s, NEW a, NEW b, Leads(undoing, c, a, b, s),
           NEW x, Same(a, x)
    PROVE  /\ Same(Turn(undoing, c, a), Turn(undoing, c, x))
           /\ \A y : Same(b, y) => Leads(undoing, c, x, y, s)
<1>1. CASE undoing
  <2>1. Same(Turn(undoing, c, a), Turn(undoing, c, x))
    BY <1>1, UndoSame DEF Leads, Goes, Turn
  <2>. QED BY <1>1, <2>1, GoesSame DEF Leads
<1>2. CASE ~undoing
  <2>1. Same(Turn(undoing, c, a), Turn(undoing, c, x))
    BY <1>2, ExecuteSame DEF Leads, Goes, Turn
  <2>. QED BY <1>2, <2>1, GoesSame DEF Leads
<1>. QED BY <1>1, <1>2

\* Every command of stack leads from a state of the line to the next.
OnLine(f, undoing, stack, s) ==
    \A i \in 1 .. Len(stack) : Leads(undoing, stack[i], f[i + 1], f[i], s)

\* The first n states of f and g are the same.
SameLine(f, g, n) == \A i \in 1 .. n : Same(f[i], g[i])

\* The first n states of f are those of g from the second on.
SameLater(f, g, n) == \A i \in 1 .. n : Same(f[i], g[i + 1])

\* The lines from trees that are the same are the same.
LEMMA LineSame ==
    ASSUME NEW undoing \in BOOLEAN, NEW s, NEW stack, IsList(stack), NEW f, NEW g, NEW a, NEW b, Same(a, b),
           IsLine(f, undoing, stack, a), IsLine(g, undoing, stack, b), OnLine(f, undoing, stack, s)
    PROVE  SameLine(f, g, Len(stack) + 1) /\ OnLine(g, undoing, stack, s)
<1>. DEFINE n == Len(stack)
            T == {i \in 1 .. n + 1 : Same(f[i], g[i])}
<1>0. n \in Nat
  BY ListParts
<1>1. n + 1 \in T
  <2>1. f[n + 1] = a /\ g[n + 1] = b
    BY DEF IsLine
  <2>2. n + 1 \in 1 .. n + 1
    BY <1>0
  <2>. QED BY <2>1, <2>2
<1>2. ASSUME NEW i \in 1 .. n, i + 1 \in T PROVE i \in T
  <2>. DEFINE c == stack[i]
  <2>1. f[i] = Turn(undoing, c, f[i + 1]) /\ g[i] = Turn(undoing, c, g[i + 1])
    BY DEF IsLine
  <2>2. Leads(undoing, c, f[i + 1], f[i], s) /\ Same(f[i + 1], g[i + 1])
    BY <1>2 DEF OnLine
  <2>3. Same(f[i], g[i])
    BY <2>1, <2>2, LeadsSame
  <2>4. i \in 1 .. n + 1
    BY <1>0
  <2>. QED BY <2>3, <2>4
<1>3. 1 .. n + 1 \subseteq T
  <2>. HIDE DEF T, n
  <2>. QED BY <1>0, <1>1, <1>2, DownTo
<1>4. ASSUME NEW i \in 1 .. n PROVE Leads(undoing, stack[i], g[i + 1], g[i], s)
  <2>1. i \in 1 .. n + 1 /\ i + 1 \in 1 .. n + 1
    BY <1>0
  <2>2. Same(f[i], g[i]) /\ Same(f[i + 1], g[i + 1]) /\ Leads(undoing, stack[i], f[i + 1], f[i], s)
    BY <1>3, <2>1 DEF OnLine
  <2>. QED BY <2>2, LeadsSame
<1>. QED BY <1>3, <1>4 DEF OnLine, SameLine

\* g, the line of stack more, goes on after f, the line of the other stack.
IsPushed(undoing, s, stack, f, more, g) ==
    /\ OnLine(g, undoing, more, s)
    /\ SameLine(g, f, Len(stack) + 1)

\* A command more: the line goes on from where it was.
LEMMA LinePushed ==
    ASSUME NEW undoing \in BOOLEAN, NEW s, NEW stack, IsList(stack), NEW t, IsTree(t),
           NEW f, f = Line(undoing, stack, t), OnLine(f, undoing, stack, s),
           NEW c, NEW x, Leads(undoing, c, x, t, s), Same(Turn(undoing, c, x), t),
           NEW more, more = Append(stack, c), NEW g, g = Line(undoing, more, x)
    PROVE  IsPushed(undoing, s, stack, f, more, g)
<1>0. /\ IsList(more) /\ Len(more) = Len(stack) + 1 /\ Len(stack) \in Nat
      /\ more[Len(stack) + 1] = c /\ \A i \in 1 .. Len(stack) : more[i] = stack[i]
  <2>1. IsAppended(more, stack, c)
    BY AppendParts
  <2>. QED BY <2>1, ListParts DEF IsAppended
<1>. DEFINE n == Len(stack)
<1>1. /\ IsList(more) /\ Len(more) = n + 1 /\ n \in Nat
      /\ more[n + 1] = c /\ \A i \in 1 .. n : more[i] = stack[i]
  BY <1>0
<1>2. IsLine(g, undoing, more, x) /\ IsLine(f, undoing, stack, t)
  BY <1>1, LineExists
<1>3. g[n + 1] = Turn(undoing, c, x) /\ g[(n + 1) + 1] = x
  <2>1. n + 1 \in 1 .. Len(more)
    BY <1>1
  <2>. QED BY <1>1, <1>2, <2>1 DEF IsLine
<1>4. IsLine(g, undoing, stack, g[n + 1])
  BY <1>1, <1>2 DEF IsLine
<1>5. Same(g[n + 1], t) /\ Same(t, g[n + 1])
  BY <1>3, SameIsEquivalence
<1>. DEFINE b == g[n + 1]
<1>6. SameLine(f, g, n + 1) /\ OnLine(g, undoing, stack, s)
  <2>1. IsLine(g, undoing, stack, b) /\ Same(t, b)
    BY <1>4, <1>5
  <2>. HIDE DEF b
  <2>. QED BY <1>2, <2>1, LineSame
<1>. HIDE DEF b
<1>7. Leads(undoing, c, x, g[n + 1], s)
  <2>1. Same(x, x)
    <3>1. IsTree(x)
      BY DEF Leads, Goes, Sound
    <3>. QED BY <3>1, SameIsEquivalence
  <2>. QED BY <1>5, <2>1, LeadsSame
<1>8. ASSUME NEW i \in 1 .. Len(more) PROVE Leads(undoing, more[i], g[i + 1], g[i], s)
  <2>1. CASE i = n + 1
    BY <1>1, <1>3, <1>7, <2>1
  <2>2. CASE i # n + 1
    <3>1. i \in 1 .. n
      BY <1>1, <2>2
    <3>. QED BY <1>1, <1>6, <3>1 DEF OnLine
  <2>. QED BY <2>1, <2>2
<1>. QED BY <1>6, <1>8, SameIsEquivalence DEF OnLine, SameLine, IsPushed

\* The last command gone: the line ends a state earlier.
LEMMA LinePopped ==
    ASSUME NEW undoing \in BOOLEAN, NEW s, NEW stack, IsList(stack), stack # <<>>, NEW t,
           NEW f, f = Line(undoing, stack, t), OnLine(f, undoing, stack, s),
           NEW x, x = Turn(undoing, Last(stack), t),
           NEW less, less = Front(stack), NEW g, g = Line(undoing, less, x)
    PROVE  /\ f[Len(stack)] = x /\ f[Len(stack) + 1] = t
           /\ Leads(undoing, Last(stack), t, x, s)
           /\ OnLine(g, undoing, less, s)
           /\ SameLine(g, f, Len(stack))
<1>. DEFINE n == Len(stack)
<1>1. /\ IsList(less) /\ n \in Nat /\ n >= 1 /\ Len(less) = n - 1
      /\ \A i \in 1 .. n - 1 : less[i] = stack[i]
      /\ Last(stack) = stack[n]
  BY FrontParts
<1>2. IsLine(g, undoing, less, x) /\ IsLine(f, undoing, stack, t)
  BY <1>1, LineExists
<1>3. f[n] = x /\ f[n + 1] = t /\ Leads(undoing, Last(stack), t, x, s)
  <2>1. n \in 1 .. n
    BY <1>1
  <2>. QED BY <1>1, <1>2, <2>1 DEF IsLine, OnLine
<1>4. IsLine(f, undoing, less, x) /\ OnLine(f, undoing, less, s)
  <2>1. Len(less) + 1 = n /\ \A i \in 1 .. Len(less) : i \in 1 .. n /\ less[i] = stack[i]
    BY <1>1
  <2>. QED BY <1>2, <1>3, <2>1 DEF IsLine, OnLine
<1>5. Same(x, x)
  <2>1. IsTree(x)
    BY <1>3 DEF Leads, Goes, Sound
  <2>. QED BY <2>1, SameIsEquivalence
<1>6. SameLine(f, g, Len(less) + 1) /\ OnLine(g, undoing, less, s)
  BY <1>1, <1>2, <1>4, <1>5, LineSame
<1>7. Len(less) + 1 = n
  BY <1>1
<1>. QED BY <1>3, <1>6, <1>7, SameIsEquivalence DEF SameLine

\* The first command gone: the line begins a state later.
LEMMA LineDropped ==
    ASSUME NEW undoing \in BOOLEAN, NEW s, NEW stack, IsList(stack), Len(stack) >= 1, NEW t, IsTree(t),
           NEW f, f = Line(undoing, stack, t), OnLine(f, undoing, stack, s),
           NEW less, less = Tail(stack), NEW g, g = Line(undoing, less, t)
    PROVE  /\ OnLine(g, undoing, less, s)
           /\ SameLater(g, f, Len(stack))
<1>. DEFINE n == Len(stack)
            h == [i \in 1 .. n |-> f[i + 1]]
<1>1. /\ IsList(less) /\ n \in Nat /\ n >= 1 /\ Len(less) = n - 1
      /\ \A i \in 1 .. n - 1 : less[i] = stack[i + 1]
  BY TailParts
<1>2. IsLine(g, undoing, less, t) /\ IsLine(f, undoing, stack, t)
  BY <1>1, LineExists
<1>3. \A i \in 1 .. n : h[i] = f[i + 1]
  OBVIOUS
<1>. HIDE DEF h
<1>4. h[Len(less) + 1] = t
  <2>1. Len(less) + 1 = n /\ n \in 1 .. n
    BY <1>1
  <2>. QED BY <1>2, <1>3, <2>1 DEF IsLine
<1>5. ASSUME NEW i \in 1 .. Len(less)
      PROVE  h[i] = Turn(undoing, less[i], h[i + 1]) /\ Leads(undoing, less[i], h[i + 1], h[i], s)
  <2>1. i \in 1 .. n /\ i + 1 \in 1 .. n /\ less[i] = stack[i + 1]
    BY <1>1
  <2>2. h[i] = f[i + 1] /\ h[i + 1] = f[(i + 1) + 1]
    BY <1>3, <2>1
  <2>3. f[i + 1] = Turn(undoing, stack[i + 1], f[(i + 1) + 1])
        /\ Leads(undoing, stack[i + 1], f[(i + 1) + 1], f[i + 1], s)
    BY <1>2, <2>1 DEF IsLine, OnLine
  <2>. QED BY <2>1, <2>2, <2>3
<1>6. IsLine(h, undoing, less, t) /\ OnLine(h, undoing, less, s)
  BY <1>4, <1>5 DEF IsLine, OnLine
<1>7. SameLine(h, g, Len(less) + 1) /\ OnLine(g, undoing, less, s)
  BY <1>1, <1>2, <1>6, LineSame, SameIsEquivalence
<1>8. \A i \in 1 .. n : i \in 1 .. Len(less) + 1 /\ h[i] = f[i + 1]
  BY <1>1, <1>3
<1>. QED BY <1>7, <1>8, SameIsEquivalence DEF SameLine, SameLater

-----------------------------------------------------------------------------
(* What is behind and ahead                                                *)

\* What undo keeps of the first n states of f.
KeptLine(f, n) == [i \in 1 .. n |-> Kept(f[i])]

\* Length and members of the states behind or ahead.
LEMMA KeptLineParts ==
    ASSUME NEW f, NEW n \in Nat, NEW K, K = KeptLine(f, n)
    PROVE  IsList(K) /\ Len(K) = n /\ \A i \in 1 .. n : K[i] = Kept(f[i])
<1>. DEFINE X == {K[i] : i \in 1 .. n}
<1>1. DOMAIN K = 1 .. n /\ K = [i \in 1 .. n |-> K[i]] /\ \A i \in 1 .. n : K[i] = Kept(f[i])
  BY DEF KeptLine
<1>2. \A i \in 1 .. n : K[i] \in X
  OBVIOUS
<1>. HIDE DEF X
<1>3. K \in Seq(X)
  BY <1>1, <1>2, SeqDef
<1>4. Len(K) = n
  BY <1>1, <1>3
<1>5. IsList(K)
  BY <1>3, OwnMembers DEF IsList
<1>. QED BY <1>1, <1>4, <1>5

\* Lists of the same length and members are the same.
LEMMA EqualLists ==
    ASSUME NEW a, IsList(a), NEW b, IsList(b), Len(a) = Len(b), \A i \in 1 .. Len(a) : a[i] = b[i]
    PROVE  a = b
<1>. DEFINE X == ToSet(a)
            Y == ToSet(b)
<1>1. a \in Seq(X) /\ b \in Seq(Y)
  BY DEF IsList
<1>. HIDE DEF X, Y
<1>2. a \in Seq(X \cup Y) /\ b \in Seq(X \cup Y)
  <2>1. X \subseteq X \cup Y /\ Y \subseteq X \cup Y
    OBVIOUS
  <2>. QED BY <1>1, <2>1, WiderList
<1>. QED BY <1>2, SameList

\* A state more on the line.
LEMMA KeptPushed ==
    ASSUME NEW f, NEW g, NEW n \in Nat, NEW t, f[n + 1] = t, SameLine(g, f, n + 1)
    PROVE  KeptLine(g, n + 1) = Append(KeptLine(f, n), Kept(t))
<1>. DEFINE K == KeptLine(f, n)
            M == KeptLine(g, n + 1)
            A == Append(K, Kept(t))
            k == Kept(t)
<1>1. IsList(K) /\ Len(K) = n /\ \A i \in 1 .. n : K[i] = Kept(f[i])
  BY KeptLineParts
<1>2. n + 1 \in Nat
  OBVIOUS
<1>3. IsList(M) /\ Len(M) = n + 1 /\ \A i \in 1 .. n + 1 : M[i] = Kept(g[i])
  BY <1>2, KeptLineParts
<1>4. A = Append(K, k)
  OBVIOUS
<1>. HIDE DEF K, M, A, k
<1>5. IsAppended(A, K, k)
  BY <1>1, <1>4, AppendParts
<1>6. IsList(A) /\ Len(A) = n + 1 /\ A[n + 1] = k /\ \A i \in 1 .. n : A[i] = Kept(f[i])
  BY <1>1, <1>5 DEF IsAppended
<1>7. ASSUME NEW i \in 1 .. n + 1 PROVE M[i] = A[i]
  <2>1. M[i] = Kept(f[i])
    BY <1>3, KeptSame DEF SameLine
  <2>2. CASE i = n + 1
    BY <1>6, <2>1, <2>2 DEF k
  <2>3. CASE i # n + 1
    <3>1. i \in 1 .. n
      BY <2>3
    <3>. QED BY <1>6, <2>1, <3>1
  <2>. QED BY <2>2, <2>3
<1>8. M = A
  BY <1>3, <1>6, <1>7, EqualLists
<1>. QED BY <1>8 DEF M, A, K

\* A state less.
LEMMA KeptPopped ==
    ASSUME NEW f, NEW g, NEW n \in Nat, n >= 1, SameLine(g, f, n)
    PROVE  KeptLine(g, n - 1) = SubSeq(KeptLine(f, n), 1, n - 1)
<1>. DEFINE K == KeptLine(f, n)
            m == n - 1
            M == KeptLine(g, m)
            A == SubSeq(K, 1, m)
            X == ToSet(K)
<1>1. IsList(K) /\ Len(K) = n /\ \A i \in 1 .. n : K[i] = Kept(f[i])
  BY KeptLineParts
<1>2. m \in Nat /\ m <= n /\ \A i \in 1 .. m : i \in 1 .. n
  OBVIOUS
<1>. HIDE DEF m
<1>3. IsList(M) /\ Len(M) = m /\ \A i \in 1 .. m : M[i] = Kept(g[i])
  BY <1>2, KeptLineParts
<1>4. K \in Seq(X)
  BY <1>1 DEF IsList
<1>. HIDE DEF K, M, X
<1>5. A \in Seq(X) /\ Len(A) = m /\ \A i \in 1 .. m : A[i] = K[i]
  <2>1. \A i \in 1 .. m : K[i] \in X
    BY <1>1, <1>2, <1>4
  <2>. HIDE DEF A
  <2>2. /\ A \in Seq(X) /\ Len(A) = IF 1 <= m THEN m - 1 + 1 ELSE 0
        /\ \A i \in 1 .. m - 1 + 1 : A[i] = K[1 + i - 1]
    BY <1>2, <2>1, SubSeqProperties DEF A
  <2>3. ASSUME NEW i \in 1 .. m PROVE A[i] = K[i]
    <3>1. i \in 1 .. m - 1 + 1 /\ 1 + i - 1 = i
      BY <1>2
    <3>. QED BY <2>2, <3>1
  <2>. QED BY <1>2, <2>2, <2>3
<1>. HIDE DEF A
<1>6. IsList(A)
  BY <1>5, OwnMembers DEF IsList
<1>7. \A i \in 1 .. m : M[i] = A[i]
  BY <1>1, <1>2, <1>3, <1>5, KeptSame DEF SameLine
<1>8. M = A
  BY <1>3, <1>5, <1>6, <1>7, EqualLists
<1>. QED BY <1>8 DEF M, A, K, m

\* The first state forgotten.
LEMMA KeptDropped ==
    ASSUME NEW g, NEW h, NEW n \in Nat, SameLater(h, g, n + 1),
           NEW more, more = KeptLine(g, n + 1)
    PROVE  KeptLine(h, n) = SubSeq(more, 2, n + 1)
<1>. DEFINE M == KeptLine(h, n)
            A == SubSeq(more, 2, n + 1)
            X == ToSet(more)
<1>1. IsList(more) /\ Len(more) = n + 1 /\ \A i \in 1 .. n + 1 : more[i] = Kept(g[i])
  <2>1. n + 1 \in Nat
    OBVIOUS
  <2>. QED BY <2>1, KeptLineParts
<1>2. IsList(M) /\ Len(M) = n /\ \A i \in 1 .. n : M[i] = Kept(h[i])
  BY KeptLineParts
<1>3. more \in Seq(X)
  BY <1>1 DEF IsList
<1>. HIDE DEF M, X
<1>4. A \in Seq(X) /\ Len(A) = n /\ \A i \in 1 .. n : A[i] = more[i + 1]
  <2>1. 1 \in 0 .. Len(more) /\ Len(more) - 1 = n /\ 1 + 1 = 2
    BY <1>1
  <2>2. A = SubSeq(more, 1 + 1, Len(more))
    BY <1>1
  <2>. HIDE DEF A
  <2>3. A \in Seq(X) /\ Len(A) = Len(more) - 1 /\ \A i \in 1 .. Len(more) - 1 : A[i] = more[1 + i]
    BY <1>3, <2>1, <2>2, RestOfList
  <2>4. \A i \in 1 .. n : 1 + i = i + 1
    OBVIOUS
  <2>. QED BY <2>1, <2>3, <2>4
<1>. HIDE DEF A
<1>5. IsList(A)
  BY <1>4, OwnMembers DEF IsList
<1>6. ASSUME NEW i \in 1 .. n PROVE M[i] = A[i]
  <2>1. i \in 1 .. n + 1 /\ i + 1 \in 1 .. n + 1
    OBVIOUS
  <2>. QED BY <1>1, <1>2, <1>4, <2>1, KeptSame DEF SameLater
<1>7. M = A
  BY <1>2, <1>4, <1>5, <1>6, EqualLists
<1>. QED BY <1>7 DEF M, A

-----------------------------------------------------------------------------
(* The history                                                             *)

\* The last MaxHistory members of a list (Recent of UndoTimeline).
Latest(list) ==
    IF Len(list) > MaxHistory THEN SubSeq(list, Len(list) - MaxHistory + 1, Len(list)) ELSE list

\* The inductive invariant: from the tree t, undoing the commands of u one
\* after the other and running those of r leads along a line of sound trees, on
\* which every command leads forth and back.
History(t, s, u, r) ==
    /\ IsTree(s) /\ Sound(t, s)
    /\ IsList(u) /\ IsList(r)
    /\ OnLine(Line(TRUE, u, t), TRUE, u, s)
    /\ OnLine(Line(FALSE, r, t), FALSE, r, s)
    /\ Len(u) + Len(r) <= MaxHistory

\* What the invariant says of the tree and of the commands.
LEMMA HistoryParts ==
    ASSUME NEW t, NEW s, NEW u, NEW r, History(t, s, u, r)
    PROVE  /\ IsTree(t) /\ IsTree(s) /\ IsForest(t) /\ Sound(t, s)
           /\ Len(u) \in Nat /\ Len(r) \in Nat
           /\ \A c \in ToSet(u) \cup ToSet(r) : c.task \in Ids
<1>1. IsTree(t) /\ IsTree(s) /\ IsForest(t) /\ Sound(t, s) /\ Len(u) \in Nat /\ Len(r) \in Nat
  BY ListParts DEF History, Sound
<1>2. ASSUME NEW c \in ToSet(u) PROVE c.task \in Ids
  <2>1. PICK i \in 1 .. Len(u) : c = u[i]
    BY ListParts DEF History
  <2>2. Leads(TRUE, c, Line(TRUE, u, t)[i + 1], Line(TRUE, u, t)[i], s)
    BY <2>1 DEF History, OnLine
  <2>. QED BY <2>2 DEF Leads, Goes, IsCommand
<1>3. ASSUME NEW c \in ToSet(r) PROVE c.task \in Ids
  <2>1. PICK i \in 1 .. Len(r) : c = r[i]
    BY ListParts DEF History
  <2>2. Leads(FALSE, c, Line(FALSE, r, t)[i + 1], Line(FALSE, r, t)[i], s)
    BY <2>1 DEF History, OnLine
  <2>. QED BY <2>2 DEF Leads, Goes, IsCommand
<1>. QED BY <1>1, <1>2, <1>3

\* A new history is one.
LEMMA HistoryBegins ==
    ASSUME NEW t, IsTree(t), IsForest(t)
    PROVE  History(t, t, <<>>, <<>>)
<1>1. IsList(<<>>)
  BY DEF IsList
<1>2. Len(<<>>) = 0 /\ MaxHistory \in Nat
  BY EditingConstants
<1>3. Sound(t, t)
  BY DEF Sound, KnownExtra
<1>. QED BY <1>1, <1>2, <1>3 DEF History, OnLine

\* A step on the line from t to x, which takes a command from stack a and gives
\* one to stack b: f and h are the lines of the stacks before it, f2 and h2
\* those of the stacks less and more after it.
IsStep(undoing, back, s, t, x, a, b, f, h, less, more, f2, h2) ==
    /\ Sound(x, s)
    /\ IsList(less) /\ IsList(more)
    /\ Len(a) \in Nat /\ Len(b) \in Nat /\ Len(a) >= 1
    /\ Len(less) = Len(a) - 1 /\ Len(more) = Len(b) + 1
    /\ OnLine(f2, undoing, less, s) /\ OnLine(h2, back, more, s)
    /\ Kept(x) = KeptLine(f, Len(a))[Len(a)]
    /\ KeptLine(f2, Len(less)) = SubSeq(KeptLine(f, Len(a)), 1, Len(a) - 1)
    /\ KeptLine(h2, Len(more)) = Append(KeptLine(h, Len(b)), Kept(t))

\* The state that the last command of a stack leads to becomes the present one,
\* and the command goes to the other stack.
LEMMA Stepped ==
    ASSUME NEW undoing \in BOOLEAN, NEW back \in BOOLEAN, NEW s, NEW t, IsTree(t),
           NEW a, IsList(a), a # <<>>, NEW b, IsList(b),
           NEW f, f = Line(undoing, a, t), OnLine(f, undoing, a, s),
           NEW h, h = Line(back, b, t), OnLine(h, back, b, s),
           NEW c, c = Last(a), NEW x, x = Turn(undoing, c, t),
           NEW d, Leads(undoing, c, t, x, s) => Leads(back, d, x, t, s) /\ Same(Turn(back, d, x), t),
           NEW less, less = Front(a), NEW more, more = Append(b, d),
           NEW f2, f2 = Line(undoing, less, x), NEW h2, h2 = Line(back, more, x)
    PROVE  IsStep(undoing, back, s, t, x, a, b, f, h, less, more, f2, h2)
<1>1. /\ IsList(less) /\ Len(a) \in Nat /\ Len(a) >= 1 /\ Len(less) = Len(a) - 1
  BY FrontParts
<1>2. IsList(more) /\ Len(more) = Len(b) + 1 /\ Len(b) \in Nat
  <2>1. IsAppended(more, b, d)
    BY AppendParts
  <2>. QED BY <2>1, ListParts DEF IsAppended
<1>3. /\ f[Len(a)] = x
      /\ Leads(undoing, Last(a), t, x, s)
      /\ OnLine(f2, undoing, less, s)
      /\ SameLine(f2, f, Len(a))
  BY LinePopped
<1>4. Leads(back, d, x, t, s) /\ Same(Turn(back, d, x), t)
  BY <1>3
<1>5. /\ OnLine(h2, back, more, s)
      /\ SameLine(h2, h, Len(b) + 1)
  <2>1. IsPushed(back, s, b, h, more, h2)
    BY <1>4, LinePushed
  <2>. QED BY <2>1 DEF IsPushed
<1>6. Sound(x, s)
  BY <1>4 DEF Leads, Goes
<1>7. h[Len(b) + 1] = t
  <2>1. IsLine(h, back, b, t)
    BY LineExists
  <2>. QED BY <2>1 DEF IsLine
<1>. DEFINE n == Len(a)
            m == Len(b)
<1>8. KeptLine(h2, m + 1) = Append(KeptLine(h, m), Kept(t))
  <2>1. m \in Nat /\ h[m + 1] = t /\ SameLine(h2, h, m + 1)
    BY <1>2, <1>5, <1>7
  <2>. HIDE DEF m
  <2>. QED BY <2>1, KeptPushed
<1>9. KeptLine(f2, n - 1) = SubSeq(KeptLine(f, n), 1, n - 1)
  <2>1. n \in Nat /\ n >= 1 /\ SameLine(f2, f, n)
    BY <1>1, <1>3
  <2>. HIDE DEF n
  <2>. QED BY <2>1, KeptPopped
<1>10. Kept(x) = KeptLine(f, n)[n]
  <2>. DEFINE K == KeptLine(f, n)
  <2>1. n \in Nat /\ n \in 1 .. n /\ f[n] = x
    BY <1>1, <1>3
  <2>. HIDE DEF n, K
  <2>2. \A i \in 1 .. n : K[i] = Kept(f[i])
    BY <2>1, KeptLineParts DEF K
  <2>. QED BY <2>1, <2>2 DEF K
<1>. QED BY <1>1, <1>2, <1>3, <1>5, <1>6, <1>8, <1>9, <1>10 DEF IsStep

\* What one step makes of the line: the parts of the abstract timeline.
Moves(t, x, a, b, f, h, a2, b2, f2, h2) ==
    /\ a # <<>>
    /\ Kept(x) = KeptLine(f, Len(a))[Len(a)]
    /\ KeptLine(f2, Len(a2)) = SubSeq(KeptLine(f, Len(a)), 1, Len(a) - 1)
    /\ KeptLine(h2, Len(b2)) = Append(KeptLine(h, Len(b)), Kept(t))

\* Undo.
LEMMA UndoHistory ==
    ASSUME NEW t, NEW s, NEW u, NEW r, History(t, s, u, r), u # <<>>,
           NEW c, c = Last(u), NEW x, x = Undo(c, t),
           NEW u2, u2 = Front(u), NEW r2, r2 = Append(r, c)
    PROVE  /\ History(x, s, u2, r2)
           /\ Moves(t, x, u, r, Line(TRUE, u, t), Line(FALSE, r, t),
                    u2, r2, Line(TRUE, u2, x), Line(FALSE, r2, x))
<1>1. /\ IsTree(t) /\ IsTree(s) /\ IsList(u) /\ IsList(r) /\ TRUE \in BOOLEAN /\ FALSE \in BOOLEAN
      /\ OnLine(Line(TRUE, u, t), TRUE, u, s) /\ OnLine(Line(FALSE, r, t), FALSE, r, s)
      /\ Len(u) + Len(r) <= MaxHistory
  BY DEF History, Sound
<1>2. x = Turn(TRUE, c, t)
  BY DEF Turn
<1>3. ASSUME Leads(TRUE, c, t, x, s) PROVE Leads(FALSE, c, x, t, s) /\ Same(Turn(FALSE, c, x), t)
  BY <1>3 DEF Leads, Goes, Turn
<1>4. /\ Sound(x, s)
      /\ IsList(u2) /\ IsList(r2)
      /\ Len(u) \in Nat /\ Len(r) \in Nat /\ Len(u) >= 1
      /\ Len(u2) = Len(u) - 1 /\ Len(r2) = Len(r) + 1
      /\ OnLine(Line(TRUE, u2, x), TRUE, u2, s) /\ OnLine(Line(FALSE, r2, x), FALSE, r2, s)
      /\ Kept(x) = KeptLine(Line(TRUE, u, t), Len(u))[Len(u)]
      /\ KeptLine(Line(TRUE, u2, x), Len(u2)) = SubSeq(KeptLine(Line(TRUE, u, t), Len(u)), 1, Len(u) - 1)
      /\ KeptLine(Line(FALSE, r2, x), Len(r2)) = Append(KeptLine(Line(FALSE, r, t), Len(r)), Kept(t))
  <2>1. IsStep(TRUE, FALSE, s, t, x, u, r, Line(TRUE, u, t), Line(FALSE, r, t),
               u2, r2, Line(TRUE, u2, x), Line(FALSE, r2, x))
    BY <1>1, <1>2, <1>3, Stepped
  <2>. QED BY <2>1 DEF IsStep
<1>5. Len(u2) + Len(r2) <= MaxHistory
  <2>1. Len(u2) + Len(r2) = Len(u) + Len(r)
    BY <1>4
  <2>. QED BY <1>1, <2>1
<1>. QED BY <1>1, <1>4, <1>5 DEF History, Moves

\* Redo: what is captured anew is what the command had captured, or better.
LEMMA RedoLeads ==
    ASSUME NEW s, NEW c, NEW t, NEW x, x = Execute(c, t), Leads(FALSE, c, t, x, s),
           NEW d, d = Redone(c, t)
    PROVE  Leads(TRUE, d, x, t, s) /\ Same(Turn(TRUE, d, x), t)
<1>1. /\ IsCommand(c) /\ WasOK(c) /\ Sound(t, s) /\ Sound(x, s) /\ Fits(c, t)
      /\ Same(x, x) /\ Same(Undo(c, x), t) /\ IsTree(t) /\ IsForest(t)
  BY DEF Leads, Goes, Sound
<1>2. CASE c.kind \in {"field", "delete"}
  BY <1>1, <1>2 DEF Redone, Leads, Goes, Turn
<1>3. CASE c.kind \notin {"field", "delete"}
  <2>1. d = Executed(c, t)
    BY <1>3 DEF Redone
  <2>2. IsRun(d, c, Capture(c, t)) /\ IsCommand(d)
    BY <2>1, ExecutedParts, <1>1
  <2>3. Execute(d, t) = x /\ Fits(d, t)
    BY <1>1, <2>2, SameCommand DEF IsCommand
  <2>4. WasOK(d) /\ Same(Undo(d, x), t)
    <3>1. HasCapture(c, t)
      BY <1>1 DEF HasCapture
    <3>. QED BY <1>1, <2>1, <3>1, Undone
  <2>. QED BY <1>1, <2>2, <2>3, <2>4 DEF Leads, Goes, Turn
<1>. QED BY <1>2, <1>3

\* Redo.
LEMMA RedoHistory ==
    ASSUME NEW t, NEW s, NEW u, NEW r, History(t, s, u, r), r # <<>>,
           NEW c, c = Last(r), NEW x, x = Execute(c, t), NEW d, d = Redone(c, t),
           NEW r2, r2 = Front(r), NEW u2, u2 = Append(u, d)
    PROVE  /\ History(x, s, u2, r2)
           /\ Moves(t, x, r, u, Line(FALSE, r, t), Line(TRUE, u, t),
                    r2, u2, Line(FALSE, r2, x), Line(TRUE, u2, x))
<1>1. /\ IsTree(t) /\ IsTree(s) /\ IsList(u) /\ IsList(r) /\ TRUE \in BOOLEAN /\ FALSE \in BOOLEAN
      /\ OnLine(Line(TRUE, u, t), TRUE, u, s) /\ OnLine(Line(FALSE, r, t), FALSE, r, s)
      /\ Len(u) + Len(r) <= MaxHistory
  BY DEF History, Sound
<1>2. x = Turn(FALSE, c, t)
  BY DEF Turn
<1>3. ASSUME Leads(FALSE, c, t, x, s) PROVE Leads(TRUE, d, x, t, s) /\ Same(Turn(TRUE, d, x), t)
  BY <1>3, RedoLeads
<1>4. /\ Sound(x, s)
      /\ IsList(r2) /\ IsList(u2)
      /\ Len(r) \in Nat /\ Len(u) \in Nat /\ Len(r) >= 1
      /\ Len(r2) = Len(r) - 1 /\ Len(u2) = Len(u) + 1
      /\ OnLine(Line(FALSE, r2, x), FALSE, r2, s) /\ OnLine(Line(TRUE, u2, x), TRUE, u2, s)
      /\ Kept(x) = KeptLine(Line(FALSE, r, t), Len(r))[Len(r)]
      /\ KeptLine(Line(FALSE, r2, x), Len(r2)) = SubSeq(KeptLine(Line(FALSE, r, t), Len(r)), 1, Len(r) - 1)
      /\ KeptLine(Line(TRUE, u2, x), Len(u2)) = Append(KeptLine(Line(TRUE, u, t), Len(u)), Kept(t))
  <2>1. IsStep(FALSE, TRUE, s, t, x, r, u, Line(FALSE, r, t), Line(TRUE, u, t),
               r2, u2, Line(FALSE, r2, x), Line(TRUE, u2, x))
    BY <1>1, <1>2, <1>3, Stepped
  <2>. QED BY <2>1 DEF IsStep
<1>5. Len(u2) + Len(r2) <= MaxHistory
  <2>1. Len(u2) + Len(r2) = Len(u) + Len(r)
    BY <1>4
  <2>. QED BY <1>1, <2>1
<1>. QED BY <1>1, <1>4, <1>5 DEF History, Moves

\* A command that led from t to x was put on stack u, which gave u2.
IsRunOn(t, s, u, x, u2) ==
    /\ History(x, s, u2, <<>>)
    /\ KeptLine(Line(TRUE, u2, x), Len(u2)) =
          Latest(Append(KeptLine(Line(TRUE, u, t), Len(u)), Kept(t)))

\* A new command.
LEMMA RunHistory ==
    ASSUME NEW t, NEW s, NEW u, NEW r, History(t, s, u, r),
           NEW c, IsCommand(c), Fits(c, t), HasCapture(c, t),
           NEW x, Same(Execute(c, t), x), NEW d, d = Executed(c, t),
           NEW u2, u2 = Remember(u, d)
    PROVE  IsRunOn(t, s, u, x, u2)
<1>0. /\ IsTree(t) /\ IsForest(t) /\ Sound(t, s) /\ IsTree(s) /\ IsList(u) /\ MaxHistory \in Nat
      /\ Len(u) \in Nat /\ Len(u) <= MaxHistory /\ OnLine(Line(TRUE, u, t), TRUE, u, s)
  <2>1. Len(u) \in Nat /\ Len(r) \in Nat /\ MaxHistory \in Nat /\ Len(u) + Len(r) <= MaxHistory
    BY HistoryParts, EditingConstants DEF History
  <2>2. Len(u) <= MaxHistory
    BY <2>1
  <2>. QED BY <2>1, <2>2 DEF History, Sound
<1>1. IsRun(d, c, Capture(c, t)) /\ IsCommand(d)
  BY ExecutedParts
<1>2. Execute(d, t) = Execute(c, t) /\ Fits(d, t)
  BY <1>1, SameCommand DEF IsCommand
<1>3. Same(x, Execute(c, t))
  BY SameIsEquivalence
<1>4. WasOK(d) /\ Same(Undo(d, x), t)
  BY <1>0, <1>3, Undone
<1>5. Sound(x, s)
  <2>1. Sound(Execute(c, t), s)
    BY <1>0, ExecuteSound
  <2>. QED BY <2>1, SoundSame
<1>6. Leads(TRUE, d, x, t, s) /\ Same(Turn(TRUE, d, x), t) /\ IsTree(x)
  BY <1>0, <1>1, <1>2, <1>4, <1>5 DEF Leads, Goes, Turn, Sound
<1>. DEFINE n == Len(u)
            v == Append(u, d)
            f == Line(TRUE, u, t)
            g == Line(TRUE, v, x)
            h == Line(TRUE, u2, x)
            K == Append(KeptLine(f, n), Kept(t))
<1>7. IsList(v) /\ Len(v) = n + 1
  <2>. HIDE DEF v
  <2>1. IsAppended(v, u, d)
    BY <1>0, AppendParts DEF v
  <2>. QED BY <2>1 DEF IsAppended
<1>8. OnLine(g, TRUE, v, s) /\ SameLine(g, f, n + 1)
  <2>. HIDE DEF g, v, f
  <2>1. TRUE \in BOOLEAN /\ v = Append(u, d) /\ f = Line(TRUE, u, t) /\ g = Line(TRUE, v, x)
        /\ OnLine(f, TRUE, u, s)
    BY <1>0 DEF g, v, f
  <2>2. IsPushed(TRUE, s, u, f, v, g)
    BY <1>0, <1>6, <2>1, LinePushed
  <2>. QED BY <2>2 DEF IsPushed, n
<1>9. f[n + 1] = t
  <2>. HIDE DEF f
  <2>1. IsLine(f, TRUE, u, t)
    BY <1>0, LineExists DEF f
  <2>. QED BY <2>1 DEF IsLine
<1>10. u2 = IF n + 1 > MaxHistory THEN Tail(v) ELSE v
  <2>1. u2 = IF Len(v) > MaxHistory THEN Tail(v) ELSE v
    BY DEF Remember
  <2>. HIDE DEF v
  <2>. QED BY <1>7, <2>1
<1>11. n \in Nat /\ n <= MaxHistory
  BY <1>0
<1>12. KeptLine(g, n + 1) = K
  <2>. HIDE DEF n, f, g
  <2>1. KeptLine(g, n + 1) = Append(KeptLine(f, n), Kept(t))
    BY <1>8, <1>9, <1>11, KeptPushed
  <2>. QED BY <2>1
<1>13. Len(K) = n + 1
  <2>. HIDE DEF g, n, K
  <2>1. n + 1 \in Nat
    BY <1>11
  <2>. QED BY <2>1, <1>12, KeptLineParts
<1>14. h = Line(TRUE, u2, x)
  OBVIOUS
<1>. HIDE DEF K, n, f, v
<1>15. /\ IsList(u2) /\ OnLine(h, TRUE, u2, s) /\ Len(u2) \in Nat /\ Len(u2) <= MaxHistory
       /\ KeptLine(h, Len(u2)) = Latest(K)
  <2>1. CASE n + 1 > MaxHistory
    <3>1. u2 = Tail(v) /\ n = MaxHistory /\ Len(v) >= 1 /\ g = Line(TRUE, v, x)
      BY <1>0, <1>7, <1>10, <1>11, <2>1
    <3>. HIDE DEF g, h
    <3>2. IsList(u2) /\ Len(u2) = Len(v) - 1
      BY <1>7, <3>1, TailParts
    <3>3. OnLine(h, TRUE, u2, s) /\ SameLater(h, g, Len(v))
      BY <1>6, <1>7, <1>8, <1>14, <3>1, LineDropped
    <3>4. Len(u2) = n
      BY <1>7, <1>11, <3>2
    <3>5. KeptLine(h, n) = SubSeq(K, 2, n + 1)
      <4>1. SameLater(h, g, n + 1)
        BY <1>7, <3>3
      <4>. QED BY <1>11, <1>12, <4>1, KeptDropped
    <3>6. Latest(K) = SubSeq(K, 2, n + 1)
      <4>1. Len(K) > MaxHistory /\ Len(K) - MaxHistory + 1 = 2
        BY <1>11, <1>13, <2>1, <3>1
      <4>. QED BY <1>13, <4>1 DEF Latest
    <3>. QED BY <1>11, <3>2, <3>3, <3>4, <3>5, <3>6
  <2>2. CASE n + 1 <= MaxHistory
    <3>1. u2 = v /\ ~(n + 1 > MaxHistory)
      BY <1>0, <1>10, <1>11, <2>2
    <3>2. h = g
      BY <3>1
    <3>. HIDE DEF g, h
    <3>3. Latest(K) = K
      BY <1>13, <3>1 DEF Latest
    <3>4. Len(u2) = n + 1 /\ Len(u2) \in Nat
      BY <1>7, <1>11, <3>1
    <3>5. KeptLine(h, Len(u2)) = Latest(K)
      BY <1>12, <3>2, <3>3, <3>4
    <3>6. IsList(u2) /\ OnLine(h, TRUE, u2, s)
      BY <1>7, <1>8, <3>1, <3>2
    <3>7. Len(u2) <= MaxHistory
      BY <2>2, <3>4
    <3>. QED BY <3>4, <3>5, <3>6, <3>7
  <2>3. n + 1 > MaxHistory \/ n + 1 <= MaxHistory
    BY <1>0, <1>11
  <2>. QED BY <2>1, <2>2, <2>3
<1>16. History(x, s, u2, <<>>)
  <2>1. IsList(<<>>) /\ Len(<<>>) = 0
    BY DEF IsList
  <2>2. OnLine(Line(FALSE, <<>>, x), FALSE, <<>>, s)
    BY <2>1 DEF OnLine
  <2>3. Len(u2) + Len(<<>>) <= MaxHistory
    BY <1>15, <2>1
  <2>. QED BY <1>0, <1>5, <1>15, <2>1, <2>2, <2>3 DEF History
<1>17. h = Line(TRUE, u2, x) /\ K = Append(KeptLine(Line(TRUE, u, t), Len(u)), Kept(t))
  BY DEF h, K, f, n
<1>. QED BY <1>15, <1>16, <1>17 DEF IsRunOn

-----------------------------------------------------------------------------
(* The commands of the session                                             *)

\* c may be run now.
CanRun(c) ==
    /\ IsCommand(c) /\ Fits(c, tree) /\ HasCapture(c, tree)
    /\ c.kind = "depend" /\ c.arg.doc = Here => EdgeAllowed(tree, c.task, c.arg.on)

\* Running c, but for the participants that the caller refreshes.
Runs(c) ==
    /\ edits < MaxEdits /\ edits' = edits + 1
    /\ Same(Execute(c, tree), tree')
    /\ \A i \in TaskIds(tree') : tree'.task[i].deps = Execute(c, tree).task[i].deps
    /\ undoStack' = Remember(undoStack, Executed(c, tree))
    /\ redoStack' = <<>>
    /\ Mutated

\* What every edit is.
RunsOne == \E c : CanRun(c) /\ Runs(c)

\* A command that can run keeps to the pattern of all edits.
LEMMA RunRuns ==
    ASSUME Sound(tree, source), NEW c, CanRun(c), Run(c)
    PROVE  RunsOne
<1>1. Sound(Execute(c, tree), source)
  BY ExecuteSound DEF CanRun
<1>2. tree' = Execute(c, tree) /\ Same(Execute(c, tree), Execute(c, tree))
  BY <1>1, SameIsEquivalence DEF Run, RunThen, Sound
<1>3. Runs(c)
  BY <1>2 DEF Run, RunThen, Runs
<1>. QED BY <1>3 DEF RunsOne

\* The fields of a new command.
LEMMA CommandParts ==
    ASSUME NEW kind, NEW id, NEW arg, NEW c, c = Command(kind, id, arg)
    PROVE  /\ c = [kind |-> c.kind, task |-> c.task, arg |-> c.arg, was |-> c.was]
           /\ c.kind = kind /\ c.task = id /\ c.arg = arg
BY DEF Command

\* A command that edits one task.
LEMMA LocalRuns ==
    ASSUME Sound(tree, source), NEW kind \in LocalKinds, NEW i \in TaskIds(tree), NEW arg,
           NEW c, c = Command(kind, i, arg), Run(c), ArgOK(c),
           kind = "undepend" => \E e \in ToSet(tree.task[i].deps) : e.on = arg,
           kind = "depend" /\ arg.doc = Here => EdgeAllowed(tree, i, arg.on)
    PROVE  RunsOne
<1>1. /\ c = [kind |-> c.kind, task |-> c.task, arg |-> c.arg, was |-> c.was]
      /\ c.kind = kind /\ c.task = i /\ c.arg = arg
  BY CommandParts
<1>2. i \in Ids
  BY TreeParts DEF Sound
<1>3. IsCommand(c)
  BY <1>1, <1>2 DEF IsCommand
<1>4. Fits(c, tree)
  BY <1>1 DEF Fits, LocalKinds
<1>5. HasCapture(c, tree)
  BY <1>1 DEF HasCapture
<1>6. CanRun(c)
  BY <1>1, <1>3, <1>4, <1>5 DEF CanRun
<1>. QED BY <1>6, RunRuns

\* add_task runs a command that fits.
LEMMA AddsTaskRuns ==
    ASSUME Sound(tree, source), NEW id, NEW parent, AddsTask(id, parent)
    PROVE  RunsOne
<1>. DEFINE arg == [new |-> BlankTask, parent |-> parent, pos |-> Len(Siblings(tree, parent))]
            c == Command("add", id, arg)
<1>1. id \in Ids \ TaskIds(tree) /\ parent \in Parents(tree) /\ Run(c)
  BY DEF AddsTask, Parents
<1>2. /\ c = [kind |-> c.kind, task |-> c.task, arg |-> c.arg, was |-> c.was]
      /\ c.kind = "add" /\ c.task = id /\ c.arg = arg
  <2>. HIDE DEF arg
  <2>. QED BY CommandParts
<1>3. arg.new = BlankTask /\ arg.parent = parent /\ arg.pos = Len(Siblings(tree, parent))
  OBVIOUS
<1>4. Siblings(tree, parent) \in Seq(Ids) /\ TaskIds(tree) \in SUBSET Ids
  BY <1>1, ListType, TreeParts DEF Sound
<1>. HIDE DEF arg, c
<1>5. arg.pos \in Nat
  BY <1>3, <1>4
<1>6. ArgOK(c)
  BY <1>1, <1>2, <1>3, <1>4, <1>5 DEF ArgOK, Parents
<1>7. IsCommand(c) /\ Fits(c, tree) /\ HasCapture(c, tree)
  BY <1>1, <1>2, <1>3, <1>6 DEF IsCommand, Fits, HasCapture
<1>8. CanRun(c)
  BY <1>2, <1>7 DEF CanRun
<1>. QED BY <1>1, <1>8, RunRuns

\* delete_task runs a command that fits.
LEMMA DeleteTaskRuns ==
    ASSUME Sound(tree, source), DeleteTask
    PROVE  RunsOne
<1>1. PICK i \in TaskIds(tree) : Run(Command("delete", i, None))
  BY DEF DeleteTask
<1>. DEFINE c == Command("delete", i, None)
<1>2. /\ c = [kind |-> c.kind, task |-> c.task, arg |-> c.arg, was |-> c.was]
      /\ c.kind = "delete" /\ c.task = i
  BY CommandParts
<1>3. i \in Ids
  BY TreeParts DEF Sound
<1>. HIDE DEF c
<1>4. CanRun(c)
  BY <1>2, <1>3 DEF CanRun, IsCommand, ArgOK, Fits, HasCapture
<1>. QED BY <1>1, <1>4, RunRuns DEF c

\* update_task_field runs a command that fits.
LEMMA UpdateFieldRuns ==
    ASSUME Sound(tree, source), UpdateField
    PROVE  RunsOne
<1>1. PICK i \in TaskIds(tree),
           fv \in {<<"title", "new">>, <<"note", "empty">>, <<"note", "text">>, <<"due", None>>} :
             Run(Command("field", i, [field |-> fv[1], value |-> fv[2]]))
  BY DEF UpdateField
<1>. DEFINE arg == [field |-> fv[1], value |-> fv[2]]
            c == Command("field", i, arg)
<1>2. c.kind = "field" /\ c.arg = arg
  <2>. HIDE DEF arg
  <2>. QED BY CommandParts
<1>3. arg.field = fv[1] /\ arg.value = fv[2]
  OBVIOUS
<1>4. fv[1] \in {"title", "note", "due", "owners"} /\ fv[2] \in GivenValues(fv[1])
  BY DEF GivenValues, FieldValues
<1>. HIDE DEF arg, c
<1>5. ArgOK(c)
  BY <1>2, <1>3, <1>4 DEF ArgOK
<1>. QED BY <1>1, <1>5, LocalRuns DEF LocalKinds, c, arg

\* update_task_field of the completion date runs a command that fits.
LEMMA CompleteTaskRuns ==
    ASSUME Sound(tree, source), CompleteTask
    PROVE  RunsOne
<1>1. PICK i \in TaskIds(tree) : Run(Command("complete", i, "monday"))
  BY DEF CompleteTask
<1>. DEFINE c == Command("complete", i, "monday")
<1>2. c.kind = "complete" /\ c.arg = "monday"
  BY CommandParts
<1>3. ArgOK(c)
  BY <1>2 DEF ArgOK
<1>. HIDE DEF c
<1>. QED BY <1>1, <1>3, LocalRuns DEF LocalKinds, c

\* add_participant and remove_participant run commands that fit.
LEMMA RolesRun ==
    ASSUME Sound(tree, source), AddParticipant \/ RemoveParticipant
    PROVE  RunsOne
<1>1. PICK i \in TaskIds(tree), n \in Names, role \in {"to", "by"}, add \in BOOLEAN :
             Run(Command("role", i, [role |-> role, name |-> n, add |-> add]))
  BY DEF AddParticipant, RemoveParticipant
<1>. DEFINE arg == [role |-> role, name |-> n, add |-> add]
            c == Command("role", i, arg)
<1>2. c.kind = "role" /\ c.arg = arg
  <2>. HIDE DEF arg
  <2>. QED BY CommandParts
<1>3. arg.role = role /\ arg.name = n /\ arg.add = add
  OBVIOUS
<1>. HIDE DEF arg, c
<1>4. ArgOK(c)
  BY <1>2, <1>3 DEF ArgOK
<1>. QED BY <1>1, <1>4, LocalRuns DEF LocalKinds, c, arg

\* The mirror of the participants is refreshed after the command, and not kept
\* by undo.
LEMMA UpdateOwnersRuns ==
    ASSUME Sound(tree, source), UpdateOwners
    PROVE  RunsOne
<1>1. PICK i \in TaskIds(tree), n \in SUBSET Names :
             RunThen(Command("field", i, [field |-> "owners", value |-> n]),
                     LAMBDA t : Edited(t, i, LAMBDA k : [k EXCEPT !.people = k.owners]))
  BY DEF UpdateOwners
<1>. DEFINE arg == [field |-> "owners", value |-> n]
            c == Command("field", i, arg)
            t == Execute(c, tree)
            k == t.task[i]
            m == [k EXCEPT !.people = k.owners]
<1>2. /\ c = [kind |-> c.kind, task |-> c.task, arg |-> c.arg, was |-> c.was]
      /\ c.kind = "field" /\ c.task = i /\ c.arg = arg
  <2>. HIDE DEF arg
  <2>. QED BY CommandParts
<1>3. arg.field = "owners" /\ arg.value = n
  OBVIOUS
<1>4. i \in Ids /\ IsTree(tree)
  BY TreeParts DEF Sound
<1>5. /\ tree' = Replaced(t, i, m)
      /\ undoStack' = Remember(undoStack, Executed(c, tree))
      /\ redoStack' = <<>> /\ Mutated /\ edits < MaxEdits /\ edits' = edits + 1
  BY <1>1 DEF RunThen, Edited, Replaced
<1>. HIDE DEF arg, c, t
<1>7. ArgOK(c)
  BY <1>2, <1>3 DEF ArgOK, GivenValues, FieldValues
<1>8. CanRun(c)
  BY <1>2, <1>4, <1>7 DEF CanRun, IsCommand, Fits, HasCapture, LocalKinds
<1>9. Sound(t, source) /\ IsTree(t) /\ i \in TaskIds(t) /\ k \in Task
  <2>1. Sound(t, source)
    BY <1>8, ExecuteSound DEF CanRun, t
  <2>2. t = Replaced(tree, i, After(c, tree.task[i]))
    BY <1>2, ExecuteLocal DEF LocalKinds, t
  <2>3. TaskIds(t) = TaskIds(tree)
    BY <1>4, <2>2, TreeParts DEF Replaced, TaskIds
  <2>. QED BY <2>1, <2>3, TreeParts DEF Sound
<1>10. m \in Task /\ SameTask(k, m) /\ m.deps = k.deps
  <2>. HIDE DEF k
  <2>. QED BY <1>9 DEF Task, SameTask
<1>. HIDE DEF m
<1>11. /\ IsTree(tree') /\ TaskIds(tree') = TaskIds(t) /\ tree'.roots = t.roots
       /\ \A j \in TaskIds(tree') : tree'.task[j] = IF j = i THEN m ELSE t.task[j]
  <2>. DEFINE r == tree'
  <2>1. r = Replaced(t, i, m)
    BY <1>5 DEF m
  <2>. HIDE DEF r, k
  <2>2. /\ IsTree(r) /\ TaskIds(r) = TaskIds(t) /\ r.roots = t.roots
        /\ \A j \in TaskIds(r) : r.task[j] = IF j = i THEN m ELSE t.task[j]
    <3>1. IsReplaced(r, t, i, m)
      BY <1>9, <1>10, <2>1, ReplacedTree
    <3>. QED BY <3>1 DEF IsReplaced
  <2>. QED BY <2>2 DEF r
<1>12. Same(t, tree')
  BY <1>9, <1>10, <1>11, SameTaskIsEquivalence DEF Same
<1>13. \A j \in TaskIds(tree') : tree'.task[j].deps = t.task[j].deps
  BY <1>10, <1>11
<1>14. Runs(c)
  BY <1>5, <1>12, <1>13 DEF Runs, t
<1>. QED BY <1>8, <1>14 DEF RunsOne

\* add_dependency within the document runs a command that fits.
LEMMA AddDependencyRuns ==
    ASSUME Sound(tree, source), AddDependency
    PROVE  RunsOne
<1>1. PICK i \in TaskIds(tree), j \in Ids :
             EdgeAllowed(tree, i, j) /\ Run(Command("depend", i, Dep(Here, j)))
  BY DEF AddDependency
<1>. DEFINE arg == Dep(Here, j)
            c == Command("depend", i, arg)
<1>2. c.kind = "depend" /\ c.arg = arg
  <2>. HIDE DEF arg
  <2>. QED BY CommandParts
<1>3. arg \in Edge /\ arg.doc = Here /\ arg.on = j
  BY DEF Dep, Edge
<1>. HIDE DEF arg, c
<1>4. ArgOK(c)
  BY <1>2, <1>3 DEF ArgOK
<1>. QED BY <1>1, <1>3, <1>4, LocalRuns DEF LocalKinds, c, arg

\* add_dependency on another document runs a command that fits.
LEMMA AddExternalDependencyRuns ==
    ASSUME Sound(tree, source), AddExternalDependency
    PROVE  RunsOne
<1>1. PICK i \in TaskIds(tree), j \in Ids, doc \in OtherDocs :
             Run(Command("depend", i, Dep(doc, j)))
  BY DEF AddExternalDependency
<1>. DEFINE arg == Dep(doc, j)
            c == Command("depend", i, arg)
<1>2. c.kind = "depend" /\ c.arg = arg
  <2>. HIDE DEF arg
  <2>. QED BY CommandParts
<1>3. arg \in Edge /\ arg.doc # Here
  BY EditingConstants DEF Dep, Edge
<1>. HIDE DEF arg, c
<1>4. ArgOK(c)
  BY <1>2, <1>3 DEF ArgOK
<1>. QED BY <1>1, <1>3, <1>4, LocalRuns DEF LocalKinds, c, arg

\* remove_dependency runs a command that fits: the dependency is there.
LEMMA RemoveDependencyRuns ==
    ASSUME Sound(tree, source), RemoveDependency
    PROVE  RunsOne
<1>1. PICK i \in TaskIds(tree), j \in TaskIds(tree) :
             /\ \E e \in ToSet(tree.task[i].deps) : e.on = j
             /\ Run(Command("undepend", i, j))
  BY DEF RemoveDependency
<1>. DEFINE c == Command("undepend", i, j)
<1>2. c.kind = "undepend" /\ c.arg = j
  BY CommandParts
<1>3. ArgOK(c)
  BY <1>2 DEF ArgOK
<1>. HIDE DEF c
<1>. QED BY <1>1, <1>3, LocalRuns DEF LocalKinds, c

\* The ids of the links and attachments of a task.
LEMMA RelationIds ==
    ASSUME Sound(tree, source), NEW i \in TaskIds(tree)
    PROVE  /\ \A l \in ToSet(tree.task[i].links) : l.id \in 1 .. MaxEdits
           /\ \A a \in ToSet(tree.task[i].atts) : a.id \in 1 .. MaxEdits
<1>. DEFINE k == tree.task[i]
<1>1. k \in Task
  BY TreeParts DEF Sound
<1>. HIDE DEF k
<1>2. k.links \in Seq(Link) /\ k.atts \in Seq(Attachment)
  BY <1>1, TaskParts
<1>3. ToSet(k.links) \subseteq Link /\ ToSet(k.atts) \subseteq Attachment
  BY <1>2, OwnMembers
<1>4. \A l \in ToSet(k.links) : l.id \in 1 .. MaxEdits
  BY <1>3 DEF Link
<1>5. \A a \in ToSet(k.atts) : a.id \in 1 .. MaxEdits
  BY <1>3 DEF Attachment
<1>. QED BY <1>4, <1>5 DEF k

\* The commands on progress links run commands that fit.
LEMMA LinksRun ==
    ASSUME Sound(tree, source), edits \in 0 .. MaxEdits, AddLink \/ UpdateLink \/ RemoveLink
    PROVE  RunsOne
<1>0. MaxEdits \in Nat
  BY EditingConstants
<1>1. CASE AddLink
  <2>1. PICK i \in TaskIds(tree) :
               Run(Command("link", i, [op |-> "add", link |-> [id |-> edits + 1, url |-> "site"]]))
    BY <1>1 DEF AddLink
  <2>. DEFINE link == [id |-> edits + 1, url |-> "site"]
              arg == [op |-> "add", link |-> link]
              c == Command("link", i, arg)
  <2>2. c.kind = "link" /\ c.arg = arg
    <3>. HIDE DEF arg
    <3>. QED BY CommandParts
  <2>3. edits < MaxEdits
    BY <2>1 DEF Run, RunThen
  <2>4. edits + 1 \in 1 .. MaxEdits
    BY <1>0, <2>3
  <2>5. link \in Link
    BY <2>4 DEF Link
  <2>6. arg.op = "add" /\ arg.link = link
    OBVIOUS
  <2>. HIDE DEF arg, c, link
  <2>7. ArgOK(c)
    BY <2>2, <2>5, <2>6 DEF ArgOK
  <2>. QED BY <2>1, <2>7, LocalRuns DEF LocalKinds, c, arg, link
<1>2. CASE UpdateLink
  <2>0. PICK i \in TaskIds(tree) : \E l \in ToSet(tree.task[i].links) :
               Run(Command("link", i, [op |-> "update", id |-> l.id,
                                       link |-> [id |-> l.id, url |-> "moved"]]))
    BY <1>2 DEF UpdateLink
  <2>1. PICK l \in ToSet(tree.task[i].links) :
               Run(Command("link", i, [op |-> "update", id |-> l.id,
                                       link |-> [id |-> l.id, url |-> "moved"]]))
    BY <2>0
  <2>. DEFINE link == [id |-> l.id, url |-> "moved"]
              arg == [op |-> "update", id |-> l.id, link |-> link]
              c == Command("link", i, arg)
  <2>2. c.kind = "link" /\ c.arg = arg
    <3>. HIDE DEF arg
    <3>. QED BY CommandParts
  <2>3. link \in Link
    BY <2>1, RelationIds DEF Link
  <2>4. arg.op = "update" /\ arg.link = link
    OBVIOUS
  <2>. HIDE DEF arg, c, link
  <2>5. ArgOK(c)
    BY <2>2, <2>3, <2>4 DEF ArgOK
  <2>. QED BY <2>1, <2>5, LocalRuns DEF LocalKinds, c, arg, link
<1>3. CASE RemoveLink
  <2>0. PICK i \in TaskIds(tree) : \E l \in ToSet(tree.task[i].links) :
               Run(Command("link", i, [op |-> "remove", id |-> l.id]))
    BY <1>3 DEF RemoveLink
  <2>1. PICK l \in ToSet(tree.task[i].links) :
               Run(Command("link", i, [op |-> "remove", id |-> l.id]))
    BY <2>0
  <2>. DEFINE arg == [op |-> "remove", id |-> l.id]
              c == Command("link", i, arg)
  <2>2. c.kind = "link" /\ c.arg = arg
    <3>. HIDE DEF arg
    <3>. QED BY CommandParts
  <2>3. arg.op = "remove"
    OBVIOUS
  <2>. HIDE DEF arg, c
  <2>4. ArgOK(c)
    BY <2>2, <2>3 DEF ArgOK
  <2>. QED BY <2>1, <2>4, LocalRuns DEF LocalKinds, c, arg
<1>. QED BY <1>1, <1>2, <1>3

\* The commands on attachments run commands that fit.
LEMMA AttachmentsRun ==
    ASSUME Sound(tree, source), edits \in 0 .. MaxEdits,
           AddAttachment \/ RenameAttachment \/ RemoveAttachment
    PROVE  RunsOne
<1>0. MaxEdits \in Nat
  BY EditingConstants
<1>1. CASE AddAttachment
  <2>1. PICK i \in TaskIds(tree) :
               Run(Command("attachment", i,
                   [op |-> "add", att |-> [id |-> edits + 1, path |-> "file", name |-> "file"]]))
    BY <1>1 DEF AddAttachment
  <2>. DEFINE att == [id |-> edits + 1, path |-> "file", name |-> "file"]
              arg == [op |-> "add", att |-> att]
              c == Command("attachment", i, arg)
  <2>2. c.kind = "attachment" /\ c.arg = arg
    <3>. HIDE DEF arg
    <3>. QED BY CommandParts
  <2>3. edits < MaxEdits
    BY <2>1 DEF Run, RunThen
  <2>4. edits + 1 \in 1 .. MaxEdits
    BY <1>0, <2>3
  <2>5. att \in Attachment
    BY <2>4 DEF Attachment
  <2>6. arg.op = "add" /\ arg.att = att
    OBVIOUS
  <2>. HIDE DEF arg, c, att
  <2>7. ArgOK(c)
    BY <2>2, <2>5, <2>6 DEF ArgOK
  <2>. QED BY <2>1, <2>7, LocalRuns DEF LocalKinds, c, arg, att
<1>2. CASE RenameAttachment
  <2>0. PICK i \in TaskIds(tree) : \E a \in ToSet(tree.task[i].atts) :
               Run(Command("attachment", i, [op |-> "rename", id |-> a.id, name |-> "renamed"]))
    BY <1>2 DEF RenameAttachment
  <2>1. PICK a \in ToSet(tree.task[i].atts) :
               Run(Command("attachment", i, [op |-> "rename", id |-> a.id, name |-> "renamed"]))
    BY <2>0
  <2>. DEFINE arg == [op |-> "rename", id |-> a.id, name |-> "renamed"]
              c == Command("attachment", i, arg)
  <2>2. c.kind = "attachment" /\ c.arg = arg
    <3>. HIDE DEF arg
    <3>. QED BY CommandParts
  <2>3. arg.op = "rename" /\ arg.name = "renamed"
    OBVIOUS
  <2>. HIDE DEF arg, c
  <2>4. ArgOK(c)
    BY <2>2, <2>3 DEF ArgOK
  <2>. QED BY <2>1, <2>4, LocalRuns DEF LocalKinds, c, arg
<1>3. CASE RemoveAttachment
  <2>0. PICK i \in TaskIds(tree) : \E a \in ToSet(tree.task[i].atts) :
               Run(Command("attachment", i, [op |-> "remove", id |-> a.id]))
    BY <1>3 DEF RemoveAttachment
  <2>1. PICK a \in ToSet(tree.task[i].atts) :
               Run(Command("attachment", i, [op |-> "remove", id |-> a.id]))
    BY <2>0
  <2>. DEFINE arg == [op |-> "remove", id |-> a.id]
              c == Command("attachment", i, arg)
  <2>2. c.kind = "attachment" /\ c.arg = arg
    <3>. HIDE DEF arg
    <3>. QED BY CommandParts
  <2>3. arg.op = "remove"
    OBVIOUS
  <2>. HIDE DEF arg, c
  <2>4. ArgOK(c)
    BY <2>2, <2>3 DEF ArgOK
  <2>. QED BY <2>1, <2>4, LocalRuns DEF LocalKinds, c, arg
<1>. QED BY <1>1, <1>2, <1>3

\* Every edit runs a command that fits.
LEMMA EditRuns ==
    ASSUME Sound(tree, source), edits \in 0 .. MaxEdits, Edit
    PROVE  RunsOne
<1>1. CASE CreateTask \/ CreateTaskWithKey
  BY <1>1, AddsTaskRuns DEF CreateTask, CreateTaskWithKey
<1>2. CASE DeleteTask
  BY <1>2, DeleteTaskRuns
<1>3. CASE UpdateField \/ CompleteTask
  BY <1>3, UpdateFieldRuns, CompleteTaskRuns
<1>4. CASE UpdateOwners
  BY <1>4, UpdateOwnersRuns
<1>5. CASE AddParticipant \/ RemoveParticipant
  BY <1>5, RolesRun
<1>6. CASE AddDependency \/ AddExternalDependency \/ RemoveDependency
  BY <1>6, AddDependencyRuns, AddExternalDependencyRuns, RemoveDependencyRuns
<1>7. CASE AddLink \/ UpdateLink \/ RemoveLink
  BY <1>7, LinksRun
<1>8. CASE AddAttachment \/ RenameAttachment \/ RemoveAttachment
  BY <1>8, AttachmentsRun
<1>. QED BY <1>1, <1>2, <1>3, <1>4, <1>5, <1>6, <1>7, <1>8 DEF Edit

-----------------------------------------------------------------------------
(* Theorems                                                                *)

\* The inductive invariant.
Inv ==
    /\ History(tree, source, undoStack, redoStack)
    /\ dirty \in BOOLEAN
    /\ edits \in 0 .. MaxEdits

\* An opened document has an empty history.
LEMMA InitEstablishesInv ==
    ASSUME Init
    PROVE  Inv
<1>1. IsTree(tree) /\ IsForest(tree) /\ source = tree /\ undoStack = <<>> /\ redoStack = <<>>
  BY EditingConstants DEF Init
<1>2. History(tree, source, undoStack, redoStack)
  BY <1>1, HistoryBegins
<1>3. edits \in 0 .. MaxEdits /\ dirty \in BOOLEAN
  BY EditingConstants DEF Init
<1>. QED BY <1>2, <1>3 DEF Inv

\* An edit, what it makes of the history and of the abstract timeline.
LEMMA EditStep ==
    ASSUME Inv, Edit
    PROVE  /\ Inv'
           /\ Behind' = Latest(Append(Behind, Kept(tree))) /\ Ahead' = <<>>
<1>1. History(tree, source, undoStack, redoStack) /\ Sound(tree, source) /\ edits \in 0 .. MaxEdits
      /\ MaxEdits \in Nat
  BY HistoryParts, EditingConstants DEF Inv
<1>2. PICK c : CanRun(c) /\ Runs(c)
  BY <1>1, EditRuns DEF RunsOne
<1>. DEFINE x == tree'
            d == Executed(c, tree)
            u2 == undoStack'
<1>3. IsCommand(c) /\ Fits(c, tree) /\ HasCapture(c, tree)
  BY <1>2 DEF CanRun
<1>4. /\ Same(Execute(c, tree), x) /\ u2 = Remember(undoStack, d) /\ redoStack' = <<>>
      /\ source' = source /\ dirty' = TRUE /\ edits < MaxEdits /\ edits' = edits + 1
  BY <1>2 DEF Runs, Mutated
<1>5. d = Executed(c, tree)
  OBVIOUS
<1>. HIDE DEF x, d, u2
<1>6. /\ History(x, source, u2, <<>>)
      /\ KeptLine(Line(TRUE, u2, x), Len(u2)) =
            Latest(Append(KeptLine(Line(TRUE, undoStack, tree), Len(undoStack)), Kept(tree)))
  <2>1. IsRunOn(tree, source, undoStack, x, u2)
    BY <1>1, <1>3, <1>4, <1>5, RunHistory
  <2>. QED BY <2>1 DEF IsRunOn
<1>7. Inv'
  <2>1. edits' \in 0 .. MaxEdits
    BY <1>1, <1>4
  <2>. QED BY <1>4, <1>6, <2>1 DEF Inv, x, u2
<1>8. Behind' = Latest(Append(Behind, Kept(tree)))
  <2>1. Behind = KeptLine(Line(TRUE, undoStack, tree), Len(undoStack))
    BY DEF Behind, KeptLine
  <2>2. Behind' = KeptLine(Line(TRUE, u2, x), Len(u2))
    BY DEF Behind, KeptLine, x, u2
  <2>. QED BY <1>6, <2>1, <2>2
<1>9. Ahead' = <<>>
  BY <1>4 DEF Ahead
<1>. QED BY <1>7, <1>8, <1>9

\* Undo, what it makes of the history and of the abstract timeline.
LEMMA UndoStep ==
    ASSUME Inv, UndoCommand
    PROVE  /\ Inv'
           /\ Behind # <<>> /\ Kept(tree)' = Behind[Len(Behind)]
           /\ Behind' = SubSeq(Behind, 1, Len(Behind) - 1)
           /\ Ahead' = Append(Ahead, Kept(tree))
<1>. DEFINE c == Last(undoStack)
            x == tree'
            u2 == undoStack'
            r2 == redoStack'
<1>1. History(tree, source, undoStack, redoStack) /\ undoStack # <<>>
      /\ c = Last(undoStack) /\ x = Undo(c, tree) /\ u2 = Front(undoStack) /\ r2 = Append(redoStack, c)
      /\ source' = source /\ dirty' = TRUE /\ edits' = edits /\ edits \in 0 .. MaxEdits
  BY DEF UndoCommand, Inv, Mutated
<1>. HIDE DEF c, x, u2, r2
<1>2. /\ History(x, source, u2, r2)
      /\ Moves(tree, x, undoStack, redoStack, Line(TRUE, undoStack, tree), Line(FALSE, redoStack, tree),
               u2, r2, Line(TRUE, u2, x), Line(FALSE, r2, x))
  BY <1>1, UndoHistory
<1>3. Inv'
  BY <1>1, <1>2 DEF Inv, x, u2, r2
<1>4. /\ Behind = KeptLine(Line(TRUE, undoStack, tree), Len(undoStack))
      /\ Ahead = KeptLine(Line(FALSE, redoStack, tree), Len(redoStack))
  BY DEF Behind, Ahead, KeptLine
<1>5. /\ Behind' = KeptLine(Line(TRUE, u2, x), Len(u2))
      /\ Ahead' = KeptLine(Line(FALSE, r2, x), Len(r2))
      /\ Kept(tree)' = Kept(x)
  BY DEF Behind, Ahead, KeptLine, u2, r2, x
<1>6. Len(undoStack) \in Nat /\ Len(undoStack) >= 1
  BY <1>1, FrontParts DEF History
<1>7. Len(Behind) = Len(undoStack) /\ Behind # <<>>
  <2>1. Len(Behind) = Len(undoStack)
    BY <1>4, <1>6, KeptLineParts
  <2>2. Len(<<>>) = 0
    OBVIOUS
  <2>. QED BY <1>6, <2>1, <2>2
<1>. QED BY <1>2, <1>3, <1>4, <1>5, <1>7 DEF Moves

\* Redo, what it makes of the history and of the abstract timeline.
LEMMA RedoStep ==
    ASSUME Inv, RedoCommand
    PROVE  /\ Inv'
           /\ Ahead # <<>> /\ Kept(tree)' = Ahead[Len(Ahead)]
           /\ Ahead' = SubSeq(Ahead, 1, Len(Ahead) - 1)
           /\ Behind' = Append(Behind, Kept(tree))
<1>. DEFINE c == Last(redoStack)
            d == Redone(c, tree)
            x == tree'
            u2 == undoStack'
            r2 == redoStack'
<1>1. History(tree, source, undoStack, redoStack) /\ redoStack # <<>>
      /\ c = Last(redoStack) /\ d = Redone(c, tree) /\ x = Execute(c, tree)
      /\ r2 = Front(redoStack) /\ u2 = Append(undoStack, d)
      /\ source' = source /\ dirty' = TRUE /\ edits' = edits /\ edits \in 0 .. MaxEdits
  BY DEF RedoCommand, Inv, Mutated
<1>. HIDE DEF c, d, x, u2, r2
<1>2. /\ History(x, source, u2, r2)
      /\ Moves(tree, x, redoStack, undoStack, Line(FALSE, redoStack, tree), Line(TRUE, undoStack, tree),
               r2, u2, Line(FALSE, r2, x), Line(TRUE, u2, x))
  BY <1>1, RedoHistory
<1>3. Inv'
  BY <1>1, <1>2 DEF Inv, x, u2, r2
<1>4. /\ Behind = KeptLine(Line(TRUE, undoStack, tree), Len(undoStack))
      /\ Ahead = KeptLine(Line(FALSE, redoStack, tree), Len(redoStack))
  BY DEF Behind, Ahead, KeptLine
<1>5. /\ Behind' = KeptLine(Line(TRUE, u2, x), Len(u2))
      /\ Ahead' = KeptLine(Line(FALSE, r2, x), Len(r2))
      /\ Kept(tree)' = Kept(x)
  BY DEF Behind, Ahead, KeptLine, u2, r2, x
<1>6. Len(redoStack) \in Nat /\ Len(redoStack) >= 1
  BY <1>1, FrontParts DEF History
<1>7. Len(Ahead) = Len(redoStack) /\ Ahead # <<>>
  <2>1. Len(Ahead) = Len(redoStack)
    BY <1>4, <1>6, KeptLineParts
  <2>2. Len(<<>>) = 0
    OBVIOUS
  <2>. QED BY <1>6, <2>1, <2>2
<1>. QED BY <1>2, <1>3, <1>4, <1>5, <1>7 DEF Moves

\* Every step keeps the invariant.
LEMMA NextKeepsInv ==
    ASSUME Inv, [Next]_vars
    PROVE  Inv'
<1>1. CASE Edit
  BY <1>1, EditStep
<1>2. CASE UndoCommand
  BY <1>2, UndoStep
<1>3. CASE RedoCommand
  BY <1>3, RedoStep
<1>4. CASE Save
  BY <1>4 DEF Save, Inv, stacks
<1>5. CASE UNCHANGED vars
  BY <1>5 DEF Inv, vars, stacks
<1>. QED BY <1>1, <1>2, <1>3, <1>4, <1>5 DEF Next

\* After every sequence of edits, undos, redos and saves the two stacks of the
\* undo manager describe a line of sound trees, on which every command leads
\* forth and back: no command is ever undone or redone on a tree it does not fit.
THEOREM HistoryHolds == Spec => []Inv
<1>1. Init => Inv
  BY InitEstablishesInv
<1>2. Inv /\ [Next]_vars => Inv'
  BY NextKeepsInv
<1>. QED BY <1>1, <1>2, PTL DEF Spec

\* Tree and stacks keep their types, and undo and redo together never hold more
\* than max_history commands.
THEOREM TypesAreOK == Spec => []TypeOK
<1>1. Inv => TypeOK
  <2>. SUFFICES ASSUME Inv PROVE TypeOK
    OBVIOUS
  <2>1. History(tree, source, undoStack, redoStack)
    BY DEF Inv
  <2>2. /\ IsTree(tree) /\ IsTree(source)
        /\ \A c \in ToSet(undoStack) \cup ToSet(redoStack) : c.task \in Ids
    BY <2>1, HistoryParts
  <2>. QED BY <2>1, <2>2 DEF TypeOK, Inv, History
<1>. QED BY <1>1, HistoryHolds, PTL

\* After every sequence of edits, undos and redos the tree is a forest: every
\* task is in one list, once, and below a root.
THEOREM TreesAreForests == Spec => []TreeIsForest
<1>1. Inv => TreeIsForest
  BY HistoryParts DEF Inv, TreeIsForest
<1>. QED BY <1>1, HistoryHolds, PTL

\* l is k but for the participants and the unknown data, which is e.
IsRead(l, k, e) == l = [k EXCEPT !.people = l.people, !.extra = l.extra] /\ l.extra = e

\* A task after it was written and read.
LEMMA WrittenAndRead ==
    ASSUME NEW k \in Task, NEW e, NEW l, l = ReadTask([k EXCEPT !.people = {}, !.extra = e])
    PROVE  IsRead(l, k, e)
<1>1. l = [k EXCEPT !.people = k.owners, !.extra = e]
  BY DEF ReadTask, Task
<1>2. l.people = k.owners /\ l.extra = e
  BY <1>1 DEF Task
<1>. QED BY <1>1, <1>2 DEF IsRead

\* The reader finds in every saved file the tree that was saved, with the unknown
\* data of the tasks that were opened.
THEOREM SavesAreLossless == Spec => []SaveIsLossless
<1>1. Inv => SaveIsLossless
  <2>. SUFFICES ASSUME Inv PROVE SaveIsLossless
    OBVIOUS
  <2>1. /\ IsForest(tree) /\ IsTree(tree)
        /\ \A i \in TaskIds(tree) : tree.task[i].extra \in {None, KnownExtra(source, i)}
    BY HistoryParts DEF Inv, Sound
  <2>2. UNION {Below(tree, r) : r \in ToSet(tree.roots)} = TaskIds(tree)
    BY <2>1 DEF IsForest
  <2>. DEFINE w == Written(tree)
              back == ReadBack(w)
              I == TaskIds(tree)
  <2>3. w = [roots |-> tree.roots, task |-> [i \in I |-> WrittenTask(tree.task[i], i)]]
    BY <2>2 DEF Written
  <2>4. back.roots = tree.roots /\ TaskIds(back) = I
        /\ \A i \in I : back.task[i] = ReadTask(WrittenTask(tree.task[i], i))
    BY <2>3 DEF ReadBack, TaskIds
  <2>5. ASSUME NEW i \in I
        PROVE  /\ back.task[i] = [tree.task[i] EXCEPT !.people = back.task[i].people,
                                                      !.extra = back.task[i].extra]
               /\ tree.task[i].extra \in {None, back.task[i].extra}
    <3>. DEFINE k == tree.task[i]
                l == back.task[i]
                e == KnownExtra(source, i)
    <3>. SUFFICES /\ l = [k EXCEPT !.people = l.people, !.extra = l.extra]
                  /\ k.extra \in {None, l.extra}
      OBVIOUS
    <3>1. k \in Task /\ k.extra \in {None, e}
      BY <2>1, TreeParts
    <3>2. l = ReadTask([k EXCEPT !.people = {}, !.extra = e])
      <4>1. l = ReadTask(WrittenTask(k, i))
        BY <2>4
      <4>2. WrittenTask(k, i) = [k EXCEPT !.people = {}, !.extra = e]
        <5>. HIDE DEF k
        <5>. QED BY DEF WrittenTask, KnownExtra
      <4>. QED BY <4>1, <4>2
    <3>. HIDE DEF k, l, e
    <3>3. IsRead(l, k, e)
      BY <3>1, <3>2, WrittenAndRead
    <3>. QED BY <3>1, <3>3 DEF IsRead
  <2>. QED BY <2>4, <2>5 DEF SaveIsLossless
<1>. QED BY <1>1, HistoryHolds, PTL

\* Undo and redo walk the line of states.
THEOREM FollowsUndoTimeline == Spec => FollowsTimeline
<1>1. Init => Timeline!Init
  <2>. SUFFICES ASSUME Init PROVE Timeline!Init
    OBVIOUS
  <2>1. undoStack = <<>> /\ redoStack = <<>> /\ Len(<<>>) = 0
    BY DEF Init
  <2>2. Behind = <<>> /\ Ahead = <<>>
    BY <2>1 DEF Behind, Ahead
  <2>. QED BY <2>2 DEF Timeline!Init
<1>2. Inv /\ [Next]_vars => [Timeline!Next]_(Timeline!vars)
  <2>. SUFFICES ASSUME Inv, [Next]_vars PROVE [Timeline!Next]_(Timeline!vars)
    OBVIOUS
  <2>1. CASE Edit
    <3>1. Behind' = Latest(Append(Behind, Kept(tree))) /\ Ahead' = <<>>
      BY <2>1, EditStep
    <3>2. Timeline!Edit
      BY <3>1 DEF Timeline!Edit, Timeline!Recent, Latest
    <3>. QED BY <3>2 DEF Timeline!Next
  <2>2. CASE UndoCommand
    <3>1. Timeline!Undo
      BY <2>2, UndoStep DEF Timeline!Undo, Timeline!TopOf, Timeline!BelowTop
    <3>. QED BY <3>1 DEF Timeline!Next
  <2>3. CASE RedoCommand
    <3>1. Timeline!Redo
      BY <2>3, RedoStep DEF Timeline!Redo, Timeline!TopOf, Timeline!BelowTop
    <3>. QED BY <3>1 DEF Timeline!Next
  <2>4. CASE Save \/ UNCHANGED vars
    <3>1. tree' = tree /\ undoStack' = undoStack /\ redoStack' = redoStack
      BY <2>4 DEF Save, vars, stacks
    <3>2. Behind' = Behind /\ Ahead' = Ahead /\ Kept(tree)' = Kept(tree)
      BY <3>1 DEF Behind, Ahead
    <3>. QED BY <3>2 DEF Timeline!vars
  <2>. QED BY <2>1, <2>2, <2>3, <2>4 DEF Next
<1>. QED BY <1>1, <1>2, HistoryHolds, PTL DEF Spec, FollowsTimeline, Timeline!Spec

-----------------------------------------------------------------------------
(* Dependencies                                                            *)

\* A command adds no dependency but the one it is given.
LEMMA DepsAfter ==
    ASSUME NEW c, IsCommand(c), c.kind \in LocalKinds, NEW k \in Task
    PROVE  ToSet(After(c, k).deps) \subseteq ToSet(k.deps) \cup IF c.kind = "depend" THEN {c.arg} ELSE {}
<1>0. k = [children |-> k.children, title |-> k.title, note |-> k.note, due |-> k.due,
           dueText |-> k.dueText, done |-> k.done, owners |-> k.owners, people |-> k.people,
           by |-> k.by, deps |-> k.deps, links |-> k.links, atts |-> k.atts, files |-> k.files,
           extra |-> k.extra]
  BY DEF Task
<1>1. CASE c.kind = "field"
  <2>1. c.arg.field \in {"title", "note", "due", "owners"}
    BY <1>1 DEF IsCommand, ArgOK
  <2>2. After(c, k) = SetField(k, c.arg.field, c.arg.value)
    BY <1>1 DEF After
  <2>3. SetField(k, c.arg.field, c.arg.value).deps = k.deps
    BY <1>0, <2>1 DEF SetField
  <2>. QED BY <2>2, <2>3
<1>2. CASE c.kind = "complete"
  <2>1. After(c, k).deps = k.deps
    BY <1>0, <1>2 DEF After
  <2>. QED BY <2>1
<1>3. CASE c.kind = "role"
  <2>1. After(c, k) = SetRole(k, c)
    BY <1>3 DEF After
  <2>2. c.arg.role \in {"to", "by"} /\ c.arg.add \in BOOLEAN
    BY <1>3 DEF IsCommand, ArgOK
  <2>3. SetRole(k, c).deps = k.deps
    BY <1>0, <2>2 DEF SetRole
  <2>. QED BY <2>1, <2>3
<1>4. CASE c.kind = "link"
  <2>1. After(c, k) = SetLinks(k, c)
    BY <1>4 DEF After
  <2>2. c.arg.op \in {"add", "update", "remove"}
    BY <1>4 DEF IsCommand, ArgOK
  <2>3. SetLinks(k, c).deps = k.deps
    BY <1>0, <2>2 DEF SetLinks
  <2>. QED BY <2>1, <2>3
<1>5. CASE c.kind = "attachment"
  <2>1. After(c, k) = SetAttachments(k, c)
    BY <1>5 DEF After
  <2>2. c.arg.op \in {"add", "remove", "rename"}
    BY <1>5 DEF IsCommand, ArgOK
  <2>3. CASE c.arg.op = "add"
    <3>1. PushAttachment(k, c.arg.att).deps = k.deps
      BY <1>0 DEF PushAttachment
    <3>. QED BY <2>1, <2>3, <3>1 DEF SetAttachments
  <2>4. CASE c.arg.op = "remove"
    <3>1. DropAttachment(k, c.arg.id).deps = k.deps
      BY <1>0 DEF DropAttachment
    <3>. QED BY <2>1, <2>4, <3>1 DEF SetAttachments
  <2>5. CASE c.arg.op = "rename"
    <3>1. RenamedTo(k, c.arg.id, c.arg.name).deps = k.deps
      BY <1>0 DEF RenamedTo
    <3>. QED BY <2>1, <2>5, <3>1 DEF SetAttachments
  <2>. QED BY <2>2, <2>3, <2>4, <2>5
<1>6. CASE c.kind = "depend"
  <2>1. After(c, k) = PushDependency(k, c.arg)
    BY <1>6 DEF After
  <2>2. k.deps \in Seq(Edge) /\ c.arg \in Edge
    BY <1>6, TaskParts DEF IsCommand, ArgOK
  <2>. DEFINE more == Append(k.deps, c.arg)
  <2>3. PushDependency(k, c.arg) = k \/ PushDependency(k, c.arg) = [k EXCEPT !.deps = more]
    BY DEF PushDependency
  <2>4. [k EXCEPT !.deps = more].deps = more
    <3>. HIDE DEF more
    <3>. QED BY <1>0
  <2>5. ToSet(more) \subseteq ToSet(k.deps) \cup {c.arg}
    BY <2>2 DEF ToSet
  <2>. HIDE DEF more
  <2>. QED BY <1>6, <2>1, <2>3, <2>4, <2>5
<1>7. CASE c.kind = "undepend"
  <2>1. After(c, k) = TakeDependency(k, c.arg)
    BY <1>7 DEF After
  <2>2. PICK v \in Seq(ToSet(k.deps)) : TakeDependency(k, c.arg) = WithDeps(k, v)
    BY TakeDependencyType
  <2>3. WithDeps(k, v).deps = v
    BY <1>0 DEF WithDeps
  <2>4. ToSet(v) \subseteq ToSet(k.deps)
    BY OwnMembers
  <2>. QED BY <2>1, <2>2, <2>3, <2>4
<1>. QED BY <1>1, <1>2, <1>3, <1>4, <1>5, <1>6, <1>7 DEF LocalKinds

\* The local edges of x are those of t, but for what new adds to task id.
EdgesFrom(x, t, id, new) ==
    \A i : LocalTargets(x, i) \subseteq LocalTargets(t, i) \cup IF i = id THEN new ELSE {}

\* No command adds an edge of dependencies but the one it is given.
LEMMA EdgesAfter ==
    ASSUME NEW t, IsTree(t), IsForest(t), NEW c, IsCommand(c), Fits(c, t),
           NEW r, r = Execute(c, t), NEW x, TaskIds(x) = TaskIds(r),
           \A i \in TaskIds(x) : x.task[i].deps = r.task[i].deps
    PROVE  EdgesFrom(x, t, c.task,
                     IF c.kind = "depend" /\ c.arg.doc = Here THEN {c.arg.on} ELSE {})
<1>. DEFINE given == IF c.kind = "depend" THEN {c.arg} ELSE {}
            id == c.task
<1>0. t.task \in [TaskIds(t) -> Task]
  BY TreeParts
<1>1. ASSUME NEW i \in TaskIds(r)
      PROVE  ToSet(r.task[i].deps) \subseteq
                (IF i \in TaskIds(t) THEN ToSet(t.task[i].deps) ELSE {}) \cup (IF i = id THEN given ELSE {})
  <2>1. CASE c.kind = "add"
    <3>. DEFINE p == c.arg.parent
    <3>1. id \in Ids \ TaskIds(t) /\ p \in Parents(t) /\ r = WithTask(t, p, id)
      BY <2>1, ExecuteAdd DEF Fits
    <3>. HIDE DEF id, p
    <3>2. /\ TaskIds(r) = TaskIds(t) \cup {id} /\ r.task[id] = BlankTask
          /\ \A j \in TaskIds(t) : r.task[j] = [t.task[j] EXCEPT !.children = Siblings(r, j)]
      BY <3>1, Added
    <3>3. CASE i = id
      <4>1. ToSet(BlankTask.deps) = {}
        BY DEF BlankTask, ToSet
      <4>. QED BY <3>2, <3>3, <4>1
    <3>4. CASE i \in TaskIds(t)
      <4>. DEFINE k == t.task[i]
                  list == Siblings(r, i)
      <4>1. k \in Task /\ r.task[i] = [k EXCEPT !.children = list]
        BY <1>0, <3>2, <3>4
      <4>. HIDE DEF k, list
      <4>2. [k EXCEPT !.children = list].deps = k.deps
        BY <4>1 DEF Task
      <4>3. r.task[i].deps = t.task[i].deps
        BY <4>1, <4>2 DEF k
      <4>. QED BY <3>4, <4>3
    <3>. QED BY <3>2, <3>3, <3>4
  <2>2. CASE c.kind = "delete"
    <3>1. r = RemoveTask(t, id)
      BY <2>2, ExecuteDelete
    <3>. HIDE DEF id
    <3>2. /\ TaskIds(r) = TaskIds(t) \ Below(t, id)
          /\ \A j \in TaskIds(r) : r.task[j] = [t.task[j] EXCEPT !.children = Others(@, id)]
      BY <3>1, Removed
    <3>. DEFINE k == t.task[i]
                list == Others(k.children, id)
    <3>3. i \in TaskIds(t) /\ k \in Task /\ r.task[i] = [k EXCEPT !.children = list]
      BY <1>0, <3>2
    <3>. HIDE DEF k, list
    <3>4. [k EXCEPT !.children = list].deps = k.deps
      BY <3>3 DEF Task
    <3>5. r.task[i].deps = t.task[i].deps
      BY <3>3, <3>4 DEF k
    <3>. QED BY <3>3, <3>5
  <2>3. CASE c.kind \in LocalKinds
    <3>. DEFINE k == t.task[id]
                m == After(c, k)
    <3>1. id \in TaskIds(t) /\ r = Replaced(t, id, m)
      BY <2>3, ExecuteLocal DEF Fits, LocalKinds
    <3>2. k \in Task
      BY <1>0, <3>1
    <3>3. m \in Task
      <4>1. SameTask(k, k)
        BY SameTaskIsEquivalence
      <4>. HIDE DEF k
      <4>. QED BY <2>3, <3>2, <4>1, AfterAlike
    <3>4. ToSet(m.deps) \subseteq ToSet(k.deps) \cup given
      <4>. HIDE DEF k
      <4>. QED BY <2>3, <3>2, DepsAfter
    <3>. HIDE DEF m, given
    <3>5. TaskIds(r) = TaskIds(t) /\ \A j \in TaskIds(r) : r.task[j] = IF j = id THEN m ELSE t.task[j]
      <4>. HIDE DEF k, id
      <4>1. IsReplaced(r, t, id, m)
        BY <3>1, <3>3, ReplacedTree
      <4>. QED BY <4>1 DEF IsReplaced
    <3>6. CASE i = id
      BY <3>1, <3>4, <3>5, <3>6
    <3>7. CASE i # id
      BY <3>5, <3>7
    <3>. QED BY <3>6, <3>7
  <2>. QED BY <2>1, <2>2, <2>3 DEF IsCommand
<1>2. ASSUME NEW i, NEW y \in LocalTargets(x, i)
      PROVE  y \in LocalTargets(t, i) \cup
               IF i = id THEN IF c.kind = "depend" /\ c.arg.doc = Here THEN {c.arg.on} ELSE {} ELSE {}
  <2>1. i \in TaskIds(x) /\ \E d \in ToSet(x.task[i].deps) : d.doc = Here /\ y = d.on
    BY <1>2 DEF LocalTargets
  <2>2. PICK d \in ToSet(r.task[i].deps) : d.doc = Here /\ y = d.on
    BY <2>1
  <2>3. (i \in TaskIds(t) /\ d \in ToSet(t.task[i].deps)) \/ (i = id /\ d \in given)
    BY <1>1, <2>1
  <2>. QED BY <2>2, <2>3 DEF LocalTargets
<1>. QED BY <1>2 DEF EdgesFrom

\* What a task reaches.
Reached(t, a) == {y \in Ids : Reaches(t, a, y)}

\* What a task reaches holds its targets and the targets of its members.
LEMMA ReachedIsClosed ==
    ASSUME NEW t, IsTree(t), NEW a
    PROVE  /\ LocalTargets(t, a) \subseteq Reached(t, a)
           /\ \A m \in Reached(t, a) : LocalTargets(t, m) \subseteq Reached(t, a)
<1>1. ASSUME NEW i PROVE LocalTargets(t, i) \subseteq Ids
  <2>. SUFFICES ASSUME i \in TaskIds(t) PROVE LocalTargets(t, i) \subseteq Ids
    BY DEF LocalTargets
  <2>. DEFINE k == t.task[i]
  <2>1. k \in Task
    BY TreeParts
  <2>2. LocalTargets(t, i) = {d.on : d \in {e \in ToSet(k.deps) : e.doc = Here}}
    BY DEF LocalTargets
  <2>. HIDE DEF k
  <2>3. ToSet(k.deps) \subseteq Edge
    BY <2>1, TaskParts, OwnMembers
  <2>. QED BY <2>2, <2>3 DEF Edge
<1>2. LocalTargets(t, a) \subseteq Reached(t, a)
  BY <1>1 DEF Reached, Reaches
<1>3. ASSUME NEW m \in Reached(t, a), NEW y \in LocalTargets(t, m) PROVE y \in Reached(t, a)
  BY <1>1 DEF Reached, Reaches
<1>. QED BY <1>2, <1>3

\* And it is the least such set.
LEMMA ReachedIsLeast ==
    ASSUME NEW t, NEW a, NEW S \in SUBSET Ids, LocalTargets(t, a) \subseteq S,
           \A m \in S : LocalTargets(t, m) \subseteq S
    PROVE  Reached(t, a) \subseteq S
BY DEF Reached, Reaches

\* With one edge more from i to j there is no cycle unless j reached i.
LEMMA EdgeKeepsAcyclic ==
    ASSUME NEW t, IsTree(t), Acyclic(t), NEW x, NEW id, NEW new, EdgesFrom(x, t, id, new),
           new = {} \/ \E j : new = {j} /\ EdgeAllowed(t, id, j)
    PROVE  Acyclic(x)
<1>. SUFFICES ASSUME NEW a \in TaskIds(x), Reaches(x, a, a) PROVE FALSE
  BY DEF Acyclic
<1>1. \A S \in SUBSET Ids : LocalTargets(x, a) \subseteq S
                            /\ (\A m \in S : LocalTargets(x, m) \subseteq S) => a \in S
  BY DEF Reaches
<1>2. a \notin Reached(t, a)
  <2>1. CASE a \in TaskIds(t)
    BY <2>1 DEF Acyclic, Reached
  <2>2. CASE a \notin TaskIds(t)
    <3>1. LocalTargets(t, a) = {}
      BY <2>2 DEF LocalTargets
    <3>2. Reached(t, a) \subseteq {}
      BY <3>1, ReachedIsLeast
    <3>. QED BY <3>2
  <2>. QED BY <2>1, <2>2
<1>. DEFINE A == Reached(t, a)
<1>3. A \in SUBSET Ids /\ LocalTargets(t, a) \subseteq A /\ \A m \in A : LocalTargets(t, m) \subseteq A
  BY ReachedIsClosed DEF Reached
<1>4. CASE new = {} \/ (id \notin A /\ id # a)
  <2>1. LocalTargets(x, a) \subseteq A /\ \A m \in A : LocalTargets(x, m) \subseteq A
    BY <1>3, <1>4 DEF EdgesFrom
  <2>. QED BY <1>1, <1>2, <1>3, <2>1
<1>5. CASE new # {} /\ (id \in A \/ id = a)
  <2>1. PICK j : new = {j} /\ EdgeAllowed(t, id, j)
    BY <1>5
  <2>. DEFINE B == Reached(t, j)
              S == A \cup {j} \cup B
  <2>2. /\ j \in Ids /\ id # j /\ id \in Ids /\ id \notin B
    <3>1. TaskIds(t) \subseteq Ids
      BY TreeParts
    <3>. QED BY <2>1, <3>1 DEF EdgeAllowed, Reached
  <2>3. B \in SUBSET Ids /\ LocalTargets(t, j) \subseteq B /\ \A m \in B : LocalTargets(t, m) \subseteq B
    BY ReachedIsClosed DEF Reached
  <2>4. a \in B => A \subseteq B
    <3>. SUFFICES ASSUME a \in B PROVE A \subseteq B
      OBVIOUS
    <3>1. LocalTargets(t, a) \subseteq B
      BY <2>3
    <3>. HIDE DEF B
    <3>. QED BY <2>3, <3>1, ReachedIsLeast
  <2>. HIDE DEF A, B
  <2>5. S \in SUBSET Ids /\ LocalTargets(x, a) \subseteq S /\ \A m \in S : LocalTargets(x, m) \subseteq S
    <3>1. \A m : LocalTargets(x, m) \subseteq LocalTargets(t, m) \cup {j}
      BY <2>1 DEF EdgesFrom
    <3>2. \A m \in S : LocalTargets(t, m) \subseteq S
      BY <1>3, <2>3
    <3>3. LocalTargets(t, a) \subseteq S
      BY <1>3
    <3>4. S \in SUBSET Ids
      BY <1>3, <2>2, <2>3
    <3>. QED BY <3>1, <3>2, <3>3, <3>4
  <2>6. a \in S
    BY <1>1, <2>5
  <2>7. a = j \/ a \in B
    BY <1>2, <2>6 DEF A
  <2>8. A = B \/ a \in B
    BY <2>7 DEF A, B
  <2>. QED BY <1>5, <2>2, <2>4, <2>7, <2>8
<1>. QED BY <1>4, <1>5

\* No edit closes a cycle of dependencies: validate_edge rejects every edge that
\* would, and no other command adds one.
THEOREM DependenciesStayAcyclic == Spec => EditsKeepDependenciesAcyclic
<1>1. Inv /\ [Next]_vars =>
        [Acyclic(tree) /\ redoStack' = <<>> /\ edits' # edits => Acyclic(tree')]_vars
  <2>. SUFFICES ASSUME Inv, Next, Acyclic(tree), edits' # edits PROVE Acyclic(tree')
    OBVIOUS
  <2>1. Edit
    BY DEF Next, UndoCommand, RedoCommand, Save
  <2>2. Sound(tree, source) /\ IsTree(tree) /\ IsForest(tree) /\ edits \in 0 .. MaxEdits
    BY HistoryParts DEF Inv
  <2>3. PICK c : CanRun(c) /\ Runs(c)
    BY <2>1, <2>2, EditRuns DEF RunsOne
  <2>. DEFINE r == Execute(c, tree)
              x == tree'
              new == IF c.kind = "depend" /\ c.arg.doc = Here THEN {c.arg.on} ELSE {}
  <2>4. IsCommand(c) /\ Fits(c, tree) /\ (new = {} \/ \E j : new = {j} /\ EdgeAllowed(tree, c.task, j))
    BY <2>3 DEF CanRun
  <2>5. TaskIds(x) = TaskIds(r) /\ \A i \in TaskIds(x) : x.task[i].deps = r.task[i].deps
    BY <2>3 DEF Runs, Same
  <2>6. EdgesFrom(x, tree, c.task, new)
    <3>1. r = Execute(c, tree)
      OBVIOUS
    <3>. HIDE DEF r, x
    <3>. QED BY <2>2, <2>4, <2>5, <3>1, EdgesAfter
  <2>. HIDE DEF x, new
  <2>7. Acyclic(x)
    BY <2>2, <2>4, <2>6, EdgeKeepsAcyclic
  <2>. QED BY <2>7 DEF x
<1>. QED BY <1>1, HistoryHolds, PTL DEF Spec, EditsKeepDependenciesAcyclic
=============================================================================

