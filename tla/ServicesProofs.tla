---------------------------- MODULE ServicesProofs ----------------------------
(***************************************************************************)
(* Proofs about the services: how often the journal spy reports, for any   *)
(* expressions, any entries and any silent period, and what is proved of   *)
(* the collector and of the two kinds of switch, which holds whatever the  *)
(* other parts do meanwhile.                                               *)
(*                                                                         *)
(* EnduranceProofs and SystemdServiceProofs are brought in as CollectorP   *)
(* and SwitchP.  Their definitions are those of Collector and Switch over  *)
(* again, under other names.                                               *)
(***************************************************************************)
EXTENDS Services, WellFoundedInduction, TLAPS

CollectorP == INSTANCE EnduranceProofs
SwitchP    == INSTANCE SystemdServiceProofs

-----------------------------------------------------------------------------
(* Numbers                                                                 *)

LEMMA LeastNumber ==
  ASSUME NEW T \in SUBSET Nat, T # {}
  PROVE  \E m \in T : \A k \in T : m <= k
<1> DEFINE R == OpToRel(<, Nat)
<1>1. IsWellFoundedOn(R, Nat)
  BY NatLessThanWellFounded, Zenon
<1>2. \A k, l \in Nat : k < l => <<k, l>> \in R
  BY DEF OpToRel
<1> HIDE DEF R
<1>3. PICK m \in T : \A k \in T : ~ (<<k, m>> \in R)
  BY <1>1, WFMin
<1>4. \A k \in T : ~(k < m)
  BY <1>2, <1>3
<1> QED BY <1>4

(* Induction, for a set of numbers.                                        *)
LEMMA SetInduction ==
  ASSUME NEW S, 0 \in S, \A n \in S \cap Nat : n + 1 \in S
  PROVE  Nat \subseteq S
<1>1. SUFFICES ASSUME Nat \ S # {} PROVE FALSE
  OBVIOUS
<1>2. PICK m \in Nat \ S : \A k \in Nat \ S : m <= k
  BY <1>1, LeastNumber
<1>3. m - 1 \in S \cap Nat /\ (m - 1) + 1 = m
  BY <1>2
<1> QED BY <1>3

LEMMA MinIsLeast ==
  ASSUME NEW T \in SUBSET Nat, T # {}
  PROVE  Min(T) \in T /\ \A k \in T : Min(T) <= k
BY LeastNumber DEF Min

(* A number that comes later does not change the least.                    *)
LEMMA MinStays ==
  ASSUME NEW T \in SUBSET Nat, T # {}, NEW m \in Nat, \A k \in T : k < m
  PROVE  Min(T \cup {m}) = Min(T)
<1> DEFINE a == Min(T)
           b == Min(T \cup {m})
<1>1. a \in T /\ \A k \in T : a <= k
  BY MinIsLeast
<1>2. b \in T \cup {m} /\ \A k \in T \cup {m} : b <= k
  <2>1. T \cup {m} \in SUBSET Nat /\ T \cup {m} # {}
    OBVIOUS
  <2> QED BY <2>1, MinIsLeast
<1> HIDE DEF a, b
<1>3. a < m /\ b <= a
  BY <1>1, <1>2
<1>4. b \in T
  BY <1>1, <1>2, <1>3
<1>5. a <= b
  BY <1>1, <1>4
<1>6. a \in Nat /\ b \in Nat
  BY <1>1, <1>4
<1>7. a = b
  BY <1>3, <1>5, <1>6
<1> QED BY <1>7 DEF a, b

LEMMA MinOfOne == ASSUME NEW m \in Nat PROVE Min({m}) = m
<1>1. {m} \in SUBSET Nat /\ {m} # {}
  OBVIOUS
<1> QED BY <1>1, MinIsLeast

-----------------------------------------------------------------------------
(* The file of expressions                                                 *)

\* One round of the loop that reads it.
ReadRound(g, lines, n) == IF n = 0 THEN NothingRead ELSE ReadLine(g[n - 1], lines[n])

IsReading(g, lines, N) == g = [n \in 0..N |-> ReadRound(g, lines, n)]

LEMMA ReadingIsDefined ==
  ASSUME NEW lines, NEW N \in Nat
  PROVE  \E g : IsReading(g, lines, N)
<1> DEFINE S == {k \in Nat : \E g : IsReading(g, lines, k)}
<1>1. 0 \in S
  <2> DEFINE g == [n \in 0..0 |-> NothingRead]
  <2>1. IsReading(g, lines, 0)
    BY DEF ReadRound, IsReading
  <2> QED BY <2>1
<1>2. ASSUME NEW k \in S \cap Nat PROVE k + 1 \in S
  <2>1. PICK g : IsReading(g, lines, k)
    OBVIOUS
  <2> DEFINE h == [n \in 0..(k + 1) |-> IF n = k + 1 THEN ReadRound(g, lines, n) ELSE g[n]]
  <2>2. \A n \in 0..k : g[n] = ReadRound(g, lines, n)
    BY <2>1 DEF IsReading
  <2>3. ASSUME NEW n \in 0..(k + 1) PROVE h[n] = ReadRound(h, lines, n)
    <3>1. h[n] = ReadRound(g, lines, n)
      BY <2>2
    <3>2. CASE n = 0
      BY <3>1, <3>2 DEF ReadRound
    <3>3. CASE n # 0
      <4>1. n - 1 \in 0..(k + 1) /\ n - 1 # k + 1
        BY <3>3
      <4>2. h[n - 1] = g[n - 1]
        BY <4>1
      <4> HIDE DEF h
      <4> QED BY <3>1, <3>3, <4>2 DEF ReadRound
    <3> QED BY <3>2, <3>3
  <2>4. IsReading(h, lines, k + 1)
    <3>1. h = [n \in 0..(k + 1) |-> h[n]]
      OBVIOUS
    <3> HIDE DEF h
    <3> QED BY <2>3, <3>1 DEF IsReading
  <2> HIDE DEF h
  <2> QED BY <2>4
<1>3. N \in S
  <2> HIDE DEF S
  <2> QED BY <1>1, <1>2, SetInduction
<1> QED BY <1>3

IsFile(lines) == lines \in Seq(Line)

\* Lines that say what to match a field with.
IsPattern(l) == l.kind = "field" /\ l.pattern # Invalid

LEMMA FileLines ==
  ASSUME NEW lines, IsFile(lines)
  PROVE  /\ DOMAIN lines = 1..Len(lines) /\ Len(lines) \in Nat
         /\ \A i \in DOMAIN lines :
              /\ lines[i].kind \in {"name", "indentedName", "other", "field"}
              /\ IsPattern(lines[i]) => lines[i].field \in Fields /\ lines[i].pattern \in Patterns
<1>1. DOMAIN lines = 1..Len(lines) /\ Len(lines) \in Nat /\ \A i \in DOMAIN lines : lines[i] \in Line
  BY DEF IsFile
<1>2. ASSUME NEW l \in Line
      PROVE  /\ l.kind \in {"name", "indentedName", "other", "field"}
             /\ IsPattern(l) => l.field \in Fields /\ l.pattern \in Patterns
  <2>1. CASE l \in [kind : {"name", "indentedName", "other"}]
    BY <2>1 DEF IsPattern
  <2>2. CASE l \in [kind : {"field"}, field : Fields, pattern : Patterns \cup {Invalid}]
    BY <2>2 DEF IsPattern
  <2> QED BY <2>1, <2>2 DEF Line
<1> QED BY <1>1, <1>2

\* What a pattern adds to those before.
Adds(l, first, more) ==
  more = IF l.field \in DOMAIN first THEN first
         ELSE [f \in DOMAIN first \cup {l.field} |-> IF f = l.field THEN l.pattern ELSE first[f]]

(* What a section says, when one line more of it has been read.            *)
LEMMA FirstOfNone == ASSUME NEW lines PROVE FirstOfEach(lines, {}) = NoFields
BY DEF FirstOfEach, NoFields

LEMMA FirstOfMore ==
  ASSUME NEW lines, NEW valid \in SUBSET Nat, NEW j \in Nat, \A k \in valid : k < j
  PROVE  Adds(lines[j], FirstOfEach(lines, valid), FirstOfEach(lines, valid \cup {j}))
<1> DEFINE of(V, f) == {k \in V : lines[k].field = f}
           all == valid \cup {j}
           first == FirstOfEach(lines, valid)
           more == FirstOfEach(lines, all)
           F == {lines[k].field : k \in valid}
           x == lines[j].field
<1>1. first = [f \in F |-> lines[Min(of(valid, f))].pattern]
  BY DEF FirstOfEach
<1>2. {lines[k].field : k \in all} = F \cup {x}
  OBVIOUS
<1>3. more = [f \in F \cup {x} |-> lines[Min(of(all, f))].pattern]
  BY <1>2 DEF FirstOfEach
<1>4. ASSUME NEW f \in F PROVE Min(of(all, f)) = Min(of(valid, f))
  <2>1. of(valid, f) \in SUBSET Nat /\ of(valid, f) # {} /\ \A k \in of(valid, f) : k < j
    OBVIOUS
  <2>2. CASE f = x
    <3>1. of(all, f) = of(valid, f) \cup {j}
      BY <2>2
    <3> HIDE DEF of
    <3> QED BY <2>1, <3>1, MinStays
  <2>3. CASE f # x
    <3>1. of(all, f) = of(valid, f)
      BY <2>3
    <3> QED BY <3>1
  <2> QED BY <2>2, <2>3
<1>5. ASSUME x \notin F PROVE Min(of(all, x)) = j
  <2>1. of(all, x) = {j}
    BY <1>5
  <2> HIDE DEF of
  <2> QED BY <2>1, MinOfOne
<1> HIDE DEF of, F, all, first, more, x
<1>6. DOMAIN first = F
  BY <1>1
<1>7. ASSUME x \in F PROVE more = first
  <2>1. F \cup {x} = F
    BY <1>7
  <2> QED BY <1>1, <1>3, <1>4, <2>1
<1>8. ASSUME x \notin F
      PROVE  more = [f \in F \cup {x} |-> IF f = x THEN lines[j].pattern ELSE first[f]]
  <2>1. \A f \in F \cup {x} :
          lines[Min(of(all, f))].pattern = IF f = x THEN lines[j].pattern ELSE first[f]
    BY <1>1, <1>4, <1>5, <1>8
  <2> QED BY <1>3, <2>1
<1>9. more = IF x \in DOMAIN first THEN first
             ELSE [f \in DOMAIN first \cup {x} |-> IF f = x THEN lines[j].pattern ELSE first[f]]
  BY <1>6, <1>7, <1>8
<1> QED BY <1>9 DEF first, more, x, all, Adds

\* Lines that name an expression, and those of them that are taken for it:
\* all but the ones that are indented and not the first.
IsHeading(l) == l.kind \in {"name", "indentedName"}

Seen(lines) ==
  {i \in DOMAIN lines : \/ lines[i].kind = "name"
                        \/ IsHeading(lines[i]) /\ \A j \in 1..(i - 1) : ~IsHeading(lines[j])}

\* What is read between one of those and the next.
SeenValid(lines, i) ==
  {j \in DOMAIN lines : /\ j > i /\ \A k \in Seen(lines) : k <= i \/ k > j
                        /\ lines[j].kind = "field" /\ lines[j].pattern # Invalid}

SeenWritten(lines, i) == FirstOfEach(lines, SeenValid(lines, i))

\* The expressions are those read at these headings, in their order.
SeenInOrder(list, lines, headings) ==
  \E place \in [DOMAIN list -> headings] :
    /\ \A m, n \in DOMAIN list : m < n => place[m] < place[n]
    /\ \A i \in headings : \E n \in DOMAIN list : place[n] = i
    /\ \A n \in DOMAIN list : list[n] = SeenWritten(lines, place[n])

(* A section ends where the next begins, and is the lines between.         *)
LEMMA Sections ==
  ASSUME NEW lines, IsFile(lines)
  PROVE  /\ Seen(lines) \subseteq 1..Len(lines)
         /\ \A i \in Seen(lines) : SeenValid(lines, i) \subseteq (i + 1)..Len(lines)
         /\ \A i, h \in Seen(lines) : i < h => \A j \in SeenValid(lines, i) : j < h
         /\ \A i \in Seen(lines), j \in 1..Len(lines) :
              (i < j /\ \A k \in Seen(lines) : k <= i \/ k > j)
                => (j \in SeenValid(lines, i) <=> IsPattern(lines[j]))
<1>1. DOMAIN lines = 1..Len(lines) /\ Len(lines) \in Nat
  BY FileLines
<1>2. Seen(lines) \subseteq 1..Len(lines)
  BY <1>1 DEF Seen
<1> DEFINE H == Seen(lines)
<1>3. \A i : SeenValid(lines, i) = {j \in 1..Len(lines) : j > i /\ (\A k \in H : k <= i \/ k > j)
                                                           /\ IsPattern(lines[j])}
  BY <1>1 DEF SeenValid, IsPattern
<1> HIDE DEF H
<1>4. H \subseteq 1..Len(lines)
  BY <1>2 DEF H
<1>5. \A i \in H : SeenValid(lines, i) \subseteq (i + 1)..Len(lines)
  BY <1>1, <1>3, <1>4
<1>6. \A i, h \in H : i < h => \A j \in SeenValid(lines, i) : j < h
  <2> SUFFICES ASSUME NEW i \in H, NEW h \in H, i < h, NEW j \in SeenValid(lines, i) PROVE j < h
    OBVIOUS
  <2>1. h <= i \/ h > j
    BY <1>3
  <2>2. j \in 1..Len(lines)
    BY <1>3
  <2> QED BY <1>1, <1>4, <2>1, <2>2
<1>7. \A i \in H, j \in 1..Len(lines) :
        (i < j /\ \A k \in H : k <= i \/ k > j) => (j \in SeenValid(lines, i) <=> IsPattern(lines[j]))
  <2> SUFFICES ASSUME NEW i \in H, NEW j \in 1..Len(lines), i < j, \A k \in H : k <= i \/ k > j
               PROVE  j \in SeenValid(lines, i) <=> IsPattern(lines[j])
    OBVIOUS
  <2>1. j > i
    BY <1>1, <1>4
  <2> QED BY <1>3, <2>1
<1> QED BY <1>2, <1>5, <1>6, <1>7 DEF H

LEMMA ExpressionIs ==
  ASSUME NEW e
  PROVE  e \in Expression <=> e \in [DOMAIN e -> Patterns] /\ DOMAIN e \subseteq Fields
<1>1. ASSUME e \in Expression PROVE e \in [DOMAIN e -> Patterns] /\ DOMAIN e \subseteq Fields
  <2>1. PICK fs \in SUBSET Fields : e \in [fs -> Patterns]
    BY <1>1 DEF Expression
  <2> QED BY <2>1
<1>2. ASSUME e \in [DOMAIN e -> Patterns], DOMAIN e \subseteq Fields PROVE e \in Expression
  BY <1>2 DEF Expression
<1> QED BY <1>1, <1>2

\* The headings before line m of expressions that are not empty.
Used(lines, m) == {i \in Seen(lines) : i < m /\ SeenWritten(lines, i) # NoFields}

LEMMA IsInOrder ==
  ASSUME NEW list, NEW lines, NEW headings, NEW N, DOMAIN list = N, NEW place \in [N -> headings],
         \A m, n \in N : m < n => place[m] < place[n],
         \A i \in headings : \E n \in N : place[n] = i,
         \A n \in N : list[n] = SeenWritten(lines, place[n])
  PROVE  SeenInOrder(list, lines, headings)
BY DEF SeenInOrder

(* The expression that was open is the last of those finished.             *)
LEMMA FinishedInOrder ==
  ASSUME NEW lines, IsFile(lines), NEW s, s.done \in Seq(Expression \ {NoFields}),
         NEW last \in Seen(lines), s.fields = SeenWritten(lines, last),
         SeenInOrder(s.done, lines, Used(lines, last)),
         NEW m \in Nat, last < m, \A k \in Seen(lines) : k <= last \/ k >= m
  PROVE  SeenInOrder(Finished(s), lines, Used(lines, m))
<1> DEFINE H == Seen(lines)
           N == Len(s.done)
           before == Used(lines, last)
<1>1. H \subseteq Nat /\ last \in Nat /\ N \in Nat /\ DOMAIN s.done = 1..N
  BY Sections, FileLines
<1>2. PICK place \in [1..N -> before] :
        /\ \A a, b \in 1..N : a < b => place[a] < place[b]
        /\ \A i \in before : \E a \in 1..N : place[a] = i
        /\ \A a \in 1..N : s.done[a] = SeenWritten(lines, place[a])
  BY <1>1 DEF SeenInOrder
<1>3. before \subseteq H /\ (\A i \in before : i < last) /\ last \notin before
  BY <1>1 DEF Used
<1>4. CASE s.fields = NoFields
  <2>1. \A i \in H : (i < m /\ SeenWritten(lines, i) # NoFields)
                        <=> (i < last /\ SeenWritten(lines, i) # NoFields)
    <3> SUFFICES ASSUME NEW i \in H, SeenWritten(lines, i) # NoFields PROVE i < m <=> i < last
      OBVIOUS
    <3>1. i # last /\ (i <= last \/ i >= m)
      BY <1>4
    <3> QED BY <1>1, <3>1
  <2>2. Used(lines, m) = before
    BY <2>1 DEF Used
  <2> QED BY <1>4, <2>2 DEF Finished
<1>5. CASE s.fields # NoFields
  <2>1. Used(lines, m) = before \cup {last}
    BY <1>1, <1>5 DEF Used
  <2> DEFINE more == Append(s.done, s.fields)
             at == [a \in 1..(N + 1) |-> IF a = N + 1 THEN last ELSE place[a]]
  <2>2. /\ DOMAIN more = 1..(N + 1) /\ more[N + 1] = s.fields
        /\ \A a \in 1..N : more[a] = s.done[a]
    BY <1>1
  <2> HIDE DEF before, H, N
  <2>3. \A a \in 1..(N + 1) : a \in 1..N \/ a = N + 1
    BY <1>1
  <2>4. \A a \in 1..N : a \in 1..(N + 1) /\ a # N + 1
    BY <1>1
  <2>5. at \in [1..(N + 1) -> before \cup {last}]
    BY <1>2, <2>3
  <2>6. at[N + 1] = last /\ \A a \in 1..N : at[a] = place[a] /\ place[a] \in before
    BY <1>1, <1>2, <2>4
  <2> HIDE DEF at, more
  <2>7. ASSUME NEW a \in 1..(N + 1), NEW b \in 1..(N + 1), a < b PROVE at[a] < at[b]
    <3>1. a \in 1..N
      BY <1>1, <2>7
    <3>2. CASE b \in 1..N
      BY <1>2, <2>6, <2>7, <3>1, <3>2
    <3>3. CASE b = N + 1
      BY <1>3, <2>6, <3>1, <3>3
    <3> QED BY <2>3, <3>2, <3>3
  <2>8. \A i \in before \cup {last} : \E a \in 1..(N + 1) : at[a] = i
    <3>1. N + 1 \in 1..(N + 1)
      BY <1>1
    <3>2. \A i \in before : \E a \in 1..(N + 1) : at[a] = i
      BY <1>2, <2>4, <2>6
    <3> QED BY <2>6, <3>1, <3>2
  <2>9. \A a \in 1..(N + 1) : more[a] = SeenWritten(lines, at[a])
    BY <1>2, <2>2, <2>3, <2>6
  <2>10. SeenInOrder(more, lines, before \cup {last})
    BY <2>2, <2>5, <2>7, <2>8, <2>9, IsInOrder
  <2> QED BY <1>5, <2>1, <2>10 DEF Finished, more, before
<1> QED BY <1>4, <1>5

\* An expression has been begun at line last, and n lines have been read.
OpenedAt(s, lines, n, last) ==
  /\ \A k \in Seen(lines) : k <= last \/ k > n
  /\ s.fields = FirstOfEach(lines, SeenValid(lines, last) \cap 1..n)
  /\ SeenInOrder(s.done, lines, Used(lines, last))

\* What has been made of the first n lines.
ReadTo(s, lines, n) ==
  /\ s \in [open : BOOLEAN, fields : Expression, done : Seq(Expression \ {NoFields})]
  /\ s.open <=> \E i \in 1..n : IsHeading(lines[i])
  /\ ~s.open => s.fields = NoFields /\ s.done = <<>>
  /\ s.open => \E last \in Seen(lines) : last <= n /\ OpenedAt(s, lines, n, last)

LEMMA NoneInOrder == ASSUME NEW lines PROVE SeenInOrder(<<>>, lines, {})
<1> DEFINE D == DOMAIN <<>>
           place == [n \in D |-> n]
<1>1. D = {}
  OBVIOUS
<1>2. place \in [D -> {}]
  BY <1>1
<1> HIDE DEF place, D
<1>3. SeenInOrder(<<>>, lines, {})
  BY <1>1, <1>2, IsInOrder DEF D
<1> QED BY <1>3

LEMMA EmptyIsExpression == NoFields \in Expression
<1>1. DOMAIN NoFields = {} /\ NoFields \in [{} -> Patterns]
  BY DEF NoFields
<1> QED BY <1>1, ExpressionIs

LEMMA FinishedType ==
  ASSUME NEW s \in [open : BOOLEAN, fields : Expression, done : Seq(Expression \ {NoFields})]
  PROVE  Finished(s) \in Seq(Expression \ {NoFields})
<1>1. s.done \in Seq(Expression \ {NoFields}) /\ s.fields \in Expression
  OBVIOUS
<1>2. CASE s.fields = NoFields
  BY <1>1, <1>2 DEF Finished
<1>3. CASE s.fields # NoFields
  <2>1. s.fields \in Expression \ {NoFields}
    BY <1>1, <1>3
  <2> HIDE DEF NoFields
  <2> QED BY <1>1, <1>3, <2>1 DEF Finished
<1> QED BY <1>2, <1>3

(* What has been read up to the next heading is all of the section.        *)
LEMMA SectionIsRead ==
  ASSUME NEW lines, IsFile(lines), NEW s, NEW n \in 0..Len(lines), NEW last \in Seen(lines),
         last <= n, OpenedAt(s, lines, n, last), n + 1 \in Seen(lines) \/ n = Len(lines)
  PROVE  s.fields = SeenWritten(lines, last)
<1>1. SeenValid(lines, last) \subseteq (last + 1)..Len(lines) /\ last \in 1..Len(lines) /\ Len(lines) \in Nat
  BY Sections, FileLines
<1>2. SeenValid(lines, last) \subseteq 1..n
  <2>1. CASE n = Len(lines)
    BY <1>1, <2>1
  <2>2. CASE n + 1 \in Seen(lines) /\ n # Len(lines)
    <3>1. last < n + 1
      BY <1>1
    <3>2. \A j \in SeenValid(lines, last) : j < n + 1
      BY <2>2, <3>1, Sections
    <3>3. \A j \in SeenValid(lines, last) : j \in Nat /\ j >= 1
      BY <1>1
    <3> QED BY <3>2, <3>3
  <2> QED BY <2>1, <2>2
<1>3. SeenValid(lines, last) \cap 1..n = SeenValid(lines, last)
  BY <1>2
<1> QED BY <1>3 DEF OpenedAt, SeenWritten

(* A heading ends an expression and begins the next.                       *)
LEMMA ReadHeading ==
  ASSUME NEW lines, IsFile(lines), NEW n \in 0..Len(lines), n + 1 <= Len(lines),
         NEW s, ReadTo(s, lines, n), n + 1 \in Seen(lines)
  PROVE  ReadTo(Begin(s), lines, n + 1)
<1> DEFINE t == Begin(s)
           m == n + 1
<1>1. Len(lines) \in Nat /\ DOMAIN lines = 1..Len(lines) /\ Seen(lines) \subseteq 1..Len(lines)
  BY FileLines, Sections
<1>2. m \in 1..m /\ m \in Nat /\ m <= m
  BY <1>1
<1>3. s \in [open : BOOLEAN, fields : Expression, done : Seq(Expression \ {NoFields})]
  BY DEF ReadTo
<1>4. t = [open |-> TRUE, fields |-> NoFields, done |-> Finished(s)]
  BY DEF Begin
<1>5. t \in [open : BOOLEAN, fields : Expression, done : Seq(Expression \ {NoFields})]
  BY <1>3, <1>4, FinishedType, EmptyIsExpression
<1>6. \E i \in 1..m : IsHeading(lines[i])
  <2>1. IsHeading(lines[m])
    BY DEF Seen, IsHeading
  <2> QED BY <1>2, <2>1
<1>7. SeenValid(lines, m) \cap 1..m = {}
  <2>1. SeenValid(lines, m) \subseteq (m + 1)..Len(lines)
    BY Sections
  <2> QED BY <1>1, <2>1
<1>8. SeenInOrder(Finished(s), lines, Used(lines, m))
  <2>1. CASE s.open
    <3>1. PICK last \in Seen(lines) : last <= n /\ OpenedAt(s, lines, n, last)
      BY <2>1 DEF ReadTo
    <3>2. s.fields = SeenWritten(lines, last)
      BY <3>1, SectionIsRead
    <3>3. /\ last < m
          /\ \A k \in Seen(lines) : k <= last \/ k >= m
      BY <1>1, <3>1 DEF OpenedAt
    <3>4. SeenInOrder(s.done, lines, Used(lines, last)) /\ s.done \in Seq(Expression \ {NoFields})
      BY <1>3, <3>1 DEF OpenedAt
    <3> HIDE DEF m
    <3> QED BY <1>2, <3>2, <3>3, <3>4, FinishedInOrder
  <2>2. CASE ~s.open
    <3>1. Finished(s) = <<>>
      BY <2>2 DEF ReadTo, Finished
    <3>2. \A k \in Seen(lines) : IsHeading(lines[k])
      BY DEF Seen, IsHeading
    <3>3. \A k \in Seen(lines) : ~(k < m)
      BY <1>1, <2>2, <3>2 DEF ReadTo
    <3>4. Used(lines, m) = {}
      BY <3>3 DEF Used
    <3> QED BY <3>1, <3>4, NoneInOrder
  <2> QED BY <1>3, <2>1, <2>2
<1>9. OpenedAt(t, lines, m, m)
  <2>1. \A k \in Seen(lines) : k <= m \/ k > m
    BY <1>1
  <2>2. t.fields = FirstOfEach(lines, SeenValid(lines, m) \cap 1..m)
    <3>1. FirstOfEach(lines, SeenValid(lines, m) \cap 1..m) = FirstOfEach(lines, {})
      BY <1>7
    <3>2. FirstOfEach(lines, {}) = NoFields
      BY FirstOfNone
    <3>3. t.fields = NoFields
      BY <1>4
    <3> HIDE DEF m, t
    <3> QED BY <3>1, <3>2, <3>3
  <2> QED BY <1>4, <1>8, <2>1, <2>2 DEF OpenedAt
<1>10. t.open
  BY <1>4
<1> HIDE DEF m, t
<1>11. ReadTo(t, lines, m)
  <2>1. m \in Seen(lines)
    BY DEF m
  <2> QED BY <1>2, <1>5, <1>6, <1>9, <1>10, <2>1 DEF ReadTo
<1> QED BY <1>11 DEF m, t

(* A line that begins nothing adds to the open expression, or not.         *)
LEMMA ReadBody ==
  ASSUME NEW lines, IsFile(lines), NEW n \in 0..Len(lines), n + 1 <= Len(lines),
         NEW s, ReadTo(s, lines, n), n + 1 \notin Seen(lines),
         s.open \/ ~IsHeading(lines[n + 1]), NEW t,
         t = IF s.open /\ IsPattern(lines[n + 1]) /\ lines[n + 1].field \notin DOMAIN s.fields
             THEN Insert(s, lines[n + 1]) ELSE s
  PROVE  ReadTo(t, lines, n + 1)
<1> DEFINE m == n + 1
           l == lines[m]
           new == [f \in DOMAIN s.fields \cup {l.field} |->
                     IF f = l.field THEN l.pattern ELSE s.fields[f]]
           adds == s.open /\ IsPattern(l) /\ l.field \notin DOMAIN s.fields
<1>1. Len(lines) \in Nat /\ DOMAIN lines = 1..Len(lines) /\ Seen(lines) \subseteq 1..Len(lines)
  BY FileLines, Sections
<1>2. m \in 1..Len(lines) /\ m \in Nat /\ 1..m = 1..n \cup {m}
  BY <1>1
<1>3. s \in [open : BOOLEAN, fields : Expression, done : Seq(Expression \ {NoFields})]
  BY DEF ReadTo
<1>4. IsPattern(l) => l.field \in Fields /\ l.pattern \in Patterns
  BY <1>1, <1>2, FileLines
<1>5. adds => t = [s EXCEPT !.fields = new]
  BY DEF Insert
<1>6. ~adds => t = s
  OBVIOUS
<1>7. adds => new \in Expression
  <2> SUFFICES ASSUME adds PROVE new \in Expression
    OBVIOUS
  <2>1. s.fields \in [DOMAIN s.fields -> Patterns] /\ DOMAIN s.fields \subseteq Fields
    BY <1>3, ExpressionIs
  <2>2. new \in [DOMAIN s.fields \cup {l.field} -> Patterns] /\ DOMAIN new \subseteq Fields
    BY <1>4, <2>1
  <2>3. DOMAIN new = DOMAIN s.fields \cup {l.field}
    OBVIOUS
  <2> HIDE DEF new
  <2> QED BY <2>2, <2>3, ExpressionIs
<1> HIDE DEF new
<1>8. t \in [open : BOOLEAN, fields : Expression, done : Seq(Expression \ {NoFields})]
  BY <1>3, <1>5, <1>6, <1>7
<1>9. t.open = s.open /\ t.done = s.done /\ (~s.open => t.fields = s.fields)
  BY <1>3, <1>5, <1>6
<1>10. t.open <=> \E i \in 1..m : IsHeading(lines[i])
  <2>1. s.open <=> \E i \in 1..n : IsHeading(lines[i])
    BY DEF ReadTo
  <2>2. s.open \/ ~IsHeading(lines[m])
    OBVIOUS
  <2> HIDE DEF m
  <2> QED BY <1>2, <1>9, <2>1, <2>2
<1>11. ASSUME s.open
       PROVE  \E last \in Seen(lines) : last <= m /\ OpenedAt(t, lines, m, last)
  <2>1. PICK last \in Seen(lines) : last <= n /\ OpenedAt(s, lines, n, last)
    BY <1>11 DEF ReadTo
  <2>2. last < m /\ \A k \in Seen(lines) : k <= last \/ k > m
    <3>1. \A k \in Seen(lines) : k <= last \/ k > n
      BY <2>1 DEF OpenedAt
    <3>2. \A k \in Seen(lines) : k # m
      OBVIOUS
    <3> QED BY <1>1, <2>1, <3>1, <3>2
  <2>3. m \in SeenValid(lines, last) <=> IsPattern(l)
    <3> HIDE DEF m
    <3> QED BY <1>2, <2>2, Sections DEF l
  <2> DEFINE valid == SeenValid(lines, last) \cap 1..n
             first == FirstOfEach(lines, valid)
  <2>4. s.fields = first
    BY <2>1 DEF OpenedAt
  <2>5. t.fields = FirstOfEach(lines, SeenValid(lines, last) \cap 1..m)
    <3>1. CASE IsPattern(l)
      <4>1. SeenValid(lines, last) \cap 1..m = valid \cup {m}
        BY <1>2, <2>3, <3>1
      <4>2. valid \in SUBSET Nat /\ \A k \in valid : k < m
        BY <1>1
      <4> HIDE DEF valid, m
      <4>3. Adds(l, first, FirstOfEach(lines, valid \cup {m}))
        BY <1>2, <4>2, FirstOfMore
      <4>4. FirstOfEach(lines, valid \cup {m}) = IF l.field \in DOMAIN s.fields THEN s.fields ELSE new
        BY <2>4, <4>3 DEF new, Adds
      <4>5. t.fields = IF l.field \in DOMAIN s.fields THEN s.fields ELSE new
        BY <1>3, <1>5, <1>6, <1>11, <3>1
      <4> QED BY <4>1, <4>4, <4>5
    <3>2. CASE ~IsPattern(l)
      <4>1. SeenValid(lines, last) \cap 1..m = valid
        BY <1>2, <2>3, <3>2
      <4> QED BY <1>6, <2>4, <3>2, <4>1
    <3> QED BY <3>1, <3>2
  <2>6. OpenedAt(t, lines, m, last)
    BY <1>9, <2>1, <2>2, <2>5 DEF OpenedAt
  <2>7. last <= m
    BY <1>1, <2>2
  <2> QED BY <2>6, <2>7
<1>12. ~s.open => s.fields = NoFields /\ s.done = <<>>
  BY DEF ReadTo
<1> HIDE DEF m
<1>13. ReadTo(t, lines, m)
  BY <1>8, <1>9, <1>10, <1>11, <1>12 DEF ReadTo
<1> QED BY <1>13 DEF m

LEMMA ReadOne ==
  ASSUME NEW lines, IsFile(lines), NEW n \in 0..Len(lines), n + 1 <= Len(lines),
         NEW s, ReadTo(s, lines, n)
  PROVE  ReadTo(ReadLine(s, lines[n + 1]), lines, n + 1)
<1> DEFINE m == n + 1
           l == lines[m]
<1>1. m \in DOMAIN lines /\ DOMAIN lines = 1..Len(lines) /\ m - 1 = n
  BY FileLines
<1>2. s.open \in BOOLEAN /\ (s.open <=> \E i \in 1..n : IsHeading(lines[i]))
  BY DEF ReadTo
<1>3. m \in Seen(lines) <=> l.kind = "name" \/ (l.kind = "indentedName" /\ ~s.open)
  <2>1. m \in Seen(lines) <=> l.kind = "name" \/ (IsHeading(l) /\ \A j \in 1..n : ~IsHeading(lines[j]))
    BY <1>1 DEF Seen
  <2> QED BY <1>2, <2>1 DEF IsHeading
<1>4. CASE m \in Seen(lines)
  <2>1. ReadLine(s, l) = Begin(s)
    BY <1>3, <1>4 DEF ReadLine
  <2> QED BY <1>4, <2>1, ReadHeading
<1>5. CASE m \notin Seen(lines)
  <2>1. ReadLine(s, l) = IF s.open /\ IsPattern(l) /\ l.field \notin DOMAIN s.fields
                         THEN Insert(s, l) ELSE s
    BY <1>3, <1>5 DEF ReadLine, IsPattern
  <2>2. s.open \/ ~IsHeading(l)
    BY <1>3, <1>5 DEF IsHeading
  <2> QED BY <1>5, <2>1, <2>2, ReadBody
<1> QED BY <1>4, <1>5

(* The expressions are what is read at the headings that are seen.         *)
LEMMA ExpressionsAreRead ==
  ASSUME NEW lines, IsFile(lines)
  PROVE  /\ LoadExpressions(lines) \in Seq(Expression \ {NoFields})
         /\ SeenInOrder(LoadExpressions(lines), lines,
                    {i \in Seen(lines) : SeenWritten(lines, i) # NoFields})
<1> DEFINE N == Len(lines)
           read == CHOOSE g : IsReading(g, lines, N)
           S == {k \in Nat : k \in 0..N => ReadTo(read[k], lines, k)}
<1>1. N \in Nat
  BY FileLines
<1>2. \E g : IsReading(g, lines, N)
  <2> HIDE DEF N
  <2> QED BY <1>1, ReadingIsDefined
<1>3. read = [n \in 0..N |-> ReadRound(read, lines, n)]
  BY <1>2 DEF IsReading
<1>4. LoadExpressions(lines) = Finished(read[N])
  BY DEF LoadExpressions, ReadRound, IsReading
<1> HIDE DEF read
<1>5. \A n \in 0..N : read[n] = ReadRound(read, lines, n)
  <2> HIDE DEF N
  <2> QED BY <1>3
<1>6. 0 \in S
  <2>1. read[0] = NothingRead
    BY <1>1, <1>5 DEF ReadRound
  <2>2. NothingRead \in [open : BOOLEAN, fields : Expression, done : Seq(Expression \ {NoFields})]
    BY EmptyIsExpression DEF NothingRead
  <2>3. ~NothingRead.open /\ NothingRead.fields = NoFields /\ NothingRead.done = <<>>
    BY DEF NothingRead
  <2>4. ReadTo(NothingRead, lines, 0)
    BY <2>2, <2>3 DEF ReadTo
  <2> QED BY <2>1, <2>4
<1>7. ASSUME NEW k \in S \cap Nat PROVE k + 1 \in S
  <2>1. SUFFICES ASSUME k + 1 \in 0..N PROVE ReadTo(read[k + 1], lines, k + 1)
    OBVIOUS
  <2>2. k \in 0..N /\ k + 1 <= N /\ (k + 1) - 1 = k /\ k + 1 # 0
    BY <1>1, <2>1
  <2>3. ReadTo(read[k], lines, k)
    BY <2>2
  <2>4. read[k + 1] = ReadLine(read[k], lines[k + 1])
    BY <1>5, <2>1, <2>2 DEF ReadRound
  <2> QED BY <2>2, <2>3, <2>4, ReadOne
<1>8. ReadTo(read[N], lines, N)
  <2>1. N \in S
    <3> HIDE DEF S, N
    <3> QED BY <1>1, <1>6, <1>7, SetInduction
  <2> QED BY <1>1, <2>1
<1> DEFINE s == read[N]
           used == {i \in Seen(lines) : SeenWritten(lines, i) # NoFields}
<1>9. Seen(lines) \subseteq 1..N
  BY Sections
<1>10. Finished(s) \in Seq(Expression \ {NoFields})
  BY <1>8, FinishedType DEF ReadTo
<1>11. CASE s.open
  <2>1. PICK last \in Seen(lines) : last <= N /\ OpenedAt(s, lines, N, last)
    BY <1>8, <1>11 DEF ReadTo
  <2>2. s.fields = SeenWritten(lines, last)
    BY <1>1, <2>1, SectionIsRead
  <2>3. N + 1 \in Nat /\ last < N + 1 /\ \A k \in Seen(lines) : k <= last \/ k >= N + 1
    BY <1>1, <1>9, <2>1 DEF OpenedAt
  <2>4. SeenInOrder(s.done, lines, Used(lines, last)) /\ s.done \in Seq(Expression \ {NoFields})
    BY <1>8, <2>1 DEF OpenedAt, ReadTo
  <2>5. SeenInOrder(Finished(s), lines, Used(lines, N + 1))
    <3> HIDE DEF s, N
    <3> QED BY <2>2, <2>3, <2>4, FinishedInOrder
  <2>6. Used(lines, N + 1) = used
    <3>1. \A i \in Seen(lines) : i < N + 1
      BY <1>1, <1>9
    <3> QED BY <3>1 DEF Used
  <2> QED BY <1>4, <1>10, <2>5, <2>6
<1>12. CASE ~s.open
  <2>1. Finished(s) = <<>>
    BY <1>8, <1>12 DEF ReadTo, Finished
  <2>2. \A k \in Seen(lines) : IsHeading(lines[k])
    BY DEF Seen, IsHeading
  <2>3. Seen(lines) = {}
    BY <1>8, <1>9, <1>12, <2>2 DEF ReadTo
  <2>4. used = {}
    BY <2>3
  <2> QED BY <1>4, <1>10, <2>1, <2>4, NoneInOrder
<1>13. s.open \in BOOLEAN
  BY <1>8 DEF ReadTo
<1> QED BY <1>11, <1>12, <1>13

(* The headings that are seen are those not indented, and what is read at  *)
(* one that is not blurred is what is written there.                       *)
LEMMA SeenAsWritten ==
  ASSUME NEW lines, IsFile(lines)
  PROVE  /\ Seen(lines) = Headings(lines) \ Indented(lines)
         /\ \A i \in Headings(lines) \ Blurred(lines) :
              i \in Seen(lines) /\ SeenWritten(lines, i) = Written(lines, i)
<1> DEFINE D == 1..Len(lines)
           H == Headings(lines)
           I == Indented(lines)
           S == Seen(lines)
<1>1. /\ DOMAIN lines = D /\ Len(lines) \in Nat
      /\ \A i \in D : lines[i].kind \in {"name", "indentedName", "other", "field"}
  BY FileLines
<1>2. H = {i \in D : IsHeading(lines[i])}
  BY <1>1 DEF Headings, IsHeading
<1>3. I = {i \in H : lines[i].kind = "indentedName" /\ \E j \in H : j < i}
  BY DEF Indented
<1>4. S = {i \in D : \/ lines[i].kind = "name"
                     \/ IsHeading(lines[i]) /\ \A j \in 1..(i - 1) : ~IsHeading(lines[j])}
  BY <1>1 DEF Seen
<1>5. S = H \ I
  <2> HIDE DEF H, I, S
  <2>1. ASSUME NEW i \in D
        PROVE  (\E j \in H : j < i) <=> ~\A j \in 1..(i - 1) : ~IsHeading(lines[j])
    BY <1>1, <1>2
  <2> QED BY <1>1, <1>2, <1>3, <1>4, <2>1 DEF IsHeading
<1>6. ASSUME NEW i \in H \ Blurred(lines)
      PROVE  i \in S /\ SeenValid(lines, i) = Valid(lines, i)
  <2>1. i \notin I /\ ~\E k \in I : i < k /\ \A h \in H : h <= i \/ h >= k
    BY <1>6 DEF Blurred
  <2> HIDE DEF H, I, S
  <2>2. i \in S
    BY <1>5, <1>6, <2>1
  <2>3. ASSUME NEW j \in D, j > i
        PROVE  (\A k \in S : k <= i \/ k > j) <=> (\A k \in H : k <= i \/ k > j)
    <3>1. i \in Nat /\ j \in Nat /\ H \subseteq Nat /\ S \subseteq H
      BY <1>1, <1>2, <1>5, <1>6
    <3>2. ASSUME \A k \in S : k <= i \/ k > j, NEW m \in H, ~(m <= i \/ m > j)
          PROVE  FALSE
      <4> DEFINE between == {k \in H : i < k /\ k <= j}
      <4>1. m \in H /\ m \in Nat /\ i < m /\ m <= j
        BY <3>1, <3>2
      <4>2. between \in SUBSET Nat /\ m \in between
        BY <3>1, <4>1, Zenon
      <4> HIDE DEF between
      <4>3. PICK k \in between : \A h \in between : k <= h
        BY <4>2, LeastNumber
      <4>4. k \in H /\ i < k /\ k <= j /\ \A h \in H : h <= i \/ h >= k
        BY <3>1, <4>3 DEF between
      <4>5. k \in I
        BY <1>5, <3>1, <3>2, <4>4
      <4> QED BY <2>1, <4>4, <4>5
    <3> QED BY <3>1, <3>2
  <2>4. SeenValid(lines, i) =
          {j \in D : /\ j > i /\ \A k \in S : k <= i \/ k > j
                    /\ lines[j].kind = "field" /\ lines[j].pattern # Invalid}
    BY <1>1 DEF SeenValid, S
  <2>5. Valid(lines, i) =
          {j \in D : /\ j > i /\ \A k \in H : k <= i \/ k > j
                    /\ lines[j].kind = "field" /\ lines[j].pattern # Invalid}
    BY <1>1 DEF Valid, H
  <2> HIDE DEF D
  <2> QED BY <2>2, <2>3, <2>4, <2>5
<1> QED BY <1>5, <1>6 DEF SeenWritten, Written

(* The expressions are what the file says, as far as it is not blurred.    *)
LEMMA ExpressionsAreWritten ==
  ASSUME NEW lines, IsFile(lines)
  PROVE  /\ LoadExpressions(lines) \in Seq(Expression \ {NoFields})
         /\ Watches(LoadExpressions(lines), lines)
<1> DEFINE list == LoadExpressions(lines)
           used == {i \in Seen(lines) : SeenWritten(lines, i) # NoFields}
<1>1. list \in Seq(Expression \ {NoFields}) /\ SeenInOrder(list, lines, used)
  BY ExpressionsAreRead
<1> HIDE DEF list
<1>2. PICK place \in [DOMAIN list -> used] :
        /\ \A m, n \in DOMAIN list : m < n => place[m] < place[n]
        /\ \A i \in used : \E n \in DOMAIN list : place[n] = i
        /\ \A n \in DOMAIN list : list[n] = SeenWritten(lines, place[n])
  BY <1>1 DEF SeenInOrder
<1>3. place \in [DOMAIN list -> Headings(lines) \ Indented(lines)]
  BY SeenAsWritten
<1>4. \A i \in Headings(lines) \ Blurred(lines) :
        Written(lines, i) # NoFields => \E n \in DOMAIN list : place[n] = i
  BY <1>2, SeenAsWritten
<1>5. \A n \in DOMAIN list :
        /\ list[n] # NoFields
        /\ place[n] \notin Blurred(lines) => list[n] = Written(lines, place[n])
  <2> SUFFICES ASSUME NEW n \in DOMAIN list
               PROVE  /\ list[n] # NoFields
                      /\ place[n] \notin Blurred(lines) => list[n] = Written(lines, place[n])
    OBVIOUS
  <2>1. place[n] \in used /\ list[n] = SeenWritten(lines, place[n])
    BY <1>2
  <2>2. place[n] \in Headings(lines)
    BY <1>3
  <2> QED BY <2>1, <2>2, SeenAsWritten
<1>6. Watches(list, lines)
  BY <1>2, <1>3, <1>4, <1>5 DEF Watches
<1> QED BY <1>1, <1>6 DEF list

-----------------------------------------------------------------------------
(* The journal spy                                                         *)

KnownHit ==
  [expression : DOMAIN expressions, time : Nat, outcome : {"collected", "dropped", "silent"}]

(* The hits are of expressions there are, in the order of time, and none   *)
(* comes before the file has been read.                                    *)
HitsInv ==
  /\ now \in Nat /\ now >= 2 * Silent
  /\ lastHit \in [DOMAIN expressions -> Nat]
  /\ hits \in Seq(KnownHit)
  /\ \A n \in DOMAIN hits : hits[n].time <= now
  /\ \A m, n \in DOMAIN hits : m < n => hits[m].time <= hits[n].time
  /\ file # <<>> => hits = <<>> /\ ~spying

(* lastHit is what it is called: the time of the last hit, or a time long  *)
(* before the first.                                                       *)
LastHitInv ==
  \A e \in DOMAIN expressions :
    /\ \A n \in DOMAIN hits : hits[n].expression = e => hits[n].time <= lastHit[e]
    /\ \/ lastHit[e] = 0
       \/ \E n \in DOMAIN hits : hits[n].expression = e /\ hits[n].time = lastHit[e]

SpyInv == HitsInv /\ LastHitInv /\ SilentIffRecent

(* What hits are, entry by entry.                                          *)
LEMMA HitTypes ==
  ASSUME HitsInv
  PROVE  /\ Len(hits) \in Nat /\ DOMAIN hits = 1..Len(hits)
         /\ \A n \in DOMAIN hits : /\ n \in Nat /\ hits[n].time \in Nat
                                  /\ hits[n].expression \in DOMAIN expressions
<1>1. hits \in Seq(KnownHit) /\ Len(hits) \in Nat /\ DOMAIN hits = 1..Len(hits)
  BY DEF HitsInv
<1>2. \A n \in DOMAIN hits : n \in Nat /\ hits[n] \in KnownHit
  BY <1>1
<1> QED BY <1>1, <1>2 DEF KnownHit

LEMMA SpyInit == Init => SpyInv
BY JournalSpyAssumption DEF Init, SpyInv, HitsInv, LastHitInv, SilentIffRecent

(* A hit is silenced by an earlier one of its expression, and by no other. *)
LEMMA HitKeepsInv ==
  ASSUME SpyInv, NEW e \in DOMAIN expressions, HandleEntry(e),
         UNCHANGED <<file, spying, expressions, now>>, file = <<>>
  PROVE  SpyInv'
<1> DEFINE quiet == now - lastHit[e] > Silent
<1> USE JournalSpyAssumption
<1>1. /\ now \in Nat /\ now >= 2 * Silent /\ Silent \in Nat /\ Silent > 0
      /\ lastHit \in [DOMAIN expressions -> Nat]
      /\ hits \in Seq(KnownHit)
  BY DEF SpyInv, HitsInv
<1>2. PICK hit \in KnownHit :
        /\ hits' = Append(hits, hit)
        /\ hit.expression = e /\ hit.time = now
        /\ hit.outcome = "silent" <=> ~quiet
  <2>1. PICK starts \in Starts :
          hits' = Append(hits, [expression |-> e, time |-> now,
                                outcome |-> IF ~quiet THEN "silent"
                                            ELSE IF starts THEN "collected" ELSE "dropped"])
    BY DEF HandleEntry
  <2> DEFINE h == [expression |-> e, time |-> now,
                   outcome |-> IF ~quiet THEN "silent"
                               ELSE IF starts THEN "collected" ELSE "dropped"]
  <2>2. h \in KnownHit /\ h.expression = e /\ h.time = now
    BY <1>1 DEF KnownHit
  <2>3. h.outcome = "silent" <=> ~quiet
    OBVIOUS
  <2> QED BY <2>1, <2>2, <2>3
<1>3. lastHit' = [lastHit EXCEPT ![e] = now]
  BY DEF HandleEntry
<1>4. /\ Len(hits) \in Nat /\ DOMAIN hits = 1..Len(hits)
      /\ DOMAIN hits' = 1..(Len(hits) + 1)
      /\ hits'[Len(hits) + 1] = hit
      /\ \A n \in DOMAIN hits : n \in DOMAIN hits' /\ hits'[n] = hits[n]
  BY <1>1, <1>2
<1>5. \A n \in DOMAIN hits : /\ hits[n].time \in Nat /\ hits[n].time <= now
                             /\ hits[n].expression \in DOMAIN expressions
  BY HitTypes DEF SpyInv, HitsInv
<1>6. HitsInv'
  <2>1. hits' \in Seq(KnownHit)
    BY <1>1, <1>2
  <2>2. \A m, n \in DOMAIN hits' : m < n => hits'[m].time <= hits'[n].time
    BY <1>2, <1>4, <1>5 DEF SpyInv, HitsInv
  <2>3. \A n \in DOMAIN hits' : hits'[n].time <= now
    BY <1>1, <1>2, <1>4, <1>5
  <2> QED BY <1>1, <1>3, <2>1, <2>2, <2>3 DEF HitsInv, KnownHit
<1>7. LastHitInv'
  <2> SUFFICES ASSUME NEW d \in DOMAIN expressions
               PROVE  /\ \A n \in DOMAIN hits' :
                           hits'[n].expression = d => hits'[n].time <= lastHit'[d]
                      /\ \/ lastHit'[d] = 0
                         \/ \E n \in DOMAIN hits' : /\ hits'[n].expression = d
                                                    /\ hits'[n].time = lastHit'[d]
    BY DEF LastHitInv
  <2>1. CASE d = e
    <3>1. lastHit'[d] = now
      BY <1>1, <1>3, <2>1
    <3> QED BY <1>1, <1>2, <1>4, <1>5, <2>1, <3>1
  <2>2. CASE d # e
    <3>1. lastHit'[d] = lastHit[d]
      BY <1>1, <1>3, <2>2
    <3>2. /\ \A n \in DOMAIN hits : hits[n].expression = d => hits[n].time <= lastHit[d]
          /\ \/ lastHit[d] = 0
             \/ \E n \in DOMAIN hits : hits[n].expression = d /\ hits[n].time = lastHit[d]
      BY DEF SpyInv, LastHitInv
    <3> QED BY <1>1, <1>2, <1>4, <2>2, <3>1, <3>2
  <2> QED BY <2>1, <2>2
<1>8. SilentIffRecent'
  <2> DEFINE Recent(hs, n) ==
               \E m \in 1..(n - 1) : /\ hs[m].expression = hs[n].expression
                                     /\ hs[n].time - hs[m].time <= Silent
  <2>1. ASSUME NEW n \in DOMAIN hits
        PROVE  hits'[n].outcome = "silent" <=> Recent(hits', n)
    <3>1. \A m \in 1..n : hits'[m] = hits[m]
      BY <1>4
    <3>2. hits[n].outcome = "silent" <=> Recent(hits, n)
      BY DEF SpyInv, SilentIffRecent
    <3>3. hits'[n] = hits[n] /\ \A m \in 1..(n - 1) : hits'[m] = hits[m]
      BY <1>2, <1>4, <3>1
    <3>4. Recent(hits', n) <=> Recent(hits, n)
      BY <3>3
    <3> QED BY <3>2, <3>3, <3>4
  <2>2. hit.outcome = "silent" <=> Recent(hits', Len(hits) + 1)
    <3>1. /\ \A n \in DOMAIN hits : hits[n].expression = e => hits[n].time <= lastHit[e]
          /\ \/ lastHit[e] = 0
             \/ \E n \in DOMAIN hits : hits[n].expression = e /\ hits[n].time = lastHit[e]
      BY DEF SpyInv, LastHitInv
    <3>2. lastHit[e] \in Nat
      BY <1>1
    <3>3. ASSUME ~quiet PROVE Recent(hits', Len(hits) + 1)
      <4>1. lastHit[e] # 0
        BY <1>1, <3>2, <3>3
      <4>2. PICK n \in DOMAIN hits : hits[n].expression = e /\ hits[n].time = lastHit[e]
        BY <3>1, <4>1
      <4>3. n \in 1..(Len(hits) + 1 - 1) /\ hits'[n] = hits[n]
        BY <1>4
      <4> QED BY <1>1, <1>2, <1>4, <3>2, <3>3, <4>2, <4>3
    <3>4. ASSUME Recent(hits', Len(hits) + 1) PROVE ~quiet
      <4>1. PICK n \in DOMAIN hits : hits[n].expression = e /\ now - hits[n].time <= Silent
        BY <1>2, <1>4, <3>4
      <4>2. hits[n].time <= lastHit[e] /\ hits[n].time \in Nat
        BY <1>5, <3>1, <4>1
      <4> QED BY <1>1, <3>2, <4>1, <4>2
    <3> QED BY <1>2, <3>3, <3>4
  <2> QED BY <1>4, <2>1, <2>2 DEF SilentIffRecent
<1> QED BY <1>6, <1>7, <1>8 DEF SpyInv

LEMMA SpyNext == SpyInv /\ [Next]_vars => SpyInv'
<1> SUFFICES ASSUME SpyInv, [Next]_vars PROVE SpyInv'
  OBVIOUS
<1>1. CASE Start
  <2>1. hits = <<>> /\ hits' = <<>> /\ now' = now /\ file' = <<>>
    BY <1>1 DEF Start, SpyInv, HitsInv
  <2>2. lastHit' = [e \in DOMAIN expressions' |-> 0]
    BY <1>1 DEF Start
  <2>3. HitsInv'
    BY <2>1, <2>2 DEF SpyInv, HitsInv
  <2>4. LastHitInv' /\ SilentIffRecent'
    BY <2>1, <2>2 DEF LastHitInv, SilentIffRecent
  <2> QED BY <2>3, <2>4 DEF SpyInv
<1>2. CASE HandleJournalEntries
  <2>1. PICK e \in DOMAIN expressions : HandleEntry(e)
    BY <1>2 DEF HandleJournalEntries
  <2>2. UNCHANGED <<file, spying, expressions, now>> /\ file = <<>>
    BY <1>2 DEF HandleJournalEntries, SpyInv, HitsInv
  <2> QED BY <2>1, <2>2, HitKeepsInv
<1>3. CASE Tick
  <2>1. /\ now' = now + 1 /\ UNCHANGED <<file, spying, expressions, lastHit, hits>>
        /\ now \in Nat /\ Silent \in Nat
    BY <1>3, JournalSpyAssumption DEF Tick, SpyInv, HitsInv
  <2>2. KnownHit' = KnownHit
    BY <2>1 DEF KnownHit
  <2>3. \A n \in DOMAIN hits : hits[n].time \in Nat
    BY HitTypes DEF SpyInv
  <2>4. HitsInv'
    BY <2>1, <2>2, <2>3 DEF SpyInv, HitsInv
  <2>5. LastHitInv' /\ SilentIffRecent'
    BY <2>1 DEF SpyInv, LastHitInv, SilentIffRecent
  <2> QED BY <2>4, <2>5 DEF SpyInv
<1>4. CASE UNCHANGED vars
  BY <1>4 DEF vars, SpyInv, HitsInv, KnownHit, LastHitInv, SilentIffRecent
<1> QED BY <1>1, <1>2, <1>3, <1>4 DEF Next

LEMMA SpyInvariance == Spec => []SpyInv
BY SpyInit, SpyNext, PTL DEF Spec

(* A hit goes unreported for its frequency if and only if the same         *)
(* expression was hit within the silent period before.                     *)
THEOREM SilenceIsDeserved == Spec => []SilentIffRecent
<1>1. SpyInv => SilentIffRecent
  BY DEF SpyInv
<1> QED BY <1>1, SpyInvariance, PTL

(* Two collections for one expression are more than a silent period apart. *)
LEMMA CollectionsApart ==
  ASSUME SpyInv, NEW m \in DOMAIN hits, NEW n \in DOMAIN hits, m < n,
         hits[n].outcome = "collected", hits[m].expression = hits[n].expression
  PROVE  hits[n].time - hits[m].time > Silent
<1>1. /\ m \in 1..(n - 1)
      /\ hits[m].time \in Nat /\ hits[n].time \in Nat /\ Silent \in Nat
  BY HitTypes, JournalSpyAssumption DEF SpyInv
<1>2. hits[n].outcome # "silent"
  OBVIOUS
<1>3. ~(hits[n].time - hits[m].time <= Silent)
  BY <1>1, <1>2 DEF SpyInv, SilentIffRecent
<1> QED BY <1>1, <1>3

(* journalspy.h: "No more than 4 matches per expression each day."         *)
THEOREM NoMoreThanFour == Spec => []AtMostFourPerDay
<1>1. ASSUME SpyInv PROVE AtMostFourPerDay
  <2> SUFFICES ASSUME NEW a \in DOMAIN hits, NEW b \in DOMAIN hits, NEW c \in DOMAIN hits,
                      NEW d \in DOMAIN hits, NEW e \in DOMAIN hits,
                      a < b, b < c, c < d, d < e,
                      \A n \in {a, b, c, d, e} : /\ hits[n].outcome = "collected"
                                                 /\ hits[n].expression = hits[a].expression
               PROVE  hits[e].time - hits[a].time > Day
    BY DEF AtMostFourPerDay
  <2>1. /\ hits[b].time - hits[a].time > Silent
        /\ hits[c].time - hits[b].time > Silent
        /\ hits[d].time - hits[c].time > Silent
        /\ hits[e].time - hits[d].time > Silent
    BY <1>1, CollectionsApart
  <2>2. \A n \in DOMAIN hits : hits[n].time \in Nat
    BY <1>1, HitTypes DEF SpyInv
  <2> QED BY <2>1, <2>2, JournalSpyAssumption DEF Day
<1> QED BY <1>1, SpyInvariance, PTL

(* Types of what is read from the file.                                    *)
FileInv ==
  /\ file \in Seq(Line)
  /\ spying \in BOOLEAN
  /\ expressions \in Seq(Expression \ {NoFields})

LEMMA FileInit == Init => FileInv
<1> SUFFICES ASSUME Init PROVE FileInv
  OBVIOUS
<1>1. PICK n \in 0..MaxLines : file \in [1..n -> Line]
  BY DEF Init
<1>2. file \in Seq(Line)
  BY <1>1, JournalSpyAssumption
<1>3. <<>> \in Seq(Expression \ {NoFields})
  OBVIOUS
<1> QED BY <1>2, <1>3 DEF Init, FileInv

LEMMA FileNext == FileInv /\ [Next]_vars => FileInv'
<1> SUFFICES ASSUME FileInv, [Next]_vars PROVE FileInv'
  OBVIOUS
<1>1. CASE Start
  <2>1. expressions' \in Seq(Expression \ {NoFields})
    BY <1>1, ExpressionsAreWritten DEF Start, FileInv, IsFile
  <2>2. <<>> \in Seq(Line)
    OBVIOUS
  <2>3. file' = <<>> /\ spying' \in BOOLEAN
    BY <1>1 DEF Start
  <2> QED BY <2>1, <2>2, <2>3 DEF FileInv
<1>2. CASE UNCHANGED <<file, spying, expressions>>
  BY <1>2 DEF FileInv
<1> QED BY <1>1, <1>2 DEF Next, HandleJournalEntries, Tick, vars

LEMMA FileInvariance == Spec => []FileInv
BY FileInit, FileNext, PTL DEF Spec

(* Whatever the file looks like, the expressions in it are watched for, in *)
(* its order and with the first valid pattern of each field, and nothing   *)
(* else is, but for those that an indented heading runs into one another   *)
(* (loadExpressions, parsePattern).                                        *)
THEOREM LoadsAsWritten == Spec => LoadsWhatIsWritten
<1>1. FileInv /\ [Next]_vars
        => [Start => Watches(expressions', file)]_vars
  BY ExpressionsAreWritten DEF FileInv, IsFile, Start
<1> QED BY <1>1, FileInvariance, PTL DEF Spec, LoadsWhatIsWritten

(* Type correctness of the journal spy.                                    *)
THEOREM SpyTypeCorrect == Spec => []TypeOK
<1>1. ASSUME SpyInv, FileInv PROVE TypeOK
  <2>1. DOMAIN expressions = 1..Len(expressions) /\ Len(expressions) \in Nat
    BY <1>1 DEF FileInv
  <2>2. KnownHit \subseteq Hit
    BY <2>1 DEF KnownHit, Hit
  <2>3. hits \in Seq(Hit)
    BY <1>1, <2>2 DEF SpyInv, HitsInv
  <2>4. \A n \in DOMAIN hits : hits[n].expression \in DOMAIN expressions
    BY <1>1, HitTypes DEF SpyInv
  <2>5. now \in Nat /\ lastHit \in [DOMAIN expressions -> Nat]
    BY <1>1 DEF SpyInv, HitsInv
  <2> QED BY <1>1, <2>3, <2>4, <2>5 DEF TypeOK, FileInv
<1> QED BY <1>1, SpyInvariance, FileInvariance, PTL

-----------------------------------------------------------------------------
(* The collector                                                           *)

LEMMA CollectorInit == ServicesInit => CollectorP!IInv
<1>1. CollectorP!EnduranceAssumption
  BY CollectorAssumption DEF Collector!EnduranceAssumption, CollectorP!EnduranceAssumption
<1>2. Collector!Init => CollectorP!Init
  BY DEF Collector!Init, CollectorP!Init, Collector!Gone, CollectorP!Gone, Collector!Closed,
     CollectorP!Closed, Collector!NoScript, CollectorP!NoScript
<1> QED BY <1>1, <1>2, CollectorP!InitInv DEF ServicesInit

\* A pass of the daemon's loop.
LEMMA CollectorPass ==
  ASSUME NEW w, NEW forks, NEW waits
  PROVE  Collector!Pass(w, forks, waits) = CollectorP!Pass(w, forks, waits)
<1>1. \A v, f : Collector!Heartbeat(v, f) = CollectorP!Heartbeat(v, f)
  BY DEF Collector!Heartbeat, CollectorP!Heartbeat
<1>2. \A v : Collector!ChildExit(v) = CollectorP!ChildExit(v)
  BY DEF Collector!ChildExit, CollectorP!ChildExit
<1>3. \A v : Collector!Keepalive(v) = CollectorP!Keepalive(v)
  BY DEF Collector!Keepalive, CollectorP!Keepalive
<1> QED BY <1>1, <1>2, <1>3, ZenonT(40) DEF Collector!Pass, CollectorP!Pass, Collector!When,
     CollectorP!When, Collector!Gone, CollectorP!Gone, Collector!Closed, CollectorP!Closed

LEMMA CollectorSteps == Collector!Next => CollectorP!Next
<1>1. Collector!Loop => CollectorP!Loop
  BY CollectorPass DEF Collector!Loop, CollectorP!Loop, Collector!Becomes,
     CollectorP!Becomes, Collector!NoScript, CollectorP!NoScript, Collector!World,
     CollectorP!World
<1>2. /\ Collector!SelectFails => CollectorP!SelectFails
      /\ Collector!SetupFails => CollectorP!SetupFails
      /\ Collector!Select => CollectorP!Select
      /\ Collector!Start => CollectorP!Start
      /\ Collector!AfterBootDelay => CollectorP!AfterBootDelay
  BY DEF Collector!SelectFails, CollectorP!SelectFails, Collector!SetupFails,
     CollectorP!SetupFails, Collector!Select, CollectorP!Select,
     Collector!Start, CollectorP!Start, Collector!AfterBootDelay, CollectorP!AfterBootDelay,
     Collector!Gone, CollectorP!Gone, Collector!Closed, CollectorP!Closed
<1>3. /\ Collector!HeartbeatComes => CollectorP!HeartbeatComes
      /\ Collector!TimerExpires => CollectorP!TimerExpires
      /\ Collector!Sigterm => CollectorP!Sigterm
      /\ Collector!KeepaliveEnds => CollectorP!KeepaliveEnds
  BY DEF Collector!HeartbeatComes, CollectorP!HeartbeatComes, Collector!TimerExpires,
     CollectorP!TimerExpires, Collector!Sigterm, CollectorP!Sigterm,
     Collector!KeepaliveEnds, CollectorP!KeepaliveEnds
<1>4. /\ Collector!Begin => CollectorP!Begin
      /\ Collector!InitializeSession => CollectorP!InitializeSession
  BY DEF Collector!Begin, CollectorP!Begin, Collector!InitializeSession,
     CollectorP!InitializeSession, Collector!SessionEnds, CollectorP!SessionEnds
<1>5. Collector!Snapshot => CollectorP!Snapshot
  BY DEF Collector!Snapshot, CollectorP!Snapshot, Collector!Min, CollectorP!Min
<1>6. /\ Collector!Count => CollectorP!Count
      /\ Collector!MoveAside => CollectorP!MoveAside
  BY DEF Collector!Count, CollectorP!Count, Collector!MoveAside, CollectorP!MoveAside,
     Collector!Full, CollectorP!Full
<1>7. Collector!Package => CollectorP!Package
  BY DEF Collector!Package, CollectorP!Package, Collector!Range, CollectorP!Range
<1>8. /\ Collector!Ends => CollectorP!Ends
      /\ Collector!Reboot => CollectorP!Reboot
  BY DEF Collector!Ends, CollectorP!Ends, Collector!Reboot, CollectorP!Reboot,
     Collector!Running, CollectorP!Running, Collector!NoScript, CollectorP!NoScript,
     Collector!Gone, CollectorP!Gone, Collector!Closed, CollectorP!Closed
<1> QED BY <1>1, <1>2, <1>3, <1>4, <1>5, <1>6, <1>7, <1>8 DEF Collector!Next,
     CollectorP!Next, Collector!DaemonStep, CollectorP!DaemonStep, Collector!ScriptStep,
     CollectorP!ScriptStep

LEMMA CollectorNext == CollectorP!IInv /\ [ServicesNext]_allVars => CollectorP!IInv'
<1> SUFFICES ASSUME CollectorP!IInv, [ServicesNext]_allVars PROVE CollectorP!IInv'
  OBVIOUS
<1>1. CollectorP!EnduranceAssumption
  BY CollectorAssumption DEF Collector!EnduranceAssumption, CollectorP!EnduranceAssumption
<1>2. [CollectorP!Next]_CollectorP!vars
  <2>1. CASE CollectorStep
    BY <2>1, CollectorSteps DEF CollectorStep
  <2>2. CASE SpyStep \/ SwitchStep \/ MarksStep \/ UNCHANGED allVars
    BY <2>2 DEF SpyStep, SwitchStep, MarksStep, allVars, collectorVars, CollectorP!vars
  <2> QED BY <2>1, <2>2 DEF ServicesNext
<1> QED BY <1>1, <1>2, CollectorP!NextInv

LEMMA CollectorInvariance == ServicesSpec => []CollectorP!IInv
BY CollectorInit, CollectorNext, PTL DEF ServicesSpec

(* The state of the collector is of its type at all times: processes,      *)
(* descriptors, the script's place and what is on the disk.                *)
THEOREM CollectorTypeCorrect == ServicesSpec => []Collector!TypeOK
<1>1. CollectorP!IInv => Collector!TypeOK
  BY DEF CollectorP!IInv, Collector!TypeOK, CollectorP!TypeOK, Collector!Daemon,
     CollectorP!Daemon, Collector!Kernel, CollectorP!Kernel, Collector!Script,
     CollectorP!Script, Collector!Disk, CollectorP!Disk, Collector!Fds, CollectorP!Fds,
     Collector!Closed, CollectorP!Closed
<1> QED BY <1>1, CollectorInvariance, PTL

(* The device does not go to sleep under a collection, however signals,    *)
(* timers and the passes of the loop fall together and wherever daemon and *)
(* script are interrupted (endurancecollect's main).                       *)
THEOREM NoSleepUnderCollection == ServicesSpec => []StaysAwake
<1>1. CollectorP!IInv => StaysAwake
  BY CollectorP!InvImplies DEF StaysAwake, Collector!StaysAwake, CollectorP!StaysAwake,
     Collector!Running, CollectorP!Running
<1> QED BY <1>1, CollectorInvariance, PTL

(* Nothing keeps the device awake once the end of a collection has been    *)
(* handled (endurancecollect's main).                                      *)
THEOREM SleepAfterCollection == ServicesSpec => []LetsSleep
<1>1. CollectorP!IInv => LetsSleep
  BY CollectorP!InvImplies DEF LetsSleep, Collector!LetsSleep, CollectorP!LetsSleep
<1> QED BY <1>1, CollectorInvariance, PTL

(* No report is of the snapshots of two boots, for any number of boots and *)
(* of snapshots to a report (endurance-collect).                           *)
THEOREM ReportsOfOneSession == ServicesSpec => []OneSession
<1>1. CollectorP!IInv => OneSession
  BY CollectorP!InvImplies DEF OneSession, Collector!OneSession, CollectorP!OneSession
<1> QED BY <1>1, CollectorInvariance, PTL

-----------------------------------------------------------------------------
(* The switch for a unit                                                   *)

LEMMA SwitchInit == ServicesInit => SwitchP!IInv
<1>1. Switch!Init => SwitchP!Init
  BY DEF Switch!Init, SwitchP!Init
<1> QED BY <1>1, SwitchP!InitInv DEF ServicesInit

LEMMA SwitchSteps == Switch!Next => SwitchP!Next
<1>1. /\ Switch!Answer => SwitchP!Answer
      /\ Switch!AnswerError => SwitchP!AnswerError
  BY DEF Switch!Answer, SwitchP!Answer, Switch!AnswerError, SwitchP!AnswerError,
     Switch!EnabledBecomes, SwitchP!EnabledBecomes, Switch!MaskFileBecomes,
     SwitchP!MaskFileBecomes, Switch!Told, SwitchP!Told, Switch!Hears, SwitchP!Hears
<1>2. /\ Switch!Work => SwitchP!Work
      /\ Switch!Fail => SwitchP!Fail
      /\ Switch!Unload => SwitchP!Unload
      /\ Switch!Other => SwitchP!Other
  BY DEF Switch!Work, SwitchP!Work, Switch!Fail, SwitchP!Fail, Switch!Unload,
     SwitchP!Unload, Switch!Other, SwitchP!Other, Switch!ActiveBecomes,
     SwitchP!ActiveBecomes, Switch!EnabledBecomes, SwitchP!EnabledBecomes, Switch!Told,
     SwitchP!Told, Switch!Hears, SwitchP!Hears, Switch!Down, SwitchP!Down
<1>3. /\ Switch!ComponentComplete => SwitchP!ComponentComplete
      /\ Switch!Destroyed => SwitchP!Destroyed
  BY DEF Switch!ComponentComplete, SwitchP!ComponentComplete, Switch!Destroyed,
     SwitchP!Destroyed
<1>4. /\ Switch!GotUnitPath => SwitchP!GotUnitPath
      /\ Switch!GotNoUnitPath => SwitchP!GotNoUnitPath
      /\ Switch!PropertiesChanged => SwitchP!PropertiesChanged
  BY DEF Switch!GotUnitPath, SwitchP!GotUnitPath, Switch!GotNoUnitPath,
     SwitchP!GotNoUnitPath, Switch!PropertiesChanged, SwitchP!PropertiesChanged,
     Switch!Receive, SwitchP!Receive, Switch!StateOf, SwitchP!StateOf, Switch!Enabled,
     SwitchP!Enabled
<1>5. /\ Switch!HandleUnitNew => SwitchP!HandleUnitNew
      /\ Switch!HandleUnitRemoved => SwitchP!HandleUnitRemoved
      /\ Switch!CheckUnitState => SwitchP!CheckUnitState
  BY DEF Switch!HandleUnitNew, SwitchP!HandleUnitNew, Switch!HandleUnitRemoved,
     SwitchP!HandleUnitRemoved, Switch!CheckUnitState, SwitchP!CheckUnitState,
     Switch!Receive, SwitchP!Receive, Switch!StateOf, SwitchP!StateOf
<1>6. /\ Switch!MaskingChanged => SwitchP!MaskingChanged
      /\ Switch!Reloaded => SwitchP!Reloaded
  BY DEF Switch!MaskingChanged, SwitchP!MaskingChanged, Switch!Reloaded, SwitchP!Reloaded,
     Switch!Receive, SwitchP!Receive, Switch!Masked, SwitchP!Masked
<1>7. Switch!Click => SwitchP!Click
  BY DEF Switch!Click, SwitchP!Click, Switch!Checked, SwitchP!Checked, Switch!SetEnabled,
     SwitchP!SetEnabled, Switch!Start, SwitchP!Start, Switch!Stop, SwitchP!Stop
<1>8. \A m \in BOOLEAN : Switch!SetMasked(m) => SwitchP!SetMasked(m)
  BY DEF Switch!SetMasked, SwitchP!SetMasked, Switch!Masked, SwitchP!Masked
<1> QED BY <1>1, <1>2, <1>3, <1>4, <1>5, <1>6, <1>7, <1>8 DEF Switch!Next, SwitchP!Next,
     Switch!Handlers, SwitchP!Handlers

LEMMA SwitchNext == SwitchP!IInv /\ [ServicesNext]_allVars => SwitchP!IInv'
<1> SUFFICES ASSUME SwitchP!IInv, [ServicesNext]_allVars PROVE SwitchP!IInv'
  OBVIOUS
<1>1. [SwitchP!Next]_SwitchP!vars
  <2>1. CASE SwitchStep
    BY <2>1, SwitchSteps DEF SwitchStep
  <2>2. CASE SpyStep \/ CollectorStep \/ MarksStep \/ UNCHANGED allVars
    BY <2>2 DEF SpyStep, CollectorStep, MarksStep, allVars, switchVars, SwitchP!vars
  <2> QED BY <2>1, <2>2 DEF ServicesNext
<1> QED BY <1>1, SwitchP!NextInv

LEMMA SwitchInvariance == ServicesSpec => []SwitchP!IInv
BY SwitchInit, SwitchNext, PTL DEF ServicesSpec

(* The state of the switch, of the queues to and from systemd and of the   *)
(* unit is of its type at all times.                                       *)
THEOREM SwitchTypeCorrect == ServicesSpec => []Switch!TypeOK
<1>1. SwitchP!IInv => Switch!TypeOK
  BY DEF SwitchP!IInv, Switch!TypeOK, SwitchP!TypeOK, Switch!States, SwitchP!States,
     Switch!Messages, SwitchP!Messages, Switch!Methods, SwitchP!Methods, Switch!Systemd,
     SwitchP!Systemd, Switch!ActiveStates, SwitchP!ActiveStates
<1> QED BY <1>1, SwitchInvariance, PTL

(* Once all signals are handled the switch shows what the unit does, for   *)
(* queues of any length and whatever else uses the unit (gotUnitPath,      *)
(* propertiesChanged, handleUnitNew, handleUnitRemoved, checkUnitState).   *)
THEOREM SwitchShowsUnit == ServicesSpec => []QuietMeansRight
<1>1. SwitchP!IInv => QuietMeansRight
  BY SwitchP!InvImplies DEF QuietMeansRight, Switch!QuietMeansRight,
     SwitchP!QuietMeansRight, Switch!Quiet, SwitchP!Quiet, Switch!Checked, SwitchP!Checked,
     Switch!Busy, SwitchP!Busy, Switch!Down, SwitchP!Down
<1> QED BY <1>1, SwitchInvariance, PTL

(* What the page shows of enabling and masking is what systemd has, once   *)
(* calls and signals are through (gotUnitPath, propertiesChanged,          *)
(* maskingChanged, reloaded).                                              *)
THEOREM PageShowsUnitFile == ServicesSpec => []ShownIsTrue
<1>1. SwitchP!IInv => ShownIsTrue
  BY SwitchP!InvImplies DEF ShownIsTrue, Switch!ShownIsTrue, SwitchP!ShownIsTrue
<1> QED BY <1>1, SwitchInvariance, PTL

(* The unit and its enabling end up as the last click wanted them, however *)
(* many clicks came before their effect was seen (start, stop,             *)
(* setEnabled).                                                            *)
THEOREM LastClickWins == ServicesSpec => []SwitchAgrees
<1>1. SwitchP!IInv => SwitchAgrees
  BY SwitchP!InvImplies DEF SwitchAgrees, Switch!SwitchAgrees, SwitchP!SwitchAgrees
<1> QED BY <1>1, SwitchInvariance, PTL

-----------------------------------------------------------------------------
(* The switch for a mark                                                   *)

(* Why the mark has to be set before the helper is run: a job that systemd *)
(* has is of a click whose mark is there, unless the page is about to give *)
(* it another, and a start that skips the unit leaves it as the mark says. *)
MarkLeads ==
  ~astray =>
    IF page = "marked"
    THEN mark = checked
    ELSE /\ job = "start" => mark
         /\ job = "stop" => ~mark
         /\ job = "none" /\ service # "restarting" => (service = "active" <=> mark)

MarksInv == Marks!TypeOK /\ MarkLeads

LEMMA MarksInit == ServicesInit => MarksInv
BY DEF ServicesInit, Marks!Init, Marks!TypeOK, Marks!Conditioned, MarksInv, MarkLeads

LEMMA MarksNext == MarksInv /\ [ServicesNext]_allVars => MarksInv'
<1> SUFFICES ASSUME MarksInv, [ServicesNext]_allVars PROVE MarksInv'
  OBVIOUS
<1> USE DEF MarksInv, MarkLeads, Marks!TypeOK
<1>1. CASE Marks!PageOpens
  BY <1>1 DEF Marks!PageOpens
<1>2. CASE Marks!Click
  BY <1>2 DEF Marks!Click, Marks!Marked
<1>3. CASE Marks!RunServiceHelper
  BY <1>3 DEF Marks!RunServiceHelper
<1>4. CASE Marks!HelperFails
  BY <1>4 DEF Marks!HelperFails
<1>5. CASE Marks!PageEnds
  BY <1>5 DEF Marks!PageEnds
<1>6. CASE Marks!JobDone
  BY <1>6 DEF Marks!JobDone, Marks!Conditioned
<1>7. CASE Marks!ServiceEnds
  BY <1>7 DEF Marks!ServiceEnds
<1>8. CASE Marks!Restarted
  BY <1>8 DEF Marks!Restarted, Marks!Conditioned
<1>9. CASE Marks!Reboot
  BY <1>9 DEF Marks!Reboot, Marks!Conditioned
<1>10. CASE SpyStep \/ CollectorStep \/ SwitchStep \/ UNCHANGED allVars
  BY <1>10 DEF SpyStep, CollectorStep, SwitchStep, allVars, markVars
<1> QED BY <1>1, <1>2, <1>3, <1>4, <1>5, <1>6, <1>7, <1>8, <1>9, <1>10
     DEF ServicesNext, MarksStep, Marks!Next

LEMMA MarksInvariance == ServicesSpec => []MarksInv
BY MarksInit, MarksNext, PTL DEF ServicesSpec

(* The state of the mark, its switch and its unit is of its type.          *)
THEOREM MarksTypeCorrect == ServicesSpec => []Marks!TypeOK
<1>1. MarksInv => Marks!TypeOK
  BY DEF MarksInv
<1> QED BY <1>1, MarksInvariance, PTL

(* Once a click is through, and after every boot, the unit runs if and     *)
(* only if the mark is there, however often the page is closed or killed   *)
(* and the unit ends in between (setEnduranceEnabled, runServiceHelper).   *)
THEOREM MarkAndUnitAgree == ServicesSpec => []RunsAsMarked
<1>1. MarksInv => RunsAsMarked
  BY DEF MarksInv, MarkLeads, Marks!TypeOK, RunsAsMarked, Marks!RunsAsMarked
<1> QED BY <1>1, MarksInvariance, PTL

-----------------------------------------------------------------------------
(* The parts together                                                      *)

(* No part notices the others: a behaviour of the four is one of each.     *)
LEMMA EachAsIfAlone == ServicesSpec => Spec /\ Collector!Spec /\ Switch!Spec /\ Marks!Spec
<1>1. ServicesInit => Init /\ Collector!Init /\ Switch!Init /\ Marks!Init
  BY DEF ServicesInit
<1>2. ASSUME [ServicesNext]_allVars
      PROVE  /\ [Next]_vars /\ [Collector!Next]_Collector!vars
             /\ [Switch!Next]_Switch!vars /\ [Marks!Next]_Marks!vars
  <2> USE DEF collectorVars, switchVars, markVars, Collector!vars, Switch!vars, Marks!vars
  <2>1. CASE SpyStep
    BY <2>1 DEF SpyStep
  <2>2. CASE CollectorStep
    BY <2>2 DEF CollectorStep
  <2>3. CASE SwitchStep
    BY <2>3 DEF SwitchStep
  <2>4. CASE MarksStep
    BY <2>4 DEF MarksStep
  <2>5. CASE UNCHANGED allVars
    BY <2>5 DEF allVars
  <2> QED BY <1>2, <2>1, <2>2, <2>3, <2>4, <2>5 DEF ServicesNext
<1> QED BY <1>1, <1>2, PTL DEF ServicesSpec, Spec, Collector!Spec, Switch!Spec, Marks!Spec

(* So what is proved of the journal spy holds among the others: a hit is   *)
(* silent if and only if one of its expression came within the silent      *)
(* period (handleJournalEntries).                                          *)
THEOREM SpyAmongOthers == ServicesSpec => []SilentIffRecent
BY EachAsIfAlone, SilenceIsDeserved, PTL

(* Types, of the four parts together.                                      *)
THEOREM ServicesTypeCorrect == ServicesSpec => []ServicesTypeOK
<1> DEFINE Turns == turn \in {"spy", "collector", "switch", "marks"}
<1>1. ServicesInit => Turns
  BY DEF ServicesInit
<1>2. Turns /\ [ServicesNext]_allVars => Turns'
  BY DEF ServicesNext, SpyStep, CollectorStep, SwitchStep, MarksStep, Alone, allVars
<1>3. Turns /\ TypeOK /\ Collector!TypeOK /\ Switch!TypeOK /\ Marks!TypeOK => ServicesTypeOK
  BY DEF ServicesTypeOK
<1> QED BY <1>1, <1>2, <1>3, EachAsIfAlone, SpyTypeCorrect, CollectorTypeCorrect,
           SwitchTypeCorrect, MarksTypeCorrect, PTL DEF ServicesSpec
=============================================================================
