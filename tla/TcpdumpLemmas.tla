--------------------------- MODULE TcpdumpLemmas ---------------------------
(***************************************************************************)
(* Lemmas about the pages of a tcpdump report: the order of its rows, and  *)
(* what the loop of TcpdumpPlotter has drawn after each row.               *)
(***************************************************************************)
EXTENDS PlotLemmas

(* Induction over the numbers up to n, for a set of numbers.               *)
LEMMA Upwards ==
  ASSUME NEW n \in Nat, NEW A, 0 \in A, \A i \in 1 .. n : i - 1 \in A => i \in A
  PROVE  0 .. n \subseteq A
  <1> SUFFICES ASSUME ~(0 .. n \subseteq A) PROVE FALSE
    OBVIOUS
  <1> DEFINE T == (0 .. n) \ A
  <1>1. IsFiniteSet(T)
    <2>1. IsFiniteSet(0 .. n)
      BY FS_Interval
    <2>2. QED
      BY <2>1, FS_Difference
  <1>2. T # {} /\ T \subseteq Int
    OBVIOUS
  <1>3. PICK m \in T : \A k \in T : m <= k
    <2> HIDE DEF T
    <2>1. QED
      BY <1>1, <1>2, LeastOf
  <1>4. m \in 1 .. n
    BY <1>3
  <1>5. m - 1 \in 0 .. n /\ m - 1 \notin T
    BY <1>3, <1>4
  <1>6. QED
    BY <1>3, <1>4, <1>5

(***************************************************************************)
(* The order of the rows.                                                  *)
(***************************************************************************)

ByStreams(R) == \A i, j \in DOMAIN R : i <= j => R[i].stream <= R[j].stream

(* Every row has a place of its own, those of smaller streams first.       *)
LEMMA PlacesApart ==
  ASSUME NEW report \in Seq(ReportRow)
  PROVE  LET n == Len(report)
         IN /\ n \in Nat /\ DOMAIN report = 1 .. n
            /\ \A i \in 1 .. n : Place(report, i) \in 1 .. n
            /\ \A i, j \in 1 .. n : Place(report, i) = Place(report, j) => i = j
            /\ \A i, j \in 1 .. n :
                 Place(report, i) <= Place(report, j) => report[i].stream <= report[j].stream
  <1> DEFINE n == Len(report)
             Less(j, i) == \/ report[j].stream < report[i].stream
                           \/ report[j].stream = report[i].stream /\ j <= i
             Before(i) == {j \in 1 .. n : Less(j, i)}
  <1>1. n \in Nat /\ DOMAIN report = 1 .. n /\ \A i \in 1 .. n : report[i].stream \in Nat
    <2>1. n \in Nat /\ DOMAIN report = 1 .. n
      BY LenProperties
    <2>2. \A i \in 1 .. n : report[i] \in ReportRow
      BY ElementOfSeq
    <2>3. \A row \in ReportRow : row.stream \in Nat
      BY DEF ReportRow
    <2>4. QED
      BY <2>1, <2>2, <2>3
  <1>2. IsFiniteSet(1 .. n) /\ Cardinality(1 .. n) = n
    BY <1>1, FirstNumbers
  <1>3. \A i : Place(report, i) = Cardinality(Before(i))
    BY <1>1 DEF Place
  <1>4. \A i \in 1 .. n : /\ Before(i) \in SUBSET (1 .. n) /\ i \in Before(i)
                         /\ IsFiniteSet(Before(i)) /\ Cardinality(Before(i)) \in 1 .. n
    <2> SUFFICES ASSUME NEW i \in 1 .. n
                 PROVE  /\ Before(i) \in SUBSET (1 .. n) /\ i \in Before(i)
                        /\ IsFiniteSet(Before(i)) /\ Cardinality(Before(i)) \in 1 .. n
      OBVIOUS
    <2>1. Before(i) \in SUBSET (1 .. n) /\ i \in Before(i)
      BY <1>1
    <2> HIDE DEF Before
    <2>2. IsFiniteSet(Before(i)) /\ Cardinality(Before(i)) <= n /\ Cardinality(Before(i)) \in Nat
      BY <1>2, <2>1, FS_Subset, FS_CardinalityType
    <2>3. Cardinality(Before(i)) # 0
      BY <2>1, <2>2, FS_EmptySet
    <2>4. QED
      BY <1>1, <2>1, <2>2, <2>3
  <1>5. \A i, j \in 1 .. n : Less(i, j) \/ Less(j, i)
    BY <1>1
  <1>6. \A i, j \in 1 .. n : i # j => ~(Less(i, j) /\ Less(j, i))
    BY <1>1
  <1>7. \A i, j, k \in 1 .. n : Less(k, i) /\ Less(i, j) => Less(k, j)
    BY <1>1
  <1>8. ASSUME NEW i \in 1 .. n, NEW j \in 1 .. n, i # j, Less(i, j)
        PROVE  Cardinality(Before(i)) < Cardinality(Before(j))
    <2>1. Before(i) \in SUBSET Before(j)
      BY <1>7, <1>8
    <2>2. j \in Before(j) /\ j \notin Before(i)
      BY <1>4, <1>6, <1>8
    <2> HIDE DEF Before
    <2>3. /\ IsFiniteSet(Before(j)) /\ Cardinality(Before(i)) \in Nat /\ Cardinality(Before(j)) \in Nat
      BY <1>4
    <2>4. /\ Cardinality(Before(i)) <= Cardinality(Before(j))
          /\ Cardinality(Before(j)) = Cardinality(Before(i)) => Before(j) = Before(i)
      BY <2>1, <2>3, FS_Subset
    <2>5. QED
      BY <2>2, <2>3, <2>4
  <1> HIDE DEF Before
  <1>9. \A i, j \in 1 .. n : Place(report, i) = Place(report, j) => i = j
    <2> SUFFICES ASSUME NEW i \in 1 .. n, NEW j \in 1 .. n, i # j, Place(report, i) = Place(report, j)
                 PROVE  FALSE
      OBVIOUS
    <2>1. Cardinality(Before(i)) = Cardinality(Before(j)) /\ Cardinality(Before(i)) \in Nat
      BY <1>3, <1>4
    <2> HIDE DEF Less
    <2>2. QED
      BY <1>5, <1>8, <2>1
  <1>10. \A i, j \in 1 .. n :
           Place(report, i) <= Place(report, j) => report[i].stream <= report[j].stream
    <2> SUFFICES ASSUME NEW i \in 1 .. n, NEW j \in 1 .. n, Place(report, i) <= Place(report, j),
                        ~(report[i].stream <= report[j].stream)
                 PROVE  FALSE
      OBVIOUS
    <2>1. report[i].stream \in Nat /\ report[j].stream \in Nat
      BY <1>1
    <2>3. i # j /\ Less(j, i)
      BY <2>1
    <2>2. Cardinality(Before(i)) \in Nat /\ Cardinality(Before(j)) \in Nat
      BY <1>4
    <2> HIDE DEF Less
    <2>4. QED
      BY <1>3, <1>8, <2>2, <2>3
  <1>11. QED
    BY <1>1, <1>3, <1>4, <1>9, <1>10

(* The sorted rows are those of the report, in the order of their streams. *)
LEMMA SortedRows ==
  ASSUME NEW report \in Seq(ReportRow)
  PROVE  LET R == ByStream(report)
         IN /\ R \in Seq(ReportRow) /\ Len(R) \in Nat /\ DOMAIN R = 1 .. Len(R)
            /\ \A i \in 1 .. Len(R) : R[i] \in ReportRow
            /\ ByStreams(R)
  <1> DEFINE n == Len(report)
             R == ByStream(report)
             at_(k) == CHOOSE i \in 1 .. n : Place(report, i) = k
             f == [i \in 1 .. n |-> Place(report, i)]
  <1>1. /\ n \in Nat /\ DOMAIN report = 1 .. n
        /\ \A i \in 1 .. n : Place(report, i) \in 1 .. n
        /\ \A i, j \in 1 .. n : Place(report, i) = Place(report, j) => i = j
        /\ \A i, j \in 1 .. n :
             Place(report, i) <= Place(report, j) => report[i].stream <= report[j].stream
    BY PlacesApart
  <1>2. \A k \in 1 .. n : \E i \in 1 .. n : Place(report, i) = k
    <2>1. f \in [1 .. n -> 1 .. n] /\ \A i, j \in 1 .. n : f[i] = f[j] => i = j
      BY <1>1
    <2>2. IsFiniteSet(1 .. n)
      BY <1>1, FS_Interval
    <2> HIDE DEF f, n
    <2>3. f \in Injection(1 .. n, 1 .. n)
      BY <2>1 DEF Injection, IsInjective
    <2>4. f \in Surjection(1 .. n, 1 .. n)
      BY <2>2, <2>3, FS_Injection
    <2>5. \A k \in 1 .. n : \E i \in 1 .. n : f[i] = k
      BY <2>4 DEF Surjection
    <2>6. QED
      BY <2>5 DEF f
  <1>3. \A k \in 1 .. n : at_(k) \in 1 .. n /\ Place(report, at_(k)) = k
    BY <1>2
  <1>4. R = [k \in 1 .. n |-> report[at_(k)]]
    BY <1>1 DEF ByStream
  <1> HIDE DEF at_, R, n
  <1>5. \A i \in 1 .. n : report[i] \in ReportRow
    BY ElementOfSeq DEF n
  <1>6. R \in Seq(ReportRow) /\ Len(R) = n /\ DOMAIN R = 1 .. n
    <2>1. R \in [1 .. n -> ReportRow]
      BY <1>3, <1>4, <1>5
    <2> HIDE DEF f
    <2>2. n \in Nat /\ DOMAIN R = 1 .. n
      BY <1>1, <2>1
    <2>3. R \in Seq(ReportRow)
      BY <2>1, <2>2, SeqDef, Zenon
    <2>4. Len(R) = n
      BY <2>1, <2>2
    <2>5. QED
      BY <2>2, <2>3, <2>4
  <1>7. ByStreams(R)
    <2> SUFFICES ASSUME NEW i \in 1 .. n, NEW j \in 1 .. n, i <= j PROVE R[i].stream <= R[j].stream
      BY <1>6 DEF ByStreams
    <2>1. Place(report, at_(i)) <= Place(report, at_(j)) /\ at_(i) \in 1 .. n /\ at_(j) \in 1 .. n
      BY <1>3
    <2>2. QED
      BY <1>1, <1>4, <2>1
  <1>8. QED
    BY <1>1, <1>4, <1>3, <1>5, <1>6, <1>7 DEF R

(***************************************************************************)
(* The state of the loop after each row.                                   *)
(***************************************************************************)
After(rows, after) ==
  [i \in 0 .. Len(rows) |->
     IF i = 0 THEN Nothing
     ELSE CHOOSE t \in {Turn(rows, s, i) : s \in {after[i - 1]}} : TRUE]

(* There is such a function of the rows.                                   *)
LEMMA TurnsExist ==
  ASSUME NEW rows, Len(rows) \in Nat
  PROVE  \E after : after = After(rows, after)
  <1> DEFINE n == Len(rows)
             Next1(x, i) == CHOOSE t \in {Turn(rows, s, i) : s \in {x}} : TRUE
             Good(m, f) == f = [i \in 0 .. m |-> IF i = 0 THEN Nothing ELSE Next1(f[i - 1], i)]
             A == {m \in 0 .. n : \E f : Good(m, f)}
  <1>1. 0 \in A
    <2>1. Good(0, [i \in 0 .. 0 |-> Nothing])
      OBVIOUS
    <2> HIDE DEF Good
    <2>2. QED
      BY <2>1
  <1>2. ASSUME NEW m \in 1 .. n, m - 1 \in A PROVE m \in A
    <2>1. PICK f : Good(m - 1, f)
      BY <1>2
    <2> DEFINE g == [i \in 0 .. m |-> IF i = m THEN Next1(f[m - 1], m) ELSE f[i]]
    <2> HIDE DEF Next1
    <2>2. \A i \in 0 .. m - 1 : f[i] = IF i = 0 THEN Nothing ELSE Next1(f[i - 1], i)
      BY <2>1
    <2>3. \A i \in 0 .. m - 1 : g[i] = f[i]
      OBVIOUS
    <2>4. g[m] = Next1(f[m - 1], m)
      OBVIOUS
    <2>5. ASSUME NEW i \in 0 .. m PROVE g[i] = IF i = 0 THEN Nothing ELSE Next1(g[i - 1], i)
      <3>1. CASE i = m
        <4>1. i - 1 \in 0 .. m - 1 /\ i # 0
          BY <3>1
        <4> HIDE DEF g
        <4>2. QED
          BY <2>3, <2>4, <3>1, <4>1
      <3>2. CASE i # m /\ i # 0
        <4>1. i \in 0 .. m - 1 /\ i - 1 \in 0 .. m - 1
          BY <3>2
        <4> HIDE DEF g
        <4>2. QED
          BY <2>2, <2>3, <3>2, <4>1
      <3>3. CASE i = 0
        <4>1. 0 \in 0 .. m - 1
          OBVIOUS
        <4> HIDE DEF g
        <4>2. QED
          BY <2>2, <2>3, <3>3, <4>1
      <3>4. QED
        BY <3>1, <3>2, <3>3
    <2>6. g = [i \in 0 .. m |-> g[i]]
      OBVIOUS
    <2> HIDE DEF g
    <2>7. Good(m, g)
      BY <2>5, <2>6
    <2> HIDE DEF Good
    <2>8. QED
      BY <2>7
  <1> HIDE DEF A
  <1>3. n \in A
    <2>1. n \in Nat /\ n \in 0 .. n
      OBVIOUS
    <2> HIDE DEF n
    <2>2. QED
      BY <1>1, <1>2, <2>1, Upwards
  <1>4. \E f : Good(n, f)
    BY <1>3 DEF A
  <1>5. QED
    BY <1>4 DEF After

\* The states of the loop.
Turns(rows) == CHOOSE after : after = After(rows, after)

(* The state after each row is the turn of the row on the state before.    *)
LEMMA TurnsAre ==
  ASSUME NEW rows, Len(rows) \in Nat
  PROVE  /\ Turns(rows)[0] = Nothing
         /\ \A i \in 1 .. Len(rows) : Turns(rows)[i] = Turn(rows, Turns(rows)[i - 1], i)
  <1>1. Turns(rows) = After(rows, Turns(rows))
    BY TurnsExist DEF Turns
  <1>2. \A i \in 0 .. Len(rows) :
          Turns(rows)[i] =
            IF i = 0 THEN Nothing
            ELSE CHOOSE t \in {Turn(rows, s, i) : s \in {Turns(rows)[i - 1]}} : TRUE
    BY <1>1 DEF After
  <1>3. \A x, i : (CHOOSE t \in {Turn(rows, s, i) : s \in {x}} : TRUE) = Turn(rows, x, i)
    OBVIOUS
  <1>4. QED
    BY <1>2, <1>3

(* Plotted is the state after the last row.                                *)
LEMMA PlottedIs ==
  ASSUME NEW report
  PROVE  Plotted(report) = Turns(ByStream(report))[Len(ByStream(report))]
  BY DEF Plotted, Turns, After

(***************************************************************************)
(* One turn of the loop, field by field.                                   *)
(***************************************************************************)

Fields == {"values", "marks", "firstTs", "previous", "pages", "panic"}

\* The point and the mark of a row, on an axis from origin.
AckPoint(row, i, origin) == [x |-> row.at - origin, row |-> i, rtt |-> row.rtt]
MarkOf(row, i, origin)  == [x |-> row.at - origin, row |-> i, retr |-> row.retr]

Grown(values, row, i, origin) ==
  IF row.acks THEN Append(values, AckPoint(row, i, origin)) ELSE values

Marked(marks, row, i, origin) ==
  IF Retransmitted(row) THEN marks \cup {MarkOf(row, i, origin)} ELSE marks

(* A row adds its point and its mark.                                      *)
LEMMA WithRowIs ==
  ASSUME NEW s, DOMAIN s = Fields, s = [f \in Fields |-> s[f]], NEW row, NEW i
  PROVE  LET t == WithRow(s, row, i)
         IN /\ DOMAIN t = Fields /\ t = [f \in Fields |-> t[f]]
            /\ t.values = Grown(s.values, row, i, s.firstTs)
            /\ t.marks = Marked(s.marks, row, i, s.firstTs)
            /\ t.firstTs = s.firstTs /\ t.previous = s.previous
            /\ t.pages = s.pages /\ t.panic = s.panic
  BY DEF WithRow, Fields, Grown, Marked, AckPoint, MarkOf

\* The page of a stream, and the pages with it if it has lasted.
PageOf(s) ==
  [points |-> s.values, marks |-> s.marks, stream |-> s.previous, title |-> Title(Len(s.pages)),
   axis |-> Axis(Limits(ToSet(s.values)))]

PagesWith(s) == IF Lasts(s.values) THEN Append(s.pages, PageOf(s)) ELSE s.pages

(* The end of a stream adds its page or none, and empties the rest.        *)
LEMMA PageEndIs ==
  ASSUME NEW s, DOMAIN s = Fields, s = [f \in Fields |-> s[f]]
  PROVE  LET t == PageEnd(s)
         IN /\ DOMAIN t = Fields /\ t = [f \in Fields |-> t[f]]
            /\ t.firstTs = s.firstTs /\ t.previous = s.previous
            /\ OutOfRange(Len(s.values)) => t.panic = TRUE
            /\ ~OutOfRange(Len(s.values)) =>
                 /\ t.panic = s.panic /\ t.values = <<>> /\ t.marks = {}
                 /\ t.pages = PagesWith(s)
  BY DEF PageEnd, Fields, NextValues, PagesWith, PageOf

(* A retransmission before the first acknowledgement is passed over.       *)
LEMMA SkipTurn ==
  ASSUME NEW R, NEW i, NEW s, s.panic \/ (s.values = <<>> /\ Retransmitted(R[i]))
  PROVE  Turn(R, s, i) = s
  BY DEF Turn

(* A row is added to the page to come.                                     *)
LEMMA GoOnTurn ==
  ASSUME NEW s, DOMAIN s = Fields, s = [f \in Fields |-> s[f]], NEW R, NEW i, i # Len(R),
         ~s.panic, ~(s.values = <<>> /\ Retransmitted(R[i])),
         s.values = <<>> \/ s.previous = R[i].stream
  PROVE  LET t == Turn(R, s, i)
             o == Origin(s, R[i])
         IN /\ DOMAIN t = Fields /\ t = [f \in Fields |-> t[f]]
            /\ t.values = Grown(s.values, R[i], i, o)
            /\ t.marks = Marked(s.marks, R[i], i, o)
            /\ t.firstTs = o /\ t.previous = R[i].stream
            /\ t.pages = s.pages /\ t.panic = s.panic
  <1> DEFINE o == Origin(s, R[i])
             here == [s EXCEPT !.firstTs = o,
                               !.previous = IF s.values = <<>> THEN R[i].stream ELSE @]
  <1>1. /\ DOMAIN here = Fields /\ here = [f \in Fields |-> here[f]]
        /\ here.values = s.values /\ here.marks = s.marks /\ here.firstTs = o
        /\ here.previous = R[i].stream /\ here.pages = s.pages /\ here.panic = s.panic
    BY DEF Fields
  <1>2. Turn(R, s, i) = WithRow(here, R[i], i)
    BY <1>1 DEF Turn
  <1> HIDE DEF here, o
  <1>3. QED
    BY <1>1, <1>2, WithRowIs DEF o

(* Another stream begins: the page, if the last one has lasted, is drawn.  *)
LEMMA NewStreamTurn ==
  ASSUME NEW s, DOMAIN s = Fields, s = [f \in Fields |-> s[f]], NEW R, NEW i, i # Len(R),
         ~s.panic, s.values # <<>>, s.previous # R[i].stream
  PROVE  LET t == Turn(R, s, i)
         IN /\ OutOfRange(Len(s.values)) => t.panic
            /\ ~OutOfRange(Len(s.values)) =>
                 /\ DOMAIN t = Fields /\ t = [f \in Fields |-> t[f]]
                 /\ t.values = Grown(<<>>, R[i], i, s.firstTs)
                 /\ t.marks = Marked({}, R[i], i, s.firstTs)
                 /\ t.firstTs = s.firstTs /\ t.previous = R[i].stream
                 /\ t.pages = PagesWith(s) /\ t.panic = s.panic
  <1> DEFINE here == [s EXCEPT !.firstTs = Origin(s, R[i]),
                               !.previous = IF s.values = <<>> THEN R[i].stream ELSE @]
             page == PageEnd(s)
             next == [page EXCEPT !.previous = R[i].stream]
  <1>1. here = s
    BY DEF Origin, Fields
  <1>2. Turn(R, s, i) = WithRow(next, R[i], i)
    BY <1>1 DEF Turn
  <1>3. /\ DOMAIN page = Fields /\ page = [f \in Fields |-> page[f]]
        /\ page.firstTs = s.firstTs
        /\ OutOfRange(Len(s.values)) => page.panic = TRUE
        /\ ~OutOfRange(Len(s.values)) =>
             /\ page.panic = s.panic /\ page.values = <<>> /\ page.marks = {}
             /\ page.pages = PagesWith(s)
    BY PageEndIs
  <1> HIDE DEF here, page
  <1>4. /\ DOMAIN next = Fields /\ next = [f \in Fields |-> next[f]]
        /\ next.values = page.values /\ next.marks = page.marks /\ next.firstTs = page.firstTs
        /\ next.previous = R[i].stream /\ next.pages = page.pages /\ next.panic = page.panic
    BY <1>3 DEF Fields
  <1> DEFINE t == WithRow(next, R[i], i)
  <1> HIDE DEF next
  <1>5. /\ DOMAIN t = Fields /\ t = [f \in Fields |-> t[f]]
        /\ t.values = Grown(next.values, R[i], i, next.firstTs)
        /\ t.marks = Marked(next.marks, R[i], i, next.firstTs)
        /\ t.firstTs = next.firstTs /\ t.previous = next.previous
        /\ t.pages = next.pages /\ t.panic = next.panic
    BY <1>4, WithRowIs
  <1> HIDE DEF t
  <1>6. Turn(R, s, i) = t
    BY <1>2 DEF t
  <1>7. OutOfRange(Len(s.values)) => t.panic
    BY <1>3, <1>4, <1>5
  <1>8. ~OutOfRange(Len(s.values)) =>
          /\ t.values = Grown(<<>>, R[i], i, s.firstTs)
          /\ t.marks = Marked({}, R[i], i, s.firstTs)
          /\ t.firstTs = s.firstTs /\ t.previous = R[i].stream
          /\ t.pages = PagesWith(s) /\ t.panic = s.panic
    BY <1>3, <1>4, <1>5
  <1>9. QED
    BY <1>5, <1>6, <1>7, <1>8

\* The page to come with the last row on it.
LastPage(s, row, i) ==
  [s EXCEPT !.values = Grown(@, row, i, Origin(s, row)), !.marks = Marked(@, row, i, Origin(s, row)),
            !.firstTs = Origin(s, row), !.previous = IF s.values = <<>> THEN row.stream ELSE @]

(* The last row goes on the page to come, and that is drawn.               *)
LEMMA LastTurn ==
  ASSUME NEW s, DOMAIN s = Fields, s = [f \in Fields |-> s[f]], NEW R, NEW i, i = Len(R),
         ~s.panic, ~(s.values = <<>> /\ Retransmitted(R[i]))
  PROVE  LET t == Turn(R, s, i)
             last == LastPage(s, R[i], i)
         IN /\ OutOfRange(Len(last.values)) => t.panic
            /\ ~OutOfRange(Len(last.values)) => t.pages = PagesWith(last)
  <1> DEFINE o == Origin(s, R[i])
             here == [s EXCEPT !.firstTs = o,
                               !.previous = IF s.values = <<>> THEN R[i].stream ELSE @]
             last == LastPage(s, R[i], i)
             page == PageEnd(last)
             next == [page EXCEPT !.previous = R[i].stream]
  <1>1. /\ DOMAIN here = Fields /\ here = [f \in Fields |-> here[f]]
        /\ here.values = s.values /\ here.marks = s.marks /\ here.firstTs = o
        /\ here.previous = IF s.values = <<>> THEN R[i].stream ELSE s.previous
        /\ here.pages = s.pages /\ here.panic = s.panic
    BY DEF Fields
  <1>2. Turn(R, s, i) = WithRow([PageEnd(WithRow(here, R[i], i)) EXCEPT !.previous = R[i].stream], R[i], i)
    BY DEF Turn
  <1>3. /\ DOMAIN last = Fields /\ last = [f \in Fields |-> last[f]]
        /\ last.values = Grown(s.values, R[i], i, o)
        /\ last.marks = Marked(s.marks, R[i], i, o)
        /\ last.firstTs = o
        /\ last.previous = IF s.values = <<>> THEN R[i].stream ELSE s.previous
        /\ last.pages = s.pages /\ last.panic = s.panic
    BY DEF LastPage, Fields
  <1> HIDE DEF here, last
  <1>4. WithRow(here, R[i], i) = last
    <2> DEFINE w == WithRow(here, R[i], i)
    <2>1. /\ DOMAIN w = Fields /\ w = [f \in Fields |-> w[f]]
          /\ w.values = Grown(here.values, R[i], i, here.firstTs)
          /\ w.marks = Marked(here.marks, R[i], i, here.firstTs)
          /\ w.firstTs = here.firstTs /\ w.previous = here.previous
          /\ w.pages = here.pages /\ w.panic = here.panic
      BY <1>1, WithRowIs
    <2> HIDE DEF w, o
    <2>2. \A f \in Fields : w[f] = last[f]
      BY <1>1, <1>3, <2>1 DEF Fields
    <2>3. [f \in Fields |-> w[f]] = [f \in Fields |-> last[f]]
      BY <2>2
    <2>4. w = last
      BY <1>3, <2>1, <2>3
    <2>5. QED
      BY <2>4 DEF w
  <1> HIDE DEF o
  <1>5. /\ DOMAIN page = Fields /\ page = [f \in Fields |-> page[f]]
        /\ OutOfRange(Len(last.values)) => page.panic = TRUE
        /\ ~OutOfRange(Len(last.values)) => page.pages = PagesWith(last)
    BY <1>3, PageEndIs
  <1>6. Turn(R, s, i) = WithRow(next, R[i], i)
    BY <1>2, <1>4
  <1> HIDE DEF page
  <1>7. /\ DOMAIN next = Fields /\ next = [f \in Fields |-> next[f]]
        /\ next.pages = page.pages /\ next.panic = page.panic
    BY <1>5 DEF Fields
  <1> HIDE DEF next
  <1>8. QED
    BY <1>5, <1>6, <1>7, WithRowIs DEF last

(***************************************************************************)
(* What the loop has drawn.                                                *)
(***************************************************************************)

\* The rows of a report, in the order of their streams.
SortedReport(R) ==
  /\ R \in Seq(ReportRow) /\ Len(R) \in Nat /\ DOMAIN R = 1 .. Len(R)
  /\ \A i \in 1 .. Len(R) : R[i] \in ReportRow
  /\ ByStreams(R)

(* What the rows of a sorted report are.                                   *)
LEMMA RowFacts ==
  ASSUME NEW R, SortedReport(R)
  PROVE  /\ \A i \in 1 .. Len(R) :
              /\ R[i].at \in Nat /\ R[i].stream \in Nat /\ R[i].acks \in BOOLEAN /\ R[i].rtt \in Int
              /\ R[i].acks \/ R[i].retr # "none"
              /\ Retransmitted(R[i]) <=> R[i].retr # "none"
         /\ \A i, j \in 1 .. Len(R) : i <= j => R[i].stream <= R[j].stream
  <1>1. \A row \in ReportRow :
          /\ row.at \in Nat /\ row.stream \in Nat /\ row.acks \in BOOLEAN /\ row.rtt \in Int
          /\ row.acks \/ row.retr # "none"
    BY DEF ReportRow
  <1>2. DOMAIN R = 1 .. Len(R) /\ (\A i \in 1 .. Len(R) : R[i] \in ReportRow) /\ ByStreams(R)
    BY DEF SortedReport
  <1>3. \A row : Retransmitted(row) <=> row.retr # "none"
    BY DEF Retransmitted
  <1>4. QED
    BY <1>1, <1>2, <1>3 DEF ByStreams

\* The rows of points, and of marks.
RowsIn(values)   == {p.row : p \in ToSet(values)}
RowsMarked(marks) == {m.row : m \in marks}

(* Points are acknowledgements up to row i, in order, on an axis from      *)
(* origin.                                                                 *)
LineUpTo(R, values, i, origin) ==
  /\ values \in Seq(ToSet(values))
  /\ \A k \in DOMAIN values :
       LET row == values[k].row
       IN /\ row \in 1 .. i /\ R[row].acks
          /\ values[k].x = R[row].at - origin /\ values[k].rtt = R[row].rtt
  /\ \A k, l \in DOMAIN values : k < l => values[k].row < values[l].row

(* The page to come of a stream, begun in row b, after row i: every        *)
(* acknowledgement from b on is a point, every retransmission after b is a *)
(* mark, and the stream had retransmissions only before b.  A row that is  *)
(* not of the stream is one of `stray`.                                    *)
PageSoFar(R, values, marks, stream, i, origin, stray) ==
  LET b == values[1].row
  IN /\ values # <<>>
     /\ LineUpTo(R, values, i, origin)
     /\ R[b].stream = stream
     /\ \A j \in b .. i : R[j].stream = stream \/ j \in stray
     /\ \A j \in b .. i : R[j].acks => j \in RowsIn(values)
     /\ \A j \in b .. i : j > b /\ R[j].retr # "none" => j \in RowsMarked(marks)
     /\ \A j \in 1 .. b - 1 : R[j].stream = stream => R[j].retr # "none"
     /\ \A m \in marks : m.row \in 1 .. i /\ (m.row < b \/ m.x = R[m.row].at - origin)

\* What the points become with row i: t.
GrownTo(R, values, i, origin, t) ==
  /\ LineUpTo(R, t, i, origin)
  /\ RowsIn(t) = RowsIn(values) \cup (IF R[i].acks THEN {i} ELSE {})
  /\ values # <<>> => t # <<>> /\ t[1] = values[1]
  /\ values = <<>> /\ R[i].acks => t # <<>> /\ t[1].row = i

(* An acknowledgement is the next point of the line.                       *)
LEMMA GrownLine ==
  ASSUME NEW R, SortedReport(R), NEW i \in 1 .. Len(R), NEW origin \in Int,
         NEW values, LineUpTo(R, values, i - 1, origin)
  PROVE  GrownTo(R, values, i, origin, Grown(values, R[i], i, origin))
  <1> DEFINE t == Grown(values, R[i], i, origin)
             e == AckPoint(R[i], i, origin)
             n == Len(values)
             Of(p) == /\ p.row \in 1 .. i - 1 /\ R[p.row].acks
                      /\ p.x = R[p.row].at - origin /\ p.rtt = R[p.row].rtt
  <1>1. /\ values \in Seq(ToSet(values)) /\ n \in Nat /\ DOMAIN values = 1 .. n
        /\ \A k \in 1 .. n : Of(values[k])
        /\ \A k, l \in 1 .. n : k < l => values[k].row < values[l].row
    BY LenProperties DEF LineUpTo
  <1>2. values = <<>> <=> n = 0
    BY <1>1, EmptySeq
  <1>3. CASE R[i].acks
    <2>1. t = Append(values, e)
      BY <1>3 DEF Grown
    <2>2. /\ t \in Seq(ToSet(t)) /\ Len(t) = n + 1 /\ DOMAIN t = 1 .. n + 1
          /\ \A k \in 1 .. n : t[k] = values[k]
          /\ t[n + 1] = e
      BY <1>1, <2>1, PlotAdded
    <2>3. e.row = i /\ e.x = R[i].at - origin /\ e.rtt = R[i].rtt
      BY DEF AckPoint
    <2> HIDE DEF t, e, n
    <2>4. \A k \in 1 .. n + 1 : k \in 1 .. n \/ k = n + 1
      BY <1>1
    <2>5. \A k \in 1 .. n + 1 :
            /\ t[k].row \in 1 .. i /\ R[t[k].row].acks
            /\ t[k].x = R[t[k].row].at - origin /\ t[k].rtt = R[t[k].row].rtt
      <3> SUFFICES ASSUME NEW k \in 1 .. n + 1
                   PROVE  /\ t[k].row \in 1 .. i /\ R[t[k].row].acks
                          /\ t[k].x = R[t[k].row].at - origin /\ t[k].rtt = R[t[k].row].rtt
        OBVIOUS
      <3>1. CASE k = n + 1
        BY <1>3, <2>2, <2>3, <3>1
      <3>2. CASE k \in 1 .. n
        <4>1. Of(values[k]) /\ t[k] = values[k]
          BY <1>1, <2>2, <3>2
        <4>2. QED
          BY <4>1
      <3>3. QED
        BY <2>4, <3>1, <3>2
    <2>6. \A k, l \in 1 .. n + 1 : k < l => t[k].row < t[l].row
      <3> SUFFICES ASSUME NEW k \in 1 .. n + 1, NEW l \in 1 .. n + 1, k < l PROVE t[k].row < t[l].row
        OBVIOUS
      <3>1. k \in 1 .. n
        BY <1>1
      <3>2. CASE l = n + 1
        <4>1. t[k].row \in 1 .. i - 1 /\ t[l].row = i
          BY <1>1, <2>2, <2>3, <3>1, <3>2
        <4>2. QED
          BY <4>1
      <3>3. CASE l \in 1 .. n
        BY <1>1, <2>2, <3>1, <3>3
      <3>4. QED
        BY <2>4, <3>2, <3>3
    <2>7. LineUpTo(R, t, i, origin)
      BY <2>2, <2>5, <2>6 DEF LineUpTo
    <2>8. RowsIn(t) = RowsIn(values) \cup {i}
      <3>1. ToSet(t) = {t[k] : k \in 1 .. n + 1} /\ ToSet(values) = {values[k] : k \in 1 .. n}
        BY <1>1, <2>2 DEF ToSet
      <3>2. RowsIn(t) = {t[k].row : k \in 1 .. n + 1}
        BY <3>1 DEF RowsIn
      <3>3. RowsIn(values) = {values[k].row : k \in 1 .. n}
        BY <3>1 DEF RowsIn
      <3>4. \A k \in 1 .. n : k \in 1 .. n + 1
        BY <1>1
      <3>5. n + 1 \in 1 .. n + 1
        BY <1>1
      <3>6. {t[k].row : k \in 1 .. n + 1} = {values[k].row : k \in 1 .. n} \cup {i}
        BY <2>2, <2>3, <2>4, <3>4, <3>5
      <3>7. QED
        BY <3>2, <3>3, <3>6
    <2>9. t # <<>>
      BY <1>1, <2>2, EmptySeq
    <2>10. n # 0 => t[1] = values[1]
      BY <1>1, <2>2
    <2>11. n = 0 => t[1].row = i
      BY <2>2, <2>3
    <2>12. QED
      BY <1>2, <1>3, <2>7, <2>8, <2>9, <2>10, <2>11 DEF t, GrownTo
  <1>4. CASE ~R[i].acks
    <2>1. t = values
      BY <1>4 DEF Grown
    <2> HIDE DEF t
    <2>2. \A k \in 1 .. n : values[k].row \in 1 .. i
      BY <1>1
    <2> HIDE DEF n
    <2>3. LineUpTo(R, values, i, origin)
      BY <1>1, <2>2 DEF LineUpTo
    <2>4. QED
      BY <1>4, <2>1, <2>3 DEF t, GrownTo
  <1>5. QED
    BY <1>3, <1>4

(* A retransmission is marked at its place.                                *)
LEMMA MarkedRow ==
  ASSUME NEW row, NEW i, NEW marks, NEW origin
  PROVE  /\ RowsMarked(marks) \subseteq RowsMarked(Marked(marks, row, i, origin))
         /\ row.retr # "none" => i \in RowsMarked(Marked(marks, row, i, origin))
         /\ \A m \in Marked(marks, row, i, origin) :
              m \in marks \/ (m.row = i /\ m.x = row.at - origin)
  <1> DEFINE t == Marked(marks, row, i, origin)
  <1>1. MarkOf(row, i, origin).row = i /\ MarkOf(row, i, origin).x = row.at - origin
    BY DEF MarkOf
  <1>2. CASE Retransmitted(row)
    <2>1. t = marks \cup {MarkOf(row, i, origin)}
      BY <1>2 DEF Marked
    <2> HIDE DEF t
    <2>2. QED
      BY <1>1, <2>1 DEF RowsMarked, t
  <1>3. CASE ~Retransmitted(row)
    <2>1. t = marks
      BY <1>3 DEF Marked
    <2>2. QED
      BY <1>3, <2>1 DEF Retransmitted
  <1>4. QED
    BY <1>2, <1>3

(* A row of its stream, or a stray one, goes on the page to come.          *)
LEMMA GrownPage ==
  ASSUME NEW R, SortedReport(R), NEW i \in 1 .. Len(R), NEW origin \in Int,
         NEW values, NEW marks, NEW stream, NEW stray,
         PageSoFar(R, values, marks, stream, i - 1, origin, {}),
         R[i].stream = stream \/ i \in stray
  PROVE  PageSoFar(R, Grown(values, R[i], i, origin), Marked(marks, R[i], i, origin),
                   stream, i, origin, stray)
  <1> DEFINE b == values[1].row
             t == Grown(values, R[i], i, origin)
             u == Marked(marks, R[i], i, origin)
  <1>1. /\ values # <<>> /\ LineUpTo(R, values, i - 1, origin) /\ R[b].stream = stream
        /\ \A j \in b .. i - 1 : R[j].stream = stream
        /\ \A j \in b .. i - 1 : R[j].acks => j \in RowsIn(values)
        /\ \A j \in b .. i - 1 : j > b /\ R[j].retr # "none" => j \in RowsMarked(marks)
        /\ \A j \in 1 .. b - 1 : R[j].stream = stream => R[j].retr # "none"
        /\ \A m \in marks : m.row \in 1 .. i - 1 /\ (m.row < b \/ m.x = R[m.row].at - origin)
    BY DEF PageSoFar
  <1>2. /\ LineUpTo(R, t, i, origin)
        /\ RowsIn(t) = RowsIn(values) \cup (IF R[i].acks THEN {i} ELSE {})
        /\ t # <<>> /\ t[1] = values[1]
    <2>1. GrownTo(R, values, i, origin, t)
      BY <1>1, GrownLine
    <2>2. QED
      BY <1>1, <2>1 DEF GrownTo
  <1>3. b \in 1 .. i - 1
    <2>1. values \in Seq(ToSet(values))
      BY <1>1 DEF LineUpTo
    <2>2. 1 \in DOMAIN values
      BY <1>1, <2>1, LenProperties, EmptySeq
    <2>3. QED
      BY <1>1, <2>2 DEF LineUpTo
  <1>4. /\ RowsMarked(marks) \subseteq RowsMarked(u)
        /\ R[i].retr # "none" => i \in RowsMarked(u)
        /\ \A m \in u : m \in marks \/ (m.row = i /\ m.x = R[i].at - origin)
    BY MarkedRow
  <1>5. \A j \in b .. i : j \in b .. i - 1 \/ j = i
    BY <1>3
  <1> HIDE DEF t, u, b
  <1>6. \A j \in b .. i : R[j].stream = stream \/ j \in stray
    BY <1>1, <1>5
  <1>7. \A j \in b .. i : R[j].acks => j \in RowsIn(t)
    BY <1>1, <1>2, <1>5
  <1>8. \A j \in b .. i : j > b /\ R[j].retr # "none" => j \in RowsMarked(u)
    BY <1>1, <1>4, <1>5
  <1>9. \A m \in u : m.row \in 1 .. i /\ (m.row < b \/ m.x = R[m.row].at - origin)
    <2>1. ASSUME NEW m \in marks PROVE m.row \in 1 .. i /\ (m.row < b \/ m.x = R[m.row].at - origin)
      BY <1>1, <2>1
    <2>2. QED
      BY <1>4, <2>1
  <1>10. t[1].row = b
    BY <1>2 DEF b
  <1>11. PageSoFar(R, t, u, stream, i, origin, stray)
    BY <1>1, <1>2, <1>6, <1>7, <1>8, <1>9, <1>10 DEF PageSoFar
  <1>12. QED
    BY <1>11 DEF t, u

(* A page begins with an acknowledgement, after the retransmissions of its *)
(* stream, if any.                                                         *)
LEMMA BegunPage ==
  ASSUME NEW R, SortedReport(R), NEW i \in 1 .. Len(R), NEW origin \in Int,
         NEW marks, NEW stray, R[i].acks,
         \A j \in 1 .. i - 1 : R[j].stream = R[i].stream => R[j].retr # "none",
         \A m \in marks : m.row \in 1 .. i - 1
  PROVE  PageSoFar(R, Grown(<<>>, R[i], i, origin), Marked(marks, R[i], i, origin),
                   R[i].stream, i, origin, stray)
  <1> DEFINE none == <<>>
             t == Grown(none, R[i], i, origin)
             u == Marked(marks, R[i], i, origin)
             stream == R[i].stream
  <1>1. LineUpTo(R, none, i - 1, origin) /\ none = <<>>
    <2>1. <<>> \in Seq(ToSet(<<>>)) /\ DOMAIN <<>> = {}
      BY EmptySeq
    <2>2. QED
      BY <2>1 DEF LineUpTo
  <1>2. /\ LineUpTo(R, t, i, origin)
        /\ RowsIn(t) = RowsIn(none) \cup {i}
        /\ t # <<>> /\ t[1].row = i
    <2>1. GrownTo(R, none, i, origin, t)
      BY <1>1, GrownLine
    <2>2. QED
      BY <1>1, <2>1 DEF GrownTo
  <1>3. \A m \in u : m \in marks \/ (m.row = i /\ m.x = R[i].at - origin)
    BY MarkedRow
  <1>4. i \in 1 .. i /\ \A j \in i .. i : j = i
    OBVIOUS
  <1> HIDE DEF t, u
  <1>5. \A m \in u : m.row \in 1 .. i /\ (m.row < i \/ m.x = R[m.row].at - origin)
    <2>1. ASSUME NEW m \in marks PROVE m.row \in 1 .. i /\ m.row < i
      BY <2>1
    <2>2. QED
      BY <1>3, <1>4, <2>1
  <1>6. i \in RowsIn(t)
    BY <1>2
  <1>7. PageSoFar(R, t, u, stream, i, origin, stray)
    BY <1>2, <1>4, <1>5, <1>6 DEF PageSoFar
  <1>8. QED
    BY <1>7 DEF t, u

(* The rows on a page to come are finitely many, and the first is its b.   *)
LEMMA LineFacts ==
  ASSUME NEW R, SortedReport(R), NEW i \in 0 .. Len(R), NEW origin \in Int,
         NEW values, LineUpTo(R, values, i, origin)
  PROVE  /\ values \in Seq(ToSet(values)) /\ Len(values) \in Nat /\ DOMAIN values = 1 .. Len(values)
         /\ values # <<>> => Len(values) > 0 /\ values[1].row \in 1 .. i
         /\ \A k \in 1 .. Len(values) :
              /\ values[k].row \in 1 .. i /\ R[values[k].row].acks
              /\ values[k].x = R[values[k].row].at - origin /\ values[k].x \in Int
              /\ values[k].rtt = R[values[k].row].rtt /\ values[k].rtt \in Int
         /\ \A k, l \in 1 .. Len(values) : k < l => values[k].row < values[l].row
         /\ \A k, l \in 1 .. Len(values) : values[k].row = values[l].row => k = l
         /\ \A k \in 1 .. Len(values) : values[1].row <= values[k].row
         /\ RowsIn(values) = {values[k].row : k \in 1 .. Len(values)}
         /\ RowsIn(values) \subseteq 1 .. i
  <1> DEFINE n == Len(values)
  <1>1. /\ values \in Seq(ToSet(values)) /\ n \in Nat /\ DOMAIN values = 1 .. n
        /\ \A k \in 1 .. n :
              /\ values[k].row \in 1 .. i /\ R[values[k].row].acks
              /\ values[k].x = R[values[k].row].at - origin
              /\ values[k].rtt = R[values[k].row].rtt
        /\ \A k, l \in 1 .. n : k < l => values[k].row < values[l].row
    BY LenProperties DEF LineUpTo
  <1>2. values # <<>> => n > 0
    BY <1>1, EmptySeq
  <1>3. ToSet(values) = {values[k] : k \in 1 .. n}
    BY <1>1 DEF ToSet
  <1>4. RowsIn(values) = {values[k].row : k \in 1 .. n}
    BY <1>3 DEF RowsIn
  <1> HIDE DEF n
  <1>5. RowsIn(values) \subseteq 1 .. i
    BY <1>1, <1>4
  <1>6. n > 0 => values[1].row \in 1 .. i
    BY <1>1
  <1>7. \A k \in 1 .. n : values[k].row \in Int
    BY <1>1
  <1>8. \A k, l \in 1 .. n : values[k].row = values[l].row => k = l
    BY <1>1, <1>7
  <1>9. \A k \in 1 .. n : values[1].row <= values[k].row
    BY <1>1, <1>7
  <1>10. \A k \in 1 .. n : values[k].x \in Int /\ values[k].rtt \in Int
    <2> SUFFICES ASSUME NEW k \in 1 .. n PROVE values[k].x \in Int /\ values[k].rtt \in Int
      OBVIOUS
    <2>1. values[k].row \in 1 .. Len(R)
      BY <1>1 DEF SortedReport
    <2>2. R[values[k].row].at \in Nat /\ R[values[k].row].rtt \in Int
      BY <2>1, RowFacts
    <2>3. QED
      BY <1>1, <2>2
  <1>11. QED
    BY <1>1, <1>2, <1>4, <1>5, <1>6, <1>8, <1>9, <1>10 DEF n

(* The points last as long as their rows.                                  *)
LEMMA LineLasts ==
  ASSUME NEW R, SortedReport(R), NEW i \in 0 .. Len(R), NEW origin \in Int, StepDuration \in Int,
         NEW values, values # <<>>, LineUpTo(R, values, i, origin)
  PROVE  /\ Lasts(values) => Long(R, RowsIn(values))
         /\ \A rows \in SUBSET RowsIn(values) : Long(R, rows) => Lasts(values)
  <1> DEFINE n == Len(values)
             X == {p.x : p \in ToSet(values)}
  <1>1. /\ n \in Nat /\ n > 0 /\ DOMAIN values = 1 .. n
        /\ \A k \in 1 .. n :
              /\ values[k].row \in 1 .. i
              /\ values[k].x = R[values[k].row].at - origin /\ values[k].x \in Int
        /\ RowsIn(values) = {values[k].row : k \in 1 .. n}
    BY LineFacts
  <1>2. X = {values[k].x : k \in 1 .. n}
    <2>1. ToSet(values) = {values[k] : k \in 1 .. n}
      BY <1>1 DEF ToSet
    <2>2. QED
      BY <2>1
  <1>3. IsFiniteSet(X)
    <2> DEFINE f == [k \in 1 .. n |-> values[k].x]
    <2>1. f \in Surjection(1 .. n, X)
      BY <1>2 DEF Surjection
    <2>2. IsFiniteSet(1 .. n)
      BY <1>1, FS_Interval
    <2>3. QED
      BY <2>1, <2>2, FS_Surjection
  <1>5. Lasts(values) <=> 10 * (Max(X) - Min(X)) >= 9 * StepDuration
    BY DEF Lasts
  <1> HIDE DEF X
  <1>4. X # {} /\ X \subseteq Int
    <2>1. values[1].x \in X
      BY <1>1, <1>2
    <2>2. QED
      BY <1>1, <1>2, <2>1
  <1>6. /\ Min(X) \in X /\ \A y \in X : Min(X) <= y
        /\ Max(X) \in X /\ \A y \in X : Max(X) >= y
    BY <1>3, <1>4, LeastOf, GreatestOf
  <1>7. \A k \in 1 .. n : R[values[k].row].at \in Int
    <2> SUFFICES ASSUME NEW k \in 1 .. n PROVE R[values[k].row].at \in Int
      OBVIOUS
    <2>1. values[k].row \in 1 .. Len(R)
      BY <1>1 DEF SortedReport
    <2>2. QED
      BY <2>1, RowFacts
  <1> HIDE DEF n
  <1>11. \A k, l \in 1 .. n : values[l].x - values[k].x = R[values[l].row].at - R[values[k].row].at
    <2> SUFFICES ASSUME NEW k \in 1 .. n, NEW l \in 1 .. n
                 PROVE  values[l].x - values[k].x = R[values[l].row].at - R[values[k].row].at
      OBVIOUS
    <2> DEFINE a == R[values[k].row].at
               z == R[values[l].row].at
    <2>1. values[k].x = a - origin /\ values[l].x = z - origin /\ a \in Int /\ z \in Int
      BY <1>1, <1>7
    <2> HIDE DEF a, z
    <2>2. values[l].x - values[k].x = z - a
      BY <2>1
    <2>3. QED
      BY <2>2 DEF a, z
  <1>8. ASSUME Lasts(values) PROVE Long(R, RowsIn(values))
    <2>1. PICK k \in 1 .. n : values[k].x = Min(X)
      BY <1>2, <1>6
    <2>2. PICK l \in 1 .. n : values[l].x = Max(X)
      BY <1>2, <1>6
    <2>3. Max(X) - Min(X) = R[values[l].row].at - R[values[k].row].at
      BY <1>11, <2>1, <2>2
    <2>4. 10 * (R[values[l].row].at - R[values[k].row].at) >= 9 * StepDuration
      BY <1>5, <1>8, <2>3
    <2>5. values[k].row \in RowsIn(values) /\ values[l].row \in RowsIn(values)
      BY <1>1
    <2>6. QED
      BY <2>4, <2>5 DEF Long
  <1>9. ASSUME NEW rows \in SUBSET RowsIn(values), Long(R, rows) PROVE Lasts(values)
    <2>1. PICK a \in rows, z \in rows : 10 * (R[z].at - R[a].at) >= 9 * StepDuration
      BY <1>9 DEF Long
    <2>2. PICK k \in 1 .. n : values[k].row = a
      BY <1>1
    <2>3. PICK l \in 1 .. n : values[l].row = z
      BY <1>1
    <2>4. values[l].x - values[k].x = R[z].at - R[a].at
      BY <1>11, <2>2, <2>3
    <2>5. /\ values[l].x \in X /\ values[k].x \in X /\ Max(X) \in Int /\ Min(X) \in Int
          /\ values[l].x \in Int /\ values[k].x \in Int
      BY <1>1, <1>2, <1>4, <1>6
    <2>6. Max(X) - Min(X) >= values[l].x - values[k].x
      BY <1>6, <2>5
    <2>7. R[z].at - R[a].at \in Int
      BY <2>4, <2>5
    <2>8. QED
      BY <1>5, <2>1, <2>4, <2>5, <2>6, <2>7
  <1>10. QED
    BY <1>8, <1>9

(* What is on the page of a stream that has no row left: all its plain     *)
(* acknowledgements, and else only acknowledgements of its own.            *)
LEMMA PageRows ==
  ASSUME NEW R, SortedReport(R), NEW i \in 1 .. Len(R), NEW origin \in Int,
         NEW values, NEW marks, NEW stream, NEW stray,
         PageSoFar(R, values, marks, stream, i, origin, stray),
         \A j \in 1 .. Len(R) : j > i => R[j].stream # stream
  PROVE  /\ PlainAcks(R, stream) \subseteq RowsIn(values)
         /\ RowsIn(values) \subseteq Acks(R, stream) \cup stray
  <1> DEFINE b == values[1].row
             n == Len(values)
  <1>1. /\ values # <<>> /\ LineUpTo(R, values, i, origin)
        /\ \A j \in b .. i : R[j].stream = stream \/ j \in stray
        /\ \A j \in b .. i : R[j].acks => j \in RowsIn(values)
        /\ \A j \in 1 .. b - 1 : R[j].stream = stream => R[j].retr # "none"
    BY DEF PageSoFar
  <1>2. /\ n > 0 /\ b \in 1 .. i
        /\ \A k \in 1 .. n : values[k].row \in 1 .. i /\ R[values[k].row].acks /\ b <= values[k].row
        /\ RowsIn(values) = {values[k].row : k \in 1 .. n}
    BY <1>1, LineFacts
  <1>3. DOMAIN R = 1 .. Len(R) /\ Len(R) \in Nat
    BY DEF SortedReport
  <1> HIDE DEF b, n
  <1>4. ASSUME NEW j \in PlainAcks(R, stream) PROVE j \in RowsIn(values)
    <2>1. j \in 1 .. Len(R) /\ R[j].stream = stream /\ R[j].acks /\ R[j].retr = "none"
      BY <1>3 DEF PlainAcks, Acks
    <2>2. j \in b .. i
      BY <1>1, <1>2, <1>3, <2>1
    <2>3. QED
      BY <1>1, <2>1, <2>2
  <1>5. ASSUME NEW j \in RowsIn(values) PROVE j \in Acks(R, stream) \cup stray
    <2>1. j \in 1 .. i /\ R[j].acks /\ b <= j
      BY <1>2
    <2>2. j \in b .. i /\ j \in 1 .. Len(R)
      BY <1>2, <1>3, <2>1
    <2>3. QED
      BY <1>1, <1>3, <2>1, <2>2 DEF Acks
  <1>6. QED
    BY <1>4, <1>5

(* A page drawn: of a stream without a row left that has lasted a step.    *)
PageGood(R, page, stray) ==
  /\ \E i \in 1 .. Len(R), origin \in Int :
       /\ PageSoFar(R, page.points, page.marks, page.stream, i, origin, stray)
       /\ \A j \in 1 .. Len(R) : j > i => R[j].stream # page.stream
  /\ Lasts(page.points) /\ ~OutOfRange(Len(page.points))
  /\ page.axis = Axis(Limits(ToSet(page.points)))

\* The last page may have a stray row.
PagesGood(R, pages, stray) ==
  /\ pages \in Seq(ToSet(pages))
  /\ \A p \in 1 .. Len(pages) :
       /\ PageGood(R, pages[p], IF p = Len(pages) THEN stray ELSE {})
       /\ pages[p].title = Title(p - 1)
  /\ \A p, q \in 1 .. Len(pages) : p < q => pages[p].stream < pages[q].stream

HasPage(pages, stream) == \E p \in 1 .. Len(pages) : pages[p].stream = stream

(* A page without a stray row is one with any.                             *)
LEMMA StrayMore ==
  ASSUME NEW R, NEW page, NEW stray, PageGood(R, page, {})
  PROVE  PageGood(R, page, stray)
  BY DEF PageGood, PageSoFar

(* So are all pages.                                                       *)
LEMMA StrayMorePages ==
  ASSUME NEW R, NEW pages, NEW stray, PagesGood(R, pages, {})
  PROVE  PagesGood(R, pages, stray)
  BY StrayMore DEF PagesGood

(* The stream of a page is that of a row.                                  *)
LEMMA PageStream ==
  ASSUME NEW R, SortedReport(R), NEW i \in 1 .. Len(R), NEW origin \in Int,
         NEW values, NEW marks, NEW stream, NEW stray,
         PageSoFar(R, values, marks, stream, i, origin, stray)
  PROVE  stream \in Nat /\ \E j \in 1 .. i : R[j].stream = stream
  <1>1. values # <<>> /\ LineUpTo(R, values, i, origin) /\ R[values[1].row].stream = stream
    BY DEF PageSoFar
  <1>2. values[1].row \in 1 .. i
    BY <1>1, LineFacts
  <1>3. values[1].row \in 1 .. Len(R)
    BY <1>2 DEF SortedReport
  <1>4. QED
    BY <1>1, <1>2, <1>3, RowFacts

(* The end of a stream: its page follows the others, if it has lasted.     *)
LEMMA PageDrawn ==
  ASSUME NEW R, SortedReport(R), StepDuration \in Int, NEW i \in 1 .. Len(R),
         NEW s, s.firstTs \in Int, NEW stray,
         PagesGood(R, s.pages, {}),
         \A p \in 1 .. Len(s.pages) : s.pages[p].stream < s.previous,
         PageSoFar(R, s.values, s.marks, s.previous, i, s.firstTs, stray),
         \A j \in 1 .. Len(R) : j > i => R[j].stream # s.previous,
         ~OutOfRange(Len(s.values))
  PROVE  /\ PagesGood(R, PagesWith(s), stray)
         /\ \A p \in 1 .. Len(PagesWith(s)) :
              PagesWith(s)[p].stream < s.previous \/ PagesWith(s)[p].stream = s.previous
         /\ \A k : HasPage(s.pages, k) => HasPage(PagesWith(s), k)
         /\ Long(R, PlainAcks(R, s.previous)) => HasPage(PagesWith(s), s.previous)
  <1> DEFINE n == Len(s.pages)
             e == PageOf(s)
             t == PagesWith(s)
  <1>1. /\ s.pages \in Seq(ToSet(s.pages)) /\ n \in Nat
        /\ \A p \in 1 .. n : PageGood(R, s.pages[p], {}) /\ s.pages[p].title = Title(p - 1)
        /\ \A p, q \in 1 .. n : p < q => s.pages[p].stream < s.pages[q].stream
    BY LenProperties DEF PagesGood
  <1>2. /\ s.values # <<>> /\ LineUpTo(R, s.values, i, s.firstTs)
        /\ PlainAcks(R, s.previous) \subseteq RowsIn(s.values)
    BY PageRows DEF PageSoFar
  <1>3. Long(R, PlainAcks(R, s.previous)) => Lasts(s.values)
    BY <1>2, LineLasts DEF SortedReport
  <1>4. CASE Lasts(s.values)
    <2>1. t = Append(s.pages, e)
      BY <1>4 DEF PagesWith
    <2>2. /\ t \in Seq(ToSet(t)) /\ Len(t) = n + 1 /\ DOMAIN t = 1 .. n + 1
          /\ \A p \in 1 .. n : t[p] = s.pages[p]
          /\ t[n + 1] = e
      BY <1>1, <2>1, PlotAdded
    <2>3. /\ e.points = s.values /\ e.marks = s.marks /\ e.stream = s.previous
          /\ e.title = Title(n) /\ e.axis = Axis(Limits(ToSet(s.values)))
      BY DEF PageOf
    <2>4. PageGood(R, e, stray)
      BY <1>4, <2>3 DEF PageGood
    <2> HIDE DEF e, t, n
    <2>5. \A p \in 1 .. n + 1 : p \in 1 .. n \/ p = n + 1
      BY <1>1
    <2>6. \A p \in 1 .. n + 1 :
            PageGood(R, t[p], IF p = n + 1 THEN stray ELSE {}) /\ t[p].title = Title(p - 1)
      <3> SUFFICES ASSUME NEW p \in 1 .. n + 1
                   PROVE  PageGood(R, t[p], IF p = n + 1 THEN stray ELSE {}) /\ t[p].title = Title(p - 1)
        OBVIOUS
      <3>1. CASE p \in 1 .. n
        <4>1. p # n + 1
          BY <1>1, <3>1
        <4>2. QED
          BY <1>1, <2>2, <3>1, <4>1
      <3>2. CASE p = n + 1
        <4>1. p - 1 = n
          BY <1>1, <3>2
        <4>2. QED
          BY <2>2, <2>3, <2>4, <3>2, <4>1
      <3>3. QED
        BY <2>5, <3>1, <3>2
    <2>7. \A p, q \in 1 .. n + 1 : p < q => t[p].stream < t[q].stream
      <3> SUFFICES ASSUME NEW p \in 1 .. n + 1, NEW q \in 1 .. n + 1, p < q
                   PROVE  t[p].stream < t[q].stream
        OBVIOUS
      <3>1. p \in 1 .. n
        BY <1>1
      <3>2. CASE q = n + 1
        BY <2>2, <2>3, <3>1, <3>2 DEF n
      <3>3. CASE q \in 1 .. n
        BY <1>1, <2>2, <3>1, <3>3
      <3>4. QED
        BY <2>5, <3>2, <3>3
    <2>8. PagesGood(R, t, stray)
      BY <2>2, <2>6, <2>7 DEF PagesGood
    <2>9. \A p \in 1 .. Len(t) : t[p].stream < s.previous \/ t[p].stream = s.previous
      BY <2>2, <2>3, <2>5 DEF n
    <2>10. \A k : HasPage(s.pages, k) => HasPage(t, k)
      <3>1. \A p \in 1 .. n : p \in 1 .. n + 1
        BY <1>1
      <3>2. QED
        BY <2>2, <3>1 DEF HasPage, n
    <2>11. HasPage(t, s.previous)
      <3>1. n + 1 \in 1 .. n + 1
        BY <1>1
      <3>2. QED
        BY <2>2, <2>3, <3>1 DEF HasPage
    <2>12. QED
      BY <2>8, <2>9, <2>10, <2>11 DEF t
  <1>5. CASE ~Lasts(s.values)
    <2>1. t = s.pages
      BY <1>5 DEF PagesWith
    <2> HIDE DEF t
    <2>2. PagesGood(R, t, stray)
      BY <2>1, StrayMorePages
    <2>3. QED
      BY <1>3, <1>5, <2>1, <2>2 DEF t
  <1>6. QED
    BY <1>4, <1>5

\* Every stream before row i's that lasts has its page.
Covered(R, pages, i) ==
  \A j \in 1 .. i : R[j].stream < R[i].stream /\ Long(R, PlainAcks(R, R[j].stream))
                      => HasPage(pages, R[j].stream)

PagesBefore(R, pages, i) == \A p \in 1 .. Len(pages) : pages[p].stream < R[i].stream

\* Up to row i, row i's stream has retransmissions only.
OnlyRetransmissions(R, i) == \A j \in 1 .. i : R[j].stream = R[i].stream => R[j].retr # "none"

(* After row i, unless it is the last: the pages are those of the earlier  *)
(* streams, and the page to come is that of row i's.                       *)
Loop(R, s, i) ==
  /\ DOMAIN s = Fields /\ s = [f \in Fields |-> s[f]]
  /\ s.panic = FALSE /\ s.firstTs \in Int
  /\ PagesGood(R, s.pages, {})
  /\ IF i = 0 THEN s.pages = <<>> ELSE PagesBefore(R, s.pages, i)
  /\ Covered(R, s.pages, i)
  /\ \/ /\ s.values = <<>> /\ OnlyRetransmissions(R, i)
        /\ \A m \in s.marks : m.row \in 1 .. i
     \/ /\ s.values # <<>> /\ s.previous = R[i].stream /\ i # 0
        /\ PageSoFar(R, s.values, s.marks, s.previous, i, s.firstTs, {})

(* The pages of earlier streams are of earlier ones still.                 *)
LEMMA EarlierPages ==
  ASSUME NEW R, SortedReport(R), NEW i \in 1 .. Len(R), NEW s, Loop(R, s, i - 1)
  PROVE  PagesBefore(R, s.pages, i)
  <1> SUFFICES \A p \in 1 .. Len(s.pages) : s.pages[p].stream < R[i].stream
    BY DEF PagesBefore
  <1>1. CASE i = 1
    <2>1. s.pages = <<>>
      BY <1>1 DEF Loop
    <2>2. Len(s.pages) = 0
      BY <2>1
    <2>3. QED
      BY <2>2
  <1>2. CASE i # 1
    <2>1. i - 1 \in 1 .. Len(R) /\ Len(R) \in Nat
      BY <1>2 DEF SortedReport
    <2>2. R[i - 1].stream <= R[i].stream /\ R[i - 1].stream \in Nat /\ R[i].stream \in Nat
      BY <2>1, RowFacts
    <2> SUFFICES ASSUME NEW p \in 1 .. Len(s.pages) PROVE s.pages[p].stream < R[i].stream
      OBVIOUS
    <2>3. s.pages[p].stream < R[i - 1].stream
      <3>1. i - 1 # 0
        BY <2>1
      <3>2. PagesBefore(R, s.pages, i - 1)
        BY <3>1 DEF Loop
      <3>3. QED
        BY <3>2 DEF PagesBefore
    <2>4. s.pages[p].stream \in Nat
      <3>1. PageGood(R, s.pages[p], IF p = Len(s.pages) THEN {} ELSE {})
        BY DEF Loop, PagesGood
      <3>2. QED
        BY <3>1, PageStream DEF PageGood
    <2>5. QED
      BY <2>2, <2>3, <2>4
  <1>3. QED
    BY <1>1, <1>2

(* Without a page to come, the streams up to row i have their pages, and   *)
(* row i's has had only retransmissions.                                   *)
LEMMA EmptyMoves ==
  ASSUME NEW R, SortedReport(R), NEW i \in 1 .. Len(R), NEW s, Loop(R, s, i - 1), s.values = <<>>
  PROVE  /\ Covered(R, s.pages, i)
         /\ \A j \in 1 .. i - 1 : R[j].stream = R[i].stream => R[j].retr # "none"
         /\ \A m \in s.marks : m.row \in 1 .. i - 1
  <1>1. /\ Covered(R, s.pages, i - 1) /\ OnlyRetransmissions(R, i - 1)
        /\ \A m \in s.marks : m.row \in 1 .. i - 1
    BY DEF Loop
  <1>2. /\ Len(R) \in Nat /\ DOMAIN R = 1 .. Len(R)
        /\ \A j \in 1 .. Len(R) : R[j].stream \in Nat
        /\ \A j, k \in 1 .. Len(R) : j <= k => R[j].stream <= R[k].stream
    BY RowFacts DEF SortedReport
  <1>3. \A j \in 1 .. i - 1 : R[j].stream = R[i].stream => R[j].retr # "none"
    <2> SUFFICES ASSUME NEW j \in 1 .. i - 1, R[j].stream = R[i].stream PROVE R[j].retr # "none"
      OBVIOUS
    <2>1. j \in 1 .. Len(R) /\ i - 1 \in 1 .. Len(R) /\ j <= i - 1 /\ i - 1 <= i
      BY <1>2
    <2>2. R[j].stream = R[i - 1].stream
      BY <1>2, <2>1
    <2>3. QED
      BY <1>1, <2>2 DEF OnlyRetransmissions
  <1>4. Covered(R, s.pages, i)
    <2> SUFFICES ASSUME NEW j \in 1 .. i, R[j].stream < R[i].stream, Long(R, PlainAcks(R, R[j].stream))
                 PROVE  HasPage(s.pages, R[j].stream)
      BY DEF Covered
    <2>1. /\ j \in 1 .. i - 1 /\ j \in 1 .. Len(R) /\ i - 1 \in 1 .. Len(R)
      BY <1>2
    <2>2. CASE R[j].stream < R[i - 1].stream
      BY <1>1, <2>1, <2>2 DEF Covered
    <2>3. CASE R[j].stream = R[i - 1].stream
      <3>1. PICK k \in PlainAcks(R, R[j].stream) : TRUE
        BY DEF Long
      <3>2. k \in 1 .. Len(R) /\ R[k].stream = R[j].stream /\ R[k].retr = "none"
        BY <1>2 DEF PlainAcks, Acks
      <3>3. k <= i - 1
        BY <1>2, <3>2
      <3>4. QED
        BY <1>1, <2>3, <3>2, <3>3 DEF OnlyRetransmissions
    <2>4. QED
      BY <1>2, <2>1, <2>2, <2>3
  <1>5. QED
    BY <1>1, <1>3, <1>4

(* With a page to come of row i's stream.                                  *)
LEMMA FullMoves ==
  ASSUME NEW R, SortedReport(R), NEW i \in 1 .. Len(R), NEW s, Loop(R, s, i - 1),
         s.values # <<>>, s.previous = R[i].stream
  PROVE  Covered(R, s.pages, i)
  <1>1. Covered(R, s.pages, i - 1) /\ R[i].stream = R[i - 1].stream
    BY DEF Loop
  <1>2. \A j \in 1 .. i : j \in 1 .. i - 1 \/ j = i
    BY DEF SortedReport
  <1>3. R[i].stream \in Nat
    BY RowFacts
  <1>4. QED
    BY <1>1, <1>2, <1>3 DEF Covered

(* With a page to come of an earlier stream, which has no row left.        *)
LEMMA TurnMoves ==
  ASSUME NEW R, SortedReport(R), NEW i \in 1 .. Len(R), NEW s, Loop(R, s, i - 1),
         s.values # <<>>, s.previous # R[i].stream
  PROVE  /\ i # 1 /\ s.previous < R[i].stream /\ s.previous \in Nat /\ R[i].stream \in Nat
         /\ PageSoFar(R, s.values, s.marks, s.previous, i - 1, s.firstTs, {})
         /\ \A j \in 1 .. Len(R) : j > i - 1 => R[j].stream # s.previous
         /\ \A j \in 1 .. i - 1 : R[j].stream # R[i].stream
         /\ \A p \in 1 .. Len(s.pages) : s.pages[p].stream < s.previous
         /\ \A j \in 1 .. i - 1 : R[j].stream <= s.previous
  <1>1. /\ s.previous = R[i - 1].stream /\ i # 1
        /\ PageSoFar(R, s.values, s.marks, s.previous, i - 1, s.firstTs, {})
        /\ \A p \in 1 .. Len(s.pages) : s.pages[p].stream < s.previous
    <2>1. /\ s.previous = R[i - 1].stream /\ i - 1 # 0
          /\ PageSoFar(R, s.values, s.marks, s.previous, i - 1, s.firstTs, {})
      BY DEF Loop
    <2>2. PagesBefore(R, s.pages, i - 1)
      BY <2>1 DEF Loop
    <2>3. QED
      BY <2>1, <2>2 DEF PagesBefore
  <1>2. /\ Len(R) \in Nat /\ i - 1 \in 1 .. Len(R)
        /\ \A j \in 1 .. Len(R) : R[j].stream \in Nat
        /\ \A j, k \in 1 .. Len(R) : j <= k => R[j].stream <= R[k].stream
    <2>1. Len(R) \in Nat
      BY DEF SortedReport
    <2>2. i - 1 \in 1 .. Len(R)
      BY <1>1, <2>1
    <2>3. QED
      BY <2>1, <2>2, RowFacts
  <1>3. s.previous \in Nat /\ R[i].stream \in Nat /\ s.previous < R[i].stream
    BY <1>1, <1>2
  <1>4. \A j \in 1 .. Len(R) : j > i - 1 => R[j].stream # s.previous
    <2> SUFFICES ASSUME NEW j \in 1 .. Len(R), j > i - 1 PROVE R[j].stream # s.previous
      OBVIOUS
    <2>1. R[i].stream <= R[j].stream /\ R[j].stream \in Nat
      BY <1>2
    <2>2. QED
      BY <1>3, <2>1
  <1>5. \A j \in 1 .. i - 1 : j \in 1 .. Len(R) /\ R[j].stream <= s.previous /\ R[j].stream \in Nat
    BY <1>1, <1>2
  <1>6. \A j \in 1 .. i - 1 : R[j].stream # R[i].stream
    BY <1>3, <1>5
  <1>7. QED
    BY <1>1, <1>3, <1>4, <1>5, <1>6

(* The pages when the stream has changed at row i.                         *)
LEMMA TurnPages ==
  ASSUME NEW R, SortedReport(R), StepDuration \in Int, NEW i \in 1 .. Len(R), NEW s, Loop(R, s, i - 1),
         s.values # <<>>, s.previous # R[i].stream, ~OutOfRange(Len(s.values))
  PROVE  /\ PagesGood(R, PagesWith(s), {})
         /\ PagesBefore(R, PagesWith(s), i)
         /\ Covered(R, PagesWith(s), i)
  <1>1. /\ i # 1 /\ s.previous < R[i].stream /\ s.previous \in Nat /\ R[i].stream \in Nat
        /\ PageSoFar(R, s.values, s.marks, s.previous, i - 1, s.firstTs, {})
        /\ \A j \in 1 .. Len(R) : j > i - 1 => R[j].stream # s.previous
        /\ \A p \in 1 .. Len(s.pages) : s.pages[p].stream < s.previous
        /\ \A j \in 1 .. i - 1 : R[j].stream <= s.previous
    BY TurnMoves
  <1>2. i - 1 \in 1 .. Len(R) /\ Len(R) \in Nat
    BY <1>1 DEF SortedReport
  <1>3. /\ s.firstTs \in Int /\ PagesGood(R, s.pages, {}) /\ Covered(R, s.pages, i - 1)
        /\ s.previous = R[i - 1].stream
    BY DEF Loop
  <1>4. /\ PagesGood(R, PagesWith(s), {})
        /\ \A p \in 1 .. Len(PagesWith(s)) :
             PagesWith(s)[p].stream < s.previous \/ PagesWith(s)[p].stream = s.previous
        /\ \A k : HasPage(s.pages, k) => HasPage(PagesWith(s), k)
        /\ Long(R, PlainAcks(R, s.previous)) => HasPage(PagesWith(s), s.previous)
    BY <1>1, <1>2, <1>3, PageDrawn
  <1>5. \A p \in 1 .. Len(PagesWith(s)) : PagesWith(s)[p].stream < R[i].stream
    <2> SUFFICES ASSUME NEW p \in 1 .. Len(PagesWith(s)) PROVE PagesWith(s)[p].stream < R[i].stream
      OBVIOUS
    <2>1. PageGood(R, PagesWith(s)[p], IF p = Len(PagesWith(s)) THEN {} ELSE {})
      BY <1>4 DEF PagesGood
    <2>2. PagesWith(s)[p].stream \in Nat
      BY <2>1, PageStream DEF PageGood
    <2>3. QED
      BY <1>1, <1>4, <2>2
  <1>6. Covered(R, PagesWith(s), i)
    <2> SUFFICES ASSUME NEW j \in 1 .. i, R[j].stream < R[i].stream, Long(R, PlainAcks(R, R[j].stream))
                 PROVE  HasPage(PagesWith(s), R[j].stream)
      BY DEF Covered
    <2>1. j \in 1 .. i - 1 /\ R[j].stream <= s.previous /\ R[j].stream \in Nat
      <3>1. j # i /\ i \in Nat
        BY <1>1, <1>2
      <3>2. j \in 1 .. i - 1 /\ j \in 1 .. Len(R)
        BY <1>2, <3>1
      <3>3. QED
        BY <1>1, <3>2, RowFacts
    <2>2. CASE R[j].stream = s.previous
      BY <1>4, <2>2
    <2>3. CASE R[j].stream # s.previous
      <3>1. R[j].stream < R[i - 1].stream
        BY <1>1, <1>3, <2>1, <2>3
      <3>2. HasPage(s.pages, R[j].stream)
        BY <1>3, <2>1, <3>1 DEF Covered
      <3>3. QED
        BY <1>4, <3>2
    <2>4. QED
      BY <2>2, <2>3
  <1>7. QED
    BY <1>4, <1>5, <1>6 DEF PagesBefore

(* Before the first row nothing is drawn.                                  *)
LEMMA LoopBegins == ASSUME NEW R PROVE Loop(R, Nothing, 0)
  <1> DEFINE s == Nothing
  <1>1. /\ DOMAIN s = Fields /\ s = [f \in Fields |-> s[f]]
        /\ s.panic = FALSE /\ s.firstTs = 0 /\ s.pages = <<>> /\ s.values = <<>> /\ s.marks = {}
    BY DEF Nothing, Fields
  <1> HIDE DEF s
  <1>2. PagesGood(R, <<>>, {})
    <2>1. <<>> \in Seq(ToSet(<<>>)) /\ Len(<<>>) = 0
      BY EmptySeq
    <2>2. QED
      BY <2>1 DEF PagesGood
  <1>3. Covered(R, <<>>, 0) /\ OnlyRetransmissions(R, 0)
    BY DEF Covered, OnlyRetransmissions
  <1>4. Loop(R, s, 0)
    <2>1. \A m \in s.marks : m.row \in 1 .. 0
      BY <1>1
    <2>2. PagesGood(R, s.pages, {}) /\ Covered(R, s.pages, 0)
      BY <1>1, <1>2, <1>3
    <2>3. s.firstTs \in Int
      BY <1>1
    <2>4. QED
      BY <1>1, <1>3, <2>1, <2>2, <2>3 DEF Loop
  <1>5. QED
    BY <1>4 DEF s

(* A turn before the last keeps the invariant of the loop.                 *)
LEMMA LoopStep ==
  ASSUME NEW R, SortedReport(R), StepDuration \in Int, NEW i \in 1 .. Len(R), i # Len(R),
         NEW s, Loop(R, s, i - 1), ~Turn(R, s, i).panic
  PROVE  Loop(R, Turn(R, s, i), i)
  <1> DEFINE t == Turn(R, s, i)
             o == Origin(s, R[i])
  <1>1. /\ DOMAIN s = Fields /\ s = [f \in Fields |-> s[f]]
        /\ s.panic = FALSE /\ s.firstTs \in Int /\ PagesGood(R, s.pages, {})
    BY DEF Loop
  <1>2. /\ R[i].at \in Nat /\ R[i].stream \in Nat /\ R[i].acks \in BOOLEAN
        /\ R[i].acks \/ R[i].retr # "none"
        /\ Retransmitted(R[i]) <=> R[i].retr # "none"
    BY RowFacts
  <1>3. o \in Int
    <2>1. R[i].at \in Int /\ s.firstTs \in Int
      BY <1>1, <1>2
    <2>2. o = R[i].at \/ o = s.firstTs
      BY DEF Origin
    <2> HIDE DEF o
    <2>3. QED
      BY <2>1, <2>2
  <1>4. i # 0 /\ i \in Nat /\ Len(R) \in Nat
    <2>1. Len(R) \in Nat
      BY DEF SortedReport
    <2>2. QED
      BY <2>1
  <1>5. PagesBefore(R, s.pages, i)
    BY EarlierPages
  <1>6. CASE s.values = <<>> /\ Retransmitted(R[i])
    <2>1. t = s
      BY <1>6, SkipTurn
    <2> HIDE DEF t
    <2>2. /\ Covered(R, s.pages, i)
          /\ \A j \in 1 .. i - 1 : R[j].stream = R[i].stream => R[j].retr # "none"
          /\ \A m \in s.marks : m.row \in 1 .. i - 1
      BY <1>6, EmptyMoves
    <2>3. OnlyRetransmissions(R, i)
      <3>1. \A j \in 1 .. i : j \in 1 .. i - 1 \/ j = i
        BY <1>4
      <3>2. QED
        BY <1>2, <1>6, <2>2, <3>1 DEF OnlyRetransmissions
    <2>4. \A m \in s.marks : m.row \in 1 .. i
      BY <1>4, <2>2
    <2>5. Loop(R, s, i)
      BY <1>1, <1>4, <1>5, <1>6, <2>2, <2>3, <2>4 DEF Loop
    <2>6. QED
      BY <2>1, <2>5 DEF t
  <1>7. CASE s.values = <<>> /\ ~Retransmitted(R[i])
    <2>1. /\ DOMAIN t = Fields /\ t = [f \in Fields |-> t[f]]
          /\ t.values = Grown(s.values, R[i], i, o)
          /\ t.marks = Marked(s.marks, R[i], i, o)
          /\ t.firstTs = o /\ t.previous = R[i].stream
          /\ t.pages = s.pages /\ t.panic = s.panic
      BY <1>1, <1>7, GoOnTurn
    <2> HIDE DEF t, o
    <2>2. /\ Covered(R, s.pages, i)
          /\ \A j \in 1 .. i - 1 : R[j].stream = R[i].stream => R[j].retr # "none"
          /\ \A m \in s.marks : m.row \in 1 .. i - 1
      BY <1>7, EmptyMoves
    <2>7. PageSoFar(R, Grown(<<>>, R[i], i, o), Marked(s.marks, R[i], i, o), R[i].stream, i, o, {})
      BY <1>2, <1>3, <1>7, <2>2, BegunPage
    <2>3. PageSoFar(R, t.values, t.marks, t.previous, i, t.firstTs, {})
      BY <1>7, <2>1, <2>7
    <2>4. t.values # <<>>
      BY <2>3 DEF PageSoFar
    <2>5. Loop(R, t, i)
      BY <1>1, <1>3, <1>4, <1>5, <2>1, <2>2, <2>3, <2>4 DEF Loop
    <2>6. QED
      BY <2>5 DEF t
  <1>8. CASE s.values # <<>> /\ s.previous = R[i].stream
    <2>1. /\ DOMAIN t = Fields /\ t = [f \in Fields |-> t[f]]
          /\ t.values = Grown(s.values, R[i], i, o)
          /\ t.marks = Marked(s.marks, R[i], i, o)
          /\ t.firstTs = o /\ t.previous = R[i].stream
          /\ t.pages = s.pages /\ t.panic = s.panic
      BY <1>1, <1>8, GoOnTurn
    <2>2. o = s.firstTs
      BY <1>8 DEF Origin
    <2> HIDE DEF t, o
    <2>3. Covered(R, s.pages, i)
      BY <1>8, FullMoves
    <2>4. PageSoFar(R, s.values, s.marks, s.previous, i - 1, s.firstTs, {})
      BY <1>8 DEF Loop
    <2>9. PageSoFar(R, Grown(s.values, R[i], i, o), Marked(s.marks, R[i], i, o), s.previous, i, o, {})
      BY <1>1, <1>8, <2>2, <2>4, GrownPage
    <2>5. PageSoFar(R, t.values, t.marks, t.previous, i, t.firstTs, {})
      BY <1>8, <2>1, <2>9
    <2>6. t.values # <<>>
      BY <2>5 DEF PageSoFar
    <2>7. Loop(R, t, i)
      BY <1>1, <1>3, <1>4, <1>5, <2>1, <2>3, <2>5, <2>6 DEF Loop
    <2>8. QED
      BY <2>7 DEF t
  <1>9. CASE s.values # <<>> /\ s.previous # R[i].stream
    <2>1. /\ OutOfRange(Len(s.values)) => t.panic
          /\ ~OutOfRange(Len(s.values)) =>
               /\ DOMAIN t = Fields /\ t = [f \in Fields |-> t[f]]
               /\ t.values = Grown(<<>>, R[i], i, s.firstTs)
               /\ t.marks = Marked({}, R[i], i, s.firstTs)
               /\ t.firstTs = s.firstTs /\ t.previous = R[i].stream
               /\ t.pages = PagesWith(s) /\ t.panic = s.panic
      BY <1>1, <1>9, NewStreamTurn
    <2>2. ~OutOfRange(Len(s.values))
      BY <2>1
    <2> HIDE DEF t
    <2>3. /\ PagesGood(R, PagesWith(s), {}) /\ PagesBefore(R, PagesWith(s), i)
          /\ Covered(R, PagesWith(s), i)
      BY <1>9, <2>2, TurnPages
    <2>4. \A j \in 1 .. i - 1 : R[j].stream # R[i].stream
      BY <1>9, TurnMoves
    <2>5. CASE R[i].acks
      <3>4. PageSoFar(R, Grown(<<>>, R[i], i, s.firstTs), Marked({}, R[i], i, s.firstTs),
                      R[i].stream, i, s.firstTs, {})
        BY <1>1, <2>4, <2>5, BegunPage
      <3>1. PageSoFar(R, t.values, t.marks, t.previous, i, t.firstTs, {})
        BY <2>1, <2>2, <3>4
      <3>2. t.values # <<>>
        BY <3>1 DEF PageSoFar
      <3>3. QED
        BY <1>1, <1>4, <2>1, <2>2, <2>3, <3>1, <3>2 DEF Loop, t
    <2>6. CASE ~R[i].acks
      <3>1. t.values = <<>>
        BY <2>1, <2>2, <2>6 DEF Grown
      <3>2. \A m \in t.marks : m.row = i
        BY <2>1, <2>2, MarkedRow
      <3>3. OnlyRetransmissions(R, i)
        <4>1. \A j \in 1 .. i : j \in 1 .. i - 1 \/ j = i
          BY <1>4
        <4>2. QED
          BY <1>2, <2>4, <2>6, <4>1 DEF OnlyRetransmissions
      <3>4. \A m \in t.marks : m.row \in 1 .. i
        BY <1>4, <3>2
      <3>5. QED
        BY <1>1, <1>4, <2>1, <2>2, <2>3, <3>1, <3>3, <3>4 DEF Loop, t
    <2>7. QED
      BY <2>5, <2>6
  <1>10. QED
    BY <1>6, <1>7, <1>8, <1>9

(* What is drawn in the end.  The last record's stream, when that record   *)
(* is all of it, has no page, however short a step.                        *)
AllDrawn(R, pages) ==
  /\ PagesGood(R, pages, StrayLast(R))
  /\ \A j \in 1 .. Len(R) :
       /\ Long(R, PlainAcks(R, R[j].stream))
       /\ R[j].stream < R[Len(R)].stream \/ StepDuration > 0
       => HasPage(pages, R[j].stream)

(* The last row adds its point and its mark, on an axis that starts there  *)
(* or earlier.                                                             *)
LEMMA LastPageIs ==
  ASSUME NEW s, DOMAIN s = Fields, s = [f \in Fields |-> s[f]], NEW row, NEW i
  PROVE  LET u == LastPage(s, row, i)
             o == Origin(s, row)
         IN /\ u.values = Grown(s.values, row, i, o) /\ u.marks = Marked(s.marks, row, i, o)
            /\ u.firstTs = o /\ u.pages = s.pages
            /\ u.previous = IF s.values = <<>> THEN row.stream ELSE s.previous
  BY DEF LastPage, Fields

(* The page drawn at the last row, when that row is of its stream.         *)
LEMMA LastOfStream ==
  ASSUME NEW R, SortedReport(R), StepDuration \in Int, NEW n \in 1 .. Len(R), n = Len(R),
         NEW u, u.firstTs \in Int, ~OutOfRange(Len(u.values)),
         PagesGood(R, u.pages, {}), PagesBefore(R, u.pages, n), Covered(R, u.pages, n),
         u.previous = R[n].stream,
         PageSoFar(R, u.values, u.marks, u.previous, n, u.firstTs, StrayLast(R))
  PROVE  AllDrawn(R, PagesWith(u))
  <1>1. \A j \in 1 .. Len(R) : j > n => R[j].stream # u.previous
    BY DEF SortedReport
  <1>2. \A p \in 1 .. Len(u.pages) : u.pages[p].stream < u.previous
    BY DEF PagesBefore
  <1>3. /\ PagesGood(R, PagesWith(u), StrayLast(R))
        /\ \A k : HasPage(u.pages, k) => HasPage(PagesWith(u), k)
        /\ Long(R, PlainAcks(R, u.previous)) => HasPage(PagesWith(u), u.previous)
    BY <1>1, <1>2, PageDrawn
  <1>4. ASSUME NEW j \in 1 .. Len(R), Long(R, PlainAcks(R, R[j].stream))
        PROVE  HasPage(PagesWith(u), R[j].stream)
    <2>1. Len(R) \in Nat
      BY DEF SortedReport
    <2>2. R[j].stream <= R[n].stream /\ R[j].stream \in Nat /\ R[n].stream \in Nat
      BY <2>1, RowFacts
    <2>3. CASE R[j].stream < R[n].stream
      BY <1>3, <1>4, <2>3 DEF Covered
    <2>4. CASE R[j].stream = R[n].stream
      BY <1>3, <1>4, <2>4
    <2>5. QED
      BY <2>2, <2>3, <2>4
  <1>5. QED
    BY <1>3, <1>4 DEF AllDrawn

(* The turn of the last row draws what is left.                            *)
LEMMA LastStep ==
  ASSUME NEW R, SortedReport(R), StepDuration \in Int, NEW n \in 1 .. Len(R), n = Len(R),
         NEW s, Loop(R, s, n - 1), ~Turn(R, s, n).panic
  PROVE  AllDrawn(R, Turn(R, s, n).pages)
  <1> DEFINE t == Turn(R, s, n)
             o == Origin(s, R[n])
             u == LastPage(s, R[n], n)
  <1>1. /\ DOMAIN s = Fields /\ s = [f \in Fields |-> s[f]]
        /\ s.panic = FALSE /\ s.firstTs \in Int /\ PagesGood(R, s.pages, {})
    BY DEF Loop
  <1>2. /\ R[n].at \in Nat /\ R[n].stream \in Nat /\ R[n].acks \in BOOLEAN
        /\ R[n].acks \/ R[n].retr # "none"
        /\ Retransmitted(R[n]) <=> R[n].retr # "none"
    BY RowFacts
  <1>3. o \in Int
    <2>1. R[n].at \in Int /\ s.firstTs \in Int
      BY <1>1, <1>2
    <2>2. o = R[n].at \/ o = s.firstTs
      BY DEF Origin
    <2> HIDE DEF o
    <2>3. QED
      BY <2>1, <2>2
  <1>4. n \in Nat /\ n # 0 /\ \A j \in 1 .. n : j \in 1 .. n - 1 \/ j = n
    <2>1. Len(R) \in Nat
      BY DEF SortedReport
    <2>2. QED
      BY <2>1
  <1>5. PagesBefore(R, s.pages, n)
    BY EarlierPages
  <1>6. /\ u.values = Grown(s.values, R[n], n, o) /\ u.marks = Marked(s.marks, R[n], n, o)
        /\ u.firstTs = o /\ u.pages = s.pages
        /\ u.previous = IF s.values = <<>> THEN R[n].stream ELSE s.previous
    BY <1>1, LastPageIs
  <1>7. \A j \in 1 .. Len(R) : R[j].stream \in Nat /\ R[j].stream <= R[n].stream
    BY <1>4, RowFacts
  <1>8. CASE s.values = <<>> /\ Retransmitted(R[n])
    <2>1. t = s
      BY <1>8, SkipTurn
    <2> HIDE DEF t
    <2>2. /\ Covered(R, s.pages, n)
          /\ \A j \in 1 .. n - 1 : R[j].stream = R[n].stream => R[j].retr # "none"
      BY <1>8, EmptyMoves
    <2>3. PagesGood(R, s.pages, StrayLast(R))
      BY <1>1, StrayMorePages
    <2>4. ASSUME NEW j \in 1 .. Len(R), Long(R, PlainAcks(R, R[j].stream))
          PROVE  HasPage(s.pages, R[j].stream)
      <3>1. CASE R[j].stream < R[n].stream
        BY <2>2, <2>4, <3>1 DEF Covered
      <3>2. CASE R[j].stream = R[n].stream
        <4>1. PICK k \in PlainAcks(R, R[j].stream) : TRUE
          BY <2>4 DEF Long
        <4>2. k \in 1 .. n /\ R[k].stream = R[n].stream /\ R[k].retr = "none"
          BY <3>2 DEF PlainAcks, Acks, SortedReport
        <4>3. QED
          BY <1>2, <1>4, <1>8, <2>2, <4>2
      <3>3. QED
        BY <1>7, <3>1, <3>2
    <2>5. AllDrawn(R, s.pages)
      BY <2>3, <2>4 DEF AllDrawn
    <2>6. QED
      BY <2>1, <2>5 DEF t
  <1>9. ASSUME ~(s.values = <<>> /\ Retransmitted(R[n]))
        PROVE  ~OutOfRange(Len(u.values)) /\ t.pages = PagesWith(u)
    BY <1>1, <1>9, LastTurn
  <1> HIDE DEF t, o, u
  <1>10. CASE s.values = <<>> /\ ~Retransmitted(R[n])
    <2>2. /\ Covered(R, s.pages, n)
          /\ \A j \in 1 .. n - 1 : R[j].stream = R[n].stream => R[j].retr # "none"
          /\ \A m \in s.marks : m.row \in 1 .. n - 1
      BY <1>10, EmptyMoves
    <2>3. PageSoFar(R, Grown(<<>>, R[n], n, o), Marked(s.marks, R[n], n, o), R[n].stream, n, o, StrayLast(R))
      BY <1>2, <1>3, <1>10, <2>2, BegunPage
    <2>4. u.previous = R[n].stream
      BY <1>6, <1>10
    <2>5. PageSoFar(R, u.values, u.marks, u.previous, n, u.firstTs, StrayLast(R))
      BY <1>6, <1>10, <2>3, <2>4
    <2>6. AllDrawn(R, PagesWith(u))
      <3>1. PagesGood(R, u.pages, {}) /\ PagesBefore(R, u.pages, n) /\ Covered(R, u.pages, n) /\ u.firstTs \in Int
        BY <1>1, <1>3, <1>5, <1>6, <2>2
      <3>2. QED
        BY <1>9, <1>10, <2>4, <2>5, <3>1, LastOfStream
    <2>7. QED
      BY <1>9, <1>10, <2>6 DEF t
  <1>11. CASE s.values # <<>> /\ s.previous = R[n].stream
    <2>1. o = s.firstTs
      BY <1>11 DEF Origin, o
    <2>2. Covered(R, s.pages, n)
      BY <1>11, FullMoves
    <2>3. PageSoFar(R, s.values, s.marks, s.previous, n - 1, s.firstTs, {})
      BY <1>11 DEF Loop
    <2>4. PageSoFar(R, Grown(s.values, R[n], n, o), Marked(s.marks, R[n], n, o), s.previous, n, o, StrayLast(R))
      BY <1>1, <1>11, <2>1, <2>3, GrownPage
    <2>5. u.previous = R[n].stream
      BY <1>6, <1>11
    <2>6. PageSoFar(R, u.values, u.marks, u.previous, n, u.firstTs, StrayLast(R))
      BY <1>6, <1>11, <2>4, <2>5
    <2>7. AllDrawn(R, PagesWith(u))
      <3>1. PagesGood(R, u.pages, {}) /\ PagesBefore(R, u.pages, n) /\ Covered(R, u.pages, n) /\ u.firstTs \in Int
        BY <1>1, <1>3, <1>5, <1>6, <2>2
      <3>2. QED
        BY <1>9, <1>11, <2>5, <2>6, <3>1, LastOfStream
    <2>8. QED
      BY <1>9, <1>11, <2>7 DEF t
  <1>12. CASE s.values # <<>> /\ s.previous # R[n].stream
    <2>1. o = s.firstTs
      BY <1>12 DEF Origin, o
    <2>2. /\ n # 1 /\ s.previous < R[n].stream /\ s.previous \in Nat
          /\ PageSoFar(R, s.values, s.marks, s.previous, n - 1, s.firstTs, {})
          /\ \A j \in 1 .. n - 1 : R[j].stream # R[n].stream
          /\ \A p \in 1 .. Len(s.pages) : s.pages[p].stream < s.previous
          /\ \A j \in 1 .. n - 1 : R[j].stream <= s.previous
      BY <1>12, TurnMoves
    <2>3. n \in StrayLast(R)
      <3>1. DOMAIN R = 1 .. n
        BY DEF SortedReport
      <3>2. \A j \in DOMAIN R : j # n => R[j].stream # R[n].stream
        BY <1>4, <2>2, <3>1
      <3>3. QED
        BY <3>2 DEF StrayLast
    <2>4. PageSoFar(R, Grown(s.values, R[n], n, o), Marked(s.marks, R[n], n, o), s.previous, n, o, StrayLast(R))
      BY <1>1, <2>1, <2>2, <2>3, GrownPage
    <2>5. u.previous = s.previous
      BY <1>6, <1>12
    <2>6. PageSoFar(R, u.values, u.marks, u.previous, n, u.firstTs, StrayLast(R))
      BY <1>6, <2>4, <2>5
    <2>7. /\ PagesGood(R, PagesWith(u), StrayLast(R))
          /\ \A k : HasPage(u.pages, k) => HasPage(PagesWith(u), k)
          /\ Long(R, PlainAcks(R, u.previous)) => HasPage(PagesWith(u), u.previous)
      <3>1. PagesGood(R, u.pages, {}) /\ u.firstTs \in Int
        BY <1>1, <1>3, <1>6
      <3>2. \A p \in 1 .. Len(u.pages) : u.pages[p].stream < u.previous
        BY <1>6, <2>2, <2>5
      <3>3. \A j \in 1 .. Len(R) : j > n => R[j].stream # u.previous
        BY <1>4
      <3>4. ~OutOfRange(Len(u.values))
        BY <1>9, <1>12
      <3>5. QED
        BY <2>6, <3>1, <3>2, <3>3, <3>4, PageDrawn
    <2>8. ASSUME NEW j \in 1 .. Len(R), Long(R, PlainAcks(R, R[j].stream)),
                 R[j].stream < R[Len(R)].stream \/ StepDuration > 0
          PROVE  HasPage(PagesWith(u), R[j].stream)
      <3>1. CASE j = n
        <4>1. PICK a, z \in PlainAcks(R, R[n].stream) : 10 * (R[z].at - R[a].at) >= 9 * StepDuration
          BY <2>8, <3>1 DEF Long
        <4>2. a \in 1 .. n /\ z \in 1 .. n /\ R[a].stream = R[n].stream /\ R[z].stream = R[n].stream
          BY DEF PlainAcks, Acks, SortedReport
        <4>3. a = n /\ z = n
          BY <1>4, <2>2, <4>2
        <4>4. 0 >= 9 * StepDuration
          BY <1>2, <4>1, <4>3
        <4>5. StepDuration > 0
          BY <2>8, <3>1, <1>7
        <4>6. QED
          BY <4>4, <4>5
      <3>2. CASE j # n /\ R[j].stream = s.previous
        BY <2>5, <2>7, <2>8, <3>2
      <3>3. CASE j # n /\ R[j].stream # s.previous
        <4>1. j \in 1 .. n - 1
          BY <1>4, <3>3
        <4>2. Covered(R, s.pages, n - 1) /\ s.previous = R[n - 1].stream
          BY <1>12 DEF Loop
        <4>3. R[j].stream < R[n - 1].stream
          BY <1>7, <2>2, <3>3, <4>1, <4>2
        <4>4. HasPage(s.pages, R[j].stream)
          BY <2>8, <4>1, <4>2, <4>3 DEF Covered
        <4>5. QED
          BY <1>6, <2>7, <4>4
      <3>4. QED
        BY <3>1, <3>2, <3>3
    <2>9. AllDrawn(R, PagesWith(u))
      BY <2>7, <2>8 DEF AllDrawn
    <2>10. QED
      BY <1>9, <1>12, <2>9 DEF t
  <1>13. QED
    BY <1>8, <1>10, <1>11, <1>12

(* What TcpdumpPlotter draws of a report.                                  *)
LEMMA PlottedDraws ==
  ASSUME NEW report \in Seq(ReportRow), StepDuration \in Int, ~Plotted(report).panic
  PROVE  SortedReport(ByStream(report)) /\ AllDrawn(ByStream(report), Plotted(report).pages)
  <1> DEFINE R == ByStream(report)
             n == Len(R)
             T == Turns(R)
             A == {i \in 0 .. n - 1 : T[i].panic \/ Loop(R, T[i], i)}
  <1>1. SortedReport(R)
    BY SortedRows DEF SortedReport
  <1>2. n \in Nat /\ Plotted(report) = T[n]
    BY <1>1, PlottedIs DEF SortedReport
  <1> HIDE DEF R
  <1>3. T[0] = Nothing /\ \A i \in 1 .. n : T[i] = Turn(R, T[i - 1], i)
    BY <1>2, TurnsAre
  <1> HIDE DEF T
  <1>4. CASE n = 0
    <2>1. Plotted(report).pages = <<>> /\ Loop(R, Nothing, 0) /\ Nothing.pages = <<>>
      BY <1>2, <1>3, <1>4, LoopBegins DEF Nothing
    <2>2. PagesGood(R, <<>>, {})
      BY <2>1 DEF Loop
    <2>3. AllDrawn(R, <<>>)
      BY <1>4, <2>2, StrayMorePages DEF AllDrawn
    <2>4. QED
      BY <1>1, <2>1, <2>3 DEF R
  <1>5. CASE n # 0
    <2>1. 0 \in A
      BY <1>2, <1>3, <1>5, LoopBegins
    <2>2. ASSUME NEW i \in 1 .. n - 1, i - 1 \in A PROVE i \in A
      <3>1. i \in 1 .. n /\ i # n /\ i \in 0 .. n - 1 /\ T[i] = Turn(R, T[i - 1], i)
        BY <1>2, <1>3
      <3>2. CASE T[i - 1].panic
        <4>1. T[i] = T[i - 1]
          BY <3>1, <3>2, SkipTurn
        <4>2. QED
          BY <3>1, <3>2, <4>1
      <3>3. CASE Loop(R, T[i - 1], i - 1) /\ ~T[i].panic
        <4>1. Loop(R, T[i], i)
          BY <1>1, <3>1, <3>3, LoopStep
        <4>2. QED
          BY <3>1, <4>1
      <3>4. QED
        BY <2>2, <3>1, <3>2, <3>3
    <2> HIDE DEF A
    <2>3. 0 .. n - 1 \subseteq A
      <3>1. n - 1 \in Nat
        BY <1>2, <1>5
      <3> HIDE DEF n
      <3>2. QED
        BY <2>1, <2>2, <3>1, Upwards
    <2>4. n \in 1 .. n /\ n - 1 \in 0 .. n - 1
      BY <1>2, <1>5
    <2>5. T[n - 1].panic \/ Loop(R, T[n - 1], n - 1)
      BY <2>3, <2>4 DEF A
    <2>6. T[n] = Turn(R, T[n - 1], n) /\ ~T[n].panic
      BY <1>2, <1>3, <2>4
    <2>7. ~T[n - 1].panic
      BY <2>6, SkipTurn
    <2>8. AllDrawn(R, T[n].pages)
      BY <1>1, <2>4, <2>5, <2>6, <2>7, LastStep
    <2>9. QED
      BY <1>1, <1>2, <2>8 DEF R
  <1>6. QED
    BY <1>4, <1>5

(* Long is monotone.                                                       *)
LEMMA LongMore ==
  ASSUME NEW R, NEW rows, NEW more, rows \subseteq more, Long(R, rows)
  PROVE  Long(R, more)
  BY DEF Long

\* The last page may have a stray row.
StrayOn(R, pages, p) == IF p = Len(pages) THEN StrayLast(R) ELSE {}

(* What a page drawn shows.                                                *)
LEMMA PageShows ==
  ASSUME NEW R, SortedReport(R), StepDuration \in Int, NEW page, NEW stray, PageGood(R, page, stray)
  PROVE  /\ page.stream \in Nat /\ \E j \in 1 .. Len(R) : R[j].stream = page.stream
         /\ PlainAcks(R, page.stream) \subseteq RowsOn(page)
         /\ RowsOn(page) \subseteq Acks(R, page.stream) \cup stray
         /\ Long(R, RowsOn(page))
         /\ Len(page.points) = Cardinality(RowsOn(page))
         /\ Measures(ToSet(page.points)) /\ Cardinality(ToSet(page.points)) = Len(page.points)
         /\ ~OutOfRange(Len(page.points)) /\ page.axis = Axis(Limits(ToSet(page.points)))
  <1> DEFINE values == page.points
             n == Len(values)
             f == [k \in 1 .. n |-> values[k].row]
  <1>1. PICK i \in 1 .. Len(R), origin \in Int :
          /\ PageSoFar(R, values, page.marks, page.stream, i, origin, stray)
          /\ \A j \in 1 .. Len(R) : j > i => R[j].stream # page.stream
    BY DEF PageGood
  <1>2. values # <<>> /\ LineUpTo(R, values, i, origin) /\ Len(R) \in Nat
    BY <1>1 DEF PageSoFar, SortedReport
  <1>3. RowsOn(page) = RowsIn(values)
    BY DEF RowsOn, RowsIn
  <1>4. /\ PlainAcks(R, page.stream) \subseteq RowsOn(page)
        /\ RowsOn(page) \subseteq Acks(R, page.stream) \cup stray
    BY <1>1, <1>3, PageRows
  <1>5. Long(R, RowsOn(page))
    BY <1>2, <1>3, LineLasts DEF PageGood
  <1>6. /\ n \in Nat /\ DOMAIN values = 1 .. n
        /\ \A k \in 1 .. n : values[k].rtt \in Int
        /\ \A k, l \in 1 .. n : values[k].row = values[l].row => k = l
        /\ RowsIn(values) = {values[k].row : k \in 1 .. n}
    BY <1>2, LineFacts
  <1>7. Measures(ToSet(values)) /\ Cardinality(ToSet(values)) = n
    BY <1>6, LineMeasures
  <1>8. Cardinality(RowsOn(page)) = n
    <2>1. f \in [1 .. n -> RowsOn(page)]
      BY <1>3, <1>6
    <2>2. f \in Injection(1 .. n, RowsOn(page))
      BY <1>6, <2>1 DEF Injection, IsInjective
    <2>3. f \in Surjection(1 .. n, RowsOn(page))
      BY <1>3, <1>6, <2>1 DEF Surjection
    <2>4. f \in Bijection(1 .. n, RowsOn(page))
      BY <2>2, <2>3 DEF Bijection
    <2> HIDE DEF f, n
    <2>5. IsFiniteSet(1 .. n) /\ Cardinality(1 .. n) = n
      BY <1>6, FirstNumbers
    <2>6. ExistsBijection(1 .. n, RowsOn(page))
      BY <2>4 DEF ExistsBijection
    <2>7. QED
      BY <2>5, <2>6, FS_Bijection
  <1>9. page.stream \in Nat /\ \E j \in 1 .. Len(R) : R[j].stream = page.stream
    BY <1>1, <1>2, PageStream
  <1>10. QED
    BY <1>4, <1>5, <1>7, <1>8, <1>9 DEF PageGood

\* PagesAreTheLongStreams, of one report.
PagesShow(R, pages) ==
  /\ \A p, q \in DOMAIN pages : p < q => pages[p].stream < pages[q].stream
  /\ StepDuration > 0 =>
       \A k \in {row.stream : row \in ToSet(R)} :
         Long(R, PlainAcks(R, k)) => k \in {page.stream : page \in ToSet(pages)}
  /\ \A p \in DOMAIN pages :
       LET acks == Acks(R, pages[p].stream) \cup StrayOn(R, pages, p)
       IN /\ Long(R, acks)
          /\ PlainAcks(R, pages[p].stream) \subseteq RowsOn(pages[p])
          /\ RowsOn(pages[p]) \subseteq acks
          /\ Len(pages[p].points) = Cardinality(RowsOn(pages[p]))

(* What is drawn are the pages of the long streams.                        *)
LEMMA DrawnPagesShow ==
  ASSUME NEW R, SortedReport(R), StepDuration \in Int, NEW pages, AllDrawn(R, pages)
  PROVE  PagesShow(R, pages)
  <1>1. /\ pages \in Seq(ToSet(pages)) /\ Len(pages) \in Nat /\ DOMAIN pages = 1 .. Len(pages)
        /\ \A p \in 1 .. Len(pages) : PageGood(R, pages[p], StrayOn(R, pages, p))
        /\ \A p, q \in 1 .. Len(pages) : p < q => pages[p].stream < pages[q].stream
    BY LenProperties DEF AllDrawn, PagesGood, StrayOn
  <1>2. ASSUME NEW p \in 1 .. Len(pages)
        PROVE  LET acks == Acks(R, pages[p].stream) \cup StrayOn(R, pages, p)
               IN /\ Long(R, acks)
                  /\ PlainAcks(R, pages[p].stream) \subseteq RowsOn(pages[p])
                  /\ RowsOn(pages[p]) \subseteq acks
                  /\ Len(pages[p].points) = Cardinality(RowsOn(pages[p]))
    <2>1. /\ PlainAcks(R, pages[p].stream) \subseteq RowsOn(pages[p])
          /\ RowsOn(pages[p]) \subseteq Acks(R, pages[p].stream) \cup StrayOn(R, pages, p)
          /\ Long(R, RowsOn(pages[p]))
          /\ Len(pages[p].points) = Cardinality(RowsOn(pages[p]))
      BY <1>1, PageShows
    <2>2. Long(R, Acks(R, pages[p].stream) \cup StrayOn(R, pages, p))
      BY <2>1, LongMore
    <2>3. QED
      BY <2>1, <2>2
  <1>3. ASSUME StepDuration > 0, NEW k \in {row.stream : row \in ToSet(R)}, Long(R, PlainAcks(R, k))
        PROVE  k \in {page.stream : page \in ToSet(pages)}
    <2>1. PICK j \in 1 .. Len(R) : k = R[j].stream
      BY <1>3 DEF ToSet, SortedReport
    <2>2. HasPage(pages, k)
      BY <1>3, <2>1 DEF AllDrawn
    <2>3. QED
      BY <1>1, <2>2 DEF HasPage, ToSet
  <1>4. QED
    BY <1>1, <1>2, <1>3 DEF PagesShow

\* MarksShareTheAxis, of one page.
MarksInPlace(R, page) ==
  LET begin == page.points[1]
      InPlace(item) == item.x - begin.x = R[item.row].at - R[begin.row].at
      marked == {mark.row : mark \in page.marks}
  IN /\ \A point \in ToSet(page.points) : InPlace(point)
     /\ \A mark \in page.marks : mark.row < begin.row \/ InPlace(mark)
     /\ \A i \in DOMAIN R :
          i > begin.row /\ R[i].stream = page.stream /\ R[i].retr # "none" => i \in marked

(* On a page drawn every mark is at the time of its row.                   *)
LEMMA DrawnMarksInPlace ==
  ASSUME NEW R, SortedReport(R), NEW page, NEW stray, PageGood(R, page, stray)
  PROVE  MarksInPlace(R, page)
  <1> DEFINE values == page.points
             b == values[1].row
             InPlace(item) == item.x - values[1].x = R[item.row].at - R[b].at
  <1>1. PICK i \in 1 .. Len(R), origin \in Int :
          /\ PageSoFar(R, values, page.marks, page.stream, i, origin, stray)
          /\ \A j \in 1 .. Len(R) : j > i => R[j].stream # page.stream
    BY DEF PageGood
  <1>2. /\ values # <<>> /\ LineUpTo(R, values, i, origin)
        /\ \A j \in b .. i : j > b /\ R[j].retr # "none" => j \in RowsMarked(page.marks)
        /\ \A m \in page.marks : m.row \in 1 .. i /\ (m.row < b \/ m.x = R[m.row].at - origin)
    BY <1>1 DEF PageSoFar
  <1>3. Len(R) \in Nat /\ DOMAIN R = 1 .. Len(R) /\ i \in 0 .. Len(R)
    BY DEF SortedReport
  <1>4. /\ DOMAIN values = 1 .. Len(values) /\ Len(values) \in Nat /\ Len(values) > 0
        /\ \A k \in 1 .. Len(values) :
             values[k].row \in 1 .. i /\ values[k].x = R[values[k].row].at - origin
    <2> HIDE DEF values
    <2>1. QED
      BY <1>2, <1>3, LineFacts
  <1>5. \A item : item.row \in 1 .. i /\ item.x = R[item.row].at - origin => InPlace(item)
    <2> SUFFICES ASSUME NEW item, item.row \in 1 .. i, item.x = R[item.row].at - origin
                 PROVE  InPlace(item)
      OBVIOUS
    <2> DEFINE a == R[item.row].at
               z == R[b].at
    <2>1. b \in 1 .. Len(R) /\ item.row \in 1 .. Len(R) /\ values[1].x = z - origin
      BY <1>3, <1>4
    <2>2. a \in Nat /\ z \in Nat
      BY <2>1, RowFacts
    <2>3. item.x = a - origin
      OBVIOUS
    <2> HIDE DEF a, z
    <2>4. item.x - values[1].x = a - z
      BY <2>1, <2>2, <2>3
    <2>5. QED
      BY <2>4 DEF a, z
  <1>6. \A point \in ToSet(values) : InPlace(point)
    BY <1>4, <1>5 DEF ToSet
  <1>7. \A mark \in page.marks : mark.row < b \/ InPlace(mark)
    BY <1>2, <1>5
  <1>8. ASSUME NEW j \in DOMAIN R, j > b, R[j].stream = page.stream, R[j].retr # "none"
        PROVE  j \in {mark.row : mark \in page.marks}
    <2>1. b \in 1 .. i
      BY <1>4
    <2>2. j \in b .. i
      BY <1>1, <1>3, <1>8, <2>1
    <2>3. QED
      BY <1>2, <1>8, <2>2 DEF RowsMarked
  <1>9. QED
    BY <1>6, <1>7, <1>8 DEF MarksInPlace

\* TitlesSkipShortStreams, of one report.
TitlesSkip(R, pages) ==
  OneStreamPerStep(R) =>
    \A page \in ToSet(pages) :
      Long(R, PlainAcks(R, page.stream)) => page.title = StepOf(R, page.stream)

(* A strictly increasing enumeration of 1 .. m by 1 .. p ends at p.        *)
LEMMA AsMany ==
  ASSUME NEW p \in Nat, NEW m \in Nat, NEW g \in [1 .. p -> 1 .. m],
         \A q, r \in 1 .. p : q < r => g[q] < g[r],
         \A v \in 1 .. m : \E q \in 1 .. p : g[q] = v
  PROVE  m = p
  <1>1. \A q, r \in 1 .. p : g[q] = g[r] => q = r
    <2>1. \A q \in 1 .. p : g[q] \in Int
      OBVIOUS
    <2>2. QED
      BY <2>1
  <1>2. g \in Injection(1 .. p, 1 .. m)
    BY <1>1 DEF Injection, IsInjective
  <1>3. g \in Surjection(1 .. p, 1 .. m)
    BY DEF Surjection
  <1>4. ExistsBijection(1 .. p, 1 .. m)
    BY <1>2, <1>3 DEF Bijection, ExistsBijection
  <1>5. /\ IsFiniteSet(1 .. p) /\ Cardinality(1 .. p) = p
        /\ IsFiniteSet(1 .. m) /\ Cardinality(1 .. m) = m
    BY FirstNumbers
  <1>6. QED
    BY <1>4, <1>5, FS_Bijection

(* The pages up to that of a long stream are those of the long streams up  *)
(* to it, one for each step.                                               *)
LEMMA DrawnTitlesSkip ==
  ASSUME NEW R, SortedReport(R), StepDuration \in Int, settings.parameters \in {-1} \cup Nat,
         NEW pages, AllDrawn(R, pages)
  PROVE  TitlesSkip(R, pages)
  <1> DEFINE n == Len(pages)
             streams == {row.stream : row \in ToSet(R)}
             long == {k \in streams : Long(R, PlainAcks(R, k))}
             S(p) == pages[p].stream
  <1>1. /\ pages \in Seq(ToSet(pages)) /\ n \in Nat /\ DOMAIN pages = 1 .. n
        /\ \A p \in 1 .. n : PageGood(R, pages[p], StrayOn(R, pages, p)) /\ pages[p].title = Title(p - 1)
        /\ \A p, q \in 1 .. n : p < q => S(p) < S(q)
        /\ \A j \in 1 .. Len(R) :
             Long(R, PlainAcks(R, R[j].stream)) /\ R[j].stream < R[Len(R)].stream => HasPage(pages, R[j].stream)
    BY LenProperties DEF AllDrawn, PagesGood, StrayOn
  <1>2. streams = {R[j].stream : j \in 1 .. Len(R)} /\ Len(R) \in Nat
    BY DEF SortedReport, ToSet
  <1>3. \A p \in 1 .. n : S(p) \in Nat /\ S(p) \in streams
    <2> SUFFICES ASSUME NEW p \in 1 .. n PROVE S(p) \in Nat /\ S(p) \in streams
      OBVIOUS
    <2>1. S(p) \in Nat /\ \E j \in 1 .. Len(R) : R[j].stream = S(p)
      BY <1>1, PageShows
    <2>2. QED
      BY <1>2, <2>1
  <1> SUFFICES ASSUME OneStreamPerStep(R), NEW page \in ToSet(pages), Long(R, PlainAcks(R, page.stream))
               PROVE  page.title = StepOf(R, page.stream)
    BY DEF TitlesSkip
  <1>4. PICK p \in 1 .. n : page = pages[p]
    BY <1>1 DEF ToSet
  <1>5. /\ \A k \in streams : Long(R, Acks(R, k)) => k \in long
        /\ {StepOf(R, k) : k \in long} = 1 .. settings.parameters
        /\ \A k, l \in long : k < l => StepOf(R, k) < StepOf(R, l)
    BY DEF OneStreamPerStep
  <1>6. \A k \in streams : k \in Nat
    <2>1. \A j \in 1 .. Len(R) : R[j].stream \in Nat
      BY RowFacts
    <2>2. QED
      BY <1>2, <2>1
  <1>7. \A q \in 1 .. p : S(q) \in long
    <2> SUFFICES ASSUME NEW q \in 1 .. p PROVE S(q) \in long
      OBVIOUS
    <2>1. q \in 1 .. n
      BY <1>1, <1>4
    <2>2. CASE q = p
      BY <1>3, <1>4, <2>1, <2>2
    <2>3. CASE q # p
      <3>1. StrayOn(R, pages, q) = {}
        <4>1. n \in Nat /\ q # n
          <5>1. n \in Nat
            BY <1>1
          <5> HIDE DEF n
          <5>2. q \in 1 .. p /\ p \in 1 .. n
            BY <1>4
          <5>3. QED
            BY <2>3, <5>1, <5>2
        <4>2. QED
          BY <4>1 DEF StrayOn
      <3>2. PageGood(R, pages[q], {})
        BY <1>1, <2>1, <3>1
      <3>3. RowsOn(pages[q]) \subseteq Acks(R, S(q)) \cup {} /\ Long(R, RowsOn(pages[q]))
        BY <3>2, PageShows
      <3>4. Long(R, Acks(R, S(q)))
        BY <3>3, LongMore
      <3>5. QED
        BY <1>3, <1>5, <2>1, <3>4
    <2>4. QED
      BY <2>2, <2>3
  <1> DEFINE m == StepOf(R, S(p))
             g == [q \in 1 .. p |-> StepOf(R, S(q))]
  <1> HIDE DEF n, streams, S
  <1>8. \A k \in long : StepOf(R, k) \in 1 .. settings.parameters
    BY <1>5
  <1>9. p \in Nat /\ p \in 1 .. p /\ m \in 1 .. settings.parameters /\ m \in Nat
    BY <1>1, <1>4, <1>7, <1>8
  <1>10. \A q \in 1 .. p : \A r \in 1 .. p : q < r => g[q] < g[r]
    <2> SUFFICES ASSUME NEW q \in 1 .. p, NEW r \in 1 .. p, q < r PROVE StepOf(R, S(q)) < StepOf(R, S(r))
      OBVIOUS
    <2>1. q \in 1 .. n /\ r \in 1 .. n
      BY <1>1, <1>4
    <2>2. QED
      BY <1>1, <1>5, <1>7, <2>1 DEF S
  <1>11. g \in [1 .. p -> 1 .. m]
    <2> SUFFICES ASSUME NEW q \in 1 .. p PROVE StepOf(R, S(q)) \in 1 .. m
      OBVIOUS
    <2>1. StepOf(R, S(q)) \in 1 .. settings.parameters
      BY <1>7, <1>8
    <2>2. CASE q = p
      BY <1>9, <2>1, <2>2
    <2>3. CASE q < p
      <3>1. g[q] < g[p]
        BY <1>9, <1>10, <2>3
      <3>2. QED
        BY <1>9, <2>1, <3>1
    <2>4. QED
      BY <1>9, <2>2, <2>3
  <1>12. \A v \in 1 .. m : \E q \in 1 .. p : g[q] = v
    <2> SUFFICES ASSUME NEW v \in 1 .. m PROVE \E q \in 1 .. p : StepOf(R, S(q)) = v
      OBVIOUS
    <2>1. v \in 1 .. settings.parameters
      BY <1>9
    <2>2. PICK k \in long : StepOf(R, k) = v
      BY <1>5, <2>1
    <2>3. k \in Nat /\ S(p) \in Nat /\ S(p) \in long /\ k \in streams
      BY <1>6, <1>7, <1>9, <2>2
    <2>4. ~(S(p) < k)
      <3>1. S(p) < k => m < v
        BY <1>5, <2>2, <2>3
      <3>2. QED
        BY <1>9, <3>1
    <2>5. CASE k = S(p)
      BY <1>9, <2>2, <2>5
    <2>6. CASE k < S(p)
      <3>1. PICK j \in 1 .. Len(R) : k = R[j].stream
        BY <1>2, <2>3
      <3>2. R[j].stream < R[Len(R)].stream
        <4>1. PICK z \in 1 .. Len(R) : S(p) = R[z].stream
          BY <1>2, <1>3, <1>4
        <4>2. Len(R) \in 1 .. Len(R) /\ z <= Len(R)
          BY <1>2
        <4>3. R[z].stream <= R[Len(R)].stream /\ R[Len(R)].stream \in Nat
          BY <4>2, RowFacts
        <4>4. QED
          BY <2>3, <2>6, <3>1, <4>1, <4>3
      <3>3. PICK q \in 1 .. n : S(q) = k
        <4>1. HasPage(pages, k)
          BY <1>1, <2>2, <3>1, <3>2
        <4>2. QED
          BY <4>1 DEF HasPage, S, n
      <3>4. q \in 1 .. p
        <4>1. ~(p < q)
          <5>1. p < q => S(p) < S(q)
            BY <1>1, <1>4 DEF S
          <5>2. QED
            BY <2>3, <2>6, <3>3, <5>1
        <4>2. QED
          BY <1>1, <1>4, <4>1
      <3>5. QED
        BY <2>2, <3>3, <3>4
    <2>7. QED
      BY <2>3, <2>4, <2>5, <2>6
  <1> HIDE DEF g, m
  <1>13. m = p
    BY <1>9, <1>10, <1>11, <1>12, AsMany
  <1>14. page.title = p
    <2>1. page.title = Title(p - 1)
      BY <1>1, <1>4
    <2>2. p - 1 < settings.parameters /\ p - 1 + 1 = p
      BY <1>9, <1>13
    <2>3. QED
      BY <2>1, <2>2 DEF Title
  <1>15. QED
    BY <1>4, <1>13, <1>14 DEF m, S
=============================================================================
