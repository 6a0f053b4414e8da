------------------------- MODULE TerminalPageProofs -------------------------
(***************************************************************************)
(* What holds of TerminalPage for every value of its constants: the types, *)
(* the columns of an active page, what the copy of the last output holds,  *)
(* the modifiers of the special keys, and, for one finger, that a touch    *)
(* makes one thing.                                                        *)
(*                                                                         *)
(* The lemmas come in the order of the model: the columns, the operations  *)
(* of the buffer, the markers, the keys, the touches.  Each has its part   *)
(* of the inductive invariant, which is put together at the end.           *)
(***************************************************************************)
EXTENDS TerminalPage, SequenceLemmas

-----------------------------------------------------------------------------
(* Columns.                                                                *)

\* CeilDiv rounds up.
LEMMA RoundsUp ==
  ASSUME NEW p \in Nat, NEW v \in Nat \ {0}
  PROVE  CeilDiv(p, v) \in Int /\ CeilDiv(p, v) * v >= p
<1> DEFINE a == p + v - 1
           q == a \div v
<1>1. a \in Int
  OBVIOUS
<1>2. q \in Int /\ a < q * v + v
  <2> HIDE DEF a
  <2>1. QED
    BY <1>1, Quotient
<1> HIDE DEF q
<1>3. q * v \in Int
  BY <1>2
<1>4. q * v >= p
  <2> DEFINE m == q * v
  <2> HIDE DEF m
  <2>1. m \in Int /\ p + v - 1 < m + v
    BY <1>2, <1>3 DEF m
  <2>2. m >= p
    BY <2>1
  <2>3. QED
    BY <2>2 DEF m
<1>5. QED
  BY <1>2, <1>4 DEF CeilDiv, q

\* A host with room for n columns and the scroll bar is proposed n at least.
LEMMA ProposedRoom ==
  ASSUME NEW h \in Nat, NEW c \in Cells, NEW n \in Nat, n * c + Bar <= h
  PROVE  Proposed(h, c) >= n
<1> DEFINE d == (h - Bar) \div c
<1>1. c \in Nat \ {0} /\ Bar \in Nat
  BY ParametersAssumption
<1>2. d \in Int /\ h - Bar < d * c + c
  BY <1>1, Quotient
<1>3. n * c < (d + 1) * c
  BY <1>1, <1>2
<1>4. n < d + 1
  BY <1>1, <1>2, <1>3, Products
<1>5. QED
  BY <1>2, <1>4 DEF Proposed, Larger

\* fit proposes a positive number of columns.
LEMMA FittedType ==
  ASSUME NEW w \in Nat, NEW o \in Options
  PROVE  Fitted(w, o) \in Nat \ {0}
<1>1. \A h \in Int, c \in Cells : Proposed(h, c) \in Nat \ {0, 1}
  <2>1. SUFFICES ASSUME NEW h \in Int, NEW c \in Cells
                 PROVE  Proposed(h, c) \in Nat \ {0, 1}
    OBVIOUS
  <2>2. (h - Bar) \div c \in Int
    BY ParametersAssumption, Quotient
  <2>3. QED
    BY <2>2 DEF Proposed, Larger
<1>2. o.cell \in Cells /\ Wide \in Nat
  BY ParametersAssumption DEF Options
<1> DEFINE v == Proposed(w, o.cell)
           h == CeilDiv(w * Wide, v)
<1>3. v \in Nat \ {0, 1}
  BY <1>1, <1>2
<1>4. h \in Int
  <2> HIDE DEF v
  <2>1. w * Wide + v - 1 \in Int
    BY <1>2, <1>3
  <2>2. QED
    BY <1>3, <2>1, Quotient DEF CeilDiv
<1>5. Proposed(h, o.cell) \in Nat \ {0}
  <2> HIDE DEF h
  <2>1. QED
    BY <1>1, <1>2, <1>4
<1>6. Fitted(w, o) = v \/ Fitted(w, o) = Proposed(h, o.cell)
  BY DEF Fitted
<1>7. QED
  BY <1>3, <1>5, <1>6

\* Outside agent mode a viewport that is shown is fitted Wide columns at least: the host
\* of a narrow one is as wide as they and the scroll bar need.
LEMMA FittedIsWide ==
  ASSUME NEW w \in Widths \ {0}, NEW o \in Options, ~o.agentMode
  PROVE  Fitted(w, o) >= Wide
<1> DEFINE c == o.cell
           d == (w - Bar) \div c
           v == Proposed(w, c)
           h == CeilDiv(w * Wide, v)
<1>1. /\ c \in Nat \ {0} /\ c \in Cells /\ Bar \in Nat /\ Wide \in Nat \ {0}
      /\ w \in Nat /\ w >= 2 * c + Bar
  BY ParametersAssumption DEF Options
<1>2. d \in Int /\ d * c <= w - Bar /\ w - Bar < d * c + c
  <2> HIDE DEF c
  <2>1. w - Bar \in Int
    BY <1>1
  <2>2. QED
    BY <1>1, <2>1, Quotient
<1>3. d >= 2
  <2>1. 1 * c < d * c
    BY <1>1, <1>2
  <2>2. QED
    BY <1>1, <1>2, <2>1, Products
<1>4. v = d
  BY <1>2, <1>3 DEF Proposed, Larger
<1>5. CASE v >= Wide
  <2>1. v \in Int /\ ~(v < Wide)
    BY <1>1, <1>2, <1>4, <1>5
  <2>2. Fitted(w, o) = v
    BY <2>1 DEF Fitted
  <2>3. QED
    BY <1>5, <2>2
<1>6. CASE v < Wide
  <2> HIDE DEF d, c
  <2>1. v \in Nat \ {0} /\ v * c + Bar <= w
    BY <1>1, <1>2, <1>3, <1>4
  <2>2. h \in Int /\ h * v >= w * Wide
    <3>1. w * Wide \in Nat
      BY <1>1
    <3>2. QED
      BY <2>1, <3>1, RoundsUp
  <2> HIDE DEF h, v
  <2>3. (v * c + Bar) * Wide <= w * Wide
    BY <1>1, <2>1
  <2>4. Bar * v <= Bar * Wide
    BY <1>1, <1>6, <2>1
  <2>5. (Wide * c + Bar) * v <= h * v
    <3>1. (Wide * c + Bar) * v = Wide * c * v + Bar * v
      BY <1>1, <2>1
    <3>2. (v * c + Bar) * Wide = Wide * c * v + Bar * Wide
      BY <1>1, <2>1
    <3>3. Wide * c * v \in Nat /\ Bar * v \in Nat /\ Bar * Wide \in Nat /\ w * Wide \in Nat
          /\ h * v \in Int
      BY <1>1, <2>1, <2>2
    <3>4. QED
      BY <2>2, <2>3, <2>4, <3>1, <3>2, <3>3
  <2>6. Wide * c + Bar <= h
    <3>1. Wide * c + Bar \in Nat
      BY <1>1
    <3>2. SUFFICES ASSUME h < Wide * c + Bar
                   PROVE  FALSE
      BY <2>2, <3>1
    <3> DEFINE n == Wide * c + Bar
    <3>3. h + 1 <= n /\ n \in Nat
      BY <2>2, <3>1, <3>2
    <3> HIDE DEF n
    <3>4. (h + 1) * v <= n * v
      BY <2>1, <2>2, <3>3
    <3>5. (h + 1) * v = h * v + v /\ h * v \in Int /\ n * v \in Int
      BY <2>1, <2>2, <3>3
    <3>6. QED
      BY <2>1, <2>5, <3>4, <3>5 DEF n
  <2>7. h \in Nat /\ Wide * c + Bar <= h
    BY <1>1, <2>2, <2>6
  <2>8. Proposed(h, c) >= Wide
    BY <1>1, <2>7, ProposedRoom
  <2>9. QED
    BY <1>6, <2>8 DEF Fitted, c, v, h
<1>7. v \in Int
  BY <1>2, <1>4
<1>8. QED
  BY <1>1, <1>5, <1>6, <1>7

-----------------------------------------------------------------------------
(***************************************************************************)
(* The buffer.  TypeOK is not inductive: that the cursor stays inside the  *)
(* buffer when its first rows go follows from nothing being printed below  *)
(* the cursor, and from the cursor being on the screen.                    *)
(***************************************************************************)
BufferOK(b) ==
    /\ b.rows \in Seq(Row) /\ Len(b.rows) \in Height..BufferMax
    /\ b.row \in Nat /\ b.row < Len(b.rows) /\ Len(b.rows) - b.row <= Height
    /\ \A i \in 1..Len(b.rows) : i > b.row => b.rows[i] = Blank

\* b has the rows s without the first x, and its cursor is on the row r of s.
Scrolled(b, s, r, x) ==
    /\ Len(b.rows) = Len(s) - x /\ b.row = r - x
    /\ \A i \in 1..Len(b.rows) : b.rows[i].of = s[i + x].of

\* Trim leaves a buffer with the last rows.
LEMMA Trims ==
  ASSUME NEW s \in Seq(Row), NEW r \in Nat, r < Len(s), Len(s) - r <= Height,
         Height <= Len(s), \A i \in 1..Len(s) : i > r => s[i] = Blank
  PROVE  LET b == Trim([rows |-> s, row |-> r])
         IN  BufferOK(b) /\ \E x \in Nat : Scrolled(b, s, r, x)
<1> DEFINE b == Trim([rows |-> s, row |-> r])
           x == Larger(0, Len(s) - BufferMax)
           k == SubSeq(s, x + 1, Len(s))
<1>1. Height \in Nat \ {0} /\ BufferMax \in Nat /\ BufferMax >= Height
  BY ParametersAssumption
<1>2. x \in Nat /\ x <= r /\ Len(s) - x \in Height..BufferMax
  BY <1>1 DEF Larger
<1> HIDE DEF x
<1>3. k \in Seq(Row) /\ Len(k) = Len(s) - x /\ \A i \in 1..Len(k) : k[i] = s[i + x]
  BY <1>1, <1>2
<1>4. b.rows = [k EXCEPT ![1].wrapped = FALSE] /\ b.row = r - x
  BY DEF Trim, x
<1> HIDE DEF b, k
<1>5. 1 \in 1..Len(k) /\ DOMAIN k = 1..Len(k) /\ \A i \in 1..Len(k) : k[i] \in Row
  BY <1>1, <1>2, <1>3
<1>6. b.rows \in Seq(Row) /\ Len(b.rows) = Len(k)
  <2> DEFINE e == [k[1] EXCEPT !.wrapped = FALSE]
  <2>1. e \in Row
    BY <1>5 DEF Row
  <2>2. b.rows = [k EXCEPT ![1] = e]
    BY <1>4
  <2> HIDE DEF e
  <2>3. QED
    BY <1>3, <1>5, <2>1, <2>2
<1>7. \A i \in 1..Len(k) : b.rows[i].of = k[i].of
  BY <1>4, <1>5 DEF Row
<1>8. \A i \in 1..Len(k) : k[i] = Blank => b.rows[i] = Blank
  <2>1. \A i \in 1..Len(k) : b.rows[i] = IF i = 1 THEN [k[1] EXCEPT !.wrapped = FALSE]
                                        ELSE k[i]
    BY <1>4, <1>5
  <2>2. [Blank EXCEPT !.wrapped = FALSE] = Blank
    <3> DEFINE e == [Blank EXCEPT !.wrapped = FALSE]
    <3>1. Blank \in Row /\ Blank.of = 0 /\ Blank.wrapped = FALSE
      BY DEF Blank, Row
    <3>2. e \in Row /\ e.of = 0 /\ e.wrapped = FALSE
      BY <3>1 DEF Row
    <3>3. \A f, g \in Row : f.of = g.of /\ f.wrapped = g.wrapped => f = g
      BY DEF Row
    <3> HIDE DEF e
    <3>4. QED
      BY <3>1, <3>2, <3>3 DEF e
  <2>3. QED
    BY <2>1, <2>2
<1>9. \A i \in 1..Len(k) : i > r - x => b.rows[i] = Blank
  <2>1. SUFFICES ASSUME NEW i \in 1..Len(k), i > r - x
                 PROVE  k[i] = Blank
    BY <1>8
  <2>2. i + x \in 1..Len(s) /\ i + x > r
    BY <1>2, <1>3, <2>1
  <2>3. QED
    BY <1>3, <2>2
<1>10. BufferOK(b)
  BY <1>2, <1>3, <1>4, <1>6, <1>9 DEF BufferOK
<1>11. Scrolled(b, s, r, x)
  BY <1>3, <1>4, <1>6, <1>7 DEF Scrolled
<1>12. QED
  BY <1>2, <1>10, <1>11 DEF b

\* A line feed.
LEMMA LineFeeds ==
  ASSUME NEW b, BufferOK(b), b = [rows |-> b.rows, row |-> b.row]
  PROVE  BufferOK(LineFeed(b)) /\ LineFeed(b).row <= b.row + 1
<1>1. Height \in Nat \ {0} /\ Blank \in Row
  BY ParametersAssumption DEF Blank, Row
<1>2. CASE b.row + 1 < Len(b.rows)
  <2>1. LineFeed(b) = [rows |-> b.rows, row |-> b.row + 1]
    BY <1>2 DEF LineFeed
  <2>2. QED
    BY <1>1, <1>2, <2>1 DEF BufferOK
<1>3. CASE ~(b.row + 1 < Len(b.rows))
  <2> DEFINE s == Append(b.rows, Blank)
             r == b.row + 1
  <2>1. LineFeed(b) = Trim([rows |-> s, row |-> r])
    BY <1>3 DEF LineFeed
  <2>2. /\ s \in Seq(Row) /\ r \in Nat /\ r < Len(s) /\ Len(s) - r <= Height
        /\ Height <= Len(s) /\ \A i \in 1..Len(s) : i > r => s[i] = Blank
    BY <1>1, <1>3 DEF BufferOK
  <2> HIDE DEF s
  <2>3. BufferOK(LineFeed(b)) /\ \E x \in Nat : Scrolled(LineFeed(b), s, r, x)
    <3> HIDE DEF r
    <3>1. QED
      BY <2>1, <2>2, Trims
  <2>4. QED
    BY <2>3 DEF Scrolled, BufferOK
<1>4. QED
  BY <1>2, <1>3

\* The rows of one line.
LEMMA WrapsOne ==
  ASSUME NEW of \in Nat, NEW columns \in Nat \ {0}
  PROVE  /\ Wrapped(of, columns) \in Seq(Row) /\ Len(Wrapped(of, columns)) >= 1
         /\ \A i \in 1..Len(Wrapped(of, columns)) : Wrapped(of, columns)[i].of = of
         /\ of = 0 => Wrapped(of, columns) = <<Blank>>
<1> DEFINE q == CeilDiv(LineColumns, columns)
           n == IF of = 0 THEN 1 ELSE q
<1>1. LineColumns \in Nat \ {0}
  BY ParametersAssumption
<1>2. q \in Int /\ q * columns >= LineColumns
  BY <1>1, RoundsUp
<1> HIDE DEF q
<1>3. q >= 1
  <2>1. SUFFICES ASSUME q <= 0
                 PROVE  FALSE
    BY <1>2
  <2>2. q * columns <= 0 * columns
    BY <1>2, <2>1
  <2>3. QED
    BY <1>1, <1>2, <2>2
<1>4. n \in Nat \ {0}
  BY <1>2, <1>3
<1>5. Wrapped(of, columns) = [i \in 1..n |-> [of |-> of, wrapped |-> i > 1]]
  BY DEF Wrapped, q
<1> HIDE DEF n
<1>6. /\ Wrapped(of, columns) \in Seq(Row) /\ Len(Wrapped(of, columns)) = n
      /\ \A i \in 1..n : Wrapped(of, columns)[i].of = of
  BY <1>4, <1>5 DEF Row
<1>7. of = 0 => Wrapped(of, columns) = <<Blank>>
  <2>1. SUFFICES ASSUME of = 0
                 PROVE  Wrapped(of, columns) = <<Blank>>
    OBVIOUS
  <2>2. n = 1
    BY <2>1 DEF n
  <2>3. [i \in 1..1 |-> [of |-> 0, wrapped |-> i > 1]] = <<[of |-> 0, wrapped |-> FALSE]>>
    <3> DEFINE e(i) == [of |-> 0, wrapped |-> i > 1]
    <3>1. e(1) = [of |-> 0, wrapped |-> FALSE]
      <4>1. (1 > 1) = FALSE
        OBVIOUS
      <4>2. QED
        BY <4>1, Zenon
    <3> HIDE DEF e
    <3>2. [i \in 1..1 |-> e(i)] = <<e(1)>>
      OBVIOUS
    <3>3. QED
      BY <3>1, <3>2 DEF e
  <2>4. QED
    BY <1>5, <2>1, <2>2, <2>3 DEF Blank
<1>8. QED
  BY <1>4, <1>6, <1>7

\* A line of output: above the cursor there are its rows and those that were there before.
LEMMA Prints ==
  ASSUME NEW b, BufferOK(b), NEW of \in Nat, cols \in Nat \ {0}
  PROVE  LET p == PrintLine(b, of)
         IN  /\ BufferOK(p)
             /\ \E x \in Nat : \A i \in 1..p.row :
                   \/ p.rows[i].of = of
                   \/ i + x \in 1..b.row /\ p.rows[i].of = b.rows[i + x].of
<1> DEFINE line == Wrapped(of, cols)
           end == b.row + Len(line)
           above == SubSeq(b.rows, 1, b.row)
           below == SubSeq(b.rows, end + 1, Len(b.rows))
           all == above \o line \o below
           s == IF Len(all) = end THEN Append(all, Blank) ELSE all
           p == PrintLine(b, of)
<1>1. Height \in Nat \ {0} /\ BufferMax \in Nat /\ Blank \in Row
  BY ParametersAssumption DEF Blank, Row
<1>2. line \in Seq(Row) /\ Len(line) >= 1 /\ \A i \in 1..Len(line) : line[i].of = of
  BY WrapsOne
<1>3. p = Trim([rows |-> s, row |-> end])
  BY DEF PrintLine
<1> HIDE DEF line, p
<1>4. /\ b.rows \in Seq(Row) /\ b.row \in Nat /\ b.row < Len(b.rows)
      /\ Len(b.rows) >= Height /\ Len(b.rows) - b.row <= Height
      /\ \A i \in 1..Len(b.rows) : i > b.row => b.rows[i] = Blank
  BY <1>1 DEF BufferOK
<1> DEFINE t == b.rows
           r == b.row
<1>5. end \in Nat /\ end = r + Len(line) /\ end > r
  BY <1>2, <1>4
<1> HIDE DEF end, t, r
<1>6. /\ above \in Seq(Row) /\ Len(above) = r
      /\ \A i \in 1..r : above[i] = t[i]
  BY <1>4 DEF t, r
<1>7. /\ below \in Seq(Row)
      /\ Len(below) = IF end < Len(t) THEN Len(t) - end ELSE 0
      /\ \A i \in 1..Len(below) : below[i] = Blank
  <2>1. t \in Seq(Row) /\ below = SubSeq(t, end + 1, Len(t))
        /\ \A i \in 1..Len(t) : i > r => t[i] = Blank
    BY <1>4 DEF t, r
  <2> HIDE DEF below
  <2>2. CASE end < Len(t)
    <3>1. /\ below \in Seq(Row) /\ Len(below) = Len(t) - end
          /\ \A i \in 1..Len(t) - end : below[i] = t[end + i]
      BY <1>5, <2>1, <2>2
    <3>2. ASSUME NEW i \in 1..Len(t) - end
          PROVE  below[i] = Blank
      <4>1. end + i \in 1..Len(t) /\ end + i > r
        <5>1. r \in Nat /\ Len(t) \in Nat
          BY <1>4, <2>1 DEF r
        <5>2. QED
          BY <1>5, <2>2, <5>1
      <4>2. QED
        BY <2>1, <3>1, <4>1
    <3>3. QED
      BY <2>2, <3>1, <3>2
  <2>3. CASE ~(end < Len(t))
    <3>1. below = <<>>
      BY <1>5, <2>1, <2>3
    <3>2. <<>> \in Seq(Row) /\ Len(<<>>) = 0
      OBVIOUS
    <3>3. QED
      BY <2>3, <3>1, <3>2
  <2>4. QED
    BY <2>2, <2>3
<1> DEFINE m == above \o line
<1>8. /\ m \in Seq(Row) /\ Len(m) = end
      /\ \A i \in 1..end : m[i] = IF i <= r THEN t[i] ELSE line[i - r]
  <2> HIDE DEF above
  <2>1. /\ m \in Seq(Row) /\ Len(m) = Len(above) + Len(line)
        /\ \A i \in 1..Len(m) : m[i] = IF i <= Len(above) THEN above[i]
                                      ELSE line[i - Len(above)]
    <3>1. above \in Seq(Row) /\ line \in Seq(Row)
      BY <1>2, <1>6
    <3>2. /\ m \in Seq(Row) /\ Len(m) = Len(above) + Len(line)
          /\ \A i \in 1..Len(above) + Len(line) :
                m[i] = IF i <= Len(above) THEN above[i] ELSE line[i - Len(above)]
      BY <3>1, ConcatProperties, Zenon
    <3> HIDE DEF m
    <3>3. QED
      BY <3>2
  <2>2. QED
    BY <1>4, <1>5, <1>6, <2>1 DEF r
<1> HIDE DEF above, below, m
<1>9. /\ all \in Seq(Row) /\ Len(all) = end + Len(below)
      /\ \A i \in 1..Len(all) : all[i] = IF i <= end THEN m[i] ELSE below[i - end]
  <2>1. all = m \o below
    BY DEF m
  <2>2. m \in Seq(Row) /\ below \in Seq(Row)
    BY <1>7, <1>8
  <2> HIDE DEF all
  <2>3. /\ all \in Seq(Row) /\ Len(all) = Len(m) + Len(below)
        /\ \A i \in 1..Len(m) + Len(below) :
              all[i] = IF i <= Len(m) THEN m[i] ELSE below[i - Len(m)]
    BY <2>1, <2>2, ConcatProperties, Zenon
  <2>4. Len(m) = end
    BY <1>8
  <2>5. QED
    BY <2>3, <2>4
<1> HIDE DEF all
<1>10. /\ s \in Seq(Row) /\ end < Len(s) /\ Len(s) - end <= Height
       /\ Height <= Len(s) /\ \A i \in 1..Len(s) : i > end => s[i] = Blank
       /\ \A i \in 1..end : s[i] = m[i]
  <2>1. r \in Nat /\ Len(t) \in Nat /\ r < Len(t) /\ Len(t) >= Height /\ Len(t) - r <= Height
    BY <1>4 DEF r, t
  <2>2. /\ Len(below) = (IF end < Len(t) THEN Len(t) - end ELSE 0)
        /\ Len(all) = end + Len(below)
    BY <1>7, <1>9
  <2>3. \A i \in 1..end : all[i] = m[i]
    BY <1>5, <1>7, <1>9
  <2>4. CASE end < Len(t)
    <3>1. Len(all) = Len(t) /\ Len(all) # end
      BY <1>5, <2>1, <2>2, <2>4
    <3>2. s = all
      BY <3>1
    <3>3. ASSUME NEW i \in 1..Len(all), i > end
          PROVE  all[i] = Blank
      <4>1. i - end \in 1..Len(below)
        BY <1>5, <2>1, <2>2, <2>4, <3>1, <3>3
      <4>2. all[i] = below[i - end]
        BY <1>5, <1>9, <3>3
      <4>3. QED
        BY <1>7, <4>1, <4>2
    <3>4. Len(t) - end <= Height
      BY <1>5, <1>1, <2>1, <2>4
    <3>5. QED
      BY <1>9, <2>1, <2>3, <2>4, <3>1, <3>2, <3>3, <3>4
  <2>5. CASE ~(end < Len(t))
    <3>1. Len(all) = end
      BY <1>5, <2>2, <2>5
    <3>2. /\ s \in Seq(Row) /\ Len(s) = end + 1 /\ s[end + 1] = Blank
          /\ \A i \in 1..end : s[i] = all[i]
      BY <1>1, <1>5, <1>9, <3>1
    <3>3. end + 1 >= Height /\ end + 1 - end <= Height /\ end < end + 1
      BY <1>1, <1>5, <2>1, <2>5
    <3>4. \A i \in 1..end + 1 : i > end => s[i] = Blank
      BY <1>5, <3>2
    <3> HIDE DEF s
    <3>5. Len(s) - end <= Height /\ end < Len(s) /\ Height <= Len(s) /\ s \in Seq(Row)
      BY <1>1, <1>5, <3>2, <3>3
    <3>6. \A i \in 1..Len(s) : i > end => s[i] = Blank
      BY <3>2, <3>4
    <3>7. \A i \in 1..end : s[i] = m[i]
      BY <2>3, <3>2
    <3>8. QED
      BY <3>5, <3>6, <3>7
  <2>6. QED
    BY <2>4, <2>5
<1> HIDE DEF s
<1>11. BufferOK(p) /\ \E x \in Nat : Scrolled(p, s, end, x)
  BY <1>3, <1>5, <1>10, Trims
<1>12. PICK x \in Nat : Scrolled(p, s, end, x)
  BY <1>11
<1>13. ASSUME NEW i \in 1..p.row
       PROVE  \/ p.rows[i].of = of
              \/ i + x \in 1..b.row /\ p.rows[i].of = b.rows[i + x].of
  <2>1. p.row \in Nat /\ p.row = end - x /\ i \in 1..Len(p.rows)
    <3>1. p.row \in Nat /\ p.row < Len(p.rows) /\ Len(p.rows) \in Nat
      BY <1>11 DEF BufferOK
    <3>2. QED
      BY <1>12, <3>1 DEF Scrolled
  <2>2. p.rows[i].of = s[i + x].of /\ i + x \in 1..end
    BY <1>5, <1>12, <2>1 DEF Scrolled
  <2>3. s[i + x] = IF i + x <= r THEN t[i + x] ELSE line[(i + x) - r]
    <3> DEFINE j == i + x
    <3>1. j \in 1..end
      BY <2>2
    <3> HIDE DEF j
    <3>2. s[j] = m[j] /\ m[j] = IF j <= r THEN t[j] ELSE line[j - r]
      BY <1>8, <1>10, <3>1
    <3>3. QED
      BY <3>2, Zenon DEF j
  <2>4. r \in Nat
    BY <1>4 DEF r
  <2>5. CASE i + x <= r
    BY <2>1, <2>2, <2>3, <2>5 DEF r, t
  <2>6. CASE i + x > r
    <3>1. i + x - r \in 1..Len(line) /\ s[i + x] = line[i + x - r]
      BY <1>2, <1>5, <2>1, <2>2, <2>3, <2>4, <2>6
    <3>2. QED
      BY <1>2, <2>2, <3>1
  <2>7. QED
    BY <2>1, <2>4, <2>5, <2>6
<1>14. QED
  BY <1>11, <1>13 DEF p

\* A cleared screen leaves the rows above it.
LEMMA Clears ==
  ASSUME NEW b, BufferOK(b)
  PROVE  LET c == ClearScreen(b)
         IN  BufferOK(c) /\ c.row <= b.row /\ \A i \in 1..c.row : c.rows[i] = b.rows[i]
<1> DEFINE base == Len(b.rows) - Height
           c == ClearScreen(b)
<1>1. /\ Height \in Nat \ {0} /\ BufferMax \in Nat /\ Blank \in Row
      /\ b.rows \in Seq(Row) /\ base \in Nat /\ base <= b.row /\ b.row \in Nat
      /\ Len(b.rows) \in Height..BufferMax
  BY ParametersAssumption, SMTT(30) DEF Blank, Row, BufferOK
<1>2. /\ c.rows = [i \in 1..Len(b.rows) |-> IF i > base THEN Blank ELSE b.rows[i]]
      /\ c.row = base
  BY <1>1 DEF ClearScreen
<1> HIDE DEF c
<1>3. /\ c.rows \in Seq(Row) /\ Len(c.rows) = Len(b.rows)
      /\ \A i \in 1..Len(b.rows) : c.rows[i] = IF i > base THEN Blank ELSE b.rows[i]
  BY <1>1, <1>2
<1>4. QED
  BY <1>1, <1>2, <1>3 DEF BufferOK, c

\* Rows that are wrapped anew.
LEMMA Rewraps ==
  ASSUME NEW b, BufferOK(b), NEW columns \in Nat \ {0}
  PROVE  BufferOK(Rewrap(b, columns))
<1> DEFINE parts(t) == [i \in DOMAIN t |-> IF t[i].wrapped THEN <<>>
                                           ELSE Wrapped(t[i].of, columns)]
           top == SubSeq(b.rows, 1, b.row)
           rest == SubSeq(b.rows, b.row + 1, Len(b.rows))
           n == Len(b.rows) - b.row
           above == FlattenSeq(parts(top))
           below == FlattenSeq(parts(rest))
           all == above \o below
           missing == Larger(0, Height - Len(all))
           blanks == [i \in 1..missing |-> Blank]
           s == all \o blanks
<1>1. /\ Height \in Nat \ {0} /\ BufferMax \in Nat /\ Blank \in Row
      /\ b.rows \in Seq(Row) /\ b.row \in Nat /\ b.row < Len(b.rows) /\ n <= Height
      /\ n \in Nat \ {0}
      /\ \A i \in 1..Len(b.rows) : i > b.row => b.rows[i] = Blank
  BY ParametersAssumption DEF Blank, Row, BufferOK
<1>2. \A t \in Seq(Row) : parts(t) \in Seq(Seq(Row)) /\ Len(parts(t)) = Len(t)
  <2>1. SUFFICES ASSUME NEW t \in Seq(Row)
                 PROVE  parts(t) \in Seq(Seq(Row)) /\ Len(parts(t)) = Len(t)
    OBVIOUS
  <2> DEFINE e(i) == IF t[i].wrapped THEN <<>> ELSE Wrapped(t[i].of, columns)
  <2>2. ASSUME NEW i \in 1..Len(t)
        PROVE  e(i) \in Seq(Row)
    <3>1. t[i].of \in Nat
      <4>1. t[i] \in Row
        OBVIOUS
      <4>2. QED
        BY <4>1 DEF Row
    <3>2. Wrapped(t[i].of, columns) \in Seq(Row)
      BY <3>1, WrapsOne
    <3>3. <<>> \in Seq(Row)
      OBVIOUS
    <3>4. QED
      BY <3>2, <3>3
  <2>3. DOMAIN t = 1..Len(t) /\ Len(t) \in Nat
    OBVIOUS
  <2> HIDE DEF e
  <2>4. /\ [i \in 1..Len(t) |-> e(i)] \in Seq(Seq(Row))
        /\ Len([i \in 1..Len(t) |-> e(i)]) = Len(t)
    BY <2>2, <2>3
  <2>5. QED
    BY <2>3, <2>4 DEF e
<1>3. above \in Seq(Row)
  <2>1. top \in Seq(Row)
    BY <1>1
  <2> HIDE DEF top, parts
  <2>2. QED
    BY <1>2, <2>1, FlattenSeqType
<1>4. /\ rest \in Seq(Row) /\ Len(rest) = n
      /\ \A i \in 1..n : rest[i] = Blank
  <2> DEFINE t == b.rows
             r == b.row
  <2>1. /\ t \in Seq(Row) /\ r \in Nat /\ r < Len(t) /\ n = Len(t) - r
        /\ \A i \in 1..Len(t) : i > r => t[i] = Blank
        /\ rest = SubSeq(t, r + 1, Len(t))
    BY <1>1
  <2> HIDE DEF t, r, rest, n
  <2>2. /\ rest \in Seq(Row) /\ Len(rest) = n
        /\ \A i \in 1..n : rest[i] = t[r + i]
    BY <2>1
  <2>3. QED
    BY <2>1, <2>2
<1>5. below = [i \in 1..n |-> Blank]
  <2> DEFINE t == parts(rest)
  <2>1. t \in Seq(Seq(Row)) /\ Len(t) = n
    <3> HIDE DEF parts, rest, n
    <3>1. QED
      BY <1>2, <1>4
  <2>2. \A i \in 1..n : t[i] = <<Blank>>
    <3>1. Wrapped(0, columns) = <<Blank>>
      BY WrapsOne
    <3>2. Blank.of = 0 /\ Blank.wrapped = FALSE
      BY DEF Blank
    <3> HIDE DEF rest, n
    <3>3. DOMAIN rest = 1..n
      BY <1>4
    <3>4. QED
      BY <1>4, <3>1, <3>2, <3>3
  <2>3. below = FlattenSeq(t)
    BY Zenon
  <2> HIDE DEF t, n, below
  <2>4. n \in Nat /\ Blank \in Row
    BY <1>1
  <2>5. FlattenSeq(t) = [i \in 1..n |-> Blank]
    BY <2>1, <2>2, <2>4, FlattenSingles, SMTT(30)
  <2>6. QED
    BY <2>3, <2>5
<1>6. below \in Seq(Row) /\ Len(below) = n /\ \A i \in 1..n : below[i] = Blank
  <2> HIDE DEF below, n
  <2>1. QED
    BY <1>1, <1>5
<1> HIDE DEF above, below, n
<1>7. /\ all \in Seq(Row) /\ Len(all) = Len(above) + n
      /\ \A i \in 1..Len(all) : i > Len(above) => all[i] = Blank
  BY <1>1, <1>3, <1>6, SMTT(30)
<1> HIDE DEF all
<1>8. missing \in Nat /\ (missing = 0 \/ missing = Height - Len(all))
      /\ Len(all) + missing >= Height
      /\ (missing # 0 => Len(all) + missing = Height)
  <2>1. Len(all) \in Nat
    BY <1>7
  <2>2. QED
    BY <1>1, <2>1 DEF Larger
<1> HIDE DEF missing
<1>9. blanks \in Seq(Row) /\ Len(blanks) = missing /\ \A i \in 1..missing : blanks[i] = Blank
  BY <1>1, <1>8
<1> HIDE DEF blanks
<1>10. /\ s \in Seq(Row) /\ Len(s) = Len(all) + missing
       /\ \A i \in 1..Len(s) : i > Len(above) => s[i] = Blank
  <2> HIDE DEF s
  <2>1. /\ s \in Seq(Row) /\ Len(s) = Len(all) + missing
        /\ \A i \in 1..Len(s) : s[i] = IF i <= Len(all) THEN all[i] ELSE blanks[i - Len(all)]
    BY <1>7, <1>9, ConcatProperties DEF s
  <2>2. ASSUME NEW i \in 1..Len(s), i > Len(above)
        PROVE  s[i] = Blank
    <3>1. CASE i <= Len(all)
      BY <1>7, <2>1, <2>2, <3>1
    <3>2. CASE ~(i <= Len(all))
      <4>1. i - Len(all) \in 1..missing
        BY <1>7, <1>8, <2>1, <3>2
      <4>2. QED
        BY <1>9, <2>1, <3>2, <4>1
    <3>3. QED
      BY <3>1, <3>2
  <2>3. QED
    BY <2>1, <2>2
<1>11. Len(above) \in Nat /\ Len(above) < Len(s) /\ Len(s) - Len(above) <= Height
       /\ Height <= Len(s)
  BY <1>1, <1>3, <1>7, <1>8, <1>10
<1>12. Rewrap(b, columns) = Trim([rows |-> s, row |-> Len(above)])
  BY DEF Rewrap, s, blanks, missing, all, above, below
<1> HIDE DEF s
<1>13. QED
  BY <1>10, <1>11, <1>12, Trims

-----------------------------------------------------------------------------
(***************************************************************************)
(* The types.  TypeOK speaks of parts that few actions touch together, and *)
(* is taken apart.                                                         *)
(***************************************************************************)
Call ==
    [call : {"sendKey"}, key : SpecialKeys, mods : SUBSET Modifiers]
    \cup [call : {"pasteBase64"}]
    \cup [call : {"setOptions"}, options : Options]
    \cup [call : {"setActive"}, value : BOOLEAN]

PageType ==
    /\ active \in BOOLEAN /\ options \in Options /\ width \in Widths /\ cols \in Nat \ {0}
    /\ frame \in BOOLEAN

MarkerType ==
    /\ outputStart \in -1..BufferMax /\ promptActive \in BOOLEAN /\ lastOutput \in Seq(Row)
    /\ shell \in {"idle", "prompt", "runs"} /\ command \in Nat /\ finished \in 0..command
    /\ rewrapped \in BOOLEAN

TouchType ==
    /\ timers \subseteq Fingers /\ timer \subseteq Fingers /\ Cardinality(timer) <= 1
    /\ longPressSent \in BOOLEAN /\ moved \in BOOLEAN
    /\ down \subseteq Fingers /\ acts \in Nat

KeyType ==
    /\ life \in {"active", "leaving", "away"} /\ armed \subseteq Modifiers
    /\ calls \in Seq(Call) /\ posts \in Seq(Item) /\ written \in Seq(Item)

BudgetType == budget \in [Parts -> Nat]

\* The parts, with what keeps the buffer in its type, are TypeOK.
LEMMA TypeParts ==
  ASSUME PageType, MarkerType, TouchType, KeyType, BudgetType, BufferOK(Buffer)
  PROVE  TypeOK
<1>1. rows \in Seq(Row) /\ Len(rows) \in Height..BufferMax /\ row \in 0..Len(rows) - 1
  BY ParametersAssumption DEF BufferOK, Buffer
<1>2. {longPressSent, moved, rewrapped} \subseteq BOOLEAN
  BY DEF TouchType, MarkerType
<1>3. QED
  BY <1>1, <1>2 DEF PageType, MarkerType, TouchType, KeyType, BudgetType, TypeOK, Call

\* The buffer of the next state.
LEMMA BufferBecomes ==
  ASSUME NEW b, BufferOK(b), rows' = b.rows, row' = b.row
  PROVE  BufferOK(Buffer)'
BY DEF BufferOK, Buffer

\* What the first of the calls is, and what is left.
LEMMA FirstCall ==
  ASSUME KeyType, calls # <<>>
  PROVE  /\ Tail(calls) \in Seq(Call) /\ Head(calls) \in Call
         /\ Head(calls).call = "sendKey" =>
                Head(calls).key \in SpecialKeys /\ Head(calls).mods \subseteq Modifiers
         /\ Head(calls).call = "setOptions" => Head(calls).options \in Options
         /\ Head(calls).call = "setActive" => Head(calls).value \in BOOLEAN
<1>1. Tail(calls) \in Seq(Call) /\ Head(calls) \in Call
  BY DEF KeyType
<1>2. ASSUME NEW c \in Call
      PROVE  /\ c.call = "sendKey" => c.key \in SpecialKeys /\ c.mods \subseteq Modifiers
             /\ c.call = "setOptions" => c.options \in Options
             /\ c.call = "setActive" => c.value \in BOOLEAN
  BY DEF Call
<1>3. QED
  BY <1>1, <1>2

\* What fit does.
LEMMA Fits ==
  ASSUME PageType, MarkerType, BufferOK(Buffer), Fit, UNCHANGED width,
         active' \in BOOLEAN, options' \in Options
  PROVE  /\ cols' \in Nat \ {0} /\ BufferOK(Buffer)'
         /\ active' /\ width # 0 => cols' = Fitted(width, options')
         /\ \/ UNCHANGED bufferVars
            \/ rewrapped' = (rewrapped \/ shell = "runs")
<1>1. CASE active' /\ width # 0
  <2>1. cols' = Fitted(width, options')
    BY <1>1 DEF Fit
  <2>2. cols' \in Nat \ {0}
    <3>1. width \in Nat
      BY ParametersAssumption DEF PageType
    <3>2. QED
      BY <2>1, <3>1, FittedType
  <2>3. CASE cols' = cols
    <3>1. UNCHANGED bufferVars
      BY <1>1, <2>3 DEF Fit
    <3>2. BufferOK(Buffer)'
      BY <3>1 DEF bufferVars, BufferOK, Buffer
    <3>3. QED
      BY <2>1, <2>2, <3>1, <3>2
  <2>4. CASE cols' # cols
    <3> DEFINE b == Rewrap(Buffer, cols')
    <3>1. rows' = b.rows /\ row' = b.row /\ rewrapped' = (rewrapped \/ shell = "runs")
      BY <1>1, <2>4 DEF Fit, Becomes
    <3>2. BufferOK(b)
      BY <2>2, Rewraps
    <3> HIDE DEF b
    <3>3. BufferOK(Buffer)'
      BY <3>1, <3>2, BufferBecomes
    <3>4. QED
      BY <2>1, <2>2, <3>1, <3>3
  <2>5. QED
    BY <2>3, <2>4
<1>2. CASE ~(active' /\ width # 0)
  <2>1. UNCHANGED <<cols, bufferVars>>
    BY <1>2 DEF Fit
  <2>2. BufferOK(Buffer)'
    BY <2>1 DEF bufferVars, BufferOK, Buffer
  <2>3. QED
    BY <1>2, <2>1, <2>2 DEF PageType
<1>3. QED
  BY <1>1, <1>2

-----------------------------------------------------------------------------
\* An active page whose columns are settled has those it should have.
FitInv == active /\ ~frame /\ width # 0 => cols = Fitted(width, options)

\* The page, and what fitting it means for the buffer.
LEMMA PageStep ==
  ASSUME PageType, MarkerType, KeyType, BufferOK(Buffer), FitInv, Layout
  PROVE  /\ PageType' /\ FitInv' /\ BufferOK(Buffer)'
         /\ UNCHANGED <<markerVars, shellVars>>
         /\ \/ UNCHANGED bufferVars
            \/ rewrapped' = (rewrapped \/ shell = "runs")
<1>1. ASSUME NEW w \in Widths, Resize(w)
      PROVE  /\ PageType' /\ FitInv' /\ BufferOK(Buffer)'
             /\ UNCHANGED <<markerVars, shellVars, bufferVars>>
  BY <1>1 DEF Resize, PageType, FitInv, BufferOK, Buffer, bufferVars
<1>2. CASE ResizeFrame
  <2>1. UNCHANGED <<active, options, width, markerVars, shellVars>> /\ Fit /\ frame' = FALSE
    BY <1>2 DEF ResizeFrame
  <2>2. active' \in BOOLEAN /\ options' \in Options /\ UNCHANGED width
    BY <2>1 DEF PageType
  <2>3. /\ cols' \in Nat \ {0} /\ BufferOK(Buffer)'
        /\ active' /\ width # 0 => cols' = Fitted(width, options')
        /\ \/ UNCHANGED bufferVars
           \/ rewrapped' = (rewrapped \/ shell = "runs")
    BY <2>1, <2>2, Fits
  <2>4. QED
    BY <2>1, <2>2, <2>3 DEF PageType, FitInv
<1>3. CASE SetOptions
  <2>1. /\ UNCHANGED <<active, width, frame, markerVars, shellVars>> /\ Fit
        /\ calls # <<>> /\ Head(calls).call = "setOptions" /\ options' = Head(calls).options
    BY <1>3 DEF SetOptions, NextCall
  <2>2. active' \in BOOLEAN /\ options' \in Options /\ UNCHANGED width
    BY <2>1, FirstCall DEF PageType
  <2>3. /\ cols' \in Nat \ {0} /\ BufferOK(Buffer)'
        /\ active' /\ width # 0 => cols' = Fitted(width, options')
        /\ \/ UNCHANGED bufferVars
           \/ rewrapped' = (rewrapped \/ shell = "runs")
    BY <2>1, <2>2, Fits
  <2>4. QED
    BY <2>1, <2>2, <2>3 DEF PageType, FitInv
<1>4. CASE SetActive
  <2>1. /\ UNCHANGED <<options, width, frame, markerVars, shellVars>> /\ Fit
        /\ calls # <<>> /\ Head(calls).call = "setActive" /\ active' = Head(calls).value
    BY <1>4 DEF SetActive, NextCall
  <2>2. active' \in BOOLEAN /\ options' \in Options /\ UNCHANGED width
    BY <2>1, FirstCall DEF PageType
  <2>3. /\ cols' \in Nat \ {0} /\ BufferOK(Buffer)'
        /\ active' /\ width # 0 => cols' = Fitted(width, options')
        /\ \/ UNCHANGED bufferVars
           \/ rewrapped' = (rewrapped \/ shell = "runs")
    BY <2>1, <2>2, Fits
  <2>4. QED
    BY <2>1, <2>2, <2>3 DEF PageType, FitInv
<1>5. QED
  BY <1>1, <1>2, <1>3, <1>4 DEF Layout

-----------------------------------------------------------------------------
(***************************************************************************)
(* The rows between the noted start and the cursor were printed by the     *)
(* command that runs, unless they were wrapped anew since it began.        *)
(***************************************************************************)
MarkInv ==
    /\ outputStart # -1 => shell = "runs"
    /\ outputStart # -1 /\ ~rewrapped =>
           \A i \in 1..row : i > outputStart => rows[i].of = command

\* What the shell's output makes of the buffer and the markers.
LEMMA ShellStepKeeps ==
  ASSUME PageType, MarkerType, BufferOK(Buffer), MarkInv, CopiesOnlyLastCommand, Shell
  PROVE  /\ MarkerType' /\ BufferOK(Buffer)' /\ MarkInv' /\ CopiesOnlyLastCommand'
         /\ UNCHANGED layoutVars
<1>1. BufferMax \in Nat /\ Height \in Nat \ {0}
  BY ParametersAssumption
<1>2. Buffer = [rows |-> Buffer.rows, row |-> Buffer.row]
      /\ Buffer.rows = rows /\ Buffer.row = row
  BY DEF Buffer
<1>3. row \in Nat /\ row < Len(rows) /\ Len(rows) \in Nat /\ Len(rows) <= BufferMax
      /\ rows \in Seq(Row)
  BY <1>1, <1>2 DEF BufferOK
<1>4. CASE ShellPrompts
  <2>1. /\ UNCHANGED <<layoutVars, bufferVars, outputStart, lastOutput, command, finished>>
        /\ shell = "idle" /\ shell' = "prompt" /\ promptActive' = TRUE
    BY <1>4 DEF ShellPrompts
  <2>2. QED
    BY <2>1 DEF bufferVars, MarkerType, BufferOK, Buffer, MarkInv, CopiesOnlyLastCommand
<1>5. CASE ShellRuns
  <2> DEFINE b == LineFeed(Buffer)
  <2>1. /\ UNCHANGED <<layoutVars, lastOutput, finished>>
        /\ shell' = "runs" /\ command' = command + 1 /\ rewrapped' = FALSE
        /\ promptActive' = FALSE /\ rows' = b.rows /\ row' = b.row
        /\ outputStart' \in {row + 1, row' + 1}
    BY <1>5 DEF ShellRuns, Becomes
  <2>2. BufferOK(b) /\ b.row <= row + 1
    <3>1. Buffer.row + 1 = row + 1
      BY <1>2
    <3> HIDE DEF b
    <3>2. QED
      BY <1>2, <3>1, LineFeeds DEF b
  <2> HIDE DEF b
  <2>3. BufferOK(Buffer)'
    BY <2>1, <2>2, BufferBecomes
  <2>4. row' \in Nat /\ row' <= row + 1 /\ row' < BufferMax
    BY <1>1, <2>1, <2>2 DEF BufferOK
  <2>5. outputStart' \in 1..BufferMax
    BY <1>1, <1>3, <2>1, <2>4
  <2>6. \A i \in 1..row' : ~(i > outputStart')
    BY <1>3, <2>1, <2>4
  <2>7. MarkerType'
    <3>1. outputStart' \in -1..BufferMax
      BY <1>1, <2>5
    <3>2. command' \in Nat /\ finished' \in 0..command'
      BY <2>1 DEF MarkerType
    <3>3. QED
      BY <2>1, <3>1, <3>2 DEF MarkerType
  <2>8. QED
    BY <2>1, <2>3, <2>6, <2>7 DEF MarkInv, CopiesOnlyLastCommand
<1>6. CASE ShellPrints
  <2> DEFINE b == PrintLine(Buffer, command)
  <2>1. UNCHANGED <<layoutVars, rewrapped, markerVars, shellVars>> /\ shell = "runs"
        /\ rows' = b.rows /\ row' = b.row
    BY <1>6 DEF ShellPrints, Becomes
  <2>2. /\ BufferOK(b)
        /\ \E x \in Nat : \A i \in 1..b.row :
              \/ b.rows[i].of = command
              \/ i + x \in 1..row /\ b.rows[i].of = rows[i + x].of
    <3>1. command \in Nat /\ cols \in Nat \ {0}
      BY DEF MarkerType, PageType
    <3>2. QED
      BY <1>2, <3>1, Prints
  <2> HIDE DEF b
  <2>3. BufferOK(Buffer)'
    BY <2>1, <2>2, BufferBecomes
  <2>4. PICK x \in Nat : \A i \in 1..b.row :
              \/ b.rows[i].of = command
              \/ i + x \in 1..row /\ b.rows[i].of = rows[i + x].of
    BY <2>2
  <2>5. ASSUME outputStart # -1, ~rewrapped, NEW i \in 1..row', i > outputStart
        PROVE  rows'[i].of = command
    <3>1. outputStart \in Int
      BY DEF MarkerType
    <3>2. i + x > outputStart
      BY <1>3, <2>1, <2>5, <3>1
    <3>3. QED
      BY <2>1, <2>4, <2>5, <3>2 DEF MarkInv
  <2>6. MarkInv'
    BY <2>1, <2>5 DEF MarkInv, markerVars, shellVars
  <2>7. QED
    BY <2>1, <2>3, <2>6 DEF MarkerType, CopiesOnlyLastCommand, markerVars, shellVars
<1>7. CASE ShellClears
  <2> DEFINE b == ClearScreen(Buffer)
  <2>1. UNCHANGED <<layoutVars, rewrapped, markerVars, shellVars>>
        /\ rows' = b.rows /\ row' = b.row
    BY <1>7 DEF ShellClears, Becomes
  <2>2. BufferOK(b) /\ b.row <= row /\ \A i \in 1..b.row : b.rows[i] = rows[i]
    BY <1>2, Clears
  <2> HIDE DEF b
  <2>3. BufferOK(Buffer)'
    BY <2>1, <2>2, BufferBecomes
  <2>4. b.row \in Nat
    BY <2>2 DEF BufferOK
  <2>5. MarkInv'
    BY <1>3, <2>1, <2>2, <2>4 DEF MarkInv, markerVars, shellVars
  <2>6. QED
    BY <2>1, <2>3, <2>5 DEF MarkerType, CopiesOnlyLastCommand, markerVars, shellVars
<1>8. CASE ShellEnds
  <2> DEFINE b == IF shell = "prompt" THEN LineFeed(Buffer) ELSE Buffer
  <2>1. /\ UNCHANGED <<layoutVars, rewrapped, promptActive, command>>
        /\ shell \in {"prompt", "runs"} /\ shell' = "idle"
        /\ rows' = b.rows /\ row' = b.row /\ MarkEnd(row')
    BY <1>8 DEF ShellEnds, Becomes
  <2>2. BufferOK(b) /\ (shell = "runs" => b.row = row)
    BY <1>2, LineFeeds
  <2> HIDE DEF b
  <2>3. BufferOK(Buffer)'
    BY <2>1, <2>2, BufferBecomes
  <2>4. CASE outputStart = -1
    <3>1. UNCHANGED <<outputStart, lastOutput, finished>>
      BY <2>1, <2>4 DEF MarkEnd
    <3>2. QED
      BY <2>1, <2>3, <2>4, <3>1 DEF MarkerType, MarkInv, CopiesOnlyLastCommand
  <2>5. CASE outputStart # -1
    <3>1. row' = row /\ shell = "runs"
      BY <2>1, <2>2, <2>5 DEF MarkInv
    <3>2. /\ lastOutput' = SubSeq(rows, outputStart + 1, row) /\ outputStart' = -1
          /\ finished' = IF rewrapped THEN 0 ELSE command
      BY <2>1, <2>5, <3>1 DEF MarkEnd
    <3>3. outputStart \in Nat
      BY <2>5 DEF MarkerType
    <3>4. /\ lastOutput' \in Seq(Row)
          /\ \A i \in 1..Len(lastOutput') :
                outputStart + i \in 1..row /\ lastOutput'[i] = rows[outputStart + i]
      <4> DEFINE m == outputStart + 1
                 t == SubSeq(rows, m, row)
      <4>1. \A i \in m..row : rows[i] \in Row
        BY <1>3, <3>3
      <4>2. m \in Int /\ row \in Int
        BY <1>3, <3>3
      <4>3. /\ t \in Seq(Row) /\ Len(t) = (IF m <= row THEN row - m + 1 ELSE 0)
            /\ \A i \in 1..row - m + 1 : t[i] = rows[m + i - 1]
        <5> HIDE DEF m
        <5>1. QED
          BY <4>1, <4>2, SubSeqProperties
      <4> HIDE DEF t
      <4>4. QED
        BY <1>3, <3>2, <3>3, <4>3 DEF t
    <3>5. MarkerType'
      BY <1>1, <2>1, <3>2, <3>4 DEF MarkerType
    <3>6. ASSUME ~rewrapped, NEW i \in 1..Len(lastOutput')
          PROVE  lastOutput'[i].of = command
      <4>1. /\ outputStart + i \in 1..row /\ outputStart + i > outputStart
            /\ lastOutput'[i] = rows[outputStart + i]
        BY <3>3, <3>4
      <4>2. QED
        BY <2>5, <3>6, <4>1 DEF MarkInv
    <3>7. CopiesOnlyLastCommand'
      <4>1. DOMAIN (lastOutput') = 1..Len(lastOutput')
        BY <3>4
      <4>2. finished' # 0 => ~rewrapped /\ finished' = command
        BY <3>2
      <4>3. QED
        BY <3>6, <4>1, <4>2 DEF CopiesOnlyLastCommand
    <3>8. MarkInv'
      BY <3>2 DEF MarkInv
    <3>9. QED
      BY <2>1, <2>3, <3>5, <3>7, <3>8
  <2>6. QED
    BY <2>4, <2>5
<1>9. QED
  BY <1>4, <1>5, <1>6, <1>7, <1>8 DEF Shell

-----------------------------------------------------------------------------
(***************************************************************************)
(* What is typed.  A special key is on its way as it was pressed from the  *)
(* call of the page on, and is never taken for typed input.                *)
(***************************************************************************)
AsPressed(item) == Meaning(item) = item.wanted /\ item.escapes <= 1

PostsInv ==
    \A i \in 1..Len(posts) :
        posts[i].key \in SpecialKeys => posts[i].direct /\ AsPressed(posts[i])

WrittenInv ==
    \A i \in 1..Len(written) : written[i].key \in SpecialKeys => AsPressed(written[i])

\* How many modifiers there are.
LEMMA CountModifiers ==
  /\ Cardinality({}) = 0
  /\ \A m : Cardinality({m}) = 1
BY FS_EmptySet, FS_Singleton

\* When an item says just the modifiers mods.
LEMMA MeaningIs ==
  ASSUME NEW item, NEW mods \in SUBSET Modifiers, item.control = FALSE,
         (item.escapes > 0 \/ item.parameter \in {3, 7}) <=> "alt" \in mods,
         item.parameter \in {5, 7} <=> "control" \in mods
  PROVE  Meaning(item) = mods
<1> DEFINE says(m) == \/ m = "alt" /\ (item.escapes > 0 \/ item.parameter \in {3, 7})
                      \/ m = "control" /\ (item.control \/ item.parameter \in {5, 7})
<1>1. says("alt") <=> "alt" \in mods
  OBVIOUS
<1>2. says("control") <=> "control" \in mods
  OBVIOUS
<1>3. Meaning(item) = {m \in {"control", "alt"} : says(m)} /\ mods \subseteq {"control", "alt"}
  BY DEF Meaning, Modifiers
<1> HIDE DEF says
<1>4. QED
  BY <1>1, <1>2, <1>3

\* specialKeySequence says which modifiers were pressed, each once.
LEMMA SequenceMeans ==
  ASSUME NEW key \in SpecialKeys, NEW mods \in SUBSET Modifiers
  PROVE  LET item == Sequence(key, mods)
         IN  item \in Item /\ item.direct /\ AsPressed(item)
<1> DEFINE item == Sequence(key, mods)
           plain == [Plain(key, mods) EXCEPT !.direct = TRUE]
           n == (IF "alt" \in mods THEN 2 ELSE 0) + (IF "control" \in mods THEN 4 ELSE 0)
<1>1. /\ plain \in Item /\ plain.key = key /\ plain.wanted = mods /\ plain.direct = TRUE
      /\ plain.control = FALSE /\ plain.escapes = 0 /\ plain.parameter = 0
  BY DEF Plain, Item
<1>2. key = "arrow" \/ (key # "arrow" /\ key \in Literals)
  BY DEF SpecialKeys
<1>3. "arrow" \notin Literals
  BY DEF Literals
<1>4. CASE key = "arrow" /\ mods = {}
  <2>1. item = plain
    BY <1>3, <1>4 DEF Sequence
  <2> HIDE DEF item, plain
  <2>2. QED
    BY <1>1, <1>4, <2>1 DEF AsPressed, Meaning, Modifiers, item
<1>5. CASE mods # {} /\ (key = "arrow" \/ "control" \in mods)
  <2>1. item = [plain EXCEPT !.parameter = n + 1]
    BY <1>2, <1>3, <1>5 DEF Sequence
  <2>2. n \in Nat /\ (n + 1 \in {3, 7} <=> "alt" \in mods)
        /\ (n + 1 \in {5, 7} <=> "control" \in mods)
    OBVIOUS
  <2> HIDE DEF item, plain, n
  <2>3. /\ item \in Item /\ item.direct = TRUE /\ item.wanted = mods /\ item.control = FALSE
        /\ item.escapes = 0 /\ item.parameter = n + 1
    BY <1>1, <2>1, <2>2 DEF Item
  <2>4. /\ item.escapes > 0 \/ item.parameter \in {3, 7} <=> "alt" \in mods
        /\ item.parameter \in {5, 7} <=> "control" \in mods
    BY <2>2, <2>3
  <2>5. Meaning(item) = mods
    BY <2>3, <2>4, MeaningIs
  <2>6. QED
    BY <2>3, <2>5 DEF AsPressed, item
<1>6. CASE key \in Literals /\ "control" \notin mods
  <2> DEFINE c == Cardinality(mods)
  <2>1. item = [plain EXCEPT !.escapes = c]
    BY <1>3, <1>6 DEF Sequence
  <2>2. mods = {} \/ mods = {"alt"}
    BY <1>6 DEF Modifiers
  <2>3. c \in {0, 1} /\ (c > 0 <=> "alt" \in mods)
    BY <2>2, CountModifiers
  <2> HIDE DEF item, plain, c
  <2>4. /\ item \in Item /\ item.direct = TRUE /\ item.wanted = mods /\ item.control = FALSE
        /\ item.escapes = c /\ item.parameter = 0
    BY <1>1, <2>1, <2>3 DEF Item
  <2>5. /\ item.escapes > 0 \/ item.parameter \in {3, 7} <=> "alt" \in mods
        /\ item.parameter \in {5, 7} <=> "control" \in mods
    BY <1>6, <2>3, <2>4
  <2>6. Meaning(item) = mods
    BY <2>4, <2>5, MeaningIs
  <2>7. QED
    BY <2>3, <2>4, <2>6 DEF AsPressed, item
<1>7. QED
  BY <1>2, <1>4, <1>5, <1>6

\* A plain item.
LEMMA PlainType ==
  ASSUME NEW key \in {"letter", "text", "answer", "moves"}, NEW mods \in SUBSET Modifiers
  PROVE  Plain(key, mods) \in Item /\ Plain(key, mods).key \notin SpecialKeys
BY DEF Plain, Item, SpecialKeys, Literals

\* A message that is posted.
LEMMA Posts ==
  ASSUME KeyType, PostsInv, NEW item \in Item,
         item.key \in SpecialKeys => item.direct /\ AsPressed(item), OnData(item)
  PROVE  posts' \in Seq(Item) /\ PostsInv'
<1>1. posts \in Seq(Item)
  BY DEF KeyType
<1>2. CASE posts' = posts
  BY <1>1, <1>2 DEF PostsInv
<1>3. CASE posts' = Append(posts, item)
  <2>1. /\ posts' \in Seq(Item) /\ Len(posts') = Len(posts) + 1
        /\ \A i \in 1..Len(posts) : posts'[i] = posts[i]
        /\ posts'[Len(posts) + 1] = item
    BY <1>1, <1>3
  <2>2. ASSUME NEW i \in 1..Len(posts')
        PROVE  posts'[i].key \in SpecialKeys => posts'[i].direct /\ AsPressed(posts'[i])
    <3>1. CASE i \in 1..Len(posts)
      BY <2>1, <3>1 DEF PostsInv
    <3>2. CASE i = Len(posts) + 1
      BY <2>1, <3>2
    <3>3. QED
      BY <1>1, <2>1, <2>2, <3>1, <3>2
  <2>3. PostsInv'
    BY <2>2 DEF PostsInv, AsPressed, Meaning
  <2>4. QED
    BY <2>1, <2>3
<1>4. QED
  BY <1>2, <1>3 DEF OnData

\* A call that is queued.
LEMMA Queues ==
  ASSUME KeyType, NEW c \in Call, calls' = Append(calls, c), UNCHANGED <<posts, written>>,
         life' \in {"active", "leaving", "away"}, armed' \subseteq Modifiers,
         PostsInv, WrittenInv
  PROVE  KeyType' /\ PostsInv' /\ WrittenInv'
BY DEF KeyType, PostsInv, WrittenInv

\* What is typed, posted and written.
LEMMA KeyStep ==
  ASSUME KeyType, PostsInv, WrittenInv, Next
  PROVE  KeyType' /\ PostsInv' /\ WrittenInv'
<1> DEFINE K == KeyType /\ PostsInv /\ WrittenInv
<1>0. /\ posts \in Seq(Item) /\ written \in Seq(Item) /\ calls \in Seq(Call)
      /\ life \in {"active", "leaving", "away"} /\ armed \subseteq Modifiers
  BY DEF KeyType
<1>1. ASSUME UNCHANGED <<keyVars, life, calls>>
      PROVE  K'
  BY <1>1 DEF KeyType, PostsInv, WrittenInv, keyVars
<1>2. ASSUME UNCHANGED <<keyVars, life>>, calls # <<>>, calls' = Tail(calls)
      PROVE  K'
  BY <1>2, FirstCall DEF KeyType, PostsInv, WrittenInv, keyVars
<1>3. ASSUME NEW item \in Item, item.key \in SpecialKeys => item.direct /\ AsPressed(item),
             OnData(item), UNCHANGED <<armed, written, life>>, calls' \in Seq(Call)
      PROVE  K'
  BY <1>3, Posts DEF KeyType, WrittenInv
<1>4. CASE Layout
  <2>1. ASSUME NEW w \in Widths, Resize(w)
        PROVE  K'
    BY <1>1, <2>1 DEF Resize
  <2>2. CASE ResizeFrame
    BY <1>1, <2>2 DEF ResizeFrame
  <2>3. CASE SetOptions
    BY <1>2, <2>3 DEF SetOptions, NextCall
  <2>4. CASE SetActive
    BY <1>2, <2>4 DEF SetActive, NextCall
  <2>5. QED
    BY <1>4, <2>1, <2>2, <2>3, <2>4 DEF Layout
<1>5. CASE Widget
  <2>1. ASSUME NEW o \in Settings, Configure(o)
        PROVE  K'
    <3>1. [call |-> "setOptions", options |-> o] \in Call
      BY ParametersAssumption DEF Call
    <3>2. QED
      BY <1>0, <2>1, <3>1, Queues DEF Configure, keyVars
  <2>2. CASE Suspend
    <3>1. [call |-> "setActive", value |-> FALSE] \in Call
      BY DEF Call
    <3>2. QED
      BY <1>0, <2>2, <3>1, Queues DEF Suspend, keyVars
  <2>3. CASE SuspendEnds
    BY <1>0, <2>3 DEF SuspendEnds, KeyType, PostsInv, WrittenInv, keyVars
  <2>4. CASE Resume
    <3>1. [call |-> "setActive", value |-> TRUE] \in Call
      BY DEF Call
    <3>2. QED
      BY <1>0, <2>4, <3>1, Queues DEF Resume, keyVars
  <2>5. QED
    BY <1>5, <2>1, <2>2, <2>3, <2>4 DEF Widget
<1>6. CASE Keys
  <2>1. CASE Type
    BY <1>0, <1>3, <2>1, PlainType DEF Type
  <2>2. CASE Answer
    BY <1>0, <1>3, <2>2, PlainType DEF Answer
  <2>3. CASE Paste
    <3>1. [call |-> "pasteBase64"] \in Call
      BY DEF Call
    <3>2. QED
      BY <1>0, <2>3, <3>1, Queues DEF Paste, keyVars
  <2>4. CASE SendKey
    <3> DEFINE item == Sequence(Head(calls).key, Head(calls).mods)
    <3>1. /\ calls # <<>> /\ Head(calls).call = "sendKey" /\ calls' = Tail(calls)
          /\ OnData(item) /\ UNCHANGED <<armed, written, life>>
      BY <2>4 DEF SendKey, NextCall
    <3>2. Head(calls).key \in SpecialKeys /\ Head(calls).mods \in SUBSET Modifiers
          /\ calls' \in Seq(Call)
      BY <3>1, FirstCall
    <3>3. item \in Item /\ item.direct /\ AsPressed(item)
      BY <3>2, SequenceMeans
    <3> HIDE DEF item
    <3>4. QED
      BY <1>3, <3>1, <3>2, <3>3
  <2>5. CASE PasteBase64
    <3>1. /\ OnData(Plain("text", {})) /\ UNCHANGED <<armed, written, life>>
          /\ calls' \in Seq(Call)
      BY <2>5, FirstCall DEF PasteBase64, NextCall
    <3>2. QED
      BY <1>3, <3>1, PlainType
  <2>6. CASE HandleInput
    <3> DEFINE item == Head(posts)
               n == Cardinality(armed \cap {"alt"})
               typed == [item EXCEPT !.control = item.key = "letter" /\ "control" \in armed,
                                     !.escapes = @ + n]
    <3>1. posts # <<>> /\ posts' = Tail(posts) /\ UNCHANGED <<life, calls>>
      BY <2>6 DEF HandleInput
    <3>2. /\ item \in Item
          /\ item.key \in SpecialKeys => item.direct /\ AsPressed(item)
      <4>1. posts[1] = Head(posts) /\ 1 \in 1..Len(posts) /\ posts[1] \in Item
        BY <1>0, <3>1
      <4>2. QED
        BY <4>1 DEF PostsInv
    <3>3. posts' \in Seq(Item) /\ PostsInv'
      <4>1. /\ posts' \in Seq(Item) /\ Len(posts') = Len(posts) - 1
            /\ \A i \in 1..Len(posts') : i + 1 \in 1..Len(posts) /\ posts'[i] = posts[i + 1]
        BY <1>0, <3>1
      <4>2. QED
        BY <4>1 DEF PostsInv, AsPressed, Meaning
    <3>4. ASSUME NEW w \in Item, written' = Append(written, w), armed' \subseteq Modifiers,
                 w.key \in SpecialKeys => AsPressed(w)
          PROVE  K'
      <4>1. /\ written' \in Seq(Item) /\ Len(written') = Len(written) + 1
            /\ \A i \in 1..Len(written) : written'[i] = written[i]
            /\ written'[Len(written) + 1] = w
        BY <1>0, <3>4
      <4>2. ASSUME NEW i \in 1..Len(written')
            PROVE  written'[i].key \in SpecialKeys => AsPressed(written'[i])
        <5>1. CASE i \in 1..Len(written)
          BY <4>1, <5>1 DEF WrittenInv
        <5>2. CASE i = Len(written) + 1
          BY <3>4, <4>1, <5>2
        <5>3. QED
          BY <1>0, <4>1, <4>2, <5>1, <5>2
      <4>3. WrittenInv'
        BY <4>2 DEF WrittenInv, AsPressed, Meaning
      <4>4. QED
        BY <1>0, <3>1, <3>3, <3>4, <4>1, <4>3 DEF KeyType
    <3>5. CASE life = "away"
      <4>1. UNCHANGED <<armed, written>>
        BY <2>6, <3>5 DEF HandleInput
      <4>2. QED
        BY <1>0, <3>1, <3>3, <4>1 DEF KeyType, WrittenInv
    <3>6. CASE life # "away" /\ item.direct
      <4>1. written' = Append(written, item) /\ armed' = armed
        BY <2>6, <3>6 DEF HandleInput
      <4> HIDE DEF item
      <4>2. QED
        BY <1>0, <3>2, <3>4, <4>1
    <3>7. CASE life # "away" /\ ~item.direct
      <4>1. written' = Append(written, typed) /\ armed' = {}
        BY <2>6, <3>7 DEF HandleInput
      <4>2. item.key \notin SpecialKeys
        BY <3>2, <3>7
      <4>3. n \in Nat
        <5>1. armed \cap {"alt"} = {} \/ armed \cap {"alt"} = {"alt"}
          OBVIOUS
        <5>2. Cardinality({}) = 0 /\ Cardinality({"alt"}) = 1
          BY CountModifiers
        <5>3. n = 0 \/ n = 1
          BY <5>1, <5>2, Zenon
        <5>4. QED
          BY <5>3
      <4>4. typed \in Item /\ typed.key = item.key
        <5> DEFINE b == item.key = "letter" /\ "control" \in armed
                   e == item.escapes + n
        <5>1. b \in BOOLEAN /\ e \in Nat
          BY <3>2, <4>3 DEF Item
        <5>2. typed = [item EXCEPT !.control = b, !.escapes = e]
          OBVIOUS
        <5> HIDE DEF b, e, typed, item
        <5>3. QED
          BY <3>2, <5>1, <5>2 DEF Item
      <4> HIDE DEF typed, item
      <4>5. QED
        BY <3>4, <4>1, <4>2, <4>4
    <3>8. QED
      BY <3>5, <3>6, <3>7
  <2>7. ASSUME NEW m \in Modifiers, Toggle(m)
        PROVE  K'
    BY <1>0, <2>7 DEF Toggle, KeyType, PostsInv, WrittenInv
  <2>8. ASSUME NEW key \in SpecialKeys, PressKey(key)
        PROVE  K'
    <3>1. [call |-> "sendKey", key |-> key, mods |-> armed] \in Call
      BY <1>0 DEF Call
    <3>2. /\ calls' = Append(calls, [call |-> "sendKey", key |-> key, mods |-> armed])
          /\ UNCHANGED <<posts, written, life>> /\ armed' = {}
      BY <2>8 DEF PressKey
    <3>3. QED
      BY <1>0, <3>1, <3>2, Queues
  <2>9. QED
    BY <1>6, <2>1, <2>2, <2>3, <2>4, <2>5, <2>6, <2>7, <2>8 DEF Keys
<1>7. CASE Shell
  BY <1>1, <1>7 DEF Shell, ShellPrompts, ShellRuns, ShellPrints, ShellClears, ShellEnds
<1>8. CASE Touch
  <2>1. ASSUME NEW f \in Fingers, PointerUp(f)
        PROVE  K'
    <3>1. UNCHANGED <<armed, written, life, calls>>
          /\ (posts' = posts \/ OnData(Plain("moves", {})))
      BY <2>1 DEF PointerUp, MovePromptCursor
    <3>2. QED
      BY <1>0, <1>1, <1>3, <3>1, PlainType DEF keyVars
  <2>2. ASSUME NEW f \in Fingers, PointerDown(f) \/ LongPress(f) \/ PointerCancel(f)
        PROVE  K'
    BY <1>1, <2>2 DEF PointerDown, LongPress, PointerCancel
  <2>3. CASE PointerMove
    BY <1>1, <2>3 DEF PointerMove
  <2>4. QED
    BY <1>8, <2>1, <2>2, <2>3 DEF Touch
<1>9. QED
  BY <1>4, <1>5, <1>6, <1>7, <1>8 DEF Next

-----------------------------------------------------------------------------
(* Touches.                                                                *)

\* The types of a touch, of any number of fingers.
LEMMA TouchTypeStep ==
  ASSUME PageType, TouchType, Next
  PROVE  TouchType'
<1>1. ASSUME UNCHANGED touchVars
      PROVE  TouchType'
  BY <1>1 DEF TouchType, touchVars
<1>2. CASE Layout \/ Widget \/ Keys \/ Shell
  BY <1>1, <1>2 DEF Layout, Widget, Keys, Shell, Resize, ResizeFrame, SetOptions, SetActive,
     Configure, Suspend, SuspendEnds, Resume, Type, Answer, Paste, SendKey, PasteBase64,
     HandleInput, Toggle, PressKey, ShellPrompts, ShellRuns, ShellPrints, ShellClears, ShellEnds
<1>3. ASSUME NEW f \in Fingers, PointerDown(f)
      PROVE  TouchType'
  <2>1. Cardinality({f}) <= 1
    <3>1. Cardinality({f}) = 1
      BY FS_Singleton
    <3>2. QED
      BY <3>1
  <2>2. (timers' = timers \cup {f} /\ timer' = {f}) \/ UNCHANGED <<timers, timer>>
    BY <1>3 DEF PointerDown
  <2>3. /\ down' = down \cup {f} /\ (acts' = 0 \/ acts' = acts)
        /\ moved' = FALSE /\ longPressSent' = FALSE
    BY <1>3 DEF PointerDown
  <2>4. timers' \subseteq Fingers /\ timer' \subseteq Fingers /\ Cardinality(timer') <= 1
    <3>1. CASE timers' = timers \cup {f} /\ timer' = {f}
      BY <2>1, <3>1 DEF TouchType
    <3>2. CASE UNCHANGED <<timers, timer>>
      BY <3>2 DEF TouchType
    <3>3. QED
      BY <2>2, <3>1, <3>2
  <2>5. down' \subseteq Fingers /\ acts' \in Nat
    BY <2>3 DEF TouchType
  <2>6. longPressSent' \in BOOLEAN /\ moved' \in BOOLEAN
    BY <2>3
  <2>7. QED
    BY <2>4, <2>5, <2>6 DEF TouchType
<1>4. ASSUME NEW f \in Fingers, LongPress(f)
      PROVE  TouchType'
  BY <1>4 DEF LongPress, TouchType
<1>5. ASSUME NEW f \in Fingers, PointerUp(f)
      PROVE  TouchType'
  <2>1. acts' = acts \/ acts' = acts + 1
    BY <1>5 DEF PointerUp, MovePromptCursor
  <2>2. /\ down' = down \ {f} /\ timers' = timers \ timer
        /\ UNCHANGED <<timer, longPressSent, moved>>
    BY <1>5 DEF PointerUp
  <2>3. QED
    BY <2>1, <2>2 DEF TouchType
<1>6. ASSUME NEW f \in Fingers, PointerCancel(f)
      PROVE  TouchType'
  BY <1>6 DEF PointerCancel, TouchType
<1>7. CASE PointerMove
  BY <1>7 DEF PointerMove, TouchType
<1>8. QED
  BY <1>2, <1>3, <1>4, <1>5, <1>6, <1>7 DEF Next, Touch

\* One finger: until its long press nothing was made of the touch, and no time runs
\* without it.
TouchInv ==
    /\ timers \subseteq timer
    /\ down # {} /\ ~longPressSent => acts = 0
    /\ longPressSent => timers = {}
    /\ TouchActsOnce

\* The inductive step of TouchInv.
LEMMA TouchStep ==
  ASSUME \A f, g \in Fingers : f = g, TouchType, TouchInv, Next
  PROVE  TouchInv'
<1>1. ASSUME UNCHANGED touchVars
      PROVE  TouchInv'
  BY <1>1 DEF TouchInv, TouchActsOnce, touchVars
<1>2. CASE Layout \/ Widget \/ Keys \/ Shell
  BY <1>1, <1>2 DEF Layout, Widget, Keys, Shell, Resize, ResizeFrame, SetOptions, SetActive,
     Configure, Suspend, SuspendEnds, Resume, Type, Answer, Paste, SendKey, PasteBase64,
     HandleInput, Toggle, PressKey, ShellPrompts, ShellRuns, ShellPrints, ShellClears, ShellEnds
<1>3. ASSUME NEW f \in Fingers, PointerDown(f)
      PROVE  TouchInv'
  <2>1. down = {}
    BY <1>3 DEF PointerDown, TouchType
  <2>2. timers = {}
    BY <2>1 DEF TouchInv, TouchActsOnce
  <2>3. (timers' = timers \cup {f} /\ timer' = {f}) \/ UNCHANGED <<timers, timer>>
    BY <1>3 DEF PointerDown
  <2>4. down' = down \cup {f} /\ acts' = 0 /\ longPressSent' = FALSE
    BY <1>3, <2>1 DEF PointerDown
  <2>5. QED
    BY <2>2, <2>3, <2>4 DEF TouchInv, TouchActsOnce
<1>4. ASSUME NEW f \in Fingers, LongPress(f)
      PROVE  TouchInv'
  <2>1. /\ f \in timers /\ timers' = timers \ {f} /\ longPressSent' = TRUE
        /\ acts' = acts + 1 /\ UNCHANGED <<timer, down>>
    BY <1>4 DEF LongPress
  <2>2. timers' = {}
    BY <2>1 DEF TouchType
  <2>3. acts = 0
    BY <2>1 DEF TouchInv, TouchActsOnce
  <2>4. QED
    BY <2>1, <2>2, <2>3 DEF TouchInv, TouchActsOnce
<1>5. ASSUME NEW f \in Fingers, PointerUp(f)
      PROVE  TouchInv'
  <2>1. acts' = acts \/ (acts' = acts + 1 /\ ~longPressSent)
    BY <1>5 DEF PointerUp, MovePromptCursor
  <2>2. /\ f \in down /\ down' = down \ {f} /\ timers' = timers \ timer
        /\ UNCHANGED <<timer, longPressSent>>
    BY <1>5 DEF PointerUp
  <2>3. down' = {} /\ timers' = {}
    BY <2>2 DEF TouchType, TouchInv
  <2>4. acts' <= 1
    BY <2>1, <2>2 DEF TouchInv, TouchActsOnce
  <2>5. QED
    BY <2>2, <2>3, <2>4 DEF TouchInv, TouchActsOnce
<1>6. ASSUME NEW f \in Fingers, PointerCancel(f)
      PROVE  TouchInv'
  <2>1. /\ f \in down /\ down' = down \ {f} /\ timers' = timers \ timer
        /\ UNCHANGED <<timer, longPressSent, acts>>
    BY <1>6 DEF PointerCancel
  <2>2. down' = {} /\ timers' = {}
    BY <2>1 DEF TouchType, TouchInv
  <2>3. QED
    BY <2>1, <2>2 DEF TouchInv, TouchActsOnce
<1>7. CASE PointerMove
  BY <1>7 DEF PointerMove, TouchInv, TouchActsOnce
<1>8. QED
  BY <1>2, <1>3, <1>4, <1>5, <1>6, <1>7 DEF Next, Touch

-----------------------------------------------------------------------------
\* A budget is spent one by one.
LEMMA BudgetStep ==
  ASSUME BudgetType, Next
  PROVE  BudgetType'
<1>1. ASSUME NEW part \in Parts, Spend(part)
      PROVE  BudgetType'
  <2>1. budget[part] \in Nat /\ budget[part] > 0
    BY <1>1 DEF Spend, BudgetType
  <2>2. budget[part] - 1 \in Nat /\ budget' = [budget EXCEPT ![part] = budget[part] - 1]
    BY <1>1, <2>1 DEF Spend
  <2>3. QED
    BY <2>2 DEF BudgetType
<1>2. ASSUME UNCHANGED budget
      PROVE  BudgetType'
  BY <1>2 DEF BudgetType
<1>3. UNCHANGED budget \/ \E part \in Parts : Spend(part)
  BY DEF Next, Parts, Layout, Widget, Keys, Shell, Touch, Resize, ResizeFrame, SetOptions,
     SetActive, Configure, Suspend, SuspendEnds, Resume, Type, Answer, Paste, SendKey,
     PasteBase64, HandleInput, Toggle, PressKey, ShellStep, ShellPrompts, ShellRuns,
     ShellPrints, ShellClears, ShellEnds, PointerMove, PointerDown, LongPress, PointerUp,
     PointerCancel
<1>4. QED
  BY <1>1, <1>2, <1>3

-----------------------------------------------------------------------------
(***************************************************************************)
(* The inductive invariant and the theorems.                               *)
(***************************************************************************)
Inv ==
    /\ PageType /\ MarkerType /\ TouchType /\ KeyType /\ BudgetType
    /\ BufferOK(Buffer) /\ FitInv /\ MarkInv /\ CopiesOnlyLastCommand
    /\ PostsInv /\ WrittenInv

\* The invariant holds in the initial states.
LEMMA InvInit ==
  ASSUME Init
  PROVE  Inv
<1>1. Height \in Nat \ {0} /\ BufferMax \in Nat /\ BufferMax >= Height /\ Blank \in Row
  BY ParametersAssumption DEF Blank, Row
<1>2. options \in Options
  <2>1. \E c \in Cells : TRUE
    BY ParametersAssumption
  <2>2. (CHOOSE c \in Cells : TRUE) \in Cells
    BY <2>1, Zenon
  <2>3. QED
    BY <2>2 DEF Init, Options
<1>3. width \in Widths \ {0} /\ width \in Nat /\ cols = Fitted(width, options)
  BY ParametersAssumption DEF Init
<1>4. PageType
  BY <1>2, <1>3, FittedType DEF Init, PageType
<1>5. BufferOK(Buffer)
  <2>1. rows = [i \in 1..Height |-> Blank] /\ row = 0
    BY DEF Init
  <2>2. rows \in Seq(Row) /\ Len(rows) = Height /\ \A i \in 1..Height : rows[i] = Blank
    BY <1>1, <2>1
  <2>3. QED
    BY <1>1, <2>1, <2>2 DEF BufferOK, Buffer
<1>6. MarkerType /\ MarkInv /\ CopiesOnlyLastCommand
  <2>1. /\ outputStart = -1 /\ lastOutput = <<>> /\ shell = "idle" /\ command = 0
        /\ finished = 0 /\ rewrapped = FALSE /\ promptActive = FALSE
    BY DEF Init
  <2>2. lastOutput \in Seq(Row) /\ outputStart \in -1..BufferMax
    BY <1>1, <2>1
  <2>3. promptActive \in BOOLEAN /\ rewrapped \in BOOLEAN
    BY <2>1
  <2>4. shell \in {"idle", "prompt", "runs"} /\ command \in Nat /\ finished \in 0..command
    BY <2>1
  <2>5. MarkerType
    BY <2>2, <2>3, <2>4 DEF MarkerType
  <2>6. MarkInv /\ CopiesOnlyLastCommand
    BY <2>1 DEF MarkInv, CopiesOnlyLastCommand
  <2>7. QED
    BY <2>5, <2>6
<1>7. TouchType
  <2>1. Cardinality({}) = 0
    BY FS_EmptySet
  <2>2. /\ timers = {} /\ timer = {} /\ down = {} /\ acts = 0
        /\ longPressSent = FALSE /\ moved = FALSE
    BY DEF Init
  <2>3. Cardinality(timer) <= 1
    BY <2>1, <2>2
  <2>4. QED
    BY <2>2, <2>3 DEF TouchType
<1>8. KeyType
  <2>1. PICK o \in Settings : calls = << [call |-> "setOptions", options |-> o],
                                         [call |-> "setActive", value |-> TRUE] >>
    BY DEF Init
  <2> DEFINE a == [call |-> "setOptions", options |-> o]
             b == [call |-> "setActive", value |-> TRUE]
  <2>2. a \in Call /\ b \in Call
    BY ParametersAssumption DEF Call
  <2> HIDE DEF a, b
  <2>3. calls \in Seq(Call)
    BY <2>1, <2>2 DEF a, b
  <2>4. life = "active" /\ armed = {} /\ posts = <<>> /\ written = <<>>
    BY DEF Init
  <2>5. posts \in Seq(Item) /\ written \in Seq(Item)
    BY <2>4
  <2>6. QED
    BY <2>3, <2>4, <2>5 DEF KeyType
<1>9. PostsInv /\ WrittenInv
  BY DEF Init, PostsInv, WrittenInv
<1>10. BudgetType
  BY ParametersAssumption DEF Init, BudgetType
<1>11. FitInv
  BY <1>3 DEF FitInv
<1>12. QED
  BY <1>4, <1>5, <1>6, <1>7, <1>8, <1>9, <1>10, <1>11 DEF Inv

\* Every step keeps it.
LEMMA InvStep ==
  ASSUME Inv, [Next]_vars
  PROVE  Inv'
<1>1. CASE Next
  <2>1. TouchType' /\ KeyType' /\ PostsInv' /\ WrittenInv' /\ BudgetType'
    BY <1>1, TouchTypeStep, KeyStep, BudgetStep DEF Inv
  <2>2. PageType' /\ MarkerType' /\ BufferOK(Buffer)' /\ FitInv' /\ MarkInv'
        /\ CopiesOnlyLastCommand'
    <3>1. CASE Layout
      <4>1. /\ PageType' /\ FitInv' /\ BufferOK(Buffer)'
            /\ UNCHANGED <<markerVars, shellVars>>
            /\ UNCHANGED bufferVars \/ rewrapped' = (rewrapped \/ shell = "runs")
        BY <3>1, PageStep DEF Inv
      <4>2. CASE UNCHANGED bufferVars
        BY <4>1, <4>2 DEF Inv, MarkerType, MarkInv, CopiesOnlyLastCommand, markerVars,
                          shellVars, bufferVars
      <4>3. CASE rewrapped' = (rewrapped \/ shell = "runs")
        <5>1. rewrapped' \in BOOLEAN /\ (shell = "runs" => rewrapped')
          BY <4>3 DEF Inv, MarkerType
        <5>2. QED
          BY <4>1, <5>1 DEF Inv, MarkerType, MarkInv, CopiesOnlyLastCommand, markerVars,
                            shellVars
      <4>4. QED
        BY <4>1, <4>2, <4>3
    <3>2. CASE Shell
      <4>1. /\ MarkerType' /\ BufferOK(Buffer)' /\ MarkInv' /\ CopiesOnlyLastCommand'
            /\ UNCHANGED layoutVars
        BY <3>2, ShellStepKeeps DEF Inv
      <4>2. QED
        BY <4>1 DEF Inv, PageType, FitInv, layoutVars
    <3>3. CASE Widget \/ Keys \/ Touch
      <4>1. UNCHANGED <<layoutVars, bufferVars, markerVars, shellVars>>
        BY <3>3 DEF Widget, Keys, Touch, Configure, Suspend, SuspendEnds, Resume, Type, Answer,
           Paste, SendKey, PasteBase64, HandleInput, Toggle, PressKey, PointerMove,
           PointerDown, LongPress, PointerUp, PointerCancel
      <4>2. QED
        BY <4>1 DEF Inv, PageType, MarkerType, BufferOK, Buffer, FitInv, MarkInv,
           CopiesOnlyLastCommand, layoutVars, bufferVars, markerVars, shellVars
    <3>4. QED
      BY <1>1, <3>1, <3>2, <3>3 DEF Next
  <2>3. QED
    BY <2>1, <2>2 DEF Inv
<1>2. CASE UNCHANGED vars
  <2>1. UNCHANGED <<layoutVars, bufferVars, markerVars, touchVars, shellVars, keyVars, life,
                    calls, budget>>
    BY <1>2 DEF vars
  <2>2. PageType' /\ FitInv'
    BY <2>1 DEF layoutVars, PageType, FitInv, Inv
  <2>3. MarkerType' /\ MarkInv' /\ CopiesOnlyLastCommand'
    BY <2>1 DEF bufferVars, markerVars, shellVars, MarkerType, MarkInv, CopiesOnlyLastCommand,
       Inv
  <2>4. BufferOK(Buffer)'
    BY <2>1 DEF bufferVars, BufferOK, Buffer, Inv
  <2>5. TouchType'
    BY <2>1 DEF touchVars, TouchType, Inv
  <2>6. KeyType' /\ PostsInv' /\ WrittenInv' /\ BudgetType'
    BY <2>1 DEF keyVars, KeyType, PostsInv, WrittenInv, BudgetType, Inv
  <2>7. QED
    BY <2>2, <2>3, <2>4, <2>5, <2>6 DEF Inv
<1>3. QED
  BY <1>1, <1>2

\* The invariant holds in every reachable state.
LEMMA InvHolds == Spec => []Inv
<1>1. Init => Inv
  BY InvInit
<1>2. Inv /\ [Next]_vars => Inv'
  BY InvStep
<1>3. QED
  BY <1>1, <1>2, PTL DEF Spec

\* The types of the page and the widget, whatever the sizes of the screen and the
\* scrollback: the cursor stays inside the buffer.
THEOREM TypeCorrect == Spec => []TypeOK
<1>1. Inv => TypeOK
  BY TypeParts DEF Inv
<1>2. QED
  BY <1>1, InvHolds, PTL

\* Whatever changed while a page was not active or not shown, an active page with
\* nothing to wait for has the columns its viewport, font and mode call for, and Wide
\* at least outside agent mode.
THEOREM ColumnsFit == Spec => []FitsWhenActive
<1>1. ASSUME Inv
      PROVE  FitsWhenActive
  <2>1. SUFFICES ASSUME active, ~frame, width # 0
                 PROVE  cols = Fitted(width, options) /\ (~options.agentMode => cols >= Wide)
    BY DEF FitsWhenActive
  <2>2. cols = Fitted(width, options)
    BY <1>1, <2>1 DEF Inv, FitInv
  <2>3. width \in Widths \ {0} /\ options \in Options
    BY <1>1, <2>1 DEF Inv, PageType
  <2>4. QED
    BY <2>2, <2>3, FittedIsWide
<1>2. QED
  BY <1>1, InvHolds, PTL

\* What is copied as the last output was printed by the last command that ended, unless
\* its rows were wrapped anew.
THEOREM CopyIsOfLastCommand == Spec => []CopiesOnlyLastCommand
<1>1. Inv => CopiesOnlyLastCommand
  BY DEF Inv
<1>2. QED
  BY <1>1, InvHolds, PTL

\* A special key is written with the modifiers it was pressed with, each once.
THEOREM KeysAsPressed == Spec => []SpecialKeysAsPressed
<1>1. ASSUME Inv
      PROVE  SpecialKeysAsPressed
  <2>1. written \in Seq(Item)
    BY <1>1 DEF Inv, KeyType
  <2>2. DOMAIN written = 1..Len(written)
    BY <2>1
  <2>3. QED
    BY <1>1, <2>2 DEF Inv, WrittenInv, AsPressed, SpecialKeysAsPressed
<1>2. QED
  BY <1>1, InvHolds, PTL

\* A touch with one finger makes one thing at most, and leaves no long press behind.
THEOREM OneActPerTouch ==
  ASSUME \A f, g \in Fingers : f = g
  PROVE  Spec => []TouchActsOnce
<1>1. Init => TouchInv
  BY DEF Init, TouchInv, TouchActsOnce
<1>2. Inv /\ TouchInv /\ [Next]_vars => TouchInv'
  <2>1. ASSUME Inv, TouchInv, Next
        PROVE  TouchInv'
    BY <2>1, TouchStep DEF Inv
  <2>2. ASSUME TouchInv, UNCHANGED vars
        PROVE  TouchInv'
    BY <2>2 DEF vars, touchVars, TouchInv, TouchActsOnce
  <2>3. QED
    BY <2>1, <2>2
<1>3. TouchInv => TouchActsOnce
  BY DEF TouchInv
<1>4. QED
  BY <1>1, <1>2, <1>3, InvHolds, PTL DEF Spec
=============================================================================
