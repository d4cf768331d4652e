---------------------------- MODULE UploadProofs ----------------------------
(***************************************************************************)
(* Proofs about Upload: FormIsHeard, PiecesJoin, WholeUpload and           *)
(* BufferHeld hold for every boundary, every chunk size, all header lines, *)
(* every set of well-formed forms and of raw bodies, however the body is   *)
(* cut into pieces and wherever time-outs, errors, a closed connection and *)
(* a lack of memory come in.                                               *)
(*                                                                         *)
(* The argument follows the parser through the body.  Encode is laid out   *)
(* first: where each delimiter, header line and content begins             *)
(* (EncodeLayout).  Then the body is divided into zones (Zone): the first  *)
(* line, the headers of a part, its content with a guess of g symbols of   *)
(* the delimiter behind it, the two symbols behind a delimiter, the        *)
(* epilogue; each says where the parser is, what state it is in, and       *)
(* which parts have been told, the one at hand up to what its buffer       *)
(* holds.  The next byte leads from zone to zone (ZoneStep).  The hard     *)
(* one is a guess that fails: the guessed symbols are given back, and are  *)
(* the next symbols of the content because CR occurs in the delimiter only *)
(* at its head and the content has no delimiter in it (WrongIsContent).    *)
(* The inductive invariant Inv puts the parser of every loop in a zone of  *)
(* its body, and adds the counters of the loop and the calls made so far.  *)
(***************************************************************************)
EXTENDS Upload, ListsProofs

-----------------------------------------------------------------------------
(* Texts. *)

D == Len(Delimiter)

\* p is in t, from offset o on.
At(t, o, p) ==
  /\ o \in Nat /\ o + Len(p) <= Len(t)
  /\ \A k \in 1 .. Len(p) : t[o + k] = p[k]

\* A sequence over a set is one over every larger set.
LEMMA SeqWiden ==
  ASSUME NEW A, NEW B, A \subseteq B, NEW s \in Seq(A)
  PROVE  s \in Seq(B)
  OBVIOUS

\* A text is a sequence over every set that holds its symbols.
LEMMA TextOf ==
  ASSUME NEW s, IsText(s), NEW A, ToSet(s) \subseteq A
  PROVE  s \in Seq(A) /\ Len(s) \in Nat /\ DOMAIN s = 1 .. Len(s) /\ \A k \in 1 .. Len(s) : s[k] \in A
<1>1. s \in Seq(ToSet(s))
  BY DEF IsText
<1>2. s \in Seq(A)
  BY <1>1, SeqWiden
<1> QED
  BY <1>2

\* Both parts of a concatenation are in it, each at its place.
LEMMA AtParts ==
  ASSUME NEW A, NEW s \in Seq(A), NEW t \in Seq(A)
  PROVE  s \o t \in Seq(A) /\ Len(s \o t) = Len(s) + Len(t) /\ At(s \o t, 0, s) /\ At(s \o t, Len(s), t)
  BY DEF At

\* What is in a part of a text is in the text.
LEMMA AtAt ==
  ASSUME NEW A, NEW t, NEW s, NEW p, NEW o, NEW q, t \in Seq(A), s \in Seq(A), p \in Seq(A),
         At(t, o, s), At(s, q, p)
  PROVE  At(t, o + q, p)
<1>1. PICK l \in Nat, m \in Nat, n \in Nat : l = Len(p) /\ m = Len(s) /\ n = Len(t)
  OBVIOUS
<1>2. /\ o \in Nat /\ o + m <= n /\ \A k \in 1 .. m : t[o + k] = s[k]
      /\ q \in Nat /\ q + l <= m /\ \A k \in 1 .. l : s[q + k] = p[k]
  BY <1>1 DEF At
<1>3. ASSUME NEW k \in 1 .. l PROVE t[(o + q) + k] = p[k]
  <2>1. q + k \in 1 .. m /\ o + (q + k) = (o + q) + k
    BY <1>2
  <2>2. t[o + (q + k)] = s[q + k] /\ s[q + k] = p[k]
    BY <1>2, <2>1
  <2> QED
    BY <2>1, <2>2
<1>4. o + q \in Nat /\ (o + q) + l <= n
  BY <1>2
<1> QED
  BY <1>1, <1>3, <1>4 DEF At

\* Text stays where it is when more comes behind it.
LEMMA AtLonger ==
  ASSUME NEW A, NEW s \in Seq(A), NEW t \in Seq(A), NEW p \in Seq(A), NEW o, At(s, o, p)
  PROVE  At(s \o t, o, p)
<1>1. s \o t \in Seq(A) /\ At(s \o t, 0, s)
  BY AtParts
<1>2. At(s \o t, 0 + o, p)
  BY <1>1, AtAt
<1>3. o \in Nat
  BY DEF At
<1> QED
  BY <1>2, <1>3

\* Two symbols that are in a text, one by one.
LEMMA PairParts ==
  ASSUME NEW x, NEW y, NEW t, NEW o, At(t, o, <<x, y>>)
  PROVE  t[o + 1] = x /\ t[o + 2] = y
<1>1. Len(<<x, y>>) = 2 /\ <<x, y>>[1] = x /\ <<x, y>>[2] = y /\ 1 \in 1 .. 2 /\ 2 \in 1 .. 2
  OBVIOUS
<1> QED
  BY <1>1 DEF At

\* A header line that is in a text, symbol by symbol.
LEMMA LineParts ==
  ASSUME NEW l, NEW t, NEW o, At(t, o, Line(l))
  PROVE  t[o + 1] = l /\ t[o + 2] = CR /\ t[o + 3] = LF
<1>1. Len(Line(l)) = 3 /\ Line(l)[1] = l /\ Line(l)[2] = CR /\ Line(l)[3] = LF
  BY DEF Line
<1>2. 1 \in 1 .. 3 /\ 2 \in 1 .. 3 /\ 3 \in 1 .. 3
  OBVIOUS
<1> QED
  BY <1>1, <1>2 DEF At

\* The delimiter begins with the only CR there is in it.
LEMMA DelimiterProperties ==
  ASSUME NEW A, {CR, LF, Dash} \cup ToSet(Boundary) \subseteq A
  PROVE  /\ Delimiter \in Seq(A) /\ Boundary \in Seq(A)
         /\ D = 4 + Len(Boundary) /\ Len(Boundary) \in Nat \ {0}
         /\ D = Len(Delimiter) /\ D \in Nat /\ D >= 4
         /\ Delimiter[1] = CR /\ Delimiter[2] = LF /\ Delimiter[3] = Dash /\ Delimiter[4] = Dash
         /\ \A k \in 1 .. Len(Boundary) : Delimiter[4 + k] = Boundary[k]
         /\ \A k \in 2 .. D : Delimiter[k] # CR
<1>1. /\ Boundary \in Seq(A) /\ Len(Boundary) \in Nat
      /\ DOMAIN Boundary = 1 .. Len(Boundary)
  BY BoundaryAssumption, TextOf
<1>2. Len(Boundary) # 0
  BY <1>1, BoundaryAssumption
<1>3. <<CR, LF, Dash, Dash>> \in Seq(A) /\ Len(<<CR, LF, Dash, Dash>>) = 4
  <2>1. CR \in A /\ LF \in A /\ Dash \in A
    OBVIOUS
  <2> QED
    BY <2>1
<1> DEFINE q == <<CR, LF, Dash, Dash>>
<1>4. q[1] = CR /\ q[2] = LF /\ q[3] = Dash /\ q[4] = Dash
  OBVIOUS
<1>5. q \in Seq(A) /\ Len(q) = 4 /\ Delimiter = q \o Boundary
  BY <1>3 DEF Delimiter
<1> HIDE DEF q
<1>6. /\ Delimiter \in Seq(A) /\ D = 4 + Len(Boundary)
      /\ \A k \in 1 .. 4 : Delimiter[k] = q[k]
      /\ \A k \in 1 .. Len(Boundary) : Delimiter[4 + k] = Boundary[k]
  <2>1. PICK b \in Seq(A) : b = Boundary
    BY <1>1
  <2>2. PICK c \in Seq(A) : c = q
    BY <1>5
  <2>3. c \o b \in Seq(A) /\ Len(c \o b) = Len(c) + Len(b)
    OBVIOUS
  <2>4. \A k \in 1 .. Len(c) : (c \o b)[k] = c[k]
    OBVIOUS
  <2>5. \A k \in 1 .. Len(b) : (c \o b)[Len(c) + k] = b[k]
    OBVIOUS
  <2> QED
    BY <1>5, <2>1, <2>2, <2>3, <2>4, <2>5 DEF D
<1>7. ASSUME NEW k \in 1 .. Len(Boundary) PROVE Boundary[k] # CR
  BY <1>1, BoundaryAssumption DEF ToSet
<1>8. LF # CR /\ Dash # CR
  BY DEF CR, LF, Dash
<1>9. ASSUME NEW k \in 2 .. D PROVE Delimiter[k] # CR
  <2>1. PICK b \in Nat : b = Len(Boundary)
    BY <1>1
  <2>2. k = 2 \/ k = 3 \/ k = 4 \/ (k - 4 \in 1 .. b /\ k = 4 + (k - 4))
    BY <1>6, <2>1
  <2>3. 2 \in 1 .. 4 /\ 3 \in 1 .. 4 /\ 4 \in 1 .. 4
    OBVIOUS
  <2>4. Delimiter[2] # CR /\ Delimiter[3] # CR /\ Delimiter[4] # CR
    BY <1>4, <1>6, <1>8, <2>3
  <2>5. ASSUME NEW j \in 1 .. b PROVE Delimiter[4 + j] # CR
    BY <1>6, <1>7, <2>1
  <2> QED
    BY <2>2, <2>4, <2>5
<1>10. 1 \in 1 .. 4 /\ 2 \in 1 .. 4 /\ 3 \in 1 .. 4 /\ 4 \in 1 .. 4
  OBVIOUS
<1>11. D = Len(Delimiter) /\ D \in Nat /\ D >= 4
  <2>1. PICK b \in Nat : b = Len(Boundary)
    BY <1>1
  <2>2. D = 4 + b
    BY <1>6, <2>1
  <2> QED
    BY <2>2 DEF D
<1>12. Delimiter[1] = CR /\ Delimiter[2] = LF /\ Delimiter[3] = Dash /\ Delimiter[4] = Dash
  BY <1>4, <1>6, <1>10
<1> QED
  BY <1>1, <1>2, <1>6, <1>9, <1>11, <1>12

-----------------------------------------------------------------------------
(* Where everything is in an encoded form. *)

Flat(v, k) == FlattenSeq([i \in 1 .. k |-> v[i]])

\* The first k texts put together grow by one text at a time.
LEMMA FlatProperties ==
  ASSUME NEW A, NEW n \in Nat, NEW v \in [1 .. n -> Seq(A)]
  PROVE  /\ Flat(v, 0) = <<>>
         /\ \A k \in 0 .. n : Flat(v, k) \in Seq(A)
         /\ \A k \in 1 .. n : Flat(v, k) = Flat(v, k - 1) \o v[k]
  BY FlattenProperties DEF Flat

\* Each of the texts that are put together is in the result, behind the ones before.
LEMMA FlatAt ==
  ASSUME NEW A, NEW n \in Nat, NEW v \in [1 .. n -> Seq(A)]
  PROVE  \A k \in 0 .. n : \A j \in 1 .. k : At(Flat(v, k), Len(Flat(v, j - 1)), v[j])
<1> DEFINE T == {k \in 0 .. n : \A j \in 1 .. k : At(Flat(v, k), Len(Flat(v, j - 1)), v[j])}
<1>1. 0 \in T
  OBVIOUS
<1>2. ASSUME NEW k \in 0 .. n - 1, k \in T PROVE k + 1 \in T
  <2>1. k + 1 \in 1 .. n /\ k + 1 \in 0 .. n /\ (k + 1) - 1 = k /\ k \in 0 .. n
    OBVIOUS
  <2>2. /\ Flat(v, k) \in Seq(A) /\ v[k + 1] \in Seq(A)
        /\ Flat(v, k + 1) = Flat(v, k) \o v[k + 1]
    BY <2>1, FlatProperties
  <2>3. At(Flat(v, k + 1), Len(Flat(v, k)), v[k + 1])
    BY <2>2, AtParts
  <2>4. ASSUME NEW j \in 1 .. k PROVE At(Flat(v, k + 1), Len(Flat(v, j - 1)), v[j])
    <3>1. v[j] \in Seq(A) /\ At(Flat(v, k), Len(Flat(v, j - 1)), v[j])
      BY <1>2
    <3> QED
      BY <2>2, <3>1, AtLonger
  <2>5. \A j \in 1 .. k + 1 : j \in 1 .. k \/ j = k + 1
    OBVIOUS
  <2> QED
    BY <2>1, <2>3, <2>4, <2>5
<1>3. \A k \in 0 .. n : k \in T
  <2> HIDE DEF T
  <2> QED
    BY <1>1, <1>2, InductionUpto
<1> QED
  BY <1>3

\* Every symbol there is in a form, in what it says of names and in what is told of it
Words(f) ==
  {"param", "upload", "end", None, CR, LF, Dash} \cup ToSet(Boundary) \cup DOMAIN Headers
    \cup {Headers[l].name : l \in DOMAIN Headers} \cup {Headers[l].filename : l \in DOMAIN Headers}
    \cup UNION {ToSet(f[i].content) \cup {f[i].name, f[i].filename} : i \in 1 .. Len(f)}

\* The text of part i, and of the parts up to the k-th
Opening(i) == IF i = 1 THEN SubSeq(Delimiter, 3, D) ELSE Delimiter
HeaderLines(p) == [j \in 1 .. Len(p.lines) |-> Line(p.lines[j])]
Chunk(f, i) ==
  Opening(i) \o <<CR, LF>> \o Flat(HeaderLines(f[i]), Len(f[i].lines)) \o <<CR, LF>> \o f[i].content
Chunks(f) == [i \in 1 .. Len(f) |-> Chunk(f, i)]

\* Where the delimiter of part i begins (the first one has lost its CR and LF), its headers
\* and its content
Start(f, i) == Len(Flat(Chunks(f), i - 1)) - (IF i = 1 THEN 2 ELSE 0)
HeadersAt(f, i) == Start(f, i) + D + 2
ContentAt(f, i) == HeadersAt(f, i) + 3 * Len(f[i].lines) + 2

\* A part of a form, and its texts
LEMMA PartProperties ==
  ASSUME NEW f, WellFormed(f)
  PROVE  /\ Len(f) \in Nat \ {0}
         /\ \A i \in 1 .. Len(f) :
              /\ f[i].lines \in Seq(DOMAIN Headers) /\ f[i].lines \in Seq(Words(f))
              /\ f[i].content \in Seq(Words(f))
              /\ f[i].name \in Words(f) /\ f[i].filename \in Words(f)
<1>1. IsText(f) /\ f # <<>>
  BY DEF WellFormed
<1>2. f \in Seq(ToSet(f))
  BY <1>1 DEF IsText
<1>3. Len(f) \in Nat /\ Len(f) # 0
  BY <1>1, <1>2
<1>4. ASSUME NEW i \in 1 .. Len(f)
      PROVE  /\ f[i].lines \in Seq(DOMAIN Headers) /\ f[i].lines \in Seq(Words(f))
             /\ f[i].content \in Seq(Words(f))
             /\ f[i].name \in Words(f) /\ f[i].filename \in Words(f)
  <2>1. IsText(f[i].lines) /\ ToSet(f[i].lines) \subseteq DOMAIN Headers /\ IsText(f[i].content)
    BY DEF WellFormed
  <2>2. DOMAIN Headers \subseteq Words(f) /\ ToSet(f[i].content) \subseteq Words(f)
    BY DEF Words
  <2>3. f[i].lines \in Seq(DOMAIN Headers)
    BY <2>1, TextOf
  <2>4. f[i].content \in Seq(Words(f))
    BY <2>1, <2>2, TextOf
  <2>5. f[i].lines \in Seq(Words(f))
    BY <2>2, <2>3, SeqWiden
  <2>6. f[i].name \in Words(f) /\ f[i].filename \in Words(f)
    BY DEF Words
  <2> QED
    BY <2>3, <2>4, <2>5, <2>6
<1> QED
  BY <1>3, <1>4

\* Which symbols are among the words of a form.
LEMMA WordsProperties ==
  ASSUME NEW f
  PROVE  /\ {"param", "upload", "end", None, CR, LF, Dash} \subseteq Words(f)
         /\ ToSet(Boundary) \subseteq Words(f)
         /\ \A l \in DOMAIN Headers :
              Headers[l].name \in Words(f) /\ Headers[l].filename \in Words(f)
  BY DEF Words

\* The header lines of a part take three symbols each.
LEMMA HeaderLinesAt ==
  ASSUME NEW A, CR \in A, LF \in A, NEW p, p.lines \in Seq(A)
  PROVE  LET h == Flat(HeaderLines(p), Len(p.lines)) IN
         /\ h \in Seq(A) /\ Len(h) = 3 * Len(p.lines)
         /\ \A j \in 1 .. Len(p.lines) : At(h, 3 * (j - 1), Line(p.lines[j]))
<1>1. PICK m \in Nat : m = Len(p.lines)
  OBVIOUS
<1>2. PICK v : v = HeaderLines(p)
  OBVIOUS
<1>3. \A j \in 1 .. m : Line(p.lines[j]) \in Seq(A) /\ Len(Line(p.lines[j])) = 3
  <2> SUFFICES ASSUME NEW j \in 1 .. m
               PROVE  Line(p.lines[j]) \in Seq(A) /\ Len(Line(p.lines[j])) = 3
    OBVIOUS
  <2>1. p.lines[j] \in A
    BY <1>1
  <2> QED
    BY <2>1 DEF Line
<1>4. v \in [1 .. m -> Seq(A)] /\ \A j \in 1 .. m : v[j] = Line(p.lines[j])
  BY <1>1, <1>2, <1>3 DEF HeaderLines
<1>5. /\ Flat(v, 0) = <<>>
      /\ \A k \in 0 .. m : Flat(v, k) \in Seq(A)
      /\ \A k \in 1 .. m : Flat(v, k) = Flat(v, k - 1) \o v[k]
  BY <1>4, FlatProperties
<1> DEFINE T == {k \in 0 .. m : Len(Flat(v, k)) = 3 * k}
<1>6. 0 \in T
  BY <1>5
<1>7. ASSUME NEW k \in 0 .. m - 1, k \in T PROVE k + 1 \in T
  <2>1. k + 1 \in 1 .. m /\ k + 1 \in 0 .. m /\ (k + 1) - 1 = k /\ k \in 0 .. m
    OBVIOUS
  <2>2. /\ Flat(v, k) \in Seq(A) /\ v[k + 1] \in Seq(A) /\ Len(v[k + 1]) = 3
        /\ Flat(v, k + 1) = Flat(v, k) \o v[k + 1] /\ Len(Flat(v, k)) = 3 * k
    BY <1>3, <1>4, <1>5, <1>7, <2>1
  <2>3. PICK g \in Seq(A), l \in Seq(A) : g = Flat(v, k) /\ l = v[k + 1]
    BY <2>2
  <2>4. Len(g \o l) = Len(g) + Len(l)
    OBVIOUS
  <2>5. Len(Flat(v, k + 1)) = 3 * (k + 1)
    <3>1. Flat(v, k + 1) = g \o l
      BY <2>2, <2>3
    <3>2. Len(g) = 3 * k /\ Len(l) = 3
      BY <2>2, <2>3
    <3> QED
      BY <2>4, <3>1, <3>2
  <2> QED
    BY <2>1, <2>5
<1>8. \A k \in 0 .. m : k \in T
  <2> HIDE DEF T
  <2> QED
    BY <1>6, <1>7, InductionUpto
<1>9. ASSUME NEW j \in 1 .. m PROVE At(Flat(v, m), 3 * (j - 1), Line(p.lines[j]))
  <2>1. m \in 0 .. m /\ j - 1 \in 0 .. m
    OBVIOUS
  <2>2. At(Flat(v, m), Len(Flat(v, j - 1)), v[j])
    BY <1>4, <2>1, FlatAt
  <2> QED
    BY <1>4, <1>8, <2>1, <2>2
<1>10. m \in 0 .. m
  OBVIOUS
<1> QED
  BY <1>1, <1>2, <1>5, <1>8, <1>9, <1>10

\* The delimiter in front of a part; the first has lost its CR and LF.
LEMMA OpeningProperties ==
  ASSUME NEW A, {CR, LF, Dash} \cup ToSet(Boundary) \subseteq A, NEW i
  PROVE  /\ Opening(i) \in Seq(A)
         /\ i = 1 => Len(Opening(i)) = D - 2 /\ \A k \in 1 .. D - 2 : Opening(i)[k] = Delimiter[k + 2]
         /\ i # 1 => Opening(i) = Delimiter
<1>1. Delimiter \in Seq(A) /\ D \in Nat /\ D >= 4 /\ D = Len(Delimiter)
  BY DelimiterProperties, Zenon
<1>2. CASE i = 1
  <2>1. Opening(i) = SubSeq(Delimiter, 3, D)
    BY <1>2 DEF Opening
  <2>2. PICK d \in Seq(A) : d = Delimiter
    BY <1>1
  <2>3. /\ SubSeq(d, 3, Len(d)) \in Seq(A) /\ Len(SubSeq(d, 3, Len(d))) = Len(d) - 2
        /\ \A k \in 1 .. Len(d) - 2 : SubSeq(d, 3, Len(d))[k] = d[k + 2]
    BY <1>1, <2>2
  <2> QED
    BY <1>1, <1>2, <2>1, <2>2, <2>3
<1>3. CASE i # 1
  BY <1>1, <1>3 DEF Opening
<1> QED
  BY <1>2, <1>3

\* A text of five pieces
MadeOf(A, t, a, b, c, d, e) ==
  /\ t \in Seq(A) /\ Len(t) = Len(a) + Len(b) + Len(c) + Len(d) + Len(e)
  /\ At(t, 0, a) /\ At(t, Len(a), b) /\ At(t, Len(a) + Len(b), c)
  /\ At(t, Len(a) + Len(b) + Len(c), d) /\ At(t, Len(a) + Len(b) + Len(c) + Len(d), e)

\* The parts of a text made of five.
LEMMA FiveParts ==
  ASSUME NEW A, NEW a, NEW b, NEW c, NEW d, NEW e,
         a \in Seq(A), b \in Seq(A), c \in Seq(A), d \in Seq(A), e \in Seq(A)
  PROVE  MadeOf(A, a \o b \o c \o d \o e, a, b, c, d, e)
<1>1. PICK t2 : t2 = a \o b
  OBVIOUS
<1>2. PICK t3 : t3 = t2 \o c
  OBVIOUS
<1>3. PICK t4 : t4 = t3 \o d
  OBVIOUS
<1>4. PICK t5 : t5 = t4 \o e
  OBVIOUS
<1>5. t2 \in Seq(A) /\ Len(t2) = Len(a) + Len(b) /\ At(t2, 0, a) /\ At(t2, Len(a), b)
  BY <1>1, AtParts
<1>6. /\ t3 \in Seq(A) /\ Len(t3) = Len(t2) + Len(c)
      /\ At(t3, 0, a) /\ At(t3, Len(a), b) /\ At(t3, Len(t2), c)
  BY <1>2, <1>5, AtParts, AtLonger
<1>7. /\ t4 \in Seq(A) /\ Len(t4) = Len(t3) + Len(d)
      /\ At(t4, 0, a) /\ At(t4, Len(a), b) /\ At(t4, Len(t2), c) /\ At(t4, Len(t3), d)
  BY <1>3, <1>6, AtParts, AtLonger
<1>8. /\ t5 \in Seq(A) /\ Len(t5) = Len(t4) + Len(e)
      /\ At(t5, 0, a) /\ At(t5, Len(a), b) /\ At(t5, Len(t2), c) /\ At(t5, Len(t3), d) /\ At(t5, Len(t4), e)
  BY <1>4, <1>7, AtParts, AtLonger
<1>9. t5 = a \o b \o c \o d \o e
  BY <1>1, <1>2, <1>3, <1>4
<1> QED
  BY <1>5, <1>6, <1>7, <1>8, <1>9 DEF MadeOf

\* What is where in the text of a part.
LEMMA ChunkProperties ==
  ASSUME NEW f, WellFormed(f), NEW i \in 1 .. Len(f), NEW n, n = Len(Opening(i))
  PROVE  LET m == Len(f[i].lines) IN
         /\ Chunk(f, i) \in Seq(Words(f))
         /\ Len(Chunk(f, i)) = n + 4 + 3 * m + Len(f[i].content)
         /\ At(Chunk(f, i), 0, Opening(i)) /\ At(Chunk(f, i), n, <<CR, LF>>)
         /\ \A j \in 1 .. m : At(Chunk(f, i), n + 2 + 3 * (j - 1), Line(f[i].lines[j]))
         /\ At(Chunk(f, i), n + 2 + 3 * m, <<CR, LF>>)
         /\ At(Chunk(f, i), n + 4 + 3 * m, f[i].content)
<1>1. PICK A : A = Words(f)
  OBVIOUS
<1>2. {CR, LF, Dash} \cup ToSet(Boundary) \subseteq A /\ CR \in A /\ LF \in A
  BY <1>1, WordsProperties
<1>3. PICK a \in Seq(A) : a = Opening(i)
  BY <1>2, OpeningProperties
<1>4. PICK b \in Seq(A) : b = <<CR, LF>>
  <2>1. <<CR, LF>> \in Seq(A)
    BY <1>2
  <2> QED
    BY <2>1
<1>5. f[i].lines \in Seq(A) /\ f[i].content \in Seq(A)
  BY <1>1, PartProperties
<1>6. PICK h : h = Flat(HeaderLines(f[i]), Len(f[i].lines))
  OBVIOUS
<1>7. PICK e \in Seq(A) : e = f[i].content
  BY <1>5
<1>8. PICK m \in Nat : m = Len(f[i].lines)
  BY <1>5
<1>9. /\ h \in Seq(A) /\ Len(h) = 3 * m
      /\ \A j \in 1 .. m : At(h, 3 * (j - 1), Line(f[i].lines[j]))
  BY <1>2, <1>5, <1>6, <1>8, HeaderLinesAt
<1>10. PICK t : t = a \o b \o h \o b \o e
  OBVIOUS
<1>11. Len(b) = 2 /\ Len(a) = n /\ n \in Nat
  BY <1>3, <1>4
<1>12. /\ t \in Seq(A) /\ Len(t) = n + 2 + 3 * m + 2 + Len(e)
       /\ At(t, 0, a) /\ At(t, n, b) /\ At(t, n + 2, h)
       /\ At(t, n + 2 + 3 * m, b) /\ At(t, n + 2 + 3 * m + 2, e)
  <2>1. /\ t \in Seq(A) /\ Len(t) = Len(a) + Len(b) + Len(h) + Len(b) + Len(e)
        /\ At(t, 0, a) /\ At(t, Len(a), b) /\ At(t, Len(a) + Len(b), h)
        /\ At(t, Len(a) + Len(b) + Len(h), b) /\ At(t, Len(a) + Len(b) + Len(h) + Len(b), e)
    <3>1. MadeOf(A, t, a, b, h, b, e)
      BY <1>9, <1>10, FiveParts, Zenon
    <3> QED
      BY <3>1 DEF MadeOf
  <2> QED
    BY <1>9, <1>11, <2>1
<1>13. ASSUME NEW j \in 1 .. m PROVE At(t, n + 2 + 3 * (j - 1), Line(f[i].lines[j]))
  <2>1. f[i].lines[j] \in A
    BY <1>5, <1>8
  <2>2. Line(f[i].lines[j]) \in Seq(A)
    BY <1>2, <2>1 DEF Line
  <2>3. At(h, 3 * (j - 1), Line(f[i].lines[j]))
    BY <1>9
  <2>4. PICK o, q, l : o = n + 2 /\ q = 3 * (j - 1) /\ l = Line(f[i].lines[j])
    OBVIOUS
  <2>5. At(t, o + q, l)
    BY <1>9, <1>12, <2>2, <2>3, <2>4, AtAt, Zenon
  <2> QED
    BY <2>4, <2>5
<1>14. t = Chunk(f, i)
  BY <1>3, <1>4, <1>6, <1>7, <1>10 DEF Chunk
<1>15. n + 2 + 3 * m + 2 = n + 4 + 3 * m /\ Len(e) \in Nat
  BY <1>11
<1>16. Len(t) = n + 4 + 3 * m + Len(e)
  BY <1>11, <1>12, <1>15
<1> QED
  BY <1>1, <1>3, <1>4, <1>7, <1>8, <1>12, <1>13, <1>14, <1>15, <1>16

\* The layout of an encoded form: its length, the order of its parts, and the symbols of part i
Ordered(f) ==
  /\ Encode(f) \in Seq(Words(f)) /\ Len(f) \in Nat \ {0}
  /\ \A i \in 1 .. Len(f) + 1 : Start(f, i) \in Int /\ Start(f, i) <= Start(f, Len(f) + 1)
  /\ Start(f, 1) = -2
  /\ \A i \in 1 .. Len(f) : Start(f, i + 1) = ContentAt(f, i) + Len(f[i].content)
  /\ Len(Encode(f)) = Start(f, Len(f) + 1) + D + 4

DelimiterIn(f, i) ==
  \A k \in 1 .. D : Start(f, i) + k >= 1 => Encode(f)[Start(f, i) + k] = Delimiter[k]

PartIn(f, i) ==
  LET B == Encode(f) IN
  /\ DelimiterIn(f, i)
  /\ B[Start(f, i) + D + 1] = CR /\ B[Start(f, i) + D + 2] = LF
  /\ \A j \in 1 .. Len(f[i].lines) :
       /\ B[HeadersAt(f, i) + 3 * (j - 1) + 1] = f[i].lines[j]
       /\ B[HeadersAt(f, i) + 3 * (j - 1) + 2] = CR
       /\ B[HeadersAt(f, i) + 3 * (j - 1) + 3] = LF
  /\ B[HeadersAt(f, i) + 3 * Len(f[i].lines) + 1] = CR
  /\ B[HeadersAt(f, i) + 3 * Len(f[i].lines) + 2] = LF
  /\ \A k \in 1 .. Len(f[i].content) : B[ContentAt(f, i) + k] = f[i].content[k]

Layout(f) ==
  /\ Ordered(f)
  /\ \A i \in 1 .. Len(f) : PartIn(f, i)
  /\ DelimiterIn(f, Len(f) + 1) /\ Encode(f)[Start(f, Len(f) + 1) + D + 1] = Dash

\* The body is the chunks, the last delimiter and the epilogue.
LEMMA EncodeChunks ==
  ASSUME NEW f, WellFormed(f)
  PROVE  Encode(f) = Flat(Chunks(f), Len(f)) \o Delimiter \o <<Dash, Dash, CR, LF>>
<1> DEFINE text(i) ==
      (IF i = 1 THEN SubSeq(Delimiter, 3, Len(Delimiter)) ELSE Delimiter) \o <<CR, LF>>
        \o FlattenSeq([j \in 1 .. Len(f[i].lines) |-> Line(f[i].lines[j])])
        \o <<CR, LF>> \o f[i].content
<1>1. ASSUME NEW i \in 1 .. Len(f) PROVE Chunks(f)[i] = text(i)
  <2>1. Chunks(f)[i] = Chunk(f, i)
    BY DEF Chunks
  <2>2. [j \in 1 .. Len(f[i].lines) |-> HeaderLines(f[i])[j]]
          = [j \in 1 .. Len(f[i].lines) |-> Line(f[i].lines[j])]
    BY DEF HeaderLines
  <2>3. Flat(HeaderLines(f[i]), Len(f[i].lines))
          = FlattenSeq([j \in 1 .. Len(f[i].lines) |-> Line(f[i].lines[j])])
    BY <2>2 DEF Flat
  <2>4. Opening(i) = IF i = 1 THEN SubSeq(Delimiter, 3, Len(Delimiter)) ELSE Delimiter
    BY DEF Opening, D
  <2> QED
    BY <2>1, <2>3, <2>4 DEF Chunk
<1>2. [i \in 1 .. Len(f) |-> Chunks(f)[i]] = [i \in 1 .. Len(f) |-> text(i)]
  BY <1>1
<1>3. Encode(f) = FlattenSeq([i \in 1 .. Len(f) |-> text(i)]) \o Delimiter \o <<Dash, Dash, CR, LF>>
  BY DEF Encode
<1> QED
  BY <1>2, <1>3 DEF Flat

\* The two ways the length of a part is added up, which the layout below and the definitions above differ in.
LEMMA SumRegrouped ==
  ASSUME NEW a \in Int, NEW b \in Nat, NEW x \in Nat, NEW c \in Nat
  PROVE  a + b + 4 + x + c = (a + b + 2 + x + 2) + c
OBVIOUS

\* Every well-formed form has a body laid out part by part: the recursion of the encoding, unfolded.
LEMMA EncodeLayout ==
  ASSUME NEW f, WellFormed(f)
  PROVE  Layout(f)
<1>1. PICK A : A = Words(f)
  OBVIOUS
<1>2. {CR, LF, Dash} \cup ToSet(Boundary) \subseteq A /\ CR \in A /\ LF \in A /\ Dash \in A
  BY <1>1, WordsProperties
<1>3. PICK n \in Nat : n = Len(f) /\ n # 0
  BY PartProperties
<1>4. PICK d : d = D /\ d \in Nat /\ d >= 4 /\ Delimiter \in Seq(A) /\ Len(Delimiter) = d
  BY <1>2, DelimiterProperties, Zenon
<1>5. PICK v : v = Chunks(f)
  OBVIOUS
<1>6. v \in [1 .. n -> Seq(A)] /\ \A i \in 1 .. n : v[i] = Chunk(f, i)
  <2>1. \A i \in 1 .. n : Chunk(f, i) \in Seq(A)
    BY <1>1, <1>3, ChunkProperties
  <2> QED
    BY <1>3, <1>5, <2>1 DEF Chunks
<1>7. /\ Flat(v, 0) = <<>>
      /\ \A k \in 0 .. n : Flat(v, k) \in Seq(A)
      /\ \A k \in 1 .. n : Flat(v, k) = Flat(v, k - 1) \o v[k]
  BY <1>6, FlatProperties
<1> DEFINE l == [k \in 0 .. n |-> Len(Flat(v, k))]
           a == [i \in 1 .. n |-> l[i - 1] + Len(Opening(i))]
<1>8. /\ l[0] = 0 /\ \A k \in 0 .. n : l[k] \in Nat
      /\ \A k \in 1 .. n : l[k] = l[k - 1] + Len(v[k])
  <2>1. l[0] = 0
    BY <1>7
  <2>2. ASSUME NEW k \in 0 .. n PROVE l[k] \in Nat
    BY <1>7
  <2>3. ASSUME NEW k \in 1 .. n PROVE l[k] = l[k - 1] + Len(v[k])
    <3>1. k \in 0 .. n /\ k - 1 \in 0 .. n
      OBVIOUS
    <3>2. PICK g \in Seq(A), w \in Seq(A) : g = Flat(v, k - 1) /\ w = v[k]
      BY <1>6, <1>7, <3>1
    <3>3. Len(g \o w) = Len(g) + Len(w)
      OBVIOUS
    <3> QED
      BY <1>7, <3>1, <3>2, <3>3
  <2> QED
    BY <2>1, <2>2, <2>3
<1>9. PICK B : B = Encode(f)
  OBVIOUS
<1>10. PICK tail \in Seq(A) : tail = <<Dash, Dash, CR, LF>>
  <2>1. <<Dash, Dash, CR, LF>> \in Seq(A)
    BY <1>2
  <2> QED
    BY <2>1
<1>11. PICK g \in Seq(A) : g = Flat(v, n)
  <2>1. n \in 0 .. n
    OBVIOUS
  <2> QED
    BY <1>7, <2>1
<1>12. Len(g) = l[n] /\ n \in 0 .. n /\ Len(tail) = 4
  BY <1>3, <1>10, <1>11
<1>13. B = g \o Delimiter \o tail
  BY <1>3, <1>5, <1>9, <1>10, <1>11, EncodeChunks
<1>14. /\ B \in Seq(A) /\ Len(B) = l[n] + d + 4
       /\ At(B, 0, g) /\ At(B, l[n], Delimiter) /\ At(B, l[n] + d, tail)
  <2>1. PICK b : b = g \o Delimiter
    OBVIOUS
  <2>2. b \in Seq(A) /\ Len(b) = l[n] + d /\ At(b, 0, g) /\ At(b, l[n], Delimiter)
    <3>1. PICK w \in Seq(A) : w = Delimiter
      BY <1>4
    <3>2. b \in Seq(A) /\ Len(b) = Len(g) + Len(w) /\ At(b, 0, g) /\ At(b, Len(g), w)
      BY <2>1, <3>1, AtParts
    <3> QED
      BY <1>4, <1>12, <3>1, <3>2
  <2>3. B = b \o tail
    BY <1>13, <2>1
  <2>4. B \in Seq(A) /\ Len(B) = Len(b) + Len(tail) /\ At(B, Len(b), tail)
    BY <2>2, <2>3, AtParts
  <2>5. At(B, 0, g) /\ At(B, l[n], Delimiter)
    BY <1>4, <2>2, <2>3, AtLonger
  <2> QED
    BY <1>12, <2>2, <2>4, <2>5
<1>15. ASSUME NEW i \in 1 .. n
       PROVE  At(B, l[i - 1], v[i])
  <2>1. At(g, l[i - 1], v[i])
    <3>1. n \in 0 .. n /\ i - 1 \in 0 .. n
      OBVIOUS
    <3>2. At(Flat(v, n), Len(Flat(v, i - 1)), v[i])
      BY <1>6, <3>1, FlatAt
    <3> QED
      BY <1>11, <3>1, <3>2
  <2>2. v[i] \in Seq(A) /\ l[i - 1] \in Nat
    BY <1>6, <1>8
  <2>3. At(B, 0 + l[i - 1], v[i])
    BY <1>14, <2>1, <2>2, AtAt, Zenon
  <2> QED
    BY <2>2, <2>3
<1> HIDE DEF l, a
<1>16. \A i \in 1 .. n + 1 : Start(f, i) = l[i - 1] - (IF i = 1 THEN 2 ELSE 0)
  <2>1. \A i \in 1 .. n + 1 : i - 1 \in 0 .. n
    OBVIOUS
  <2> QED
    BY <1>5, <2>1 DEF Start, l
<1>17. Start(f, 1) = -2 /\ Start(f, n + 1) = l[n]
  <2>1. 1 \in 1 .. n + 1 /\ n + 1 \in 1 .. n + 1 /\ n + 1 # 1 /\ (n + 1) - 1 = n /\ 1 - 1 = 0
    BY <1>3
  <2>2. Start(f, 1) = l[0] - 2
    BY <1>16, <2>1
  <2>3. Start(f, n + 1) = l[n] - 0
    BY <1>16, <2>1
  <2>4. l[n] \in Nat
    BY <1>8, <1>12
  <2> QED
    BY <1>8, <2>2, <2>3, <2>4

<1>18. ASSUME NEW i \in 1 .. n
       PROVE  Len(Opening(i)) \in Nat /\ l[i - 1] \in Nat /\ l[i - 1] + Len(Opening(i)) = Start(f, i) + d
  <2>1. i \in 1 .. n + 1 /\ i - 1 \in 0 .. n
    OBVIOUS
  <2>2. Start(f, i) = l[i - 1] - (IF i = 1 THEN 2 ELSE 0) /\ l[i - 1] \in Nat
    BY <1>8, <1>16, <2>1
  <2>3. Len(Opening(i)) = IF i = 1 THEN d - 2 ELSE d
    BY <1>2, <1>4, OpeningProperties
  <2> QED
    BY <1>4, <2>2, <2>3
<1>19. ASSUME NEW i \in 1 .. n
       PROVE  /\ Len(f[i].lines) \in Nat /\ Len(f[i].content) \in Nat
              /\ Start(f, i) \in Int
              /\ Start(f, i + 1) = Start(f, i) + d + 4 + 3 * Len(f[i].lines) + Len(f[i].content)
  <2>1. f[i].lines \in Seq(A) /\ f[i].content \in Seq(A)
    BY <1>1, <1>3, PartProperties
  <2>2. PICK m \in Nat, c \in Nat, k \in Nat :
          m = Len(f[i].lines) /\ c = Len(f[i].content) /\ k = Len(Opening(i))
    BY <1>18, <2>1
  <2>3. Len(v[i]) = k + 4 + 3 * m + c
    BY <1>3, <1>6, <2>2, ChunkProperties
  <2>4. l[i] = l[i - 1] + Len(v[i]) /\ l[i - 1] \in Nat /\ l[i] \in Nat
    BY <1>8, <1>18
  <2>5. Start(f, i + 1) = l[i]
    <3>1. i + 1 \in 1 .. n + 1 /\ i + 1 # 1 /\ (i + 1) - 1 = i
      OBVIOUS
    <3>2. Start(f, i + 1) = l[i] - 0
      BY <1>16, <3>1
    <3> QED
      BY <2>4, <3>2
  <2>6. Start(f, i) \in Int
    <3>1. i \in 1 .. n + 1
      OBVIOUS
    <3> QED
      BY <1>16, <2>4, <3>1
  <2>7. l[i - 1] + k = Start(f, i) + d
    BY <1>18, <2>2
  <2>8. PICK z \in Nat, e \in Nat, st \in Int : z = l[i - 1] /\ e = l[i] /\ st = Start(f, i)
    BY <2>4, <2>6
  <2>9. e = z + (k + 4 + 3 * m + c) /\ z + k = st + d
    BY <2>3, <2>4, <2>7, <2>8
  <2>10. e = st + d + 4 + 3 * m + c
    BY <1>4, <2>9
  <2> QED
    BY <2>2, <2>5, <2>6, <2>8, <2>10
<1>20. \A k \in 0 .. n : l[k] <= l[n]
  <2> DEFINE T == {k \in 0 .. n : l[n - k] <= l[n]}
  <2>1. 0 \in T
    BY <1>8, <1>12
  <2>2. ASSUME NEW k \in 0 .. n - 1, k \in T PROVE k + 1 \in T
    <3>1. n - k \in 1 .. n /\ (n - k) - 1 = n - (k + 1) /\ k + 1 \in 0 .. n /\ n - (k + 1) \in 0 .. n /\ n - k \in 0 .. n
      OBVIOUS
    <3>2. l[n - k] = l[n - (k + 1)] + Len(v[n - k])
      BY <1>8, <3>1
    <3>3. Len(v[n - k]) \in Nat
      BY <1>6, <3>1
    <3>4. l[n - k] \in Nat /\ l[n - (k + 1)] \in Nat /\ l[n] \in Nat /\ l[n - k] <= l[n]
      BY <1>8, <1>12, <2>2, <3>1
    <3>5. l[n - (k + 1)] <= l[n]
      BY <3>2, <3>3, <3>4
    <3> QED
      BY <3>1, <3>5
  <2>3. \A k \in 0 .. n : k \in T
    <3> HIDE DEF T
    <3> QED
      BY <2>1, <2>2, InductionUpto
  <2> SUFFICES ASSUME NEW k \in 0 .. n PROVE l[k] <= l[n]
    OBVIOUS
  <2>4. n - k \in 0 .. n /\ n - (n - k) = k
    OBVIOUS
  <2> QED
    BY <2>3, <2>4
<1>21. ASSUME NEW i \in 1 .. n + 1 PROVE Start(f, i) \in Int /\ Start(f, i) <= Start(f, n + 1)
  <2>1. i - 1 \in 0 .. n
    OBVIOUS
  <2>2. l[i - 1] \in Nat /\ l[i - 1] <= l[n] /\ l[n] \in Nat
    BY <1>8, <1>12, <1>20, <2>1
  <2> QED
    BY <1>16, <1>17, <2>2
<1>22. Ordered(f)
  <2>1. ASSUME NEW i \in 1 .. n PROVE Start(f, i + 1) = ContentAt(f, i) + Len(f[i].content)
    <3>1. PICK m \in Nat, c \in Nat, st \in Int :
            m = Len(f[i].lines) /\ c = Len(f[i].content) /\ st = Start(f, i)
      BY <1>19
    <3>2. Start(f, i + 1) = st + d + 4 + 3 * m + c
      BY <1>19, <3>1
    <3>3. ContentAt(f, i) = st + d + 2 + 3 * m + 2
      BY <1>4, <3>1 DEF ContentAt, HeadersAt
    <3>4. d \in Nat /\ 3 * m \in Nat
      BY <1>4
    <3>5. st + d + 4 + 3 * m + c = (st + d + 2 + 3 * m + 2) + c
      BY <3>4, SumRegrouped
    <3>6. ContentAt(f, i) + Len(f[i].content) = (st + d + 2 + 3 * m + 2) + c
      BY <3>1, <3>3, Zenon
    <3> QED
      BY <3>2, <3>5, <3>6, Zenon
  <2> QED
    BY <1>1, <1>3, <1>4, <1>9, <1>14, <1>17, <1>21, <2>1 DEF Ordered
\* A piece of chunk i, in the body
<1>23. ASSUME NEW i \in 1 .. n, NEW q, NEW p, p \in Seq(A), At(v[i], q, p)
       PROVE  At(B, l[i - 1] + q, p)
  <2>1. v[i] \in Seq(A)
    BY <1>6
  <2> QED
    BY <1>14, <1>15, <1>23, <2>1, AtAt, Zenon
<1>24. ASSUME NEW i \in 1 .. n, NEW k \in 1 .. d, Start(f, i) + k >= 1
       PROVE  B[Start(f, i) + k] = Delimiter[k]
  <2>1. At(v[i], 0, Opening(i))
    BY <1>3, <1>6, ChunkProperties
  <2>2. PICK fr \in Seq(A) : fr = Opening(i)
    BY <1>2, OpeningProperties
  <2>3. At(B, l[i - 1] + 0, fr)
    BY <1>23, <2>1, <2>2
  <2>4. \A j \in 1 .. Len(fr) : B[l[i - 1] + j] = fr[j]
    <3>1. PICK z \in Nat : z = l[i - 1]
      BY <1>18
    <3>2. \A j \in 1 .. Len(fr) : B[(z + 0) + j] = fr[j]
      BY <2>3, <3>1 DEF At
    <3>3. z + 0 = z
      OBVIOUS
    <3> QED
      BY <3>1, <3>2, <3>3
  <2>5. CASE i = 1
    <3>1. Len(fr) = d - 2 /\ \A j \in 1 .. d - 2 : fr[j] = Delimiter[j + 2]
      BY <1>2, <1>4, <2>2, <2>5, OpeningProperties
    <3>2. k - 2 \in 1 .. d - 2 /\ (k - 2) + 2 = k /\ Start(f, i) + k = k - 2 /\ 0 + (k - 2) = k - 2
      BY <1>4, <1>17, <1>24, <2>5
    <3>3. l[i - 1] = 0
      BY <1>8, <2>5
    <3>4. B[0 + (k - 2)] = fr[k - 2]
      BY <2>4, <3>1, <3>2, <3>3
    <3> QED
      BY <3>1, <3>2, <3>4
  <2>6. CASE i # 1
    <3>1. fr = Delimiter /\ Len(fr) = d
      BY <1>2, <1>4, <2>2, <2>6, OpeningProperties
    <3>2. Start(f, i) = l[i - 1]
      <4>1. i \in 1 .. n + 1
        OBVIOUS
      <4>2. Start(f, i) = l[i - 1] - 0
        BY <1>16, <2>6, <4>1
      <4> QED
        BY <1>18, <4>2
    <3> QED
      BY <2>4, <3>1, <3>2
  <2> QED
    BY <2>5, <2>6
<1>25. ASSUME NEW i \in 1 .. n PROVE PartIn(f, i)
  <2>1. PICK m \in Nat, c \in Nat, st \in Int, k \in Nat, z \in Nat :
          m = Len(f[i].lines) /\ c = Len(f[i].content) /\ st = Start(f, i) /\ k = Len(Opening(i)) /\ z = l[i - 1]
    BY <1>18, <1>19
  <2>2. z + k = st + d
    BY <1>18, <2>1
  <2>3. /\ At(v[i], k, <<CR, LF>>)
        /\ \A j \in 1 .. m : At(v[i], k + 2 + 3 * (j - 1), Line(f[i].lines[j]))
        /\ At(v[i], k + 2 + 3 * m, <<CR, LF>>)
        /\ At(v[i], k + 4 + 3 * m, f[i].content)
    BY <1>3, <1>6, <2>1, ChunkProperties
  <2>4. <<CR, LF>> \in Seq(A) /\ f[i].content \in Seq(A)
    BY <1>1, <1>2, <1>3, PartProperties
  <2>5. At(B, z + k, <<CR, LF>>) /\ At(B, z + (k + 2 + 3 * m), <<CR, LF>>) /\ At(B, z + (k + 4 + 3 * m), f[i].content)
    BY <1>23, <2>1, <2>3, <2>4
  <2>6. ASSUME NEW j \in 1 .. m PROVE At(B, z + (k + 2 + 3 * (j - 1)), Line(f[i].lines[j]))
    <3>1. f[i].lines[j] \in A
      <4>1. PICK q \in Seq(A) : q = f[i].lines
        BY <1>1, <1>3, PartProperties
      <4> QED
        BY <2>1, <4>1
    <3>2. Line(f[i].lines[j]) \in Seq(A)
      BY <1>2, <3>1 DEF Line
    <3>3. At(v[i], k + 2 + 3 * (j - 1), Line(f[i].lines[j]))
      BY <2>3
    <3> QED
      BY <1>23, <2>1, <3>2, <3>3
  <2>7. /\ HeadersAt(f, i) = st + d + 2 /\ ContentAt(f, i) = st + d + 2 + 3 * m + 2
        /\ z + k = st + d
        /\ z + (k + 2 + 3 * m) = st + d + 2 + 3 * m /\ z + (k + 4 + 3 * m) = st + d + 2 + 3 * m + 2
    <3>1. HeadersAt(f, i) = st + d + 2
      BY <1>4, <2>1 DEF HeadersAt
    <3>2. ContentAt(f, i) = st + d + 2 + 3 * m + 2
      BY <2>1, <3>1 DEF ContentAt
    <3>3. z + (k + 2 + 3 * m) = st + d + 2 + 3 * m /\ z + (k + 4 + 3 * m) = st + d + 2 + 3 * m + 2
      BY <1>4, <2>2
    <3> QED
      BY <2>2, <3>1, <3>2, <3>3
  <2>8. B[st + d + 1] = CR /\ B[st + d + 2] = LF
    BY <2>5, <2>7, PairParts
  <2>9. B[(st + d + 2 + 3 * m) + 1] = CR /\ B[(st + d + 2 + 3 * m) + 2] = LF
    BY <2>5, <2>7, PairParts
  <2>10. \A j \in 1 .. c : B[(st + d + 2 + 3 * m + 2) + j] = f[i].content[j]
    BY <2>1, <2>5, <2>7 DEF At
  <2>11. ASSUME NEW j \in 1 .. m
         PROVE  /\ B[(st + d + 2) + 3 * (j - 1) + 1] = f[i].lines[j]
                /\ B[(st + d + 2) + 3 * (j - 1) + 2] = CR /\ B[(st + d + 2) + 3 * (j - 1) + 3] = LF
    <3>1. z + (k + 2 + 3 * (j - 1)) = (st + d + 2) + 3 * (j - 1)
      BY <2>2, <1>4
    <3>2. At(B, (st + d + 2) + 3 * (j - 1), Line(f[i].lines[j]))
      BY <2>6, <3>1
    <3> QED
      BY <3>2, LineParts
  <2>12. DelimiterIn(f, i)
    BY <1>4, <1>9, <1>24 DEF DelimiterIn
  <2> QED
    BY <1>4, <1>9, <2>1, <2>7, <2>8, <2>9, <2>10, <2>11, <2>12 DEF PartIn
<1>26. DelimiterIn(f, n + 1) /\ B[Start(f, n + 1) + D + 1] = Dash
  <2>1. PICK z \in Nat : z = l[n] /\ Start(f, n + 1) = z
    BY <1>8, <1>12, <1>17
  <2>2. \A k \in 1 .. d : B[z + k] = Delimiter[k]
    BY <1>4, <1>14, <2>1 DEF At
  <2>3. B[(z + d) + 1] = tail[1]
    <3>1. 1 \in 1 .. Len(tail)
      BY <1>12
    <3> QED
      BY <1>14, <2>1, <3>1 DEF At
  <2>4. tail[1] = Dash
    BY <1>10
  <2> QED
    BY <1>4, <1>9, <2>1, <2>2, <2>3, <2>4 DEF DelimiterIn
<1> QED
  BY <1>3, <1>9, <1>22, <1>25, <1>26 DEF Layout

-----------------------------------------------------------------------------
(* What a form says, and what the application has been told.               *)

Items(A) ==
  [what : {"param", "upload"}, name : A, data : Seq(A), index : Int, last : BOOLEAN]

Hearing(m, x) == IF Heard(m, x) THEN Told(x) ELSE <<>>

\* What is told of an item is made of words of the form.
LEMMA ToldTyped ==
  ASSUME NEW A, {"param", "upload", "end"} \subseteq A, NEW x \in Items(A), NEW m
  PROVE  Hearing(m, x) \in Seq(A)
<1>1. x.name \in A /\ x.data \in Seq(A) /\ x.what \in {"param", "upload"}
  BY DEF Items
<1>2. "param" \in A /\ "upload" \in A /\ "end" \in A
  OBVIOUS
<1>3. /\ <<>> \in Seq(A) /\ <<"end">> \in Seq(A)
      /\ <<"param", x.name>> \in Seq(A) /\ <<"upload", x.name>> \in Seq(A)
  BY <1>1, <1>2
<1>4. PICK d \in Seq(A), p \in Seq(A), u \in Seq(A), e \in Seq(A) :
        d = x.data /\ p = <<"param", x.name>>
        /\ u = (IF x.index = 0 THEN <<"upload", x.name>> ELSE <<>>)
        /\ e = (IF x.last THEN <<"end">> ELSE <<>>)
  BY <1>1, <1>3
<1>5. p \o d \in Seq(A) /\ u \o d \o e \in Seq(A)
  OBVIOUS
<1>6. Told(x) = IF x.what = "param" THEN p \o d ELSE u \o d \o e
  BY <1>4 DEF Told
<1>7. Told(x) \in Seq(A)
  BY <1>5, <1>6
<1> QED
  BY <1>3, <1>7 DEF Hearing

\* What is handed on is told behind what was told before.
LEMMA ToldMore ==
  ASSUME NEW A, {"param", "upload", "end"} \subseteq A, NEW out, out \in Seq(Items(A)),
         NEW x, x \in Items(A), NEW m
  PROVE  /\ AllTold(m, <<>>) = <<>>
         /\ AllTold(m, out) \in Seq(A)
         /\ AllTold(m, Append(out, x)) = AllTold(m, out) \o Hearing(m, x)
<1>1. PICK n \in Nat : n = Len(out)
  OBVIOUS
<1>2. PICK q : q = Append(out, x)
  OBVIOUS
<1>3. q \in Seq(Items(A)) /\ Len(q) = n + 1 /\ q[n + 1] = x /\ \A i \in 1 .. n : q[i] = out[i]
  BY <1>1, <1>2
<1>4. PICK v : v = [i \in 1 .. n + 1 |-> Hearing(m, q[i])]
  OBVIOUS
<1>5. v \in [1 .. n + 1 -> Seq(A)] /\ \A i \in 1 .. n + 1 : v[i] = Hearing(m, q[i])
  <2>1. \A i \in 1 .. n + 1 : q[i] \in Items(A)
    BY <1>3
  <2>2. \A i \in 1 .. n + 1 : Hearing(m, q[i]) \in Seq(A)
    BY <2>1, ToldTyped
  <2> QED
    BY <1>4, <2>2
<1>6. n + 1 \in 1 .. n + 1 /\ n \in 0 .. n + 1 /\ (n + 1) - 1 = n /\ n + 1 \in Nat
  OBVIOUS
<1>7. /\ Flat(v, n) \in Seq(A) /\ Flat(v, n + 1) = Flat(v, n) \o v[n + 1]
  <2>1. /\ \A k \in 0 .. n + 1 : Flat(v, k) \in Seq(A)
        /\ \A k \in 1 .. n + 1 : Flat(v, k) = Flat(v, k - 1) \o v[k]
    BY <1>5, <1>6, FlatProperties
  <2> QED
    BY <1>6, <2>1
<1>8. Flat(v, n) = AllTold(m, out)
  <2>1. [i \in 1 .. n |-> v[i]]
          = [i \in 1 .. n |-> IF Heard(m, out[i]) THEN Told(out[i]) ELSE <<>>]
    <3>1. \A i \in 1 .. n : v[i] = IF Heard(m, out[i]) THEN Told(out[i]) ELSE <<>>
      <4>1. \A i \in 1 .. n : i \in 1 .. n + 1
        OBVIOUS
      <4> QED
        BY <1>3, <1>5, <4>1 DEF Hearing
    <3> QED
      BY <3>1
  <2> QED
    BY <1>1, <2>1 DEF AllTold, Flat
<1>9. Flat(v, n + 1) = AllTold(m, q)
  <2>1. [i \in 1 .. n + 1 |-> v[i]]
          = [i \in 1 .. n + 1 |-> IF Heard(m, q[i]) THEN Told(q[i]) ELSE <<>>]
    BY <1>5 DEF Hearing
  <2> QED
    BY <1>3, <2>1 DEF AllTold, Flat
<1>10. AllTold(m, <<>>) = <<>>
  <2>1. Len(<<>>) = 0
    OBVIOUS
  <2>2. [i \in 1 .. 0 |-> IF Heard(m, <<>>[i]) THEN Told(<<>>[i]) ELSE <<>>] = <<>>
    OBVIOUS
  <2>3. AllTold(m, <<>>) = FlattenSeq(<<>>)
    BY <2>1, <2>2 DEF AllTold
  <2>4. FlattenSeq(<<>>) = <<>>
    BY <2>1 DEF FlattenSeq
  <2> QED
    BY <2>3, <2>4
<1>11. v[n + 1] = Hearing(m, x)
  BY <1>3, <1>5, <1>6
<1> QED
  BY <1>2, <1>7, <1>8, <1>9, <1>10, <1>11

SaidUpto(m, f, k) == FlattenSeq([i \in 1 .. k |-> Said(m, f[i])])

\* What a form says grows part by part.
LEMMA SaidProperties ==
  ASSUME NEW f, WellFormed(f), NEW m
  PROVE  /\ SaidUpto(m, f, 0) = <<>>
         /\ \A k \in 0 .. Len(f) : SaidUpto(m, f, k) \in Seq(Words(f))
         /\ \A k \in 1 .. Len(f) : Said(m, f[k]) \in Seq(Words(f))
         /\ \A k \in 1 .. Len(f) : SaidUpto(m, f, k) = SaidUpto(m, f, k - 1) \o Said(m, f[k])
         /\ AllSaid(m, f) = SaidUpto(m, f, Len(f))
<1>1. PICK A : A = Words(f)
  OBVIOUS
<1>2. PICK n \in Nat : n = Len(f)
  BY PartProperties
<1>3. "param" \in A /\ "upload" \in A /\ "end" \in A
  BY <1>1, WordsProperties
<1>4. ASSUME NEW i \in 1 .. n PROVE Said(m, f[i]) \in Seq(A)
  <2>1. f[i].content \in Seq(A) /\ f[i].name \in A /\ f[i].filename \in A
    BY <1>1, <1>2, PartProperties
  <2>2. PICK c \in Seq(A), x \in A, y \in A : c = f[i].content /\ x = f[i].name /\ y = f[i].filename
    BY <2>1
  <2>3. /\ <<"param", x>> \in Seq(A) /\ <<"upload", y>> \in Seq(A)
        /\ <<"end">> \in Seq(A) /\ <<"param", x, y>> \in Seq(A) /\ <<>> \in Seq(A)
    BY <1>3
  <2>4. <<"param", x>> \o c \in Seq(A)
    BY <2>3
  <2>5. <<"upload", y>> \o c \o <<"end">> \in Seq(A)
    BY <2>3
  <2>6. PICK u \in Seq(A) : u = IF m = "multipart" THEN <<"upload", y>> \o c \o <<"end">> ELSE <<>>
    BY <2>3, <2>5
  <2>7. u \o <<"param", x, y>> \in Seq(A)
    BY <2>3
  <2>8. Said(m, f[i]) = IF ~f[i].file THEN <<"param", x>> \o c
                        ELSE IF c = <<>> THEN <<>> ELSE u \o <<"param", x, y>>
    BY <2>2, <2>6 DEF Said
  <2> QED
    BY <2>3, <2>4, <2>7, <2>8
<1>5. PICK v : v = [i \in 1 .. n |-> Said(m, f[i])]
  OBVIOUS
<1>6. v \in [1 .. n -> Seq(A)] /\ \A i \in 1 .. n : v[i] = Said(m, f[i])
  BY <1>4, <1>5
<1>7. /\ Flat(v, 0) = <<>>
      /\ \A k \in 0 .. n : Flat(v, k) \in Seq(A)
      /\ \A k \in 1 .. n : Flat(v, k) = Flat(v, k - 1) \o v[k]
  BY <1>6, FlatProperties
<1>8. \A k \in 0 .. n : Flat(v, k) = SaidUpto(m, f, k)
  <2> SUFFICES ASSUME NEW k \in 0 .. n PROVE Flat(v, k) = SaidUpto(m, f, k)
    OBVIOUS
  <2>1. [i \in 1 .. k |-> v[i]] = [i \in 1 .. k |-> Said(m, f[i])]
    <3>1. \A i \in 1 .. k : i \in 1 .. n
      OBVIOUS
    <3> QED
      BY <1>6, <3>1
  <2> QED
    BY <2>1 DEF Flat, SaidUpto
<1>9. AllSaid(m, f) = SaidUpto(m, f, n)
  BY <1>2 DEF AllSaid, SaidUpto
<1>10. 0 \in 0 .. n /\ \A k \in 1 .. n : k \in 0 .. n /\ k - 1 \in 0 .. n
  OBVIOUS
<1> QED
  BY <1>1, <1>2, <1>4, <1>6, <1>7, <1>8, <1>9, <1>10

\* What the first parts say is the beginning of what all of them say.
LEMMA SaidPrefix ==
  ASSUME NEW f, WellFormed(f), NEW m
  PROVE  \A k \in 0 .. Len(f) : IsPrefix(SaidUpto(m, f, k), AllSaid(m, f))
<1>1. PICK n \in Nat : n = Len(f)
  BY PartProperties
<1> DEFINE T == {k \in 0 .. n : IsPrefix(SaidUpto(m, f, n - k), AllSaid(m, f))}
<1>2. \A k \in 0 .. n : SaidUpto(m, f, k) \in Seq(Words(f))
  BY <1>1, SaidProperties
<1>3. AllSaid(m, f) = SaidUpto(m, f, n) /\ n \in 0 .. n
  BY <1>1, SaidProperties
<1>4. 0 \in T
  <2>1. PICK s \in Seq(Words(f)) : s = AllSaid(m, f)
    BY <1>2, <1>3
  <2>2. IsPrefix(s, s)
    BY PrefixPointwise
  <2>3. n - 0 = n
    OBVIOUS
  <2> QED
    BY <1>3, <2>1, <2>2, <2>3
<1>5. ASSUME NEW k \in 0 .. n - 1, k \in T PROVE k + 1 \in T
  <2>1. n - k \in 1 .. n /\ n - (k + 1) \in 0 .. n /\ (n - k) - 1 = n - (k + 1) /\ k + 1 \in 0 .. n
    OBVIOUS
  <2>2. /\ SaidUpto(m, f, n - k) = SaidUpto(m, f, n - (k + 1)) \o Said(m, f[n - k])
        /\ Said(m, f[n - k]) \in Seq(Words(f))
    BY <1>1, <2>1, SaidProperties
  <2>3. PICK s, t, u, w : s = SaidUpto(m, f, n - (k + 1)) /\ t = Said(m, f[n - k]) /\ u = SaidUpto(m, f, n - k)
                          /\ w = AllSaid(m, f)
    OBVIOUS
  <2>4. s \in Seq(Words(f)) /\ t \in Seq(Words(f)) /\ u \in Seq(Words(f)) /\ w \in Seq(Words(f)) /\ u = s \o t
    <3>1. n - k \in 0 .. n
      BY <2>1
    <3> QED
      BY <1>2, <1>3, <2>1, <2>2, <2>3, <3>1
  <2>5. IsPrefix(s, u)
    BY <2>4, ConcatPrefix
  <2>6. IsPrefix(u, w)
    BY <1>5, <2>3
  <2>7. IsPrefix(s, w)
    BY <2>4, <2>5, <2>6, PrefixTransitive
  <2> QED
    BY <2>1, <2>3, <2>7
<1>6. \A k \in 0 .. n : k \in T
  <2> HIDE DEF T
  <2> QED
    BY <1>4, <1>5, InductionUpto
<1> SUFFICES ASSUME NEW k \in 0 .. n PROVE IsPrefix(SaidUpto(m, f, k), AllSaid(m, f))
  BY <1>1
<1>7. n - k \in 0 .. n /\ n - (n - k) = k
  OBVIOUS
<1> QED
  BY <1>6, <1>7

\* The pieces handed on join up so far, and the next one of the item at hand has index nx.
PiecesOk(m, out) ==
  \A k \in Pieces(m, out) :
    LET before == {j \in Pieces(m, out) : j < k} IN
    /\ Len(out[k].data) <= ChunkSize
    /\ before = {} => out[k].index = 0
    /\ \A j \in before : (\A l \in before : l <= j) => out[k].index = IndexAfter(out[j])

NextAt(m, out, nx) ==
  /\ Pieces(m, out) = {} => nx = 0
  /\ \A j \in Pieces(m, out) : (\A l \in Pieces(m, out) : l <= j) => nx = IndexAfter(out[j])

Joined(m, out, nx) == PiecesOk(m, out) /\ NextAt(m, out, nx)

Heeded(m, x) == x.what = "upload" /\ Heard(m, x)

\* No pieces join up.
LEMMA JoinedEmpty ==
  ASSUME NEW m
  PROVE  Joined(m, <<>>, 0)
<1>1. Pieces(m, <<>>) = {}
  BY DEF Pieces
<1> QED
  BY <1>1 DEF Joined, PiecesOk, NextAt

\* The pieces behind one more item.
LEMMA PiecesMore ==
  ASSUME NEW A, NEW out, out \in Seq(A), NEW x, x \in A, NEW m, NEW n, n = Len(out)
  PROVE  LET q == Append(out, x) IN
         /\ n \in Nat /\ \A k \in Pieces(m, out) : k \in 1 .. n /\ q[k] = out[k]
         /\ q[n + 1] = x
         /\ Pieces(m, q) = IF Heeded(m, x) THEN Pieces(m, out) \cup {n + 1} ELSE Pieces(m, out)
<1>1. PICK q : q = Append(out, x)
  OBVIOUS
<1>2. n \in Nat /\ Len(q) = n + 1 /\ q[n + 1] = x /\ \A i \in 1 .. n : q[i] = out[i]
  BY <1>1
<1>3. \A k : k \in Pieces(m, out) <=> k \in 1 .. n /\ Heeded(m, out[k])
  BY DEF Pieces, Heeded
<1>4. \A k : k \in Pieces(m, q) <=> k \in 1 .. n + 1 /\ Heeded(m, q[k])
  BY <1>2 DEF Pieces, Heeded
<1>5. \A k : k \in 1 .. n + 1 <=> k \in 1 .. n \/ k = n + 1
  BY <1>2
<1>6. \A k : k \in Pieces(m, q) <=> k \in Pieces(m, out) \/ (k = n + 1 /\ Heeded(m, x))
  BY <1>2, <1>3, <1>4, <1>5
<1>7. Pieces(m, q) = IF Heeded(m, x) THEN Pieces(m, out) \cup {n + 1} ELSE Pieces(m, out)
  BY <1>6
<1> QED
  BY <1>1, <1>2, <1>3, <1>7

\* Something else that is handed on changes nothing of it.
LEMMA JoinedOther ==
  ASSUME NEW A, NEW out, out \in Seq(A), NEW x, x \in A, NEW m, NEW nx,
         Joined(m, out, nx), ~Heeded(m, x)
  PROVE  Joined(m, Append(out, x), nx)
<1>1. PICK q, p : q = Append(out, x) /\ p = Pieces(m, out)
  OBVIOUS
<1>2. Pieces(m, q) = p /\ \A k \in p : q[k] = out[k]
  BY <1>1, PiecesMore
<1>3. PiecesOk(m, q)
  <2>1. ASSUME NEW k \in p
        PROVE  /\ Len(out[k].data) <= ChunkSize
               /\ {j \in p : j < k} = {} => out[k].index = 0
               /\ \A j \in {i \in p : i < k} :
                    (\A l \in {i \in p : i < k} : l <= j) => out[k].index = IndexAfter(out[j])
    BY <1>1 DEF Joined, PiecesOk
  <2>2. ASSUME NEW k \in p
        PROVE  /\ Len(q[k].data) <= ChunkSize
               /\ {j \in p : j < k} = {} => q[k].index = 0
               /\ \A j \in {i \in p : i < k} :
                    (\A l \in {i \in p : i < k} : l <= j) => q[k].index = IndexAfter(q[j])
    <3>1. q[k] = out[k] /\ \A j \in {i \in p : i < k} : q[j] = out[j]
      BY <1>2
    <3> QED
      BY <2>1, <3>1, Zenon
  <2> QED
    BY <1>2, <2>2, Zenon DEF PiecesOk
<1>4. NextAt(m, q, nx)
  BY <1>1, <1>2 DEF Joined, NextAt
<1> QED
  BY <1>1, <1>3, <1>4 DEF Joined

\* The next piece joins up if it has that index.
LEMMA JoinedUpload ==
  ASSUME NEW A, NEW out, out \in Seq(A), NEW x, x \in A, NEW m, NEW nx,
         Joined(m, out, nx), Heeded(m, x), x.index = nx, Len(x.data) <= ChunkSize
  PROVE  Joined(m, Append(out, x), IndexAfter(x))
<1>1. PICK q, p, n : q = Append(out, x) /\ p = Pieces(m, out) /\ n = Len(out)
  OBVIOUS
<1>2. /\ n \in Nat /\ \A k \in p : k \in 1 .. n /\ q[k] = out[k]
      /\ q[n + 1] = x /\ Pieces(m, q) = p \cup {n + 1}
  BY <1>1, PiecesMore
<1>3. \A k \in p : k < n + 1 /\ ~(n + 1 < k) /\ ~(n + 1 <= k)
  BY <1>2
<1>4. ASSUME NEW k \in p
      PROVE  LET before == {j \in p \cup {n + 1} : j < k} IN
             /\ Len(q[k].data) <= ChunkSize
             /\ before = {} => q[k].index = 0
             /\ \A j \in before : (\A l \in before : l <= j) => q[k].index = IndexAfter(q[j])
  <2>1. {j \in p \cup {n + 1} : j < k} = {j \in p : j < k}
    BY <1>3
  <2>2. q[k] = out[k] /\ \A j \in p : q[j] = out[j]
    BY <1>2
  <2>3. LET before == {j \in p : j < k} IN
        /\ Len(out[k].data) <= ChunkSize
        /\ before = {} => out[k].index = 0
        /\ \A j \in before : (\A l \in before : l <= j) => out[k].index = IndexAfter(out[j])
    BY <1>1 DEF Joined, PiecesOk
  <2> QED
    BY <2>1, <2>2, <2>3
<1>5. LET before == {j \in p \cup {n + 1} : j < n + 1} IN
      /\ Len(q[n + 1].data) <= ChunkSize
      /\ before = {} => q[n + 1].index = 0
      /\ \A j \in before : (\A l \in before : l <= j) => q[n + 1].index = IndexAfter(q[j])
  <2>1. {j \in p \cup {n + 1} : j < n + 1} = p
    BY <1>2, <1>3
  <2>2. p = {} => nx = 0
    BY <1>1 DEF Joined, NextAt
  <2>3. \A j \in p : (\A l \in p : l <= j) => nx = IndexAfter(q[j])
    BY <1>1, <1>2 DEF Joined, NextAt
  <2> QED
    BY <1>2, <2>1, <2>2, <2>3
<1>6. PiecesOk(m, q)
  BY <1>2, <1>4, <1>5 DEF PiecesOk
<1>7. NextAt(m, q, IndexAfter(x))
  <2>1. ASSUME NEW j \in p \cup {n + 1}, \A l \in p \cup {n + 1} : l <= j PROVE j = n + 1
    BY <1>3, <2>1
  <2> QED
    BY <1>2, <2>1 DEF NextAt
<1> QED
  BY <1>1, <1>6, <1>7 DEF Joined

-----------------------------------------------------------------------------
(* What header lines say of a name.                                        *)

\* No lines say nothing.
LEMMA SaidNothing ==
  ASSUME NEW says
  PROVE  SaidLast(<<>>, says, None)
  BY DEF SaidLast

\* One more line says its own, or leaves what was said before.
LEMMA SaidMore ==
  ASSUME NEW A, NEW s, s \in Seq(A), NEW l, l \in A, NEW says, NEW x, SaidLast(s, says, x)
  PROVE  SaidLast(Append(s, l), says, IF says[l] # None THEN says[l] ELSE x)
<1>1. PICK t, n : t = Append(s, l) /\ n = Len(s)
  OBVIOUS
<1>2. n \in Nat /\ Len(t) = n + 1 /\ t[n + 1] = l /\ \A j \in 1 .. n : t[j] = s[j]
  BY <1>1
<1>3. \A j \in 1 .. n + 1 : j \in 1 .. n \/ j = n + 1
  BY <1>2
<1>4. CASE says[l] # None
  <2>1. n + 1 \in 1 .. Len(t) /\ says[t[n + 1]] = says[l] /\ \A k \in n + 1 + 1 .. Len(t) : FALSE
    BY <1>2
  <2> QED
    BY <1>1, <1>4, <2>1 DEF SaidLast
<1>5. CASE says[l] = None /\ \A j \in 1 .. n : says[s[j]] = None
  <2>1. x = None
    BY <1>1, <1>5 DEF SaidLast
  <2>2. \A j \in 1 .. Len(t) : says[t[j]] = None
    BY <1>2, <1>3, <1>5
  <2> QED
    BY <1>1, <1>5, <2>1, <2>2 DEF SaidLast
<1>6. CASE says[l] = None /\ ~ \A j \in 1 .. n : says[s[j]] = None
  <2>1. x # None /\ \E j \in 1 .. n : says[s[j]] = x /\ \A k \in j + 1 .. n : says[s[k]] = None
    BY <1>1, <1>6 DEF SaidLast
  <2>2. PICK j \in 1 .. n : says[s[j]] = x /\ \A k \in j + 1 .. n : says[s[k]] = None
    BY <2>1
  <2>3. j \in 1 .. Len(t) /\ says[t[j]] = x
    BY <1>2, <2>2
  <2>4. ASSUME NEW k \in j + 1 .. Len(t) PROVE says[t[k]] = None
    <3>1. k \in j + 1 .. n \/ k = n + 1
      BY <1>2
    <3>2. k \in j + 1 .. n => k \in 1 .. n
      OBVIOUS
    <3> QED
      BY <1>2, <1>6, <2>2, <3>1, <3>2
  <2>5. says[t[j]] # None
    BY <2>1, <2>3
  <2> QED
    BY <1>1, <1>6, <2>1, <2>3, <2>4, <2>5 DEF SaidLast
<1> QED
  BY <1>4, <1>5, <1>6

\* Lines say at most one name.
LEMMA SaidOnce ==
  ASSUME NEW s, Len(s) \in Nat, NEW says, NEW x, NEW y, SaidLast(s, says, x), SaidLast(s, says, y)
  PROVE  x = y
<1>1. CASE \A j \in 1 .. Len(s) : says[s[j]] = None
  BY <1>1 DEF SaidLast
<1>2. CASE ~ \A j \in 1 .. Len(s) : says[s[j]] = None
  <2>1. x # None /\ y # None
    BY <1>2 DEF SaidLast
  <2>2. PICK j \in 1 .. Len(s) : says[s[j]] = x /\ \A k \in j + 1 .. Len(s) : says[s[k]] = None
    BY <1>2 DEF SaidLast
  <2>3. PICK i \in 1 .. Len(s) : says[s[i]] = y /\ \A k \in i + 1 .. Len(s) : says[s[k]] = None
    BY <1>2 DEF SaidLast
  <2>4. i = j \/ i \in j + 1 .. Len(s) \/ j \in i + 1 .. Len(s)
    OBVIOUS
  <2> QED
    BY <2>1, <2>2, <2>3, <2>4
<1> QED
  BY <1>1, <1>2

\* The header lines up to the j-th one of part i
LinesTo(f, i, j) == LinesUpto(f, i - 1) \o SubSeq(f[i].lines, 1, j)

Named(f, i, j, name, filename) ==
  SaidLast(LinesTo(f, i, j), NameIn, name) /\ SaidLast(LinesTo(f, i, j), FilenameIn, filename)

\* The beginning of a list grows by the next element.
LEMMA BeginningMore ==
  ASSUME NEW A, NEW s, s \in Seq(A), NEW j, j \in 0 .. Len(s) - 1
  PROVE  /\ SubSeq(s, 1, j) \in Seq(A) /\ s[j + 1] \in A
         /\ SubSeq(s, 1, j + 1) = Append(SubSeq(s, 1, j), s[j + 1])
<1>1. PICK n \in Nat : n = Len(s)
  OBVIOUS
<1>2. PICK t \in Seq(A) : t = SubSeq(s, 1, j)
  <2>1. SubSeq(s, 1, j) \in Seq(A)
    OBVIOUS
  <2> QED
    BY <2>1
<1>3. PICK u \in Seq(A) : u = SubSeq(s, 1, j + 1)
  <2>1. SubSeq(s, 1, j + 1) \in Seq(A)
    OBVIOUS
  <2> QED
    BY <2>1
<1>4. Len(t) = j /\ \A k \in 1 .. j : t[k] = s[k]
  BY <1>1, <1>2
<1>5. Len(u) = j + 1 /\ \A k \in 1 .. j + 1 : u[k] = s[k]
  BY <1>1, <1>3
<1>6. s[j + 1] \in A
  BY <1>1
<1>7. PICK w \in Seq(A) : w = Append(t, s[j + 1])
  <2>1. PICK x \in A : x = s[j + 1]
    BY <1>6
  <2>2. Append(t, x) \in Seq(A)
    OBVIOUS
  <2> QED
    BY <2>1, <2>2
<1>8. Len(w) = j + 1 /\ w[j + 1] = s[j + 1] /\ \A k \in 1 .. j : w[k] = t[k]
  BY <1>4, <1>7
<1>9. \A k \in 1 .. j + 1 : k \in 1 .. j \/ k = j + 1
  OBVIOUS
<1>10. \A k \in 1 .. j + 1 : u[k] = w[k]
  BY <1>4, <1>5, <1>8, <1>9
<1>11. u = w
  BY <1>5, <1>8, <1>10
<1> QED
  BY <1>2, <1>3, <1>6, <1>7, <1>11

\* A list is all of its beginning, and nothing of it is none of it.
LEMMA BeginningEnds ==
  ASSUME NEW A, NEW s, s \in Seq(A)
  PROVE  SubSeq(s, 1, 0) = <<>> /\ SubSeq(s, 1, Len(s)) = s
  OBVIOUS

\* The header lines up to line j of part i, line by line and part by part.
LEMMA LinesProperties ==
  ASSUME NEW f, WellFormed(f), NEW i, i \in 1 .. Len(f)
  PROVE  LET H == DOMAIN Headers
             lines == f[i].lines IN
         /\ LinesTo(f, 1, 0) = <<>>
         /\ LinesTo(f, i, Len(lines)) = LinesUpto(f, i)
         /\ i < Len(f) => LinesTo(f, i + 1, 0) = LinesUpto(f, i)
         /\ LinesUpto(f, i) \in Seq(H)
         /\ \A j \in 0 .. Len(lines) - 1 :
              /\ LinesTo(f, i, j) \in Seq(H) /\ lines[j + 1] \in H
              /\ LinesTo(f, i, j + 1) = Append(LinesTo(f, i, j), lines[j + 1])
<1>1. PICK H, n : H = DOMAIN Headers /\ n = Len(f) /\ n \in Nat
  BY PartProperties
<1>2. PICK v : v = [k \in 1 .. n |-> f[k].lines]
  OBVIOUS
<1>3. v \in [1 .. n -> Seq(H)] /\ \A k \in 1 .. n : v[k] = f[k].lines
  <2>1. \A k \in 1 .. n : f[k].lines \in Seq(H)
    BY <1>1, PartProperties
  <2> QED
    BY <1>2, <2>1
<1>4. /\ Flat(v, 0) = <<>>
      /\ \A k \in 0 .. n : Flat(v, k) \in Seq(H)
      /\ \A k \in 1 .. n : Flat(v, k) = Flat(v, k - 1) \o v[k]
  <2>1. n \in Nat /\ v \in [1 .. n -> Seq(H)]
    BY <1>1, <1>3
  <2> QED
    BY <2>1, FlatProperties, Zenon
<1>5. ASSUME NEW k \in 0 .. n PROVE LinesUpto(f, k) = Flat(v, k)
  <2>1. \A h \in 1 .. k : h \in 1 .. n
    BY <1>1
  <2>2. [h \in 1 .. k |-> v[h]] = [h \in 1 .. k |-> f[h].lines]
    BY <1>3, <2>1
  <2> QED
    BY <2>2 DEF LinesUpto, Flat
<1>6. i \in 1 .. n /\ i \in 0 .. n /\ i - 1 \in 0 .. n /\ 0 \in 0 .. n /\ 1 - 1 = 0 /\ (i + 1) - 1 = i
  BY <1>1
<1>7. PICK g, l, u : g = Flat(v, i - 1) /\ l = f[i].lines /\ u = LinesUpto(f, i)
  OBVIOUS
<1>8. /\ g \in Seq(H) /\ l \in Seq(H) /\ u \in Seq(H) /\ u = g \o l
      /\ LinesUpto(f, i - 1) = g /\ LinesUpto(f, 0) = <<>>
  BY <1>3, <1>4, <1>5, <1>6, <1>7
<1>10. LinesTo(f, 1, 0) = <<>>
  <2>1. f[1].lines \in Seq(H)
    <3>1. 1 \in 1 .. n
      BY <1>1
    <3> QED
      BY <1>1, <3>1, PartProperties
  <2>2. SubSeq(f[1].lines, 1, 0) = <<>>
    BY <2>1, BeginningEnds
  <2>3. <<>> \o <<>> = <<>>
    OBVIOUS
  <2> QED
    BY <1>6, <1>8, <2>2, <2>3 DEF LinesTo
<1>11. LinesTo(f, i, Len(l)) = u
  <2>1. SubSeq(l, 1, Len(l)) = l
    BY <1>8, BeginningEnds
  <2> QED
    BY <1>7, <1>8, <2>1 DEF LinesTo
<1>12. ASSUME i < Len(f) PROVE LinesTo(f, i + 1, 0) = u
  <2>1. SubSeq(f[i + 1].lines, 1, 0) = <<>>
    <3>1. i + 1 \in 1 .. n
      BY <1>1, <1>12
    <3>2. f[i + 1].lines \in Seq(H)
      BY <1>1, <3>1, PartProperties
    <3> QED
      BY <3>2, BeginningEnds
  <2>2. u \o <<>> = u
    BY <1>8
  <2> QED
    BY <1>6, <1>7, <2>1, <2>2 DEF LinesTo
<1>13. ASSUME NEW j \in 0 .. Len(l) - 1
       PROVE  /\ LinesTo(f, i, j) \in Seq(H) /\ l[j + 1] \in H
              /\ LinesTo(f, i, j + 1) = Append(LinesTo(f, i, j), l[j + 1])
  <2>1. PICK s, x, t : s = SubSeq(l, 1, j) /\ x = l[j + 1] /\ t = SubSeq(l, 1, j + 1)
    OBVIOUS
  <2>2. s \in Seq(H) /\ x \in H /\ t = Append(s, x)
    BY <1>8, <2>1, BeginningMore
  <2>3. LinesTo(f, i, j) = g \o s /\ LinesTo(f, i, j + 1) = g \o t
    BY <1>7, <1>8, <2>1 DEF LinesTo
  <2>4. Append(g \o s, x) = g \o Append(s, x) /\ Append(g \o s, x) \in Seq(H)
    <3>1. PICK a \in Seq(H), b \in Seq(H), y \in H : a = g /\ b = s /\ y = x
      BY <1>8, <2>2
    <3>2. Append(a \o b, y) = a \o Append(b, y) /\ Append(a \o b, y) \in Seq(H)
      BY AppendConcat
    <3> QED
      BY <3>1, <3>2
  <2>5. g \o s \in Seq(H)
    BY <1>8, <2>2
  <2> QED
    BY <2>1, <2>2, <2>3, <2>4, <2>5
<1> QED
  BY <1>1, <1>7, <1>8, <1>10, <1>11, <1>12, <1>13

\* Before the first line nothing is said; the next line may say more; at the end of its
\* headers a part has its name, and its file name if it is a file.
LEMMA NamedFirst ==
  ASSUME NEW f, WellFormed(f)
  PROVE  Named(f, 1, 0, None, None)
<1>1. LinesTo(f, 1, 0) = <<>>
  <2>1. 1 \in 1 .. Len(f)
    BY PartProperties
  <2> QED
    BY <2>1, LinesProperties
<1> QED
  BY <1>1, SaidNothing DEF Named

\* TakeHeader keeps to what the lines say.
LEMMA NamedMore ==
  ASSUME NEW f, WellFormed(f), NEW i, i \in 1 .. Len(f), NEW j, j \in 0 .. Len(f[i].lines) - 1,
         NEW x, NEW y, Named(f, i, j, x, y), NEW h, h = Headers[f[i].lines[j + 1]]
  PROVE  Named(f, i, j + 1, IF h.name # None THEN h.name ELSE x,
                            IF h.filename # None THEN h.filename ELSE y)
<1>1. PICK s, l, t : s = LinesTo(f, i, j) /\ l = f[i].lines[j + 1] /\ t = LinesTo(f, i, j + 1)
  OBVIOUS
<1>2. s \in Seq(DOMAIN Headers) /\ l \in DOMAIN Headers /\ t = Append(s, l)
  BY <1>1, LinesProperties
<1>3. NameIn[l] = h.name /\ FilenameIn[l] = h.filename
  BY <1>1, <1>2 DEF NameIn, FilenameIn
<1>4. SaidLast(s, NameIn, x) /\ SaidLast(s, FilenameIn, y)
  BY <1>1 DEF Named
<1>5. SaidLast(t, NameIn, IF NameIn[l] # None THEN NameIn[l] ELSE x)
  BY <1>2, <1>4, SaidMore
<1>6. SaidLast(t, FilenameIn, IF FilenameIn[l] # None THEN FilenameIn[l] ELSE y)
  BY <1>2, <1>4, SaidMore
<1> QED
  BY <1>1, <1>3, <1>5, <1>6 DEF Named

\* Behind its header lines the names of a part are those of the form.
LEMMA NamedKnown ==
  ASSUME NEW f, WellFormed(f), NEW i, i \in 1 .. Len(f),
         NEW x, NEW y, Named(f, i, Len(f[i].lines), x, y)
  PROVE  /\ x = f[i].name /\ (f[i].file => y = f[i].filename)
         /\ i < Len(f) => Named(f, i + 1, 0, x, y)
<1>1. PICK u : u = LinesUpto(f, i)
  OBVIOUS
<1>2. u \in Seq(DOMAIN Headers) /\ u = LinesTo(f, i, Len(f[i].lines))
  BY <1>1, LinesProperties
<1>3. SaidLast(u, NameIn, x) /\ SaidLast(u, FilenameIn, y)
  BY <1>2 DEF Named
<1>4. SaidLast(u, NameIn, f[i].name) /\ (f[i].file => SaidLast(u, FilenameIn, f[i].filename))
  BY <1>1 DEF WellFormed
<1>5. Len(u) \in Nat
  BY <1>2
<1>6. x = f[i].name /\ (f[i].file => y = f[i].filename)
  BY <1>3, <1>4, <1>5, SaidOnce
<1>7. ASSUME i < Len(f) PROVE Named(f, i + 1, 0, x, y)
  <2>1. LinesTo(f, i + 1, 0) = u
    BY <1>1, <1>7, LinesProperties
  <2> QED
    BY <1>3, <2>1 DEF Named
<1> QED
  BY <1>6, <1>7

-----------------------------------------------------------------------------
(* The parser's members, and what writing a byte does to them.             *)

States ==
  {"PARSE_ERROR", "WAIT_FOR_RETURN1", "EXPECT_BOUNDARY", "PARSE_HEADERS", "EXPECT_FEED1",
   "EXPECT_DASH1", "EXPECT_DASH2", "BOUNDARY_OR_DATA", "DASH3_OR_RETURN2", "EXPECT_FEED2",
   "PARSING_FINISHED"}

Parsers(A) ==
  [state : States, parsed : Nat, temp : Seq(A), bpos : Nat, size : Nat, name : A, filename : A,
   value : Seq(A), isFile : BOOLEAN, buf : Seq(A), held : BOOLEAN, out : Seq(Items(A))]

\* The call of the upload callback with what the buffer holds
Piece(P, data, last) ==
  [what |-> "upload", name |-> P.filename, data |-> data, index |-> P.size - Len(P.buf), last |-> last]

\* What writing leaves alone
Same(P, Q) ==
  /\ Q.state = P.state /\ Q.parsed = P.parsed /\ Q.temp = P.temp /\ Q.bpos = P.bpos
  /\ Q.name = P.name /\ Q.filename = P.filename /\ Q.isFile = P.isFile /\ Q.held = P.held

Written(P, b, last, Q) ==
  /\ Same(P, Q) /\ Q.size = P.size + 1
  /\ ~P.isFile => Q.value = Append(P.value, b) /\ Q.buf = P.buf /\ Q.out = P.out
  /\ P.isFile /\ (last \/ Len(P.buf) + 1 = ChunkSize) =>
       Q.value = P.value /\ Q.buf = <<>> /\ Q.out = Append(P.out, Piece(P, Append(P.buf, b), last))
  /\ P.isFile /\ ~(last \/ Len(P.buf) + 1 = ChunkSize) =>
       Q.value = P.value /\ Q.buf = Append(P.buf, b) /\ Q.out = P.out

\* itemWriteByte, for a field and for a file, with a full buffer or not.
LEMMA WriteByteWrites ==
  ASSUME NEW A, NEW P, P \in Parsers(A), NEW b, b \in A, NEW last, last \in BOOLEAN
  PROVE  WriteByte(P, b, last) \in Parsers(A) /\ Written(P, b, last, WriteByte(P, b, last))
<1>1. /\ P.size \in Nat /\ P.value \in Seq(A) /\ P.buf \in Seq(A) /\ Len(P.buf) \in Nat
      /\ P.out \in Seq(Items(A)) /\ P.filename \in A
  BY DEF Parsers
<1>2. Append(P.value, b) \in Seq(A) /\ Append(P.buf, b) \in Seq(A) /\ Len(Append(P.buf, b)) = Len(P.buf) + 1
  BY <1>1
<1>3. CASE ~P.isFile
  <2> DEFINE n == P.size + 1
             v == Append(P.value, b)
  <2>0. n \in Nat /\ v \in Seq(A)
    BY <1>1, <1>2
  <2>1. PICK Q : Q = [P EXCEPT !.size = n, !.value = v]
    OBVIOUS
  <2>2. WriteByte(P, b, last) = Q
    BY <1>3, <2>1 DEF WriteByte
  <2> HIDE DEF n, v
  <2>3. Q \in Parsers(A)
    BY <2>0, <2>1 DEF Parsers
  <2> USE DEF n, v
  <2>4. /\ Same(P, Q) /\ Q.size = P.size + 1 /\ Q.value = Append(P.value, b)
        /\ Q.buf = P.buf /\ Q.out = P.out
    BY <2>1 DEF Parsers, Same
  <2> QED
    BY <1>3, <2>2, <2>3, <2>4 DEF Written
<1>4. CASE P.isFile
  <2> DEFINE n == P.size + 1
             v == Append(P.buf, b)
  <2>0. n \in Nat /\ v \in Seq(A)
    BY <1>1, <1>2
  <2>1. PICK Q : Q = [P EXCEPT !.size = n, !.buf = v]
    OBVIOUS
  <2> HIDE DEF n, v
  <2>2. Q \in Parsers(A)
    BY <2>0, <2>1 DEF Parsers
  <2> USE DEF n, v
  <2>3. /\ Same(P, Q) /\ Q.size = P.size + 1 /\ Q.value = P.value
        /\ Q.buf = Append(P.buf, b) /\ Q.out = P.out
    BY <2>1 DEF Parsers, Same
  <2>4. WriteByte(P, b, last) = IF last \/ Len(Q.buf) = ChunkSize THEN Upload(Q, last) ELSE Q
    BY <1>4, <2>1 DEF WriteByte
  <2>5. CASE last \/ Len(P.buf) + 1 = ChunkSize
    <3>1. PICK R : R = Upload(Q, last)
      OBVIOUS
    <3>2. Q.size - Len(Q.buf) = P.size - Len(P.buf)
      BY <1>1, <1>2, <2>3
    <3>3. PICK x : x = Piece(P, Append(P.buf, b), last)
      OBVIOUS
    <3>4. x \in Items(A)
      BY <1>1, <1>2, <3>3 DEF Items, Piece
    <3>5. R = [Q EXCEPT !.out = Append(P.out, x), !.buf = <<>>]
      BY <2>3, <3>1, <3>2, <3>3 DEF Upload, Piece, Same
    <3>6. Append(P.out, x) \in Seq(Items(A)) /\ <<>> \in Seq(A)
      BY <1>1, <3>4
    <3>7. R \in Parsers(A)
      BY <2>2, <3>5, <3>6 DEF Parsers
    <3>8. /\ R.size = Q.size /\ R.value = Q.value /\ R.buf = <<>> /\ R.out = Append(P.out, x)
          /\ Same(Q, R)
      BY <2>2, <3>5 DEF Parsers, Same
    <3>9. Same(P, R)
      BY <2>3, <3>8 DEF Same
    <3>10. WriteByte(P, b, last) = R
      BY <1>2, <2>3, <2>4, <2>5, <3>1
    <3> QED
      BY <1>4, <2>3, <2>5, <3>3, <3>7, <3>8, <3>9, <3>10 DEF Written
  <2>6. CASE ~(last \/ Len(P.buf) + 1 = ChunkSize)
    <3>1. WriteByte(P, b, last) = Q
      BY <1>2, <2>3, <2>4, <2>6
    <3> QED
      BY <1>4, <2>2, <2>3, <2>6, <3>1 DEF Written
  <2> QED
    BY <2>5, <2>6
<1> QED
  BY <1>3, <1>4

\* A window of a text grows by the next symbol, and what was before it and the window are
\* a beginning of the text.
LEMMA WindowMore ==
  ASSUME NEW A, NEW s, s \in Seq(A), NEW j, j \in 0 .. Len(s) - 1, NEW u, u \in 0 .. j
  PROVE  /\ SubSeq(s, u + 1, j) \in Seq(A) /\ Len(SubSeq(s, u + 1, j)) = j - u
         /\ s[j + 1] \in A
         /\ SubSeq(s, u + 1, j + 1) = Append(SubSeq(s, u + 1, j), s[j + 1])
<1>1. PICK n \in Nat : n = Len(s)
  OBVIOUS
<1>2. PICK t \in Seq(A) : t = SubSeq(s, u + 1, j)
  <2>1. SubSeq(s, u + 1, j) \in Seq(A)
    BY <1>1
  <2> QED
    BY <2>1
<1>3. PICK v \in Seq(A) : v = SubSeq(s, u + 1, j + 1)
  <2>1. SubSeq(s, u + 1, j + 1) \in Seq(A)
    BY <1>1
  <2> QED
    BY <2>1
<1>4. Len(t) = j - u /\ \A k \in 1 .. j - u : t[k] = s[u + k]
  <2>1. j \in Nat /\ u \in Nat /\ u <= j /\ j < n
    BY <1>1
  <2>2. Len(t) = j - u
    BY <1>1, <1>2, <2>1
  <2>3. \A k \in 1 .. j - u : t[k] = s[u + k]
    BY <1>1, <1>2, <2>1
  <2> QED
    BY <2>2, <2>3
<1>5. Len(v) = (j - u) + 1 /\ \A k \in 1 .. (j - u) + 1 : v[k] = s[u + k]
  <2>1. j \in Nat /\ u \in Nat /\ u <= j /\ j < n
    BY <1>1
  <2>2. Len(v) = (j - u) + 1
    BY <1>1, <1>3, <2>1
  <2>3. ASSUME NEW k \in 1 .. (j - u) + 1 PROVE v[k] = s[u + k]
    <3>1. PICK a \in Nat, b \in Nat : a = u + 1 /\ b = j + 1
      BY <2>1
    <3>2. v = SubSeq(s, a, b)
      BY <1>3, <3>1, Zenon
    <3>3. k \in 1 .. (b - a) + 1
      BY <2>1, <3>1
    <3>4. v[k] = s[a + k - 1]
      BY <3>2, <3>3
    <3>5. a + k - 1 = u + k
      BY <2>1, <3>1
    <3> QED
      BY <3>4, <3>5, Zenon
  <2> QED
    BY <2>2, <2>3
<1>6. PICK x \in A : x = s[j + 1]
  <2>1. s[j + 1] \in A
    BY <1>1
  <2> QED
    BY <2>1
<1>7. PICK w \in Seq(A) : w = Append(t, x)
  <2>1. Append(t, x) \in Seq(A)
    OBVIOUS
  <2> QED
    BY <2>1
<1>8. Len(w) = (j - u) + 1 /\ w[(j - u) + 1] = x /\ \A k \in 1 .. j - u : w[k] = t[k]
  BY <1>4, <1>7
<1>9. \A k \in 1 .. (j - u) + 1 : k \in 1 .. j - u \/ k = (j - u) + 1
  OBVIOUS
<1>10. u + ((j - u) + 1) = j + 1
  OBVIOUS
<1>11. \A k \in 1 .. (j - u) + 1 : v[k] = w[k]
  BY <1>4, <1>5, <1>6, <1>8, <1>9, <1>10
<1>12. v = w
  BY <1>5, <1>8, <1>11
<1> QED
  BY <1>2, <1>3, <1>4, <1>6, <1>7, <1>12

\* Two neighbouring windows of a text join up.
LEMMA WindowJoins ==
  ASSUME NEW A, NEW s, s \in Seq(A), NEW j, j \in 0 .. Len(s), NEW u, u \in 0 .. j
  PROVE  SubSeq(s, 1, u) \in Seq(A) /\ SubSeq(s, 1, u) \o SubSeq(s, u + 1, j) = SubSeq(s, 1, j)
<1>1. PICK n \in Nat : n = Len(s)
  OBVIOUS
<1>2. PICK t \in Seq(A) : t = SubSeq(s, u + 1, j)
  <2>1. SubSeq(s, u + 1, j) \in Seq(A)
    BY <1>1
  <2> QED
    BY <2>1
<1>3. PICK v \in Seq(A) : v = SubSeq(s, 1, j)
  <2>1. SubSeq(s, 1, j) \in Seq(A)
    BY <1>1
  <2> QED
    BY <2>1
<1>4. PICK x \in Seq(A) : x = SubSeq(s, 1, u)
  <2>1. SubSeq(s, 1, u) \in Seq(A)
    BY <1>1
  <2> QED
    BY <2>1
<1>5. Len(t) = j - u /\ \A k \in 1 .. j - u : t[k] = s[u + k]
  BY <1>1, <1>2
<1>6. Len(v) = j /\ \A k \in 1 .. j : v[k] = s[k]
  BY <1>1, <1>3
<1>7. Len(x) = u /\ \A k \in 1 .. u : x[k] = s[k]
  BY <1>1, <1>4
<1>8. PICK y \in Seq(A) : y = x \o t
  <2>1. x \o t \in Seq(A)
    OBVIOUS
  <2> QED
    BY <2>1
<1>9. Len(y) = j /\ (\A k \in 1 .. u : y[k] = x[k]) /\ \A k \in 1 .. j - u : y[u + k] = t[k]
  <2>1. Len(x \o t) = Len(x) + Len(t)
    OBVIOUS
  <2>2. \A k \in 1 .. Len(x) : (x \o t)[k] = x[k]
    OBVIOUS
  <2>3. \A k \in 1 .. Len(t) : (x \o t)[Len(x) + k] = t[k]
    OBVIOUS
  <2> QED
    BY <1>5, <1>7, <1>8, <2>1, <2>2, <2>3
<1>10. \A k \in 1 .. j : k \in 1 .. u \/ (k - u \in 1 .. j - u /\ u + (k - u) = k)
  OBVIOUS
<1>11. \A k \in 1 .. j : y[k] = v[k]
  <2> SUFFICES ASSUME NEW k \in 1 .. j PROVE y[k] = v[k]
    OBVIOUS
  <2>1. CASE k \in 1 .. u
    BY <1>6, <1>7, <1>9, <2>1
  <2>2. CASE k - u \in 1 .. j - u /\ u + (k - u) = k
    <3>1. y[u + (k - u)] = t[k - u] /\ t[k - u] = s[u + (k - u)]
      BY <1>5, <1>9, <2>2
    <3> QED
      BY <1>6, <2>2, <3>1
  <2> QED
    BY <1>10, <2>1, <2>2
<1>12. y = v
  BY <1>6, <1>9, <1>11
<1> QED
  BY <1>2, <1>3, <1>4, <1>8, <1>12

-----------------------------------------------------------------------------
(* The content of a part, written so far.                                  *)

\* What has been told of part p when u bytes of it have gone to the upload callback
Begun(m, p, u) ==
  IF u = 0 \/ m # "multipart" THEN <<>>
  ELSE <<"upload", p.filename>> \o SubSeq(p.content, 1, u)

\* w bytes of part i have been written: a field has them all, a file those that are still
\* to be handed on.
Kept(m, f, i, w, P) ==
  LET p == f[i]
      u == w - Len(P.buf) IN
  /\ ~p.file => /\ P.value = SubSeq(p.content, 1, w)
                /\ AllTold(m, P.out) = SaidUpto(m, f, i - 1)
  /\ p.file => /\ P.buf = SubSeq(p.content, u + 1, w)
               /\ AllTold(m, P.out) = SaidUpto(m, f, i - 1) \o Begun(m, p, u)
  /\ Joined(m, P.out, IF p.file /\ m = "multipart" THEN u ELSE 0)

\* whole: the parser is to get all of the body.
Data(m, whole, f, i, w, P) ==
  /\ P \in Parsers(Words(f)) /\ w \in 0 .. Len(f[i].content) /\ P.size = w
  /\ Len(P.buf) < ChunkSize /\ Len(P.buf) <= w /\ (~f[i].file => P.buf = <<>>)
  /\ P.temp = <<>> /\ P.isFile = f[i].file /\ P.held = f[i].file
  /\ Named(f, i, Len(f[i].lines), P.name, P.filename)
  /\ whole => Kept(m, f, i, w, P)

\* x is a piece of part p, from its u-th byte to its w-th.
PieceOf(p, u, w, x) ==
  /\ w \in 1 .. Len(p.content) /\ u \in 0 .. w /\ u < w
  /\ x.what = "upload" /\ x.name = p.filename /\ x.index = u /\ ~x.last
  /\ x.data = SubSeq(p.content, u + 1, w)

BegunAndHeard(m, f, i, u, w, x) ==
  /\ Begun(m, f[i], u) \in Seq(Words(f))
  /\ Begun(m, f[i], u) \o Hearing(m, x) = Begun(m, f[i], w)

\* One more piece of a file: what has been told of it ends where the piece ends.
LEMMA BegunMore ==
  ASSUME NEW f, WellFormed(f), NEW i, i \in 1 .. Len(f), NEW m, NEW u, NEW w, NEW x,
         PieceOf(f[i], u, w, x)
  PROVE  BegunAndHeard(m, f, i, u, w, x)
<1>1. PICK A : A = Words(f)
  OBVIOUS
<1>2. PICK c \in Seq(A) : c = f[i].content
  BY <1>1, PartProperties
<1> USE DEF PieceOf
<1>3. PICK h \in Seq(A) : h = <<"upload", f[i].filename>>
  <2>1. "upload" \in A /\ f[i].filename \in A
    BY <1>1, WordsProperties, PartProperties
  <2>2. <<"upload", f[i].filename>> \in Seq(A)
    BY <2>1
  <2> QED
    BY <2>2
<1>4. CASE m # "multipart"
  <2>1. Hearing(m, x) = <<>> /\ Begun(m, f[i], u) = <<>> /\ Begun(m, f[i], w) = <<>>
    BY <1>4 DEF Hearing, Heard, Begun
  <2>2. <<>> \o <<>> = <<>> /\ <<>> \in Seq(A)
    OBVIOUS
  <2> QED
    BY <1>1, <2>1, <2>2 DEF BegunAndHeard
<1>5. CASE m = "multipart"
  <2>1. PICK a, d, e : a = SubSeq(c, 1, u) /\ d = SubSeq(c, u + 1, w) /\ e = SubSeq(c, 1, w)
    OBVIOUS
  <2>2. PICK n \in Nat : n = Len(c)
    OBVIOUS
  <2>3. a \in Seq(A) /\ a \o d = e
    <3>1. w \in 0 .. Len(c)
      BY <1>2
    <3> QED
      BY <2>1, <3>1, WindowJoins
  <2>4. d \in Seq(A) /\ e \in Seq(A)
    <3>1. SubSeq(c, u + 1, w) \in Seq(A)
      BY <1>2, <2>2
    <3>2. SubSeq(c, 1, w) \in Seq(A)
      BY <1>2, <2>2
    <3> QED
      BY <2>1, <3>1, <3>2
  <2>5. Hearing(m, x) = (IF u = 0 THEN h ELSE <<>>) \o d \o <<>>
    BY <1>2, <1>3, <1>5, <2>1 DEF Hearing, Heard, Told
  <2>6. Begun(m, f[i], w) = h \o e
    BY <1>2, <1>3, <1>5, <2>1 DEF Begun
  <2>7. CASE u = 0
    <3>1. Begun(m, f[i], u) = <<>>
      BY <2>7 DEF Begun
    <3>2. Hearing(m, x) = h \o d \o <<>>
      BY <2>5, <2>7
    <3>3. d = e
      BY <2>1, <2>7
    <3>4. <<>> \o (h \o d \o <<>>) = h \o d /\ <<>> \in Seq(A)
      <4>1. PICK z \in Seq(A) : z = h \o d
        <5>1. h \o d \in Seq(A)
          BY <2>4
        <5> QED
          BY <5>1
      <4>2. z \o <<>> = z /\ <<>> \o z = z
        OBVIOUS
      <4> QED
        BY <4>1, <4>2
    <3> QED
      BY <1>1, <2>6, <3>1, <3>2, <3>3, <3>4 DEF BegunAndHeard
  <2>8. CASE u # 0
    <3>1. Begun(m, f[i], u) = h \o a
      BY <1>2, <1>3, <1>5, <2>1, <2>8 DEF Begun
    <3>2. Hearing(m, x) = d
      <4>1. <<>> \o d = d /\ d \o <<>> = d
        BY <2>4
      <4> QED
        BY <2>5, <2>8, <4>1
    <3>3. (h \o a) \o d = h \o (a \o d) /\ h \o a \in Seq(A)
      <4>1. h \in Seq(A) /\ h \o a \in Seq(A)
        BY <2>3
      <4>2. Cat(Cat(h, a), d) = Cat(h, Cat(a, d))
        <5>1. h \in Seq(A) /\ a \in Seq(A) /\ d \in Seq(A)
          BY <2>3, <2>4
        <5> QED
          BY <5>1, CatAssociative
      <4> QED
        BY <4>1, <4>2 DEF Cat
    <3> QED
      BY <1>1, <2>3, <2>6, <3>1, <3>2, <3>3 DEF BegunAndHeard
  <2> QED
    BY <2>7, <2>8
<1> QED
  BY <1>4, <1>5

\* Writing the next byte of the content writes the next byte of the content.
LEMMA DataMore ==
  ASSUME NEW f, WellFormed(f), NEW i, i \in 1 .. Len(f), NEW m, NEW whole, NEW w, NEW P,
         Data(m, whole, f, i, w, P), w < Len(f[i].content),
         NEW b, b = f[i].content[w + 1], NEW last, last \in BOOLEAN, whole => ~last
  PROVE  /\ Data(m, whole, f, i, w + 1, WriteByte(P, b, last))
         /\ Same(P, WriteByte(P, b, last))
<1>1. PICK A, c, p : A = Words(f) /\ c = f[i].content /\ p = f[i]
  OBVIOUS
<1>2. PICK n \in Nat : n = Len(c) /\ c \in Seq(A)
  BY <1>1, PartProperties
<1>3. w \in 0 .. n - 1 /\ w + 1 \in 0 .. n /\ w + 1 \in 1 .. n /\ w \in 0 .. Len(c) - 1
  BY <1>1, <1>2 DEF Data
<1>4. b \in A
  BY <1>1, <1>2, <1>3
<1>5. /\ P \in Parsers(A) /\ P.size = w
      /\ Len(P.buf) < ChunkSize /\ Len(P.buf) <= w /\ (~p.file => P.buf = <<>>)
      /\ P.temp = <<>> /\ P.isFile = p.file /\ P.held = p.file
      /\ Named(f, i, Len(p.lines), P.name, P.filename)
  BY <1>1 DEF Data
<1>6. PICK Q : Q = WriteByte(P, b, last)
  OBVIOUS
<1>7. Q \in Parsers(A) /\ Written(P, b, last, Q)
  BY <1>4, <1>5, <1>6, WriteByteWrites
<1>8. /\ P.buf \in Seq(A) /\ P.out \in Seq(Items(A)) /\ P.value \in Seq(A)
      /\ P.isFile \in BOOLEAN /\ P.filename \in A
  BY <1>5 DEF Parsers
<1>9. PICK k \in Nat : k = Len(P.buf) /\ k <= w
  BY <1>5, <1>8
<1>10. ChunkSize \in Nat /\ ChunkSize > 0
  BY ChunkAssumption
<1>11. Same(P, Q) /\ Q.size = w + 1
  BY <1>5, <1>7 DEF Written
<1>12. Len(Append(P.buf, b)) = k + 1 /\ Len(<<>>) = 0
  BY <1>4, <1>8, <1>9
<1> DEFINE full == last \/ k + 1 = ChunkSize
<1>13. /\ ~p.file => Q.value = Append(P.value, b) /\ Q.buf = <<>> /\ Q.out = P.out
       /\ p.file /\ full =>
            Q.buf = <<>> /\ Q.out = Append(P.out, Piece(P, Append(P.buf, b), last))
       /\ p.file /\ ~full => Q.buf = Append(P.buf, b) /\ Q.out = P.out
  BY <1>5, <1>7, <1>9 DEF Written
<1>14. Len(Q.buf) < ChunkSize /\ Len(Q.buf) <= w + 1 /\ (~p.file => Q.buf = <<>>)
  <2>1. CASE Q.buf = <<>> /\ (~p.file => Q.buf = <<>>)
    BY <1>3, <1>10, <1>12, <2>1
  <2>2. CASE p.file /\ ~full
    <3>1. Len(Q.buf) = k + 1
      BY <1>12, <1>13, <2>2
    <3>2. k < ChunkSize /\ k + 1 # ChunkSize
      BY <1>5, <1>9, <2>2
    <3> QED
      BY <1>3, <1>9, <1>10, <2>2, <3>1, <3>2
  <2> QED
    BY <1>13, <2>1, <2>2
<1>15. ASSUME whole PROVE Kept(m, f, i, w + 1, Q)
  <2>1. Kept(m, f, i, w, P) /\ ~last
    BY <1>15 DEF Data
  <2> DEFINE u == w - k
  <2>2. /\ ~p.file => P.value = SubSeq(c, 1, w) /\ AllTold(m, P.out) = SaidUpto(m, f, i - 1)
        /\ p.file => /\ P.buf = SubSeq(c, u + 1, w)
                     /\ AllTold(m, P.out) = SaidUpto(m, f, i - 1) \o Begun(m, p, u)
        /\ Joined(m, P.out, IF p.file /\ m = "multipart" THEN u ELSE 0)
    BY <1>1, <1>9, <2>1 DEF Kept
  <2>3. u \in 0 .. w /\ 0 \in 0 .. w /\ 0 + 1 = 1 /\ u < w + 1 /\ u \in 0 .. w + 1
    BY <1>3, <1>9
  <2>4. CASE ~p.file
    <3>1. SubSeq(c, 0 + 1, w + 1) = Append(SubSeq(c, 0 + 1, w), c[w + 1])
      BY <1>2, <1>3, <2>3, WindowMore
    <3>2. Q.value = SubSeq(c, 1, w + 1)
      BY <1>1, <1>13, <2>2, <2>3, <2>4, <3>1
    <3> QED
      BY <1>1, <1>13, <2>2, <2>4, <3>2 DEF Kept
  <2>5. CASE p.file /\ ~full
    <3>1. SubSeq(c, u + 1, w + 1) = Append(SubSeq(c, u + 1, w), c[w + 1])
      BY <1>2, <1>3, <2>3, WindowMore
    <3>2. Q.buf = SubSeq(c, u + 1, w + 1) /\ Q.out = P.out
      BY <1>1, <1>13, <2>2, <2>5, <3>1
    <3>3. (w + 1) - Len(Q.buf) = u
      <4>1. Len(Q.buf) = k + 1
        BY <1>12, <1>13, <2>5
      <4> QED
        BY <1>3, <1>9, <4>1
    <3> QED
      BY <1>1, <2>2, <2>5, <3>2, <3>3 DEF Kept
  <2>6. CASE p.file /\ full
    <3>1. PICK x, d : d = Append(P.buf, b) /\ x = Piece(P, d, last)
      OBVIOUS
    <3>2. d = SubSeq(c, u + 1, w + 1)
      <4>1. SubSeq(c, u + 1, w + 1) = Append(SubSeq(c, u + 1, w), c[w + 1])
        BY <1>2, <1>3, <2>3, WindowMore
      <4> QED
        BY <1>1, <2>2, <2>6, <3>1, <4>1
    <3>3. d \in Seq(A) /\ Len(d) = k + 1
      BY <1>4, <1>8, <1>12, <3>1
    <3>4. P.filename = p.filename
      BY <1>1, <1>5, <2>6, NamedKnown, Zenon
    <3>5. /\ x.what = "upload" /\ x.name = p.filename /\ x.data = d /\ x.index = u /\ ~x.last
      BY <1>5, <1>9, <2>1, <3>1, <3>4 DEF Piece
    <3>6. x \in Items(A)
      <4>1. u \in Int /\ last \in BOOLEAN
        BY <2>3
      <4>2. x = [what |-> "upload", name |-> P.filename, data |-> d, index |-> u, last |-> last]
        BY <1>5, <1>9, <3>1 DEF Piece
      <4> QED
        BY <1>8, <3>3, <4>1, <4>2 DEF Items
    <3>7. Q.buf = <<>> /\ Q.out = Append(P.out, x)
      BY <1>13, <2>6, <3>1
    <3>8. Begun(m, p, u) \in Seq(A) /\ Begun(m, p, u) \o Hearing(m, x) = Begun(m, p, w + 1)
      <4>1. w + 1 \in 1 .. Len(f[i].content) /\ x.data = SubSeq(f[i].content, u + 1, w + 1) /\ p = f[i]
        BY <1>1, <1>2, <1>3, <3>2, <3>5
      <4>2. PieceOf(f[i], u, w + 1, x)
        BY <1>1, <2>3, <3>5, <4>1 DEF PieceOf
      <4>3. BegunAndHeard(m, f, i, u, w + 1, x)
        BY <4>2, BegunMore, Zenon
      <4> QED
        BY <1>1, <4>3 DEF BegunAndHeard
    <3>9. AllTold(m, Q.out) = SaidUpto(m, f, i - 1) \o Begun(m, p, w + 1)
      <4>1. {"param", "upload", "end"} \subseteq A
        BY <1>1, WordsProperties
      <4>2. AllTold(m, Q.out) = AllTold(m, P.out) \o Hearing(m, x)
        <5>1. PICK out : out = P.out
          OBVIOUS
        <5>2. out \in Seq(Items(A))
          BY <1>8, <5>1
        <5>3. AllTold(m, Append(out, x)) = AllTold(m, out) \o Hearing(m, x)
          BY <3>6, <4>1, <5>2, ToldMore
        <5> QED
          BY <3>7, <5>1, <5>3, Zenon
      <4>3. Hearing(m, x) \in Seq(A)
        BY <3>6, <4>1, ToldTyped
      <4>4. SaidUpto(m, f, i - 1) \in Seq(A)
        <5>1. i - 1 \in 0 .. Len(f)
          BY PartProperties
        <5> QED
          BY <1>1, <5>1, SaidProperties
      <4>5. PICK y \in Seq(A), z \in Seq(A), h \in Seq(A) :
              y = SaidUpto(m, f, i - 1) /\ z = Begun(m, p, u) /\ h = Hearing(m, x)
        BY <3>8, <4>3, <4>4
      <4>6. (y \o z) \o h = y \o (z \o h)
        BY <4>5, ConcatProperties, SMTT(20)
      <4> QED
        BY <2>2, <2>6, <3>8, <4>2, <4>5, <4>6
    <3>10. Joined(m, Q.out, IF m = "multipart" THEN w + 1 ELSE 0)
      <4>1. CASE m = "multipart"
        <5>1. Heeded(m, x)
          BY <3>5, <4>1 DEF Heeded, Heard
        <5>2. Joined(m, P.out, u)
          BY <2>2, <2>6, <4>1
        <5>3. Len(x.data) <= ChunkSize
          BY <1>5, <1>9, <1>10, <3>3, <3>5
        <5>4. IndexAfter(x) = w + 1
          <6>1. IndexAfter(x) = u + Len(d)
            BY <3>5 DEF IndexAfter
          <6>2. u + (k + 1) = w + 1
            <7>1. w \in Int /\ k \in Int
              BY <1>3
            <7> QED
              BY <7>1
          <6> QED
            BY <3>3, <6>1, <6>2
        <5>5. Joined(m, Append(P.out, x), IndexAfter(x))
          BY <1>8, <3>5, <3>6, <5>1, <5>2, <5>3, JoinedUpload
        <5> QED
          BY <3>7, <4>1, <5>4, <5>5
      <4>2. CASE m # "multipart"
        <5>1. ~Heeded(m, x)
          BY <3>5, <4>2 DEF Heeded, Heard
        <5>2. Joined(m, P.out, 0)
          BY <2>2, <4>2
        <5>3. Joined(m, Append(P.out, x), 0)
          BY <1>8, <3>6, <5>1, <5>2, JoinedOther
        <5> QED
          BY <3>7, <4>2, <5>3
      <4> QED
        BY <4>1, <4>2
    <3>11. (w + 1) - Len(Q.buf) = w + 1 /\ Q.buf = SubSeq(c, (w + 1) + 1, w + 1)
      <4>1. SubSeq(c, (w + 1) + 1, w + 1) = <<>>
        BY <1>2, <1>3
      <4> QED
        BY <1>3, <1>12, <3>7, <4>1
    <3> QED
      BY <1>1, <2>6, <3>9, <3>10, <3>11 DEF Kept
  <2> HIDE DEF u
  <2> QED
    BY <2>4, <2>5, <2>6
<1>16. Q.temp = <<>> /\ Q.isFile = p.file /\ Q.held = p.file /\ Named(f, i, Len(p.lines), Q.name, Q.filename)
  BY <1>5, <1>11 DEF Same
<1> HIDE DEF full
<1>17. Data(m, whole, f, i, w + 1, Q)
  BY <1>1, <1>2, <1>3, <1>7, <1>11, <1>14, <1>15, <1>16 DEF Data
<1> QED
  BY <1>6, <1>11, <1>17

\* The bytes given are the next ones of the content of part i.
NextBytes(f, i, w, bytes) ==
  /\ bytes \in Seq(Words(f)) /\ w + Len(bytes) <= Len(f[i].content)
  /\ \A k \in 1 .. Len(bytes) : bytes[k] = f[i].content[w + k]

\* The content goes on at byte w, with nothing guessed.
GoesOn(m, whole, f, i, w, P, Q) ==
  Data(m, whole, f, i, w, Q) /\ Q.state = "WAIT_FOR_RETURN1" /\ Q.parsed = P.parsed

\* P and Q differ at most in where they are in the form.
Alike(P, Q) ==
  /\ Q.temp = P.temp /\ Q.size = P.size /\ Q.value = P.value /\ Q.buf = P.buf /\ Q.out = P.out
  /\ Q.name = P.name /\ Q.filename = P.filename /\ Q.isFile = P.isFile /\ Q.held = P.held

\* A change of state changes nothing else.
LEMMA NewState ==
  ASSUME NEW A, NEW P, P \in Parsers(A), NEW s, s \in States, NEW Q, Q = [P EXCEPT !.state = s]
  PROVE  Q \in Parsers(A) /\ Q.state = s /\ Q.parsed = P.parsed /\ Q.bpos = P.bpos /\ Alike(P, Q)
  BY DEF Parsers, Alike

\* What has been kept of a content does not depend on state and position.
LEMMA DataAlike ==
  ASSUME NEW f, NEW i, NEW m, NEW whole, NEW w, NEW P, Data(m, whole, f, i, w, P),
         NEW Q, Q \in Parsers(Words(f)), Alike(P, Q)
  PROVE  Data(m, whole, f, i, w, Q)
  BY DEF Data, Kept, Alike

\* Given is what its recursion says.
LEMMA GivenSteps ==
  ASSUME NEW A, NEW P, P \in Parsers(A), NEW bytes, bytes \in Seq(A), NEW last, last \in BOOLEAN
  PROVE  \E g \in [0 .. Len(bytes) -> Parsers(A)] :
           /\ g[0] = [P EXCEPT !.state = "WAIT_FOR_RETURN1"]
           /\ \A i \in 1 .. Len(bytes) : g[i] = WriteByte(g[i - 1], bytes[i], last)
           /\ Given(P, bytes, last) = g[Len(bytes)]
<1> DEFINE start == [P EXCEPT !.state = "WAIT_FOR_RETURN1"]
           Body(g) == [i \in 0 .. Len(bytes) |->
                         IF i = 0 THEN start ELSE WriteByte(g[i - 1], bytes[i], last)]
           step == [i \in 1 .. Len(bytes) |->
                      [R \in Parsers(A) |-> WriteByte(R, bytes[i], last)]]
           given == CHOOSE g : g = Body(g)
<1>1. start \in Parsers(A)
  BY DEF Parsers, States
<1>2. Len(bytes) \in Nat /\ \A i \in 1 .. Len(bytes) : bytes[i] \in A
  OBVIOUS
<1>3. step \in [1 .. Len(bytes) -> [Parsers(A) -> Parsers(A)]]
  <2>1. ASSUME NEW i \in 1 .. Len(bytes), NEW R \in Parsers(A)
        PROVE  WriteByte(R, bytes[i], last) \in Parsers(A)
    BY <1>2, WriteByteWrites
  <2> HIDE DEF start
  <2> QED
    BY <2>1
<1>4. PICK S, b, n, st : S = Parsers(A) /\ b = start /\ n = Len(bytes) /\ st = step
  OBVIOUS
<1>5. b \in S /\ n \in Nat /\ st \in [1 .. n -> [S -> S]]
  BY <1>1, <1>2, <1>3, <1>4
<1> HIDE DEF step, start
<1>6. Computed(S, b, n, st)
  BY <1>5, Recursion, Zenon
<1>7. PICK g \in [0 .. n -> S] : g[0] = b /\ \A i \in 1 .. n : g[i] = st[i][g[i - 1]]
  BY <1>6 DEF Computed
<1>8. ASSUME NEW i \in 1 .. n PROVE g[i] = WriteByte(g[i - 1], bytes[i], last)
  <2>1. g[i - 1] \in S
    BY <1>5
  <2>2. g[i] = st[i][g[i - 1]]
    BY <1>7
  <2> QED
    BY <1>4, <2>1, <2>2 DEF step
<1>9. g = Body(g)
  <2>1. \A i \in 0 .. n : g[i] = IF i = 0 THEN start ELSE WriteByte(g[i - 1], bytes[i], last)
    <3>1. \A i \in 0 .. n : i = 0 \/ i \in 1 .. n
      BY <1>5
    <3> QED
      BY <1>4, <1>7, <1>8, <3>1
  <2>2. g = [i \in 0 .. n |-> g[i]]
    OBVIOUS
  <2> QED
    BY <1>4, <2>1, <2>2
<1>10. given = Body(given)
  <2> HIDE DEF Body
  <2> QED
    BY <1>9
<1>11. \A i \in 0 .. n : given[i] = g[i]
  <2> DEFINE T == {k \in 0 .. n : given[k] = g[k]}
  <2> HIDE DEF given
  <2>1. 0 \in T
    BY <1>4, <1>5, <1>7, <1>10
  <2>2. ASSUME NEW k \in 0 .. n - 1, k \in T PROVE k + 1 \in T
    <3>1. k + 1 \in 1 .. n /\ k + 1 \in 0 .. n /\ k + 1 # 0 /\ (k + 1) - 1 = k
      BY <1>5
    <3>2. given[k] = g[k]
      BY <2>2
    <3>3. given[k + 1] = WriteByte(given[k], bytes[k + 1], last)
      BY <1>4, <1>10, <3>1
    <3>4. g[k + 1] = WriteByte(g[k], bytes[k + 1], last)
      BY <1>8, <3>1
    <3> QED
      BY <3>1, <3>2, <3>3, <3>4
  <2>3. \A k \in 0 .. n : k \in T
    <3> HIDE DEF T
    <3> QED
      BY <1>5, <2>1, <2>2, InductionUpto
  <2> QED
    BY <2>3
<1>12. Given(P, bytes, last) = given[Len(bytes)]
  BY DEF Given, start
<1>13. Given(P, bytes, last) = g[n]
  <2> HIDE DEF given
  <2>1. n \in 0 .. n
    BY <1>5
  <2> QED
    BY <1>4, <1>11, <1>12, <2>1
<1> HIDE DEF given, Body
<1> QED
  BY <1>4, <1>7, <1>8, <1>13 DEF start

\* The guessed bytes that are given back are the next ones of the content.
LEMMA GivenMore ==
  ASSUME NEW f, WellFormed(f), NEW i, i \in 1 .. Len(f), NEW m, NEW whole, NEW w, NEW P,
         Data(m, whole, f, i, w, P), NEW bytes, NextBytes(f, i, w, bytes),
         NEW last, last \in BOOLEAN, whole => ~last
  PROVE  GoesOn(m, whole, f, i, w + Len(bytes), P, Given(P, bytes, last))
<1>1. P \in Parsers(Words(f)) /\ w \in 0 .. Len(f[i].content)
  BY DEF Data
<1>2. bytes \in Seq(Words(f))
  BY DEF NextBytes
<1>3. PICK g \in [0 .. Len(bytes) -> Parsers(Words(f))] :
        /\ g[0] = [P EXCEPT !.state = "WAIT_FOR_RETURN1"]
        /\ \A k \in 1 .. Len(bytes) : g[k] = WriteByte(g[k - 1], bytes[k], last)
        /\ Given(P, bytes, last) = g[Len(bytes)]
  BY <1>1, <1>2, GivenSteps
<1>4. PICK n \in Nat, c \in Nat : n = Len(bytes) /\ c = Len(f[i].content)
  <2>1. f[i].content \in Seq(Words(f))
    BY PartProperties
  <2> QED
    BY <1>2, <2>1
<1>5. w \in Nat /\ w + n <= c /\ \A k \in 1 .. n : bytes[k] = f[i].content[w + k]
  BY <1>1, <1>4 DEF NextBytes
<1> DEFINE T == {k \in 0 .. n : GoesOn(m, whole, f, i, w + k, P, g[k])}
<1>6. 0 \in T
  <2>1. PICK Q : Q = g[0]
    OBVIOUS
  <2>2. /\ Q \in Parsers(Words(f)) /\ Q.state = "WAIT_FOR_RETURN1" /\ Q.parsed = P.parsed
        /\ Alike(P, Q)
    <3>1. Q = [P EXCEPT !.state = "WAIT_FOR_RETURN1"]
      BY <1>3, <2>1
    <3> QED
      BY <1>1, <3>1 DEF Parsers, States, Alike
  <2>3. Data(m, whole, f, i, w, Q)
    BY <2>2, DataAlike
  <2> QED
    BY <1>4, <1>5, <2>1, <2>2, <2>3 DEF GoesOn
<1>7. ASSUME NEW k \in 0 .. n - 1, k \in T PROVE k + 1 \in T
  <2>1. k + 1 \in 1 .. n /\ k + 1 \in 0 .. n /\ (k + 1) - 1 = k
    BY <1>4
  <2>2. PICK R, Q, b, v : R = g[k] /\ Q = g[k + 1] /\ b = bytes[k + 1] /\ v = w + k
    OBVIOUS
  <2>3. Q = WriteByte(R, b, last)
    BY <1>3, <1>4, <2>1, <2>2
  <2>4. Data(m, whole, f, i, v, R) /\ R.state = "WAIT_FOR_RETURN1" /\ R.parsed = P.parsed
    BY <1>7, <2>2 DEF GoesOn
  <2>5. v < Len(f[i].content) /\ b = f[i].content[v + 1] /\ v + 1 = w + (k + 1)
    <3>1. w + (k + 1) = (w + k) + 1 /\ w + k < c
      BY <1>4, <1>5
    <3> QED
      BY <1>4, <1>5, <2>1, <2>2, <3>1
  <2>6. Data(m, whole, f, i, v + 1, Q) /\ Same(R, Q)
    BY <2>3, <2>4, <2>5, DataMore
  <2>7. GoesOn(m, whole, f, i, w + (k + 1), P, g[k + 1])
    BY <2>2, <2>4, <2>5, <2>6 DEF GoesOn, Same
  <2> QED
    BY <2>1, <2>7
<1>8. \A k \in 0 .. n : k \in T
  <2> HIDE DEF T
  <2> QED
    BY <1>6, <1>7, InductionUpto
<1>9. n \in 0 .. n
  BY <1>4
<1> QED
  BY <1>3, <1>4, <1>8, <1>9

-----------------------------------------------------------------------------
(* Guessing the delimiter in a content.                                    *)

\* The state in which g symbols of the delimiter have been recognised
GuessState(g) ==
  IF g = 0 THEN "WAIT_FOR_RETURN1"
  ELSE IF g = 1 THEN "EXPECT_FEED1"
  ELSE IF g = 2 THEN "EXPECT_DASH1"
  ELSE IF g = 3 THEN "EXPECT_DASH2"
  ELSE "BOUNDARY_OR_DATA"

Guess(A, P, g) ==
  P \in Parsers(A) /\ g \in 0 .. D - 1 /\ P.state = GuessState(g) /\ (g >= 4 => P.bpos = g - 4)

\* A guess is at most the next symbol longer.
Advanced(A, P, g, Q) ==
  /\ Q \in Parsers(A) /\ Alike(P, Q) /\ Q.parsed = P.parsed
  /\ Q.state = GuessState(g + 1) /\ (g + 1 >= 4 => Q.bpos = (g + 1) - 4)

\* The five states of a guess, and the symbol each expects.
LEMMA GuessCases ==
  ASSUME NEW A, {CR, LF, Dash} \cup ToSet(Boundary) \subseteq A, NEW g, g \in 0 .. D - 1
  PROVE  /\ g = 0 => GuessState(g) = "WAIT_FOR_RETURN1" /\ Delimiter[g + 1] = CR /\ g + 1 < D
         /\ g = 1 => GuessState(g) = "EXPECT_FEED1" /\ Delimiter[g + 1] = LF /\ g + 1 < D
         /\ g = 2 => GuessState(g) = "EXPECT_DASH1" /\ Delimiter[g + 1] = Dash /\ g + 1 < D
         /\ g = 3 => GuessState(g) = "EXPECT_DASH2" /\ Delimiter[g + 1] = Dash /\ g + 1 < D
         /\ g >= 4 => /\ GuessState(g) = "BOUNDARY_OR_DATA"
                      /\ g - 4 \in 0 .. Len(Boundary) - 1
                      /\ Delimiter[g + 1] = Boundary[(g - 4) + 1]
                      /\ (g + 1 = D <=> g - 4 = Len(Boundary) - 1)
         /\ g = 0 \/ g = 1 \/ g = 2 \/ g = 3 \/ g >= 4
<1>1. PICK n \in Nat, d \in Nat : n = Len(Boundary) /\ d = D /\ d = 4 + n /\ n # 0
  BY DelimiterProperties
<1>2. /\ Delimiter[1] = CR /\ Delimiter[2] = LF /\ Delimiter[3] = Dash /\ Delimiter[4] = Dash
      /\ \A k \in 1 .. n : Delimiter[4 + k] = Boundary[k]
  BY <1>1, DelimiterProperties
<1>3. g = 0 \/ g = 1 \/ g = 2 \/ g = 3 \/ g >= 4
  BY <1>1
<1>4. CASE g < 4
  <2>1. g + 1 < D
    BY <1>1, <1>4
  <2> QED
    BY <1>2, <1>3, <1>4, <2>1 DEF GuessState
<1>5. CASE g >= 4
  <2>1. (g - 4) + 1 \in 1 .. n /\ 4 + ((g - 4) + 1) = g + 1 /\ g - 4 \in 0 .. n - 1 /\ (g + 1 = d <=> g - 4 = n - 1)
    BY <1>1, <1>5
  <2>2. Delimiter[g + 1] = Boundary[(g - 4) + 1]
    BY <1>2, <2>1
  <2>3. GuessState(g) = "BOUNDARY_OR_DATA" /\ g # 0 /\ g # 1 /\ g # 2 /\ g # 3
    BY <1>5 DEF GuessState
  <2> QED
    BY <1>1, <1>5, <2>1, <2>2, <2>3
<1> QED
  BY <1>3, <1>4, <1>5

\* The expected symbol makes the guess longer.
LEMMA GuessRight ==
  ASSUME NEW A, {CR, LF, Dash} \cup ToSet(Boundary) \subseteq A, NEW P, NEW g, Guess(A, P, g), g + 1 < D,
         NEW b, b = Delimiter[g + 1], NEW last, NEW length, NEW allocated
  PROVE  Advanced(A, P, g, Parse(P, b, last, length, allocated))
<1>1. P \in Parsers(A) /\ g \in 0 .. D - 1 /\ P.state = GuessState(g) /\ (g >= 4 => P.bpos = g - 4) /\ D \in Nat
  BY DelimiterProperties DEF Guess
<1>2. g + 1 \in 0 .. D - 1
  BY <1>1
<1>3. PICK Q : Q = Parse(P, b, last, length, allocated)
  OBVIOUS
<1>4. CASE g = 0
  <2>1. P.state = "WAIT_FOR_RETURN1" /\ b = CR
    BY <1>1, <1>4, GuessCases
  <2>2. Q = [P EXCEPT !.state = "EXPECT_FEED1"]
    BY <1>3, <2>1 DEF Parse, WaitForReturn
  <2>3. Q \in Parsers(A) /\ Alike(P, Q) /\ Q.parsed = P.parsed /\ Q.state = "EXPECT_FEED1"
    BY <1>1, <2>2 DEF Parsers, States, Alike
  <2> QED
    BY <1>3, <1>4, <2>3 DEF Advanced, GuessState
<1>5. CASE g = 1
  <2>1. P.state = "EXPECT_FEED1" /\ b = LF
    BY <1>1, <1>5, GuessCases
  <2>2. Q = [P EXCEPT !.state = "EXPECT_DASH1"]
    BY <1>3, <2>1 DEF Parse, ExpectFeed1
  <2>3. Q \in Parsers(A) /\ Alike(P, Q) /\ Q.parsed = P.parsed /\ Q.state = "EXPECT_DASH1"
    BY <1>1, <2>2 DEF Parsers, States, Alike
  <2> QED
    BY <1>3, <1>5, <2>3 DEF Advanced, GuessState
<1>6. CASE g = 2
  <2>1. P.state = "EXPECT_DASH1" /\ b = Dash
    BY <1>1, <1>6, GuessCases
  <2>2. Q = [P EXCEPT !.state = "EXPECT_DASH2"]
    BY <1>3, <2>1 DEF Parse, ExpectDash1
  <2>3. Q \in Parsers(A) /\ Alike(P, Q) /\ Q.parsed = P.parsed /\ Q.state = "EXPECT_DASH2"
    BY <1>1, <2>2 DEF Parsers, States, Alike
  <2> QED
    BY <1>3, <1>6, <2>3 DEF Advanced, GuessState
<1>7. CASE g = 3
  <2>1. P.state = "EXPECT_DASH2" /\ b = Dash
    BY <1>1, <1>7, GuessCases
  <2>2. Q = [P EXCEPT !.state = "BOUNDARY_OR_DATA", !.bpos = 0]
    BY <1>3, <2>1 DEF Parse, ExpectDash2
  <2>3. Q \in Parsers(A) /\ Alike(P, Q) /\ Q.parsed = P.parsed /\ Q.state = "BOUNDARY_OR_DATA" /\ Q.bpos = 0
    BY <1>1, <2>2 DEF Parsers, States, Alike
  <2> QED
    BY <1>3, <1>7, <2>3 DEF Advanced, GuessState
<1>8. CASE g >= 4
  <2>1. /\ P.state = "BOUNDARY_OR_DATA" /\ P.bpos = g - 4 /\ g - 4 \in Nat
        /\ b = Boundary[P.bpos + 1] /\ P.bpos # Len(Boundary) - 1
    <3>1. /\ GuessState(g) = "BOUNDARY_OR_DATA" /\ Delimiter[g + 1] = Boundary[(g - 4) + 1]
          /\ (g + 1 = D <=> g - 4 = Len(Boundary) - 1)
      BY <1>1, <1>8, GuessCases
    <3>2. g + 1 # D /\ g - 4 \in Nat
      BY <1>1, <1>8
    <3> QED
      BY <1>1, <1>8, <3>1, <3>2
  <2>2. PICK n : n = P.bpos + 1
    OBVIOUS
  <2>3. Q = [P EXCEPT !.bpos = n]
    BY <1>3, <2>1, <2>2 DEF Parse, BoundaryOrData
  <2>4. n = (g + 1) - 4 /\ n \in Nat
    BY <1>1, <1>8, <2>1, <2>2
  <2>5. Q \in Parsers(A) /\ Alike(P, Q) /\ Q.parsed = P.parsed /\ Q.state = "BOUNDARY_OR_DATA" /\ Q.bpos = n
    BY <1>1, <2>1, <2>3, <2>4 DEF Parsers, Alike
  <2>6. GuessState(g + 1) = "BOUNDARY_OR_DATA"
    BY <1>1, <1>8 DEF GuessState
  <2> QED
    BY <1>3, <2>4, <2>5, <2>6 DEF Advanced
<1> QED
  BY <1>1, <1>4, <1>5, <1>6, <1>7, <1>8, GuessCases

\* The last symbol of the delimiter ends the item.
LEMMA GuessDone ==
  ASSUME NEW A, {CR, LF, Dash} \cup ToSet(Boundary) \subseteq A, NEW P, NEW g, Guess(A, P, g), g + 1 = D,
         NEW b, b = Delimiter[g + 1], NEW last, NEW length, NEW allocated
  PROVE  Parse(P, b, last, length, allocated) = FinishItem(P)
<1>1. g \in 0 .. D - 1 /\ P.state = GuessState(g) /\ (g >= 4 => P.bpos = g - 4) /\ D \in Nat
  BY DelimiterProperties DEF Guess
<1>2. g >= 4
  <2>1. PICK n \in Nat : D = 4 + n /\ n # 0
    BY DelimiterProperties
  <2> QED
    BY <1>1, <2>1
<1>3. P.state = "BOUNDARY_OR_DATA" /\ b = Boundary[P.bpos + 1] /\ P.bpos = Len(Boundary) - 1
  BY <1>1, <1>2, GuessCases
<1> QED
  BY <1>3 DEF Parse, BoundaryOrData

\* The literals the parser gives back are beginnings of the delimiter.
LEMMA DelimiterBegins ==
  /\ SubSeq(Delimiter, 1, 1) = <<CR>> /\ SubSeq(Delimiter, 1, 2) = <<CR, LF>>
  /\ SubSeq(Delimiter, 1, 3) = <<CR, LF, Dash>>
<1>1. PICK A : A = {CR, LF, Dash} \cup ToSet(Boundary)
  OBVIOUS
<1>2. /\ Delimiter \in Seq(A) /\ Len(Delimiter) = D /\ D \in Nat /\ D >= 4
      /\ Delimiter[1] = CR /\ Delimiter[2] = LF /\ Delimiter[3] = Dash
  BY <1>1, DelimiterProperties
<1>3. 0 \in 0 .. D - 1 /\ 1 \in 0 .. D - 1 /\ 2 \in 0 .. D - 1 /\ 0 + 1 = 1 /\ 1 + 1 = 2 /\ 2 + 1 = 3
  BY <1>2
<1>4. SubSeq(Delimiter, 1, 0) = <<>>
  BY <1>2, BeginningEnds
<1>5. SubSeq(Delimiter, 1, 1) = Append(<<>>, CR)
  BY <1>2, <1>3, <1>4, BeginningMore
<1>6. SubSeq(Delimiter, 1, 2) = Append(SubSeq(Delimiter, 1, 1), LF)
  BY <1>2, <1>3, BeginningMore
<1>7. SubSeq(Delimiter, 1, 3) = Append(SubSeq(Delimiter, 1, 2), Dash)
  BY <1>2, <1>3, BeginningMore
<1>8. SubSeq(Delimiter, 1, 1) = <<CR>>
  BY <1>5, AppendToNone
<1>9. SubSeq(Delimiter, 1, 2) = <<CR, LF>>
  BY <1>6, <1>8, AppendToOne
<1> QED
  BY <1>7, <1>8, <1>9, AppendToTwo

\* Any other symbol gives the whole guess back, in each of the five states.
LEMMA GuessWrong ==
  ASSUME NEW A, {CR, LF, Dash} \cup ToSet(Boundary) \subseteq A, NEW P, NEW g, Guess(A, P, g),
         NEW b, b # Delimiter[g + 1], NEW last, NEW length, NEW allocated
  PROVE  Parse(P, b, last, length, allocated)
           = IF g = 0 THEN WaitForReturn(P, b, last) ELSE GiveBack(P, SubSeq(Delimiter, 1, g), b, last)
<1>1. g \in 0 .. D - 1 /\ P.state = GuessState(g) /\ (g >= 4 => P.bpos = g - 4)
  BY DEF Guess
<1>2. /\ SubSeq(Delimiter, 1, 1) = <<CR>> /\ SubSeq(Delimiter, 1, 2) = <<CR, LF>>
      /\ SubSeq(Delimiter, 1, 3) = <<CR, LF, Dash>>
  BY DelimiterBegins
<1>4. CASE g = 0
  <2>1. P.state = "WAIT_FOR_RETURN1"
    BY <1>1, <1>4, GuessCases
  <2> QED
    BY <1>4, <2>1 DEF Parse
<1>5. CASE g = 1
  <2>1. P.state = "EXPECT_FEED1" /\ b # LF
    BY <1>1, <1>5, GuessCases
  <2>2. Parse(P, b, last, length, allocated) = ExpectFeed1(P, b, last)
    BY <2>1 DEF Parse
  <2>3. ExpectFeed1(P, b, last) = GiveBack(P, <<CR>>, b, last)
    BY <2>1 DEF ExpectFeed1
  <2>4. SubSeq(Delimiter, 1, g) = <<CR>> /\ g # 0
    BY <1>2, <1>5
  <2> QED
    BY <2>2, <2>3, <2>4
<1>6. CASE g = 2
  <2>1. P.state = "EXPECT_DASH1" /\ b # Dash
    BY <1>1, <1>6, GuessCases
  <2>2. Parse(P, b, last, length, allocated) = ExpectDash1(P, b, last)
    BY <2>1 DEF Parse
  <2>3. ExpectDash1(P, b, last) = GiveBack(P, <<CR, LF>>, b, last)
    BY <2>1 DEF ExpectDash1
  <2>4. SubSeq(Delimiter, 1, g) = <<CR, LF>> /\ g # 0
    BY <1>2, <1>6
  <2> QED
    BY <2>2, <2>3, <2>4
<1>7. CASE g = 3
  <2>1. P.state = "EXPECT_DASH2" /\ b # Dash
    BY <1>1, <1>7, GuessCases
  <2>2. Parse(P, b, last, length, allocated) = ExpectDash2(P, b, last)
    BY <2>1 DEF Parse
  <2>3. ExpectDash2(P, b, last) = GiveBack(P, <<CR, LF, Dash>>, b, last)
    BY <2>1 DEF ExpectDash2
  <2>4. SubSeq(Delimiter, 1, g) = <<CR, LF, Dash>> /\ g # 0
    BY <1>2, <1>7
  <2> QED
    BY <2>2, <2>3, <2>4
<1>8. CASE g >= 4
  <2>1. P.state = "BOUNDARY_OR_DATA" /\ b # Boundary[P.bpos + 1] /\ P.bpos = g - 4
    BY <1>1, <1>8, GuessCases
  <2>2. 4 + P.bpos = g /\ g # 0
    BY <1>1, <1>8, <2>1
  <2>3. Parse(P, b, last, length, allocated) = BoundaryOrData(P, b, last)
    BY <2>1 DEF Parse
  <2>4. BoundaryOrData(P, b, last) = GiveBack(P, SubSeq(Delimiter, 1, 4 + P.bpos), b, last)
    BY <2>1 DEF BoundaryOrData
  <2> QED
    BY <2>2, <2>3, <2>4
<1> QED
  BY <1>1, <1>4, <1>5, <1>6, <1>7, <1>8, GuessCases

-----------------------------------------------------------------------------
(* A content, and the delimiter that may seem to begin in it.              *)

\* g symbols of the delimiter follow the first w bytes of the content of part i.
Guessed(f, i, w, g) ==
  /\ w \in 0 .. Len(f[i].content) /\ g \in 0 .. D
  /\ \A k \in 1 .. g : Encode(f)[ContentAt(f, i) + w + k] = Delimiter[k]

\* The same facts, in numbers.
ContentNumbers(f, i, o, c, d, e) ==
  /\ o = ContentAt(f, i) /\ c = Len(f[i].content) /\ d = D /\ e = Len(Encode(f))
  /\ o \in Nat /\ c \in Nat /\ d \in Nat /\ d >= 5 /\ e \in Nat /\ o + c + d + 4 <= e
  /\ \A k \in 1 .. c : Encode(f)[o + k] = f[i].content[k]
  /\ \A k \in 1 .. d : Encode(f)[o + c + k] = Delimiter[k]
  /\ Delimiter[1] = CR /\ \A k \in 2 .. d : Delimiter[k] # CR

\* Where the content of a part and the delimiter behind it are in the body.
LEMMA ContentIsAt ==
  ASSUME NEW f, WellFormed(f), NEW i, i \in 1 .. Len(f)
  PROVE  \E o, c, d, e : ContentNumbers(f, i, o, c, d, e)
<1>1. Layout(f)
  BY EncodeLayout
<1>2. PICK A : A = {CR, LF, Dash} \cup ToSet(Boundary)
  OBVIOUS
<1>3. /\ D = 4 + Len(Boundary) /\ Len(Boundary) \in Nat \ {0} /\ D \in Nat
      /\ Delimiter[1] = CR /\ \A k \in 2 .. D : Delimiter[k] # CR
  BY <1>2, DelimiterProperties
<1>4. PICK o, c, d, e, q, n, s :
        /\ o = ContentAt(f, i) /\ c = Len(f[i].content) /\ d = D /\ e = Len(Encode(f))
        /\ q = Start(f, i + 1) /\ n = Len(f) /\ s = Start(f, i)
  OBVIOUS
<1>5. c \in Nat /\ n \in Nat \ {0} /\ e \in Nat /\ Len(f[i].lines) \in Nat
  <2>1. f[i].content \in Seq(Words(f)) /\ f[i].lines \in Seq(Words(f)) /\ Len(f) \in Nat \ {0}
    BY PartProperties
  <2>2. Encode(f) \in Seq(Words(f))
    BY <1>1 DEF Layout, Ordered
  <2> QED
    BY <1>4, <2>1, <2>2
<1>6. d \in Nat /\ d >= 5
  BY <1>3, <1>4
<1>7. i \in 1 .. n /\ i + 1 \in 1 .. n + 1
  BY <1>4, <1>5
<1>8. q = o + c /\ q + d + 4 <= e /\ o \in Nat
  <2>1. q = o + c /\ e = Start(f, n + 1) + d + 4 /\ Start(f, n + 1) \in Int /\ q \in Int
        /\ q <= Start(f, n + 1) /\ s \in Int
    <3>1. Ordered(f)
      BY <1>1 DEF Layout
    <3>2. i \in 1 .. n + 1 /\ n + 1 \in 1 .. n + 1
      BY <1>5, <1>7
    <3> QED
      BY <1>4, <1>5, <1>7, <3>1, <3>2 DEF Ordered
  <2>2. s >= -2
    <3>1. Layout(f)
      BY EncodeLayout
    <3>2. Start(f, 1) = -2
      BY <1>1 DEF Layout, Ordered
    <3>3. s = Len(Flat(Chunks(f), i - 1)) - (IF i = 1 THEN 2 ELSE 0)
      BY <1>4 DEF Start
    <3>4. Flat(Chunks(f), i - 1) \in Seq(Words(f))
      <4>1. Chunks(f) \in [1 .. n -> Seq(Words(f))]
        <5>1. \A k \in 1 .. n : Chunk(f, k) \in Seq(Words(f))
          BY <1>4, ChunkProperties
        <5> QED
          BY <1>4, <5>1 DEF Chunks
      <4>2. i - 1 \in 0 .. n
        BY <1>5, <1>7
      <4> QED
        BY <1>5, <4>1, <4>2, FlatProperties
    <3>5. PICK l \in Nat : l = Len(Flat(Chunks(f), i - 1))
      BY <3>4
    <3> QED
      BY <3>3, <3>5
  <2>3. PICK l \in Nat : l = Len(f[i].lines)
    BY <1>5
  <2>4. o = s + d + 2 + 3 * l + 2
    BY <1>4, <2>3 DEF ContentAt, HeadersAt
  <2>5. o \in Nat
    BY <1>6, <2>1, <2>2, <2>4
  <2>6. q + d + 4 <= e
    <3>1. PICK z \in Int : z = Start(f, n + 1)
      BY <2>1
    <3>2. e = z + d + 4 /\ q <= z /\ q \in Int
      BY <2>1, <3>1
    <3> QED
      BY <1>6, <3>2
  <2> QED
    BY <2>1, <2>5, <2>6
<1>9. \A k \in 1 .. c : Encode(f)[o + k] = f[i].content[k]
  <2>1. PartIn(f, i)
    BY <1>1 DEF Layout
  <2> QED
    BY <1>4, <2>1 DEF PartIn
<1>10. \A k \in 1 .. d : Encode(f)[q + k] = Delimiter[k]
  <2>1. DelimiterIn(f, i + 1)
    <3>1. i + 1 \in 1 .. n \/ i + 1 = n + 1
      BY <1>5, <1>7
    <3> QED
      BY <1>1, <1>4, <3>1 DEF Layout, PartIn
  <2>2. ASSUME NEW k \in 1 .. d PROVE Encode(f)[q + k] = Delimiter[k]
    <3>1. q + k >= 1
      BY <1>5, <1>6, <1>8
    <3> QED
      BY <1>4, <2>1, <2>2, <3>1 DEF DelimiterIn
  <2> QED
    BY <2>2
<1>11. ContentNumbers(f, i, o, c, d, e)
  BY <1>3, <1>4, <1>5, <1>6, <1>8, <1>9, <1>10 DEF ContentNumbers
<1> QED
  BY <1>11

\* What the next byte b says of a guess: it goes on; or the guess was wrong, and then the
\* guessed symbols are content, and so is b, unless it is the CR of the next delimiter.
WrongGuess(f, i, w, g, b) ==
  /\ NextBytes(f, i, w, SubSeq(Delimiter, 1, g))
  /\ w + g \in 0 .. Len(f[i].content)
  /\ w + g < Len(f[i].content) => b = f[i].content[w + g + 1] /\ (b = CR => Guessed(f, i, w + g, 1))
  /\ w + g = Len(f[i].content) => b = CR /\ Guessed(f, i, w + g, 1)
  /\ ContentAt(f, i) + w + g + 1 < Len(Encode(f))

\* A guess that turns out wrong was content throughout, since no content has the delimiter in it.
LEMMA WrongIsContent ==
  ASSUME NEW f, WellFormed(f), NEW i, i \in 1 .. Len(f), NEW w, NEW g, Guessed(f, i, w, g), g < D,
         NEW b, b = Encode(f)[ContentAt(f, i) + w + g + 1], b # Delimiter[g + 1]
  PROVE  WrongGuess(f, i, w, g, b)
<1>1. PICK o, c, d, e : ContentNumbers(f, i, o, c, d, e)
  BY ContentIsAt
<1>2. o \in Nat /\ c \in Nat /\ d \in Nat /\ d >= 5 /\ e \in Nat /\ o + c + d + 4 <= e
  BY <1>1 DEF ContentNumbers
<1>3. /\ o = ContentAt(f, i) /\ c = Len(f[i].content) /\ d = D /\ e = Len(Encode(f))
      /\ \A k \in 1 .. c : Encode(f)[o + k] = f[i].content[k]
      /\ \A k \in 1 .. d : Encode(f)[o + c + k] = Delimiter[k]
      /\ Delimiter[1] = CR /\ \A k \in 2 .. d : Delimiter[k] # CR
  BY <1>1 DEF ContentNumbers
<1>4. w \in Nat /\ g \in Nat /\ w <= c /\ g < d
  <2>1. w \in 0 .. c /\ g \in 0 .. d /\ g < d
    BY <1>3 DEF Guessed
  <2> QED
    BY <1>2, <2>1
<1>5. \A k \in 1 .. g : Encode(f)[o + w + k] = Delimiter[k]
  BY <1>3 DEF Guessed
<1>6. w < c
  <2>1. g + 1 \in 1 .. d /\ o + c + (g + 1) = o + c + g + 1
    BY <1>2, <1>4
  <2>2. Encode(f)[o + c + g + 1] = Delimiter[g + 1]
    BY <1>3, <2>1
  <2>3. w # c
    BY <1>3, <2>2
  <2> QED
    BY <1>2, <1>4, <2>3
<1>7. w + g <= c
  <2>1. SUFFICES ASSUME w + g > c PROVE FALSE
    BY <1>2, <1>4
  <2>2. PICK k \in Int : k = c - w + 1
    BY <1>2, <1>4
  <2>3. k \in 2 .. d /\ k \in 1 .. g /\ o + w + k = o + c + 1 /\ 1 \in 1 .. d
    BY <1>2, <1>4, <1>6, <2>1, <2>2
  <2>4. Delimiter[k] = Encode(f)[o + w + k]
    BY <1>5, <2>3
  <2>5. Encode(f)[o + c + 1] = CR
    BY <1>3, <2>3
  <2> QED
    BY <1>3, <2>3, <2>4, <2>5
<1>8. ASSUME NEW k \in 1 .. g PROVE Delimiter[k] = f[i].content[w + k]
  <2>1. w + k \in 1 .. c /\ o + (w + k) = o + w + k
    BY <1>2, <1>4, <1>7
  <2>2. Encode(f)[o + (w + k)] = f[i].content[w + k]
    BY <1>3, <2>1
  <2> QED
    BY <1>5, <2>1, <2>2
<1>9. NextBytes(f, i, w, SubSeq(Delimiter, 1, g))
  <2>1. Delimiter \in Seq(Words(f)) /\ Len(Delimiter) = d
    <3>1. {CR, LF, Dash} \cup ToSet(Boundary) \subseteq Words(f)
      BY WordsProperties
    <3> QED
      BY <1>3, <3>1, DelimiterProperties DEF D
  <2>2. PICK s, t : s = SubSeq(Delimiter, 1, g) /\ t = Delimiter
    OBVIOUS
  <2>3. s \in Seq(Words(f)) /\ Len(s) = g /\ \A k \in 1 .. g : s[k] = t[k]
    <3>1. t \in Seq(Words(f)) /\ g \in Nat /\ g <= Len(t) /\ s = SubSeq(t, 1, g)
      BY <1>2, <1>4, <2>1, <2>2
    <3> QED
      BY <3>1
  <2> QED
    BY <1>3, <1>7, <1>8, <2>2, <2>3 DEF NextBytes
<1>10. w + g \in 0 .. c /\ o + w + g + 1 < e
  BY <1>2, <1>4, <1>7
<1>11. ASSUME b = CR PROVE Guessed(f, i, w + g, 1)
  <2>1. o + (w + g) + 1 = o + w + g + 1 /\ 1 \in 0 .. d
    BY <1>2, <1>4
  <2>2. Encode(f)[o + (w + g) + 1] = Delimiter[1]
    BY <1>3, <1>11, <2>1
  <2>3. \A k \in 1 .. 1 : k = 1
    OBVIOUS
  <2> QED
    BY <1>3, <1>10, <2>1, <2>2, <2>3 DEF Guessed
<1>12. ASSUME w + g < c PROVE b = f[i].content[w + g + 1]
  <2>1. w + g + 1 \in 1 .. c /\ o + (w + g + 1) = o + w + g + 1
    BY <1>2, <1>4, <1>12
  <2> QED
    BY <1>3, <2>1
<1>13. ASSUME w + g = c PROVE b = CR
  <2>1. o + w + g + 1 = o + c + 1 /\ 1 \in 1 .. d
    BY <1>2, <1>4, <1>13
  <2>2. Encode(f)[o + c + 1] = CR
    BY <1>3, <2>1
  <2> QED
    BY <1>3, <2>1, <2>2
<1> QED
  BY <1>3, <1>9, <1>10, <1>11, <1>12, <1>13 DEF WrongGuess

\* All of the delimiter is there only behind all of the content.
LEMMA RightIsDelimiter ==
  ASSUME NEW f, WellFormed(f), NEW i, i \in 1 .. Len(f), NEW w, Guessed(f, i, w, D)
  PROVE  w = Len(f[i].content)
<1>1. PICK o, c, d, e : ContentNumbers(f, i, o, c, d, e)
  BY ContentIsAt
<1>2. o \in Nat /\ c \in Nat /\ d \in Nat /\ d >= 5
  BY <1>1 DEF ContentNumbers
<1>3. /\ o = ContentAt(f, i) /\ c = Len(f[i].content) /\ d = D
      /\ \A k \in 1 .. c : Encode(f)[o + k] = f[i].content[k]
      /\ \A k \in 1 .. d : Encode(f)[o + c + k] = Delimiter[k]
      /\ Delimiter[1] = CR /\ \A k \in 2 .. d : Delimiter[k] # CR
  BY <1>1 DEF ContentNumbers
<1>4. w \in Nat /\ w <= c
  <2>1. w \in 0 .. c
    BY <1>3 DEF Guessed
  <2> QED
    BY <1>2, <2>1
<1>5. \A k \in 1 .. d : Encode(f)[o + w + k] = Delimiter[k]
  BY <1>3 DEF Guessed
<1>6. ASSUME w < c, w + d <= c PROVE FALSE
  <2>1. ASSUME NEW k \in 1 .. d PROVE f[i].content[w + k] = Delimiter[k]
    <3>1. w + k \in 1 .. c /\ o + (w + k) = o + w + k
      BY <1>2, <1>4, <1>6
    <3>2. Encode(f)[o + (w + k)] = f[i].content[w + k]
      BY <1>3, <3>1
    <3> QED
      BY <1>5, <3>1, <3>2
  <2>2. w \in 0 .. c - d
    BY <1>2, <1>4, <1>6
  <2>3. Occurs(Delimiter, f[i].content)
    BY <1>3, <2>1, <2>2 DEF Occurs, D
  <2> QED
    BY <2>3 DEF WellFormed
<1>7. ASSUME w < c, w + d > c PROVE FALSE
  <2>1. PICK k \in Int : k = c - w + 1
    BY <1>2, <1>4
  <2>2. k \in 2 .. d /\ k \in 1 .. d /\ o + w + k = o + c + 1 /\ 1 \in 1 .. d
    BY <1>2, <1>4, <1>7, <2>1
  <2>3. Delimiter[k] = Encode(f)[o + w + k] /\ Encode(f)[o + c + 1] = CR
    BY <1>3, <1>5, <2>2
  <2> QED
    BY <1>3, <2>2, <2>3
<1>8. w = c
  BY <1>2, <1>4, <1>6, <1>7
<1> QED
  BY <1>3, <1>8

-----------------------------------------------------------------------------
(* Where the parser is in a well-formed body, and what it has then handed  *)
(* on: one predicate for each zone of the body, and for each the zones the *)
(* next byte leads to.                                                     *)

\* The parts up to the k-th have been handed on, and nothing of a file is left.
Settled(m, whole, f, k, P) ==
  /\ P \in Parsers(Words(f)) /\ P.buf = <<>> /\ ~P.held
  /\ whole => AllTold(m, P.out) = SaidUpto(m, f, k) /\ Joined(m, P.out, 0)

\* Before the end of the first line
FirstLine(m, whole, f, P) ==
  /\ Settled(m, whole, f, 0, P) /\ Named(f, 1, 0, P.name, P.filename) /\ P.temp = <<>>
  /\ P.state = "EXPECT_BOUNDARY" /\ P.parsed \in 0 .. D - 1

\* r symbols behind header line j of part i
InHeaders(m, whole, f, i, j, r, P) ==
  LET lines == f[i].lines IN
  /\ Settled(m, whole, f, i - 1, P) /\ Named(f, i, j, P.name, P.filename)
  /\ j \in 0 .. Len(lines) /\ r \in 0 .. 2 /\ (j = Len(lines) => r < 2)
  /\ P.temp = IF r = 0 \/ j = Len(lines) THEN <<>> ELSE <<lines[j + 1]>>
  /\ P.isFile = \E k \in 1 .. j : MakesFile(lines[k])
  /\ P.state = "PARSE_HEADERS" /\ P.parsed = HeadersAt(f, i) + 3 * j + r

\* In the content of part i, or in the delimiter behind it
InContent(m, whole, f, i, w, g, P) ==
  /\ Data(m, whole, f, i, w, P) /\ Guess(Words(f), P, g) /\ Guessed(f, i, w, g)
  /\ P.parsed = ContentAt(f, i) + w + g

\* Behind the delimiter that ends part i, and one symbol further
Behind(m, whole, f, i, P) ==
  /\ Settled(m, whole, f, i, P) /\ Named(f, i, Len(f[i].lines), P.name, P.filename) /\ P.temp = <<>>
  /\ P.state = "DASH3_OR_RETURN2" /\ P.parsed = Start(f, i + 1) + D

AtFeed(m, whole, f, i, P) ==
  /\ Settled(m, whole, f, i, P) /\ Named(f, i, Len(f[i].lines), P.name, P.filename) /\ P.temp = <<>>
  /\ i < Len(f) /\ P.state = "EXPECT_FEED2" /\ P.parsed = Start(f, i + 1) + D + 1

\* In the epilogue
Finished(m, whole, f, P) == Settled(m, whole, f, Len(f), P) /\ P.state = "PARSING_FINISHED"

\* There was no memory for the buffer of a file.
GaveUp(m, whole, f, P) ==
  /\ P \in Parsers(Words(f)) /\ P.buf = <<>> /\ ~P.held
  /\ whole => IsPrefix(AllTold(m, P.out), AllSaid(m, f)) /\ Joined(m, P.out, 0)
  /\ P.state = "PARSE_ERROR" /\ P.isFile /\ P.size = 0

Zone(m, whole, f, P) ==
  \/ FirstLine(m, whole, f, P)
  \/ \E i \in 1 .. Len(f) : \E j, r : InHeaders(m, whole, f, i, j, r, P)
  \/ \E i \in 1 .. Len(f) : \E w, g : InContent(m, whole, f, i, w, g, P)
  \/ \E i \in 1 .. Len(f) : Behind(m, whole, f, i, P) \/ AtFeed(m, whole, f, i, P)
  \/ Finished(m, whole, f, P) \/ GaveUp(m, whole, f, P)

\* b is the next byte of the body of f.
Feeds(whole, f, P, b, last, length) ==
  /\ P.parsed < Len(Encode(f)) /\ b = Encode(f)[P.parsed + 1] /\ length = Len(Encode(f))
  /\ last \in BOOLEAN /\ (whole => (last <=> P.parsed + 1 = Len(Encode(f))))

\* ParseByte counts the byte, and does nothing else to what Parse has done.
LEMMA Counted ==
  ASSUME NEW A, NEW R, R \in Parsers(A), NEW Q, Q = [R EXCEPT !.parsed = @ + 1]
  PROVE  /\ Q \in Parsers(A) /\ Q.parsed = R.parsed + 1
         /\ Q.state = R.state /\ Q.bpos = R.bpos /\ Alike(R, Q)
<1>1. PICK n : n = R.parsed + 1
  OBVIOUS
<1>2. Q = [R EXCEPT !.parsed = n] /\ n \in Nat
  BY <1>1 DEF Parsers
<1> QED
  BY <1>1, <1>2 DEF Parsers, Alike

-----------------------------------------------------------------------------
(* The end of an item.                                                     *)

\* The parameter an item becomes
ParamOf(P, data) ==
  [what |-> "param", name |-> P.name, data |-> data, index |-> P.size, last |-> TRUE]

Finishing(P, R) ==
  /\ R.state = "DASH3_OR_RETURN2" /\ R.parsed = P.parsed /\ R.temp = P.temp
  /\ R.name = P.name /\ R.filename = P.filename
  /\ ~P.isFile => R.out = Append(P.out, ParamOf(P, P.value)) /\ R.buf = P.buf /\ R.held = P.held
  /\ P.isFile => ~R.held
  /\ P.isFile /\ P.size = 0 => R.out = P.out /\ R.buf = P.buf
  /\ P.isFile /\ P.size > 0 =>
       /\ R.out = Append(Append(P.out, Piece(P, P.buf, TRUE)), ParamOf(P, <<P.filename>>))
       /\ R.buf = <<>>

\* What an item becomes has its types.
LEMMA ItemTypes ==
  ASSUME NEW A, NEW P, P \in Parsers(A)
  PROVE  /\ Piece(P, P.buf, TRUE) \in Items(A)
         /\ \A data \in Seq(A) : ParamOf(P, data) \in Items(A)
         /\ P.value \in Seq(A) /\ <<P.filename>> \in Seq(A)
<1>1. /\ P.size \in Nat /\ P.value \in Seq(A) /\ P.buf \in Seq(A) /\ Len(P.buf) \in Nat
      /\ P.filename \in A /\ P.name \in A
  BY DEF Parsers
<1>2. PICK n \in Int : n = P.size - Len(P.buf)
  BY <1>1
<1>3. [what |-> "upload", name |-> P.filename, data |-> P.buf, index |-> n, last |-> TRUE] \in Items(A)
  BY <1>1, <1>2 DEF Items
<1>4. P.size \in Int
  BY <1>1
<1>5. \A data \in Seq(A) : ParamOf(P, data) \in Items(A)
  BY <1>1, <1>4 DEF Items, ParamOf
<1>6. Piece(P, P.buf, TRUE) \in Items(A)
  BY <1>2, <1>3 DEF Piece
<1>7. <<P.filename>> \in Seq(A)
  BY <1>1
<1> QED
  BY <1>1, <1>5, <1>6, <1>7

\* FinishItem, for a field, an empty file and a file.
LEMMA FinishItemFinishes ==
  ASSUME NEW A, NEW P, P \in Parsers(A)
  PROVE  FinishItem(P) \in Parsers(A) /\ Finishing(P, FinishItem(P))
<1>1. PICK Q : Q = [P EXCEPT !.state = "DASH3_OR_RETURN2"]
  OBVIOUS
<1>2. Q \in Parsers(A) /\ Q.state = "DASH3_OR_RETURN2" /\ Q.parsed = P.parsed /\ Alike(P, Q)
  BY <1>1 DEF Parsers, States, Alike
<1>3. P.out \in Seq(Items(A)) /\ P.size \in Nat /\ P.isFile \in BOOLEAN /\ P.buf \in Seq(A)
  BY DEF Parsers
<1>4. PICK x, y, z : x = Piece(P, P.buf, TRUE) /\ y = ParamOf(P, P.value) /\ z = ParamOf(P, <<P.filename>>)
  OBVIOUS
<1>5. x \in Items(A) /\ y \in Items(A) /\ z \in Items(A)
  BY <1>4, ItemTypes
<1>6. PICK o1, o2, o3 : o1 = Append(P.out, y) /\ o2 = Append(P.out, x) /\ o3 = Append(o2, z)
  OBVIOUS
<1>7. o1 \in Seq(Items(A)) /\ o2 \in Seq(Items(A)) /\ o3 \in Seq(Items(A)) /\ <<>> \in Seq(A)
  <2>1. o1 \in Seq(Items(A)) /\ o2 \in Seq(Items(A))
    BY <1>3, <1>5, <1>6
  <2>2. o3 \in Seq(Items(A))
    BY <1>5, <1>6, <2>1
  <2> QED
    BY <2>1, <2>2
<1>8. CASE ~P.isFile
  <2>1. PICK R : R = [Q EXCEPT !.out = o1]
    OBVIOUS
  <2>2. FinishItem(P) = R
    BY <1>1, <1>2, <1>4, <1>6, <1>8, <2>1 DEF FinishItem, ParamOf, Alike
  <2>3. R \in Parsers(A)
    BY <1>2, <1>7, <2>1 DEF Parsers
  <2>4. R.state = Q.state /\ R.parsed = Q.parsed /\ R.temp = Q.temp /\ R.name = Q.name
        /\ R.filename = Q.filename /\ R.out = o1 /\ R.buf = Q.buf /\ R.held = Q.held
    BY <1>2, <2>1 DEF Parsers
  <2>5. Finishing(P, R)
    BY <1>2, <1>4, <1>6, <1>8, <2>4 DEF Finishing, Alike
  <2> QED
    BY <2>2, <2>3, <2>5
<1>9. CASE P.isFile /\ ~(P.size > 0)
  <2>1. PICK R : R = [Q EXCEPT !.held = FALSE]
    OBVIOUS
  <2>2. FinishItem(P) = R
    BY <1>1, <1>9, <2>1 DEF FinishItem
  <2>3. R \in Parsers(A)
    BY <1>2, <2>1 DEF Parsers
  <2>4. R.state = Q.state /\ R.parsed = Q.parsed /\ R.temp = Q.temp /\ R.name = Q.name
        /\ R.filename = Q.filename /\ R.out = Q.out /\ R.buf = Q.buf /\ R.held = FALSE
    BY <1>2, <2>1 DEF Parsers
  <2>5. Finishing(P, R)
    BY <1>2, <1>9, <2>4 DEF Finishing, Alike
  <2> QED
    BY <2>2, <2>3, <2>5
<1>10. CASE P.isFile /\ P.size > 0
  <2>1. PICK R1 : R1 = [Q EXCEPT !.out = o2, !.buf = <<>>]
    OBVIOUS
  <2>2. Upload(Q, TRUE) = R1
    BY <1>2, <1>4, <1>6, <2>1 DEF Upload, Piece, Alike
  <2>3. R1 \in Parsers(A)
    BY <1>2, <1>7, <2>1 DEF Parsers
  <2>4. R1.state = Q.state /\ R1.parsed = Q.parsed /\ R1.temp = Q.temp /\ R1.name = Q.name
        /\ R1.filename = Q.filename /\ R1.out = o2 /\ R1.buf = <<>>
    BY <1>2, <2>1 DEF Parsers
  <2>5. PICK R2 : R2 = [R1 EXCEPT !.out = o3]
    OBVIOUS
  <2>6. R2 = [Upload(Q, TRUE) EXCEPT !.out = Append(@, ParamOf(P, <<P.filename>>))]
    BY <1>4, <1>6, <2>2, <2>4, <2>5
  <2>7. R2 \in Parsers(A)
    BY <1>7, <2>3, <2>5 DEF Parsers
  <2>8. R2.state = R1.state /\ R2.parsed = R1.parsed /\ R2.temp = R1.temp /\ R2.name = R1.name
        /\ R2.filename = R1.filename /\ R2.out = o3 /\ R2.buf = R1.buf
    BY <2>3, <2>5 DEF Parsers
  <2>9. PICK R : R = [R2 EXCEPT !.held = FALSE]
    OBVIOUS
  <2>10. FinishItem(P) = R
    BY <1>1, <1>10, <2>6, <2>9 DEF FinishItem, ParamOf
  <2>11. R \in Parsers(A)
    BY <2>7, <2>9 DEF Parsers
  <2>12. R.state = R2.state /\ R.parsed = R2.parsed /\ R.temp = R2.temp /\ R.name = R2.name
         /\ R.filename = R2.filename /\ R.out = o3 /\ R.buf = R2.buf /\ R.held = FALSE
    BY <2>7, <2>8, <2>9 DEF Parsers
  <2>13. Finishing(P, R)
    <3>1. P.isFile /\ ~(P.size = 0)
      BY <1>10
    <3> QED
      BY <1>2, <1>4, <1>6, <3>1, <2>4, <2>8, <2>12 DEF Finishing, Alike
  <2> QED
    BY <2>10, <2>11, <2>13
<1> QED
  BY <1>3, <1>8, <1>9, <1>10

\* The last piece of a file, its end and its parameter are what was still to be said of it.
EndsAndHeard(m, f, i, u, x, y) ==
  LET s == SaidUpto(m, f, i - 1) IN
  /\ s \o Begun(m, f[i], u) \in Seq(Words(f))
  /\ ((s \o Begun(m, f[i], u)) \o Hearing(m, x)) \o Hearing(m, y) = SaidUpto(m, f, i)

\* The last piece of a file and its parameter complete what the form says of it.
LEMMA FileEnds ==
  ASSUME NEW f, WellFormed(f), NEW i, i \in 1 .. Len(f), f[i].file, f[i].content # <<>>,
         NEW m, NEW u, u \in 0 .. Len(f[i].content),
         NEW x, x.what = "upload", x.name = f[i].filename, x.index = u, x.last,
                x.data = SubSeq(f[i].content, u + 1, Len(f[i].content)),
         NEW y, y.what = "param", y.name = f[i].name, y.data = <<f[i].filename>>
  PROVE  EndsAndHeard(m, f, i, u, x, y)
<1>1. PICK A : A = Words(f)
  OBVIOUS
<1>2. PICK c \in Seq(A) : c = f[i].content
  BY <1>1, PartProperties
<1>3. "upload" \in A /\ "param" \in A /\ "end" \in A /\ f[i].filename \in A /\ f[i].name \in A
  BY <1>1, WordsProperties, PartProperties
<1>4. PICK h \in Seq(A), e \in Seq(A), k \in Seq(A) :
        h = <<"upload", f[i].filename>> /\ e = <<"end">> /\ k = <<"param", f[i].name, f[i].filename>>
  <2>1. <<"upload", f[i].filename>> \in Seq(A)
    BY <1>3
  <2>2. <<"end">> \in Seq(A)
    BY <1>3
  <2>3. <<"param", f[i].name, f[i].filename>> \in Seq(A)
    BY <1>3
  <2> QED
    BY <2>1, <2>2, <2>3
<1>5. PICK s \in Seq(A) : s = SaidUpto(m, f, i - 1)
  <2>1. i - 1 \in 0 .. Len(f)
    BY PartProperties
  <2> QED
    BY <1>1, <2>1, SaidProperties
<1>6. SaidUpto(m, f, i) = s \o Said(m, f[i])
  BY <1>5, SaidProperties
<1>7. Hearing(m, y) = k
  <2>1. Hearing(m, y) = <<"param", f[i].name>> \o <<f[i].filename>>
    BY DEF Hearing, Heard, Told
  <2>2. \A p, q, r : <<p, q>> \o <<r>> = <<p, q, r>>
    BY PairAndOne
  <2> QED
    BY <1>4, <2>1, <2>2
<1>8. PICK v \in Seq(A) : v = IF m = "multipart" THEN (h \o c) \o e ELSE <<>>
  <2>1. PICK t \in Seq(A) : t = h \o c
    <3>1. h \o c \in Seq(A)
      BY <1>2, <1>4
    <3> QED
      BY <3>1
  <2>2. t \o e \in Seq(A)
    BY <1>4, <2>1
  <2>3. <<>> \in Seq(A)
    OBVIOUS
  <2> QED
    BY <2>1, <2>2, <2>3
<1>9. Said(m, f[i]) = v \o k
  BY <1>2, <1>4, <1>8 DEF Said
<1>10. PICK b \in Seq(A), z \in Seq(A) :
         b = Begun(m, f[i], u) /\ z = Hearing(m, x) /\ b \o z = v
  <2>1. CASE m # "multipart"
    <3>1. Begun(m, f[i], u) = <<>> /\ Hearing(m, x) = <<>> /\ v = <<>>
      BY <1>8, <2>1 DEF Hearing, Heard, Begun
    <3>2. <<>> \o <<>> = <<>> /\ <<>> \in Seq(A)
      OBVIOUS
    <3> QED
      BY <3>1, <3>2
  <2>2. CASE m = "multipart"
    <3>1. PICK a, d : a = SubSeq(c, 1, u) /\ d = SubSeq(c, u + 1, Len(c))
      OBVIOUS
    <3>2. a \in Seq(A) /\ a \o d = c /\ d \in Seq(A)
      <4>1. PICK n \in Nat : n = Len(c)
        <5>1. Len(c) \in Nat
          BY <1>2
        <5> QED
          BY <5>1
      <4>2. n \in 0 .. Len(c) /\ u \in 0 .. n
        BY <1>2, <4>1
      <4>3. a \in Seq(A) /\ a \o d = SubSeq(c, 1, n)
        BY <3>1, <4>1, <4>2, WindowJoins
      <4>4. SubSeq(c, 1, n) = c
        BY <4>1, BeginningEnds
      <4>5. d \in Seq(A)
        BY <3>1, <4>1, <4>2
      <4> QED
        BY <4>3, <4>4, <4>5
    <3>3. Hearing(m, x) = ((IF u = 0 THEN h ELSE <<>>) \o d) \o e
      BY <1>2, <1>4, <2>2, <3>1 DEF Hearing, Heard, Told
    <3>4. v = (h \o c) \o e
      BY <1>8, <2>2
    <3>5. CASE u = 0
      <4>1. Begun(m, f[i], u) = <<>>
        BY <3>5 DEF Begun
      <4>2. d = c
        <5>1. SubSeq(c, 1, Len(c)) = c
          BY BeginningEnds
        <5> QED
          BY <3>1, <3>5, <5>1
      <4>3. Hearing(m, x) = v
        BY <3>3, <3>4, <3>5, <4>2
      <4>4. <<>> \o v = v /\ <<>> \in Seq(A)
        OBVIOUS
      <4> QED
        BY <4>1, <4>3, <4>4
    <3>6. CASE u # 0
      <4>1. Begun(m, f[i], u) = h \o a
        BY <1>2, <1>4, <2>2, <3>1, <3>6 DEF Begun
      <4>2. Hearing(m, x) = d \o e
        <5>1. <<>> \o d = d
          BY <3>2
        <5> QED
          BY <3>3, <3>6, <5>1
      <4>3. h \o a \in Seq(A) /\ d \o e \in Seq(A)
        BY <3>2
      <4>4. (h \o a) \o (d \o e) = v
        <5>1. Cat(Cat(h, a), Cat(d, e)) = Cat(Cat(Cat(h, a), d), e)
          <6>1. Cat(h, a) \in Seq(A)
            BY <4>3 DEF Cat
          <6> QED
            BY <3>2, <6>1, CatAssociative
        <5>2. Cat(Cat(h, a), d) = Cat(h, Cat(a, d))
          BY <3>2, CatAssociative
        <5> QED
          BY <3>2, <3>4, <5>1, <5>2 DEF Cat
      <4> QED
        BY <4>1, <4>2, <4>3, <4>4
    <3> QED
      BY <3>5, <3>6
  <2> QED
    BY <2>1, <2>2
<1>11. s \o b \in Seq(A)
  OBVIOUS
<1>12. ((s \o b) \o z) \o k = s \o (v \o k)
  <2>1. Cat(Cat(s, b), z) = Cat(s, Cat(b, z))
    BY <1>5, <1>10, CatAssociative
  <2>2. Cat(Cat(s, v), k) = Cat(s, Cat(v, k))
    <3>1. s \in Seq(A) /\ v \in Seq(A) /\ k \in Seq(A)
      OBVIOUS
    <3> QED
      BY <3>1, CatAssociative
  <2> QED
    BY <1>10, <2>1, <2>2 DEF Cat
<1> QED
  BY <1>1, <1>5, <1>6, <1>7, <1>9, <1>10, <1>11, <1>12 DEF EndsAndHeard

\* With its last byte written, the end of an item settles it.
ItemEnded(m, whole, f, i, P, R) ==
  /\ Settled(m, whole, f, i, R) /\ Named(f, i, Len(f[i].lines), R.name, R.filename)
  /\ R.temp = <<>> /\ R.state = "DASH3_OR_RETURN2" /\ R.parsed = P.parsed

\* Behind its delimiter a part has been handed on entirely.
LEMMA ItemEnds ==
  ASSUME NEW f, WellFormed(f), NEW i, i \in 1 .. Len(f), NEW m, NEW whole, NEW w, w = Len(f[i].content),
         NEW P, Data(m, whole, f, i, w, P)
  PROVE  ItemEnded(m, whole, f, i, P, FinishItem(P))
<1>1. PICK A, c, p, R : A = Words(f) /\ c = f[i].content /\ p = f[i] /\ R = FinishItem(P)
  OBVIOUS
<1>2. c \in Seq(A) /\ w \in Nat /\ w = Len(c)
  <2>1. c \in Seq(A)
    BY <1>1, PartProperties
  <2> QED
    BY <1>1, <2>1
<1>3. /\ P \in Parsers(A) /\ P.size = w
      /\ Len(P.buf) <= w /\ Len(P.buf) < ChunkSize /\ (~p.file => P.buf = <<>>)
      /\ P.temp = <<>> /\ P.isFile = p.file /\ P.held = p.file
      /\ Named(f, i, Len(p.lines), P.name, P.filename)
      /\ whole => Kept(m, f, i, w, P)
  BY <1>1 DEF Data
<1>4. R \in Parsers(A) /\ Finishing(P, R)
  BY <1>1, <1>3, FinishItemFinishes
<1>5. /\ P.buf \in Seq(A) /\ P.out \in Seq(Items(A)) /\ P.value \in Seq(A) /\ P.isFile \in BOOLEAN
      /\ R.held \in BOOLEAN /\ Len(P.buf) \in Nat
  <2>1. /\ P.buf \in Seq(A) /\ P.out \in Seq(Items(A)) /\ P.value \in Seq(A) /\ P.isFile \in BOOLEAN
        /\ R.held \in BOOLEAN
    BY <1>3, <1>4 DEF Parsers
  <2> QED
    BY <2>1
<1>6. P.name = p.name /\ (p.file => P.filename = p.filename)
  <2>1. Named(f, i, Len(f[i].lines), P.name, P.filename)
    BY <1>1, <1>3, Zenon
  <2> QED
    BY <1>1, <2>1, NamedKnown, Zenon
<1>7. w = 0 \/ w > 0
  BY <1>2
<1>8. R.buf = <<>> /\ ~R.held
  <2>1. CASE ~p.file
    BY <1>3, <1>4, <2>1 DEF Finishing
  <2>2. CASE p.file /\ w > 0
    BY <1>3, <1>4, <2>2 DEF Finishing
  <2>3. CASE p.file /\ w = 0
    <3>1. P.buf = <<>>
      <4>1. Len(P.buf) = 0
        BY <1>3, <1>5, <2>3
      <4> QED
        BY <1>5, <4>1
    <3> QED
      BY <1>3, <1>4, <2>3, <3>1 DEF Finishing
  <2> QED
    BY <1>7, <2>1, <2>2, <2>3
<1>9. ASSUME whole PROVE AllTold(m, R.out) = SaidUpto(m, f, i) /\ Joined(m, R.out, 0)
  <2>1. PICK k \in Nat, u \in Nat : k = Len(P.buf) /\ u = w - k /\ u <= w
    <3>1. w - Len(P.buf) \in Nat /\ w - Len(P.buf) <= w
      BY <1>2, <1>3, <1>5
    <3> QED
      BY <1>5, <3>1
  <2>2. /\ ~p.file => P.value = SubSeq(c, 1, w) /\ AllTold(m, P.out) = SaidUpto(m, f, i - 1)
        /\ p.file => /\ P.buf = SubSeq(c, u + 1, w)
                     /\ AllTold(m, P.out) = SaidUpto(m, f, i - 1) \o Begun(m, p, u)
        /\ Joined(m, P.out, IF p.file /\ m = "multipart" THEN u ELSE 0)
    BY <1>1, <1>3, <1>9, <2>1 DEF Kept
  <2>3. {"param", "upload", "end"} \subseteq A
    BY <1>1, WordsProperties
  <2>4. PICK s \in Seq(A) : s = SaidUpto(m, f, i - 1) /\ SaidUpto(m, f, i) = s \o Said(m, p)
    <3>1. i - 1 \in 0 .. Len(f)
      BY PartProperties
    <3> QED
      BY <1>1, <3>1, SaidProperties
  <2>5. CASE ~p.file
    <3>1. PICK x : x = ParamOf(P, P.value)
      OBVIOUS
    <3>2. x \in Items(A) /\ x.what = "param" /\ x.name = p.name /\ x.data = c
      <4>1. P.value = c
        BY <1>2, <2>2, <2>5, BeginningEnds
      <4>2. x \in Items(A)
        BY <1>3, <3>1, ItemTypes
      <4> QED
        BY <1>6, <3>1, <4>1, <4>2 DEF ParamOf
    <3>3. R.out = Append(P.out, x)
      BY <1>3, <1>4, <2>5, <3>1 DEF Finishing
    <3>4. AllTold(m, R.out) = AllTold(m, P.out) \o Hearing(m, x)
      <4>1. PICK q : q = P.out
        OBVIOUS
      <4>2. q \in Seq(Items(A)) /\ x \in Items(A)
        BY <1>5, <3>2, <4>1
      <4>3. AllTold(m, Append(q, x)) = AllTold(m, q) \o Hearing(m, x)
        BY <2>3, <4>2, ToldMore
      <4> QED
        BY <3>3, <4>1, <4>3
    <3>5. Hearing(m, x) = Said(m, p)
      BY <1>1, <2>5, <3>2 DEF Hearing, Heard, Told, Said
    <3>6. Joined(m, P.out, 0) /\ ~Heeded(m, x)
      BY <2>2, <2>5, <3>2 DEF Heeded
    <3>7. Joined(m, R.out, 0)
      BY <1>5, <3>2, <3>3, <3>6, JoinedOther
    <3> QED
      BY <2>2, <2>4, <2>5, <3>4, <3>5, <3>7
  <2>6. CASE p.file /\ w = 0
    <3>1. R.out = P.out /\ u = 0
      BY <1>3, <1>4, <2>1, <2>6 DEF Finishing
    <3>2. Begun(m, p, u) = <<>>
      BY <3>1 DEF Begun
    <3>3. c = <<>>
      <4>1. c \in Seq(A) /\ Len(c) = 0
        BY <1>2, <2>6
      <4> QED
        BY <4>1
    <3>4. Said(m, p) = <<>>
      BY <1>1, <2>6, <3>3 DEF Said
    <3>5. AllTold(m, R.out) = SaidUpto(m, f, i)
      BY <2>2, <2>4, <2>6, <3>1, <3>2, <3>4
    <3>6. Joined(m, R.out, 0)
      <4>1. (IF p.file /\ m = "multipart" THEN u ELSE 0) = 0
        BY <3>1
      <4> QED
        BY <2>2, <3>1, <4>1
    <3> QED
      BY <3>5, <3>6
  <2>7. CASE p.file /\ w > 0
    <3>1. PICK x, y, o : x = Piece(P, P.buf, TRUE) /\ y = ParamOf(P, <<P.filename>>) /\ o = Append(P.out, x)
      OBVIOUS
    <3>2. x \in Items(A) /\ y \in Items(A) /\ o \in Seq(Items(A))
      <4>1. x \in Items(A) /\ y \in Items(A)
        BY <1>3, <3>1, ItemTypes
      <4>2. P.out \in Seq(Items(A)) /\ o = Append(P.out, x)
        BY <1>5, <3>1
      <4> QED
        BY <4>1, <4>2
    <3>3. R.out = Append(o, y)
      BY <1>3, <1>4, <2>7, <3>1 DEF Finishing
    <3>4. /\ x.what = "upload" /\ x.name = p.filename /\ x.index = u /\ x.last
          /\ x.data = SubSeq(c, u + 1, w)
      BY <1>3, <1>6, <2>1, <2>2, <2>7, <3>1 DEF Piece
    <3>5. y.what = "param" /\ y.name = p.name /\ y.data = <<p.filename>>
      BY <1>6, <2>7, <3>1 DEF ParamOf
    <3>6. EndsAndHeard(m, f, i, u, x, y)
      <4>1. f[i].content # <<>>
        BY <1>1, <1>2, <2>7
      <4>2. u \in 0 .. Len(f[i].content)
        <5>1. u \in 0 .. w
          BY <1>2, <2>1
        <5> QED
          BY <1>1, <1>2, <5>1
      <4>3. /\ f[i].file /\ x.name = f[i].filename /\ y.name = f[i].name /\ y.data = <<f[i].filename>>
            /\ x.data = SubSeq(f[i].content, u + 1, Len(f[i].content))
        BY <1>1, <1>2, <2>7, <3>4, <3>5
      <4> QED
        BY <3>4, <3>5, <4>1, <4>2, <4>3, FileEnds
    <3>7. AllTold(m, o) = AllTold(m, P.out) \o Hearing(m, x)
      <4>1. PICK q : q = P.out
        OBVIOUS
      <4>2. q \in Seq(Items(A)) /\ x \in Items(A)
        BY <1>5, <3>2, <4>1
      <4>3. AllTold(m, Append(q, x)) = AllTold(m, q) \o Hearing(m, x)
        BY <2>3, <4>2, ToldMore
      <4> QED
        BY <3>1, <4>1, <4>3
    <3>8. AllTold(m, R.out) = AllTold(m, o) \o Hearing(m, y)
      BY <2>3, <3>2, <3>3, ToldMore
    <3>9. AllTold(m, R.out) = SaidUpto(m, f, i)
      BY <1>1, <2>2, <2>7, <3>6, <3>7, <3>8 DEF EndsAndHeard
    <3>10. Joined(m, o, 0)
      <4>1. CASE m = "multipart"
        <5>1. Heeded(m, x) /\ Joined(m, P.out, u)
          BY <2>2, <2>7, <3>4, <4>1 DEF Heeded, Heard
        <5>2. Len(x.data) <= ChunkSize
          <6>1. x.data = P.buf
            BY <3>1 DEF Piece
          <6> QED
            BY <1>3, <1>5, <6>1, ChunkAssumption
        <5>3. IndexAfter(x) = 0
          BY <3>4 DEF IndexAfter
        <5>4. Joined(m, o, IndexAfter(x))
          BY <1>5, <3>1, <3>2, <3>4, <5>1, <5>2, JoinedUpload
        <5> QED
          BY <5>3, <5>4
      <4>2. CASE m # "multipart"
        <5>1. ~Heeded(m, x) /\ Joined(m, P.out, 0)
          BY <2>2, <3>4, <4>2 DEF Heeded, Heard
        <5> QED
          BY <1>5, <3>1, <3>2, <5>1, JoinedOther
      <4> QED
        BY <4>1, <4>2
    <3>11. ~Heeded(m, y)
      BY <3>5 DEF Heeded
    <3>12. Joined(m, R.out, 0)
      BY <3>2, <3>3, <3>10, <3>11, JoinedOther
    <3> QED
      BY <3>9, <3>12
  <2> QED
    BY <1>7, <2>5, <2>6, <2>7
<1>10. Settled(m, whole, f, i, R)
  BY <1>1, <1>4, <1>8, <1>9 DEF Settled
<1>11. /\ R.temp = <<>> /\ R.state = "DASH3_OR_RETURN2" /\ R.parsed = P.parsed
       /\ Named(f, i, Len(p.lines), R.name, R.filename)
  BY <1>3, <1>4 DEF Finishing
<1> QED
  BY <1>1, <1>10, <1>11 DEF ItemEnded

\* One byte in the content of part i, or in the delimiter behind it.
ContentGoesOn(m, whole, f, i, Q) ==
  (\E w, g : InContent(m, whole, f, i, w, g, Q)) \/ Behind(m, whole, f, i, Q)

\* The next byte of a content, or of the delimiter behind it.
LEMMA ContentStep ==
  ASSUME NEW f, WellFormed(f), NEW i, i \in 1 .. Len(f), NEW m, NEW whole, NEW w, NEW g, NEW P,
         InContent(m, whole, f, i, w, g, P),
         NEW b, NEW last, NEW length, Feeds(whole, f, P, b, last, length), NEW allocated
  PROVE  ContentGoesOn(m, whole, f, i, ParseByte(P, b, last, length, allocated))
<1>1. PICK A, R, Q, d, o, c :
        /\ A = Words(f) /\ R = Parse(P, b, last, length, allocated)
        /\ Q = ParseByte(P, b, last, length, allocated)
        /\ d = D /\ o = ContentAt(f, i) /\ c = Len(f[i].content)
  OBVIOUS
<1>2. Q = [R EXCEPT !.parsed = @ + 1]
  BY <1>1 DEF ParseByte
<1>3. {CR, LF, Dash} \cup ToSet(Boundary) \subseteq A
  BY <1>1, WordsProperties
<1>4. o \in Nat /\ c \in Nat /\ d \in Nat /\ d >= 5
  <2>1. PICK x, y, z, e : ContentNumbers(f, i, x, y, z, e)
    BY ContentIsAt
  <2> QED
    BY <1>1, <2>1 DEF ContentNumbers
<1>5. Data(m, whole, f, i, w, P) /\ Guess(A, P, g) /\ Guessed(f, i, w, g) /\ P.parsed = o + w + g
  BY <1>1 DEF InContent
<1>6. w \in Nat /\ w <= c /\ g \in Nat /\ g < d
  <2>1. w \in 0 .. c /\ g \in 0 .. d - 1
    BY <1>1, <1>5 DEF Guessed, Guess
  <2> QED
    BY <1>4, <2>1
<1>7. b = Encode(f)[o + w + g + 1]
  BY <1>5 DEF Feeds
<1>8. ASSUME b = Delimiter[g + 1] PROVE Guessed(f, i, w, g + 1)
  <2>1. g + 1 \in 0 .. d /\ w \in 0 .. c
    BY <1>4, <1>6
  <2>2. ASSUME NEW k \in 1 .. g + 1 PROVE Encode(f)[o + w + k] = Delimiter[k]
    <3>1. CASE k = g + 1
      <4>1. o + w + (g + 1) = o + w + g + 1
        BY <1>4, <1>6
      <4> QED
        BY <1>7, <1>8, <3>1, <4>1
    <3>2. CASE k # g + 1
      <4>1. k \in 1 .. g
        BY <1>6, <3>2
      <4> QED
        BY <1>1, <1>5, <4>1 DEF Guessed
    <3> QED
      BY <3>1, <3>2
  <2> QED
    BY <1>1, <2>1, <2>2 DEF Guessed
<1>9. CASE b = Delimiter[g + 1] /\ g + 1 < d
  <2>1. Advanced(A, P, g, R)
    BY <1>1, <1>3, <1>5, <1>9, GuessRight
  <2>2. R \in Parsers(A) /\ Alike(P, R) /\ R.parsed = P.parsed
        /\ R.state = GuessState(g + 1) /\ (g + 1 >= 4 => R.bpos = (g + 1) - 4)
    BY <2>1 DEF Advanced
  <2>3. /\ Q \in Parsers(A) /\ Q.parsed = R.parsed + 1
        /\ Q.state = R.state /\ Q.bpos = R.bpos /\ Alike(R, Q)
    BY <1>2, <2>2, Counted
  <2>4. Data(m, whole, f, i, w, Q)
    <3>1. Data(m, whole, f, i, w, R)
      BY <1>1, <1>5, <2>2, DataAlike
    <3> QED
      BY <1>1, <2>3, <3>1, DataAlike
  <2>5. Guess(A, Q, g + 1)
    <3>1. g + 1 \in 0 .. d - 1
      BY <1>4, <1>6, <1>9
    <3> QED
      BY <1>1, <2>2, <2>3, <3>1 DEF Guess
  <2>6. Q.parsed = o + w + (g + 1)
    <3>1. (o + w + g) + 1 = o + w + (g + 1)
      BY <1>4, <1>6
    <3> QED
      BY <1>5, <2>2, <2>3, <3>1
  <2>7. InContent(m, whole, f, i, w, g + 1, Q)
    BY <1>1, <1>8, <1>9, <2>4, <2>5, <2>6 DEF InContent
  <2> QED
    BY <1>1, <2>7 DEF ContentGoesOn
<1>10. CASE b = Delimiter[g + 1] /\ g + 1 = d
  <2>1. R = FinishItem(P)
    BY <1>1, <1>3, <1>5, <1>10, GuessDone
  <2>2. w = c
    <3>1. Guessed(f, i, w, D)
      BY <1>1, <1>8, <1>10
    <3> QED
      BY <1>1, <3>1, RightIsDelimiter
  <2>3. ItemEnded(m, whole, f, i, P, R)
    BY <1>1, <1>5, <2>1, <2>2, ItemEnds
  <2>4. /\ R \in Parsers(A) /\ R.buf = <<>> /\ ~R.held
        /\ whole => AllTold(m, R.out) = SaidUpto(m, f, i) /\ Joined(m, R.out, 0)
        /\ Named(f, i, Len(f[i].lines), R.name, R.filename)
        /\ R.temp = <<>> /\ R.state = "DASH3_OR_RETURN2" /\ R.parsed = P.parsed
    BY <1>1, <2>3 DEF ItemEnded, Settled
  <2>5. /\ Q \in Parsers(A) /\ Q.parsed = R.parsed + 1 /\ Q.state = R.state /\ Alike(R, Q)
    BY <1>2, <2>4, Counted
  <2>6. Q.parsed = Start(f, i + 1) + D
    <3>1. Start(f, i + 1) = o + c
      BY <1>1, EncodeLayout DEF Layout, Ordered
    <3>2. (o + w + g) + 1 = (o + c) + d
      BY <1>4, <1>6, <1>10, <2>2
    <3> QED
      BY <1>1, <1>5, <2>4, <2>5, <3>1, <3>2
  <2>7. Behind(m, whole, f, i, Q)
    BY <1>1, <2>4, <2>5, <2>6 DEF Behind, Settled, Alike
  <2> QED
    BY <1>1, <2>7 DEF ContentGoesOn
<1>11. CASE b # Delimiter[g + 1]
  <2>1. WrongGuess(f, i, w, g, b)
    BY <1>1, <1>5, <1>6, <1>7, <1>11, WrongIsContent
  <2> DEFINE guessed == SubSeq(Delimiter, 1, g)
             v == w + g
  <2>2. /\ NextBytes(f, i, w, guessed) /\ v \in 0 .. c
        /\ v < c => b = f[i].content[v + 1] /\ (b = CR => Guessed(f, i, v, 1))
        /\ v = c => b = CR /\ Guessed(f, i, v, 1)
        /\ o + w + g + 1 < Len(Encode(f))
    BY <1>1, <2>1 DEF WrongGuess
  <2>3. last \in BOOLEAN /\ (whole => ~last)
    <3>1. o + w + g + 1 # Len(Encode(f))
      <4>1. PICK e \in Nat : e = Len(Encode(f))
        <5>1. Encode(f) \in Seq(Words(f))
          BY EncodeLayout DEF Layout, Ordered
        <5> QED
          BY <5>1
      <4>2. o + w + g + 1 \in Nat /\ o + w + g + 1 < e
        BY <1>4, <1>6, <2>2, <4>1
      <4> QED
        BY <4>1, <4>2
    <3> QED
      BY <1>5, <3>1 DEF Feeds
  <2>4. PICK G : GoesOn(m, whole, f, i, v, P, G) /\ R = WaitForReturn(G, b, last)
    <3>1. CASE g = 0
      <4>1. R = WaitForReturn(P, b, last)
        BY <1>1, <1>3, <1>5, <1>11, <3>1, GuessWrong
      <4>2. v = w
        BY <1>6, <3>1
      <4>3. P.state = "WAIT_FOR_RETURN1"
        BY <1>5, <3>1 DEF Guess, GuessState
      <4>4. GoesOn(m, whole, f, i, v, P, P)
        BY <1>5, <4>2, <4>3 DEF GoesOn
      <4> QED
        BY <4>1, <4>4
    <3>2. CASE g # 0
      <4>1. R = GiveBack(P, guessed, b, last)
        BY <1>1, <1>3, <1>5, <1>11, <3>2, GuessWrong
      <4>2. R = WaitForReturn(Given(P, guessed, last), b, last)
        BY <4>1 DEF GiveBack
      <4>3. Len(guessed) = g
        <5>1. PICK s : s = Delimiter /\ s \in Seq(A) /\ Len(s) = d
          BY <1>1, <1>3, DelimiterProperties DEF D
        <5>2. Len(SubSeq(s, 1, g)) = g
          BY <1>4, <1>6, <5>1
        <5> QED
          BY <5>1, <5>2
      <4>4. GoesOn(m, whole, f, i, w + Len(guessed), P, Given(P, guessed, last))
        <5> HIDE DEF guessed
        <5> QED
          BY <1>5, <2>2, <2>3, GivenMore, Zenon
      <4> QED
        BY <4>2, <4>3, <4>4
    <3> QED
      BY <3>1, <3>2
  <2>5. Data(m, whole, f, i, v, G) /\ G.state = "WAIT_FOR_RETURN1" /\ G.parsed = o + v
    <3>1. Data(m, whole, f, i, v, G) /\ G.state = "WAIT_FOR_RETURN1" /\ G.parsed = o + w + g
      BY <1>5, <2>4 DEF GoesOn
    <3>2. o + w + g = o + v
      BY <1>4, <1>6
    <3> QED
      BY <3>1, <3>2
  <2>6. G \in Parsers(A)
    BY <1>1, <2>5 DEF Data
  <2> HIDE DEF v, guessed
  <2>7. PICK n \in Nat : n = v /\ n <= c
    BY <1>4, <2>2
  <2>8. CASE b = CR
    <3>1. R = [G EXCEPT !.state = "EXPECT_FEED1"]
      BY <2>4, <2>8 DEF WaitForReturn
    <3>2. R \in Parsers(A) /\ R.state = "EXPECT_FEED1" /\ R.parsed = G.parsed /\ Alike(G, R)
      BY <2>6, <3>1, NewState DEF States
    <3>3. Q \in Parsers(A) /\ Q.parsed = R.parsed + 1 /\ Q.state = R.state /\ Alike(R, Q)
      BY <1>2, <3>2, Counted
    <3>4. Data(m, whole, f, i, v, Q)
      <4>1. Data(m, whole, f, i, v, R)
        BY <1>1, <2>5, <3>2, DataAlike
      <4> QED
        BY <1>1, <3>3, <4>1, DataAlike
    <3>5. Guess(A, Q, 1)
      <4>1. 1 \in 0 .. d - 1
        BY <1>4
      <4> QED
        BY <1>1, <3>2, <3>3, <4>1 DEF Guess, GuessState
    <3>6. Guessed(f, i, v, 1)
      BY <1>4, <2>2, <2>7, <2>8
    <3>7. InContent(m, whole, f, i, v, 1, Q)
      BY <1>1, <2>5, <3>2, <3>3, <3>4, <3>5, <3>6 DEF InContent
    <3> QED
      BY <1>1, <3>7 DEF ContentGoesOn
  <2>9. CASE b # CR
    <3>1. n < c /\ b = f[i].content[n + 1]
      <4>1. n # c
        BY <2>2, <2>7, <2>9
      <4>2. n < c
        BY <1>4, <2>7, <4>1
      <4> QED
        BY <2>2, <2>7, <4>2
    <3>2. R = WriteByte(G, b, last)
      BY <2>4, <2>9 DEF WaitForReturn
    <3>3. Data(m, whole, f, i, n + 1, R) /\ Same(G, R)
      BY <1>1, <2>3, <2>5, <2>7, <3>1, <3>2, DataMore
    <3>4. R \in Parsers(A)
      BY <1>1, <3>3 DEF Data
    <3>5. Q \in Parsers(A) /\ Q.parsed = R.parsed + 1 /\ Q.state = R.state /\ Alike(R, Q)
      BY <1>2, <3>4, Counted
    <3>6. Data(m, whole, f, i, n + 1, Q)
      BY <1>1, <3>3, <3>5, DataAlike
    <3>7. Guess(A, Q, 0)
      <4>1. 0 \in 0 .. d - 1
        BY <1>4
      <4>2. Q.state = "WAIT_FOR_RETURN1"
        BY <2>5, <3>3, <3>5 DEF Same
      <4> QED
        BY <1>1, <3>5, <4>1, <4>2 DEF Guess, GuessState
    <3>8. Guessed(f, i, n + 1, 0)
      <4>1. n + 1 \in 0 .. c /\ 0 \in 0 .. d /\ 1 .. 0 = {}
        BY <1>4, <2>7, <3>1
      <4> QED
        BY <1>1, <4>1 DEF Guessed
    <3>9. Q.parsed = o + (n + 1) + 0
      <4>1. (o + n) + 1 = o + (n + 1) + 0
        BY <1>4, <2>7
      <4> QED
        BY <2>5, <2>7, <3>3, <3>5, <4>1 DEF Same
    <3>10. InContent(m, whole, f, i, n + 1, 0, Q)
      BY <1>1, <3>6, <3>7, <3>8, <3>9 DEF InContent
    <3> QED
      BY <1>1, <3>10 DEF ContentGoesOn
  <2> QED
    BY <2>8, <2>9
<1>12. g + 1 < d \/ g + 1 = d
  BY <1>4, <1>6
<1> QED
  BY <1>9, <1>10, <1>11, <1>12

-----------------------------------------------------------------------------
(* One byte in the other zones.                                            *)

\* Between two items only the buffer and what was handed on matter.
LEMMA SettledAlike ==
  ASSUME NEW f, NEW m, NEW whole, NEW k, NEW P, Settled(m, whole, f, k, P),
         NEW Q, Q \in Parsers(Words(f)), Q.buf = P.buf, Q.held = P.held, Q.out = P.out
  PROVE  Settled(m, whole, f, k, Q)
  BY DEF Settled

\* The first line is the delimiter without its CR and LF, and the end of the line.
LEMMA FirstLineText ==
  ASSUME NEW f, WellFormed(f), NEW p, p \in 0 .. D - 1, NEW b, b = Encode(f)[p + 1],
         NEW n, n = Len(Boundary)
  PROVE  /\ n \in Nat /\ D = n + 4
         /\ p < 2 => b = Dash
         /\ p >= 2 /\ p - 2 < n => b = Boundary[(p - 2) + 1]
         /\ p - 2 = n => b = CR
         /\ p - 2 > n => b = LF /\ p + 1 = D
<1>1. PICK d : d = D
  OBVIOUS
<1>2. PICK A : A = {CR, LF, Dash} \cup ToSet(Boundary)
  OBVIOUS
<1>3. /\ d = 4 + n /\ n \in Nat /\ n # 0 /\ d \in Nat /\ Delimiter[3] = Dash /\ Delimiter[4] = Dash
      /\ \A k \in 1 .. n : Delimiter[4 + k] = Boundary[k]
  BY <1>1, <1>2, DelimiterProperties
<1>4. p \in Nat /\ p < d
  BY <1>1, <1>3
<1>5. Layout(f)
  BY EncodeLayout
<1>6. Start(f, 1) = -2 /\ PartIn(f, 1)
  <2>1. 1 \in 1 .. Len(f)
    BY PartProperties
  <2> QED
    BY <1>5, <2>1 DEF Layout, Ordered
<1>7. \A k \in 1 .. d : -2 + k >= 1 => Encode(f)[-2 + k] = Delimiter[k]
  BY <1>1, <1>6 DEF PartIn, DelimiterIn
<1>8. Encode(f)[-2 + d + 1] = CR /\ Encode(f)[-2 + d + 2] = LF
  BY <1>1, <1>6 DEF PartIn
<1>9. ASSUME p < n + 2 PROVE b = Delimiter[p + 3]
  <2>1. p + 3 \in 1 .. d /\ -2 + (p + 3) = p + 1 /\ p + 1 >= 1
    BY <1>3, <1>4, <1>9
  <2>2. Encode(f)[-2 + (p + 3)] = Delimiter[p + 3]
    BY <1>7, <2>1
  <2> QED
    BY <2>1, <2>2
<1>10. ASSUME p < 2 PROVE b = Dash
  <2>1. p + 3 = 3 \/ p + 3 = 4
    BY <1>4, <1>10
  <2>2. p < n + 2
    BY <1>3, <1>4, <1>10
  <2> QED
    BY <1>3, <1>9, <2>1, <2>2
<1>11. ASSUME p >= 2, p - 2 < n PROVE b = Boundary[(p - 2) + 1]
  <2>1. PICK k \in 1 .. n : k = (p - 2) + 1
    BY <1>3, <1>4, <1>11
  <2>2. p + 3 = 4 + k /\ p < n + 2
    BY <1>3, <1>4, <1>11, <2>1
  <2>3. b = Delimiter[4 + k]
    BY <1>9, <2>2
  <2> QED
    BY <1>3, <2>1, <2>3
<1>12. ASSUME p - 2 = n PROVE b = CR
  <2>1. p + 1 = -2 + d + 1
    BY <1>3, <1>4, <1>12
  <2> QED
    BY <1>8, <2>1
<1>13. ASSUME p - 2 > n PROVE b = LF /\ p + 1 = d
  <2>1. p + 1 = -2 + d + 2 /\ p + 1 = d
    BY <1>3, <1>4, <1>13
  <2> QED
    BY <1>8, <2>1
<1> QED
  BY <1>1, <1>3, <1>10, <1>11, <1>12, <1>13

\* The next byte of the first line.
LEMMA FirstLineStep ==
  ASSUME NEW f, WellFormed(f), NEW m, NEW whole, NEW P, FirstLine(m, whole, f, P),
         NEW b, NEW last, NEW length, Feeds(whole, f, P, b, last, length), NEW allocated
  PROVE  Zone(m, whole, f, ParseByte(P, b, last, length, allocated))
<1>1. PICK A, R, Q, p, n :
        /\ A = Words(f) /\ R = Parse(P, b, last, length, allocated)
        /\ Q = ParseByte(P, b, last, length, allocated) /\ p = P.parsed /\ n = Len(Boundary)
  OBVIOUS
<1>2. Q = [R EXCEPT !.parsed = @ + 1]
  BY <1>1 DEF ParseByte
<1>3. /\ Settled(m, whole, f, 0, P) /\ Named(f, 1, 0, P.name, P.filename) /\ P.temp = <<>>
      /\ P.state = "EXPECT_BOUNDARY" /\ p \in 0 .. D - 1 /\ P \in Parsers(A)
  BY <1>1 DEF FirstLine, Settled
<1>4. /\ n \in Nat /\ D = n + 4
      /\ p < 2 => b = Dash
      /\ p >= 2 /\ p - 2 < n => b = Boundary[(p - 2) + 1]
      /\ p - 2 = n => b = CR
      /\ p - 2 > n => b = LF /\ p + 1 = D
  BY <1>1, <1>3, FirstLineText DEF Feeds
<1>5. p \in Nat
  BY <1>3, <1>4
<1>6. R = ExpectBoundary(P, b)
  BY <1>1, <1>3 DEF Parse
<1>7. CASE p - 2 <= n
  <2>1. R = P
    <3>1. p < 2 \/ (p >= 2 /\ p - 2 < n) \/ p - 2 = n
      BY <1>4, <1>5, <1>7
    <3>2. CASE p < 2
      BY <1>1, <1>4, <1>6, <3>2 DEF ExpectBoundary
    <3>3. CASE p >= 2 /\ p - 2 < n
      <4>1. ~(p < 2)
        BY <1>5, <3>3
      <4> QED
        BY <1>1, <1>4, <1>6, <3>3, <4>1 DEF ExpectBoundary
    <3>4. CASE p - 2 = n
      <4>1. ~(p < 2) /\ ~(p - 2 < n)
        BY <1>4, <1>5, <3>4
      <4> QED
        BY <1>1, <1>4, <1>6, <3>4, <4>1 DEF ExpectBoundary
    <3> QED
      BY <3>1, <3>2, <3>3, <3>4
  <2>2. Q \in Parsers(A) /\ Q.parsed = p + 1 /\ Q.state = "EXPECT_BOUNDARY" /\ Alike(P, Q)
    BY <1>1, <1>2, <1>3, <2>1, Counted
  <2>3. Settled(m, whole, f, 0, Q)
    BY <1>1, <1>3, <2>2, SettledAlike DEF Alike
  <2>4. p + 1 \in 0 .. D - 1
    BY <1>4, <1>5, <1>7
  <2>5. FirstLine(m, whole, f, Q)
    BY <1>3, <2>2, <2>3, <2>4 DEF FirstLine, Alike
  <2> QED
    BY <1>1, <2>5 DEF Zone
<1>8. CASE p - 2 > n
  <2>1. R = [P EXCEPT !.state = "PARSE_HEADERS", !.isFile = FALSE]
    <3>1. ~(p < 2) /\ ~(p - 2 < n) /\ ~(p - 2 = n) /\ b = LF
      BY <1>4, <1>5, <1>8
    <3> QED
      BY <1>1, <1>6, <3>1 DEF ExpectBoundary
  <2>2. /\ R \in Parsers(A) /\ R.state = "PARSE_HEADERS" /\ ~R.isFile /\ R.parsed = p
        /\ R.buf = P.buf /\ R.held = P.held /\ R.out = P.out /\ R.name = P.name
        /\ R.filename = P.filename /\ R.temp = P.temp
    BY <1>1, <1>3, <2>1 DEF Parsers, States
  <2>3. Q \in Parsers(A) /\ Q.parsed = R.parsed + 1 /\ Q.state = R.state /\ Alike(R, Q)
    BY <1>2, <2>2, Counted
  <2>4. Settled(m, whole, f, 0, Q)
    BY <1>1, <1>3, <2>2, <2>3, SettledAlike DEF Alike
  <2>5. 1 \in 1 .. Len(f) /\ Len(f[1].lines) \in Nat
    <3>1. 1 \in 1 .. Len(f)
      BY PartProperties
    <3>2. f[1].lines \in Seq(A)
      BY <1>1, <3>1, PartProperties
    <3> QED
      BY <3>1, <3>2
  <2>6. HeadersAt(f, 1) + 3 * 0 + 0 = p + 1
    <3>1. Start(f, 1) = -2
      BY EncodeLayout DEF Layout, Ordered
    <3>2. HeadersAt(f, 1) = -2 + (p + 1) + 2
      BY <1>4, <1>8, <3>1 DEF HeadersAt
    <3> QED
      BY <1>5, <3>2
  <2>7. Q.isFile = \E k \in 1 .. 0 : MakesFile(f[1].lines[k])
    <3>1. 1 .. 0 = {} /\ Q.isFile = FALSE
      BY <2>2, <2>3 DEF Alike, Parsers
    <3> QED
      BY <3>1
  <2>8. 0 \in 0 .. Len(f[1].lines) /\ 0 \in 0 .. 2 /\ 0 < 2 /\ 1 - 1 = 0
    BY <2>5
  <2>9. InHeaders(m, whole, f, 1, 0, 0, Q)
    <3>1. Named(f, 1, 0, Q.name, Q.filename) /\ Q.temp = <<>> /\ Q.state = "PARSE_HEADERS"
      BY <1>3, <2>2, <2>3 DEF Alike
    <3>2. Q.parsed = HeadersAt(f, 1) + 3 * 0 + 0
      BY <2>2, <2>3, <2>6
    <3> QED
      BY <2>4, <2>7, <2>8, <3>1, <3>2 DEF InHeaders
  <2> QED
    BY <1>1, <2>5, <2>9 DEF Zone
<1> QED
  BY <1>4, <1>5, <1>7, <1>8

\* Behind a delimiter: the end of the line and the next part, or the epilogue.
LEMMA BehindStep ==
  ASSUME NEW f, WellFormed(f), NEW i, i \in 1 .. Len(f), NEW m, NEW whole, NEW P,
         Behind(m, whole, f, i, P),
         NEW b, NEW last, NEW length, Feeds(whole, f, P, b, last, length), NEW allocated
  PROVE  Zone(m, whole, f, ParseByte(P, b, last, length, allocated))
<1>1. PICK A, R, Q, s, d, n :
        /\ A = Words(f) /\ R = Parse(P, b, last, length, allocated)
        /\ Q = ParseByte(P, b, last, length, allocated) /\ s = Start(f, i + 1) /\ d = D /\ n = Len(f)
  OBVIOUS
<1>2. Q = [R EXCEPT !.parsed = @ + 1]
  BY <1>1 DEF ParseByte
<1>3. /\ Settled(m, whole, f, i, P) /\ Named(f, i, Len(f[i].lines), P.name, P.filename) /\ P.temp = <<>>
      /\ P.state = "DASH3_OR_RETURN2" /\ P.parsed = s + d /\ P \in Parsers(A)
  BY <1>1 DEF Behind, Settled
<1>4. n \in Nat \ {0} /\ i \in 1 .. n
  BY <1>1, PartProperties
<1>5. Layout(f)
  BY EncodeLayout
<1>6. b = Encode(f)[s + d + 1] /\ length = Len(Encode(f))
  BY <1>3 DEF Feeds
<1>7. R = Dash3OrReturn2(P, b, last, length)
  BY <1>1, <1>3 DEF Parse
<1>8. CASE i < n
  <2>1. b = CR
    <3>1. i + 1 \in 1 .. n
      BY <1>4, <1>8
    <3>2. PartIn(f, i + 1)
      BY <1>1, <1>5, <3>1 DEF Layout
    <3> QED
      BY <1>1, <1>6, <3>2 DEF PartIn
  <2>2. R = [P EXCEPT !.state = "EXPECT_FEED2"]
    BY <1>7, <2>1 DEF Dash3OrReturn2, CR, Dash
  <2>3. R \in Parsers(A) /\ R.state = "EXPECT_FEED2" /\ R.parsed = P.parsed /\ Alike(P, R)
    BY <1>3, <2>2, <1>1 DEF Parsers, States, Alike
  <2>4. Q \in Parsers(A) /\ Q.parsed = R.parsed + 1 /\ Q.state = R.state /\ Alike(R, Q)
    BY <1>2, <2>3, Counted
  <2>5. Settled(m, whole, f, i, Q)
    BY <1>1, <1>3, <2>3, <2>4, SettledAlike DEF Alike
  <2>6. AtFeed(m, whole, f, i, Q)
    BY <1>1, <1>3, <1>8, <2>3, <2>4, <2>5 DEF AtFeed, Alike
  <2> QED
    BY <1>1, <2>6 DEF Zone
<1>9. CASE i = n
  <2>1. b = Dash
    BY <1>1, <1>5, <1>6, <1>9 DEF Layout
  <2>2. length = P.parsed + 4
    BY <1>1, <1>3, <1>5, <1>6, <1>9 DEF Layout, Ordered
  <2>3. R = [P EXCEPT !.state = "PARSING_FINISHED"]
    BY <1>7, <2>1, <2>2 DEF Dash3OrReturn2, CR, Dash
  <2>4. R \in Parsers(A) /\ R.state = "PARSING_FINISHED" /\ R.parsed = P.parsed /\ Alike(P, R)
    BY <1>3, <2>3, <1>1 DEF Parsers, States, Alike
  <2>5. Q \in Parsers(A) /\ Q.parsed = R.parsed + 1 /\ Q.state = R.state /\ Alike(R, Q)
    BY <1>2, <2>4, Counted
  <2>6. Settled(m, whole, f, n, Q)
    BY <1>1, <1>3, <1>9, <2>4, <2>5, SettledAlike DEF Alike
  <2>7. Finished(m, whole, f, Q)
    BY <1>1, <2>4, <2>5, <2>6 DEF Finished
  <2> QED
    BY <1>1, <2>7 DEF Zone
<1> QED
  BY <1>4, <1>8, <1>9

\* The line feed behind a delimiter.
LEMMA FeedStep ==
  ASSUME NEW f, WellFormed(f), NEW i, i \in 1 .. Len(f), NEW m, NEW whole, NEW P,
         AtFeed(m, whole, f, i, P),
         NEW b, NEW last, NEW length, Feeds(whole, f, P, b, last, length), NEW allocated
  PROVE  Zone(m, whole, f, ParseByte(P, b, last, length, allocated))
<1>1. PICK A, R, Q, s, d, n, j :
        /\ A = Words(f) /\ R = Parse(P, b, last, length, allocated)
        /\ Q = ParseByte(P, b, last, length, allocated) /\ s = Start(f, j) /\ d = D /\ n = Len(f)
        /\ j = i + 1
  OBVIOUS
<1>2. Q = [R EXCEPT !.parsed = @ + 1]
  BY <1>1 DEF ParseByte
<1>3. /\ Settled(m, whole, f, i, P) /\ Named(f, i, Len(f[i].lines), P.name, P.filename) /\ P.temp = <<>>
      /\ P.state = "EXPECT_FEED2" /\ P.parsed = s + d + 1 /\ P \in Parsers(A) /\ i < n
  BY <1>1 DEF AtFeed, Settled
<1>4. n \in Nat \ {0} /\ i \in 1 .. n /\ j \in 1 .. n /\ j \in 1 .. n + 1 /\ j - 1 = i
  <2>1. n \in Nat \ {0} /\ i \in 1 .. n
    BY <1>1, PartProperties
  <2> QED
    BY <1>1, <1>3, <2>1
<1>5. Layout(f) /\ s \in Int /\ d \in Nat
  <2>1. Layout(f)
    BY EncodeLayout
  <2>2. s \in Int
    BY <1>1, <1>4, <2>1 DEF Layout, Ordered
  <2>3. PICK B : B = {CR, LF, Dash} \cup ToSet(Boundary)
    OBVIOUS
  <2>4. d \in Nat
    BY <1>1, <2>3, DelimiterProperties
  <2> QED
    BY <2>1, <2>2, <2>4
<1>6. b = LF
  <2>1. PartIn(f, j)
    BY <1>1, <1>4, <1>5 DEF Layout
  <2>2. (s + d + 1) + 1 = s + d + 2
    BY <1>5
  <2> QED
    BY <1>1, <1>3, <2>1, <2>2 DEF PartIn, Feeds
<1>7. R = [P EXCEPT !.state = "PARSE_HEADERS", !.isFile = FALSE]
  BY <1>1, <1>3, <1>6 DEF Parse, ExpectFeed2
<1>8. /\ R \in Parsers(A) /\ R.state = "PARSE_HEADERS" /\ ~R.isFile /\ R.parsed = P.parsed
      /\ R.buf = P.buf /\ R.held = P.held /\ R.out = P.out /\ R.name = P.name
      /\ R.filename = P.filename /\ R.temp = P.temp
  BY <1>3, <1>7 DEF Parsers, States
<1>9. Q \in Parsers(A) /\ Q.parsed = R.parsed + 1 /\ Q.state = R.state /\ Alike(R, Q)
  BY <1>2, <1>8, Counted
<1>10. Settled(m, whole, f, j - 1, Q)
  BY <1>1, <1>3, <1>4, <1>8, <1>9, SettledAlike DEF Alike
<1>11. Named(f, j, 0, Q.name, Q.filename)
  <2>1. Named(f, i + 1, 0, P.name, P.filename)
    BY <1>1, <1>3, NamedKnown, Zenon
  <2> QED
    BY <1>1, <1>8, <1>9, <2>1 DEF Alike
<1>12. Q.parsed = HeadersAt(f, j) + 3 * 0 + 0
  <2>1. HeadersAt(f, j) = s + d + 2
    BY <1>1 DEF HeadersAt
  <2>2. (s + d + 1) + 1 = (s + d + 2) + 3 * 0 + 0
    BY <1>5
  <2> QED
    BY <1>3, <1>8, <1>9, <2>1, <2>2
<1>13. Q.isFile = \E k \in 1 .. 0 : MakesFile(f[j].lines[k])
  <2>1. 1 .. 0 = {} /\ Q.isFile = FALSE
    BY <1>8, <1>9 DEF Alike, Parsers
  <2> QED
    BY <2>1
<1>14. 0 \in 0 .. Len(f[j].lines) /\ 0 \in 0 .. 2 /\ 0 < 2
  <2>1. f[j].lines \in Seq(A)
    BY <1>1, <1>4, PartProperties
  <2>2. Len(f[j].lines) \in Nat
    BY <2>1
  <2> QED
    BY <2>2
<1>15. Q.temp = <<>> /\ Q.state = "PARSE_HEADERS"
  BY <1>3, <1>8, <1>9 DEF Alike
<1>16. InHeaders(m, whole, f, j, 0, 0, Q)
  BY <1>10, <1>11, <1>12, <1>13, <1>14, <1>15 DEF InHeaders
<1> QED
  BY <1>1, <1>4, <1>16 DEF Zone

\* b is the symbol r symbols behind header line j of part i.
HeaderSymbol(f, i, j, r, b) ==
  LET n == Len(f[i].lines) IN
  /\ j < n => (r = 0 => b = f[i].lines[j + 1]) /\ (r = 1 => b = CR) /\ (r = 2 => b = LF)
  /\ j = n => (r = 0 => b = CR) /\ (r = 1 => b = LF)

\* The symbols of the header lines, and of the empty line behind them.
LEMMA HeaderText ==
  ASSUME NEW f, WellFormed(f), NEW i, i \in 1 .. Len(f), NEW j, j \in 0 .. Len(f[i].lines),
         NEW r, r \in 0 .. 2, NEW b, b = Encode(f)[HeadersAt(f, i) + 3 * j + r + 1]
  PROVE  HeaderSymbol(f, i, j, r, b)
<1>1. PICK h, n, B : h = HeadersAt(f, i) /\ n = Len(f[i].lines) /\ B = Encode(f)
  OBVIOUS
<1>2. Layout(f)
  BY EncodeLayout
<1>3. h \in Int /\ n \in Nat
  <2>1. f[i].lines \in Seq(Words(f)) /\ Len(f) \in Nat
    BY PartProperties
  <2>2. PICK A : A = {CR, LF, Dash} \cup ToSet(Boundary)
    OBVIOUS
  <2>3. D \in Nat
    BY <2>2, DelimiterProperties
  <2>4. i \in 1 .. Len(f) + 1
    BY <2>1
  <2>5. Start(f, i) \in Int
    BY <1>2, <2>4 DEF Layout, Ordered
  <2>6. h \in Int
    BY <1>1, <2>3, <2>5 DEF HeadersAt
  <2>7. n \in Nat
    BY <1>1, <2>1
  <2> QED
    BY <2>6, <2>7
<1>4. j \in Nat /\ j <= n /\ r \in Nat
  BY <1>1, <1>3
<1>5. PartIn(f, i)
  BY <1>2 DEF Layout
<1>6. /\ \A k \in 1 .. n : /\ B[h + 3 * (k - 1) + 1] = f[i].lines[k]
                           /\ B[h + 3 * (k - 1) + 2] = CR
                           /\ B[h + 3 * (k - 1) + 3] = LF
      /\ B[h + 3 * n + 1] = CR /\ B[h + 3 * n + 2] = LF
  BY <1>1, <1>5 DEF PartIn
<1>7. ASSUME j < n
      PROVE  /\ r = 0 => b = f[i].lines[j + 1]
             /\ r = 1 => b = CR
             /\ r = 2 => b = LF
  <2>1. j + 1 \in 1 .. n /\ (j + 1) - 1 = j
    BY <1>3, <1>4, <1>7
  <2>2. h + 3 * j + 0 + 1 = h + 3 * j + 1 /\ h + 3 * j + 1 + 1 = h + 3 * j + 2 /\ h + 3 * j + 2 + 1 = h + 3 * j + 3
    BY <1>3, <1>4
  <2>3. B[h + 3 * j + 1] = f[i].lines[j + 1] /\ B[h + 3 * j + 2] = CR /\ B[h + 3 * j + 3] = LF
    BY <1>6, <2>1
  <2>4. b = B[h + 3 * j + r + 1]
    BY <1>1
  <2> QED
    BY <2>2, <2>3, <2>4
<1>8. ASSUME j = n PROVE (r = 0 => b = CR) /\ (r = 1 => b = LF)
  <2>1. h + 3 * n + 0 + 1 = h + 3 * n + 1 /\ h + 3 * n + 1 + 1 = h + 3 * n + 2
    BY <1>3, <1>4
  <2> QED
    BY <1>1, <1>6, <1>8, <2>1
<1> QED
  BY <1>1, <1>7, <1>8 DEF HeaderSymbol

\* The empty line behind the headers begins the item, if there is memory for it.
ItemBegun(m, whole, f, i, P, R) ==
  \/ Data(m, whole, f, i, 0, R) /\ R.state = "WAIT_FOR_RETURN1" /\ R.parsed = P.parsed
  \/ GaveUp(m, whole, f, R)

\* The empty line begins an item, or the parser gives up for want of memory.
LEMMA ItemBegins ==
  ASSUME NEW f, WellFormed(f), NEW i, i \in 1 .. Len(f), NEW m, NEW whole, NEW P,
         Settled(m, whole, f, i - 1, P), Named(f, i, Len(f[i].lines), P.name, P.filename),
         P.temp = <<>>, P.isFile = f[i].file, NEW allocated
  PROVE  ItemBegun(m, whole, f, i, P, StartItem(P, allocated))
<1>1. PICK A, c, Q : A = Words(f) /\ c = f[i].content
                     /\ Q = [P EXCEPT !.state = "WAIT_FOR_RETURN1", !.size = 0, !.value = <<>>]
  OBVIOUS
<1>2. /\ P \in Parsers(A) /\ P.buf = <<>> /\ ~P.held
      /\ whole => AllTold(m, P.out) = SaidUpto(m, f, i - 1) /\ Joined(m, P.out, 0)
  BY <1>1 DEF Settled
<1>3. P.isFile \in BOOLEAN /\ P.held \in BOOLEAN /\ P.out \in Seq(Items(A))
  BY <1>2 DEF Parsers
<1>4. /\ Q \in Parsers(A) /\ Q.state = "WAIT_FOR_RETURN1" /\ Q.size = 0 /\ Q.value = <<>>
      /\ Q.parsed = P.parsed /\ Q.buf = P.buf /\ Q.held = P.held /\ Q.out = P.out /\ Q.name = P.name
      /\ Q.filename = P.filename /\ Q.temp = P.temp /\ Q.isFile = P.isFile
  <2>1. <<>> \in Seq(A)
    OBVIOUS
  <2> QED
    BY <1>1, <1>2, <2>1 DEF Parsers, States
<1>5. ASSUME NEW R, R \in Parsers(A), R.size = 0, R.value = <<>>, R.buf = <<>>, R.held = f[i].file,
             R.out = P.out, R.name = P.name, R.filename = P.filename, R.temp = <<>>, R.isFile = P.isFile
      PROVE  Data(m, whole, f, i, 0, R)
  <2>1. Len(R.buf) = 0 /\ 0 < ChunkSize
    BY <1>5, ChunkAssumption
  <2>2. c \in Seq(A) /\ 0 \in 0 .. Len(c)
    <3>1. c \in Seq(A)
      BY <1>1, PartProperties
    <3> QED
      BY <3>1
  <2>3. ASSUME whole PROVE Kept(m, f, i, 0, R)
    <3>1. 0 - Len(R.buf) = 0 /\ 0 + 1 = 1
      BY <2>1
    <3>2. SubSeq(c, 1, 0) = <<>>
      BY <2>2, BeginningEnds
    <3>3. Begun(m, f[i], 0) = <<>>
      BY DEF Begun
    <3>4. AllTold(m, R.out) = SaidUpto(m, f, i - 1) /\ Joined(m, R.out, 0)
      BY <1>2, <1>5, <2>3
    <3>5. SaidUpto(m, f, i - 1) \o <<>> = SaidUpto(m, f, i - 1)
      <4>1. i - 1 \in 0 .. Len(f)
        BY PartProperties
      <4>2. SaidUpto(m, f, i - 1) \in Seq(Words(f))
        BY <4>1, SaidProperties
      <4> QED
        BY <4>2
    <3> QED
      BY <1>1, <1>5, <3>1, <3>2, <3>3, <3>4, <3>5 DEF Kept
  <2> QED
    BY <1>1, <1>5, <2>1, <2>2, <2>3 DEF Data
<1>6. CASE ~P.isFile
  <2>1. StartItem(P, allocated) = Q
    BY <1>1, <1>6 DEF StartItem
  <2>2. Q.held = f[i].file
    BY <1>2, <1>3, <1>4, <1>6
  <2>3. Data(m, whole, f, i, 0, Q)
    BY <1>2, <1>4, <1>5, <2>2
  <2> QED
    BY <1>4, <2>1, <2>3 DEF ItemBegun
<1>7. CASE P.isFile /\ allocated
  <2>1. PICK R : R = [Q EXCEPT !.held = TRUE, !.buf = <<>>]
    OBVIOUS
  <2>2. StartItem(P, allocated) = R
    BY <1>1, <1>7, <2>1 DEF StartItem
  <2>3. /\ R \in Parsers(A) /\ R.held = TRUE /\ R.buf = <<>>
        /\ R.state = Q.state /\ R.size = Q.size /\ R.value = Q.value /\ R.parsed = Q.parsed /\ R.out = Q.out
        /\ R.name = Q.name /\ R.filename = Q.filename /\ R.temp = Q.temp /\ R.isFile = Q.isFile
    <3>1. <<>> \in Seq(A)
      OBVIOUS
    <3> QED
      BY <1>4, <2>1, <3>1 DEF Parsers
  <2>4. Data(m, whole, f, i, 0, R)
    <3>1. R.held = f[i].file
      BY <1>3, <1>7, <2>3
    <3> QED
      BY <1>2, <1>4, <1>5, <2>3, <3>1
  <2> QED
    BY <1>4, <2>2, <2>3, <2>4 DEF ItemBegun
<1>8. CASE P.isFile /\ ~allocated
  <2>1. PICK R : R = [[Q EXCEPT !.held = FALSE] EXCEPT !.state = "PARSE_ERROR"]
    OBVIOUS
  <2>2. StartItem(P, allocated) = R
    BY <1>1, <1>8, <2>1 DEF StartItem, Error
  <2>3. /\ R \in Parsers(A) /\ ~R.held /\ R.buf = Q.buf /\ R.state = "PARSE_ERROR" /\ R.size = Q.size
        /\ R.out = Q.out /\ R.isFile = Q.isFile
    BY <1>4, <2>1 DEF Parsers, States
  <2>4. ASSUME whole PROVE IsPrefix(AllTold(m, R.out), AllSaid(m, f)) /\ Joined(m, R.out, 0)
    <3>1. AllTold(m, R.out) = SaidUpto(m, f, i - 1) /\ Joined(m, R.out, 0)
      BY <1>2, <1>4, <2>3, <2>4
    <3>2. i - 1 \in 0 .. Len(f)
      BY PartProperties
    <3> QED
      BY <3>1, <3>2, SaidPrefix
  <2>5. GaveUp(m, whole, f, R)
    BY <1>1, <1>2, <1>4, <1>8, <2>3, <2>4 DEF GaveUp
  <2> QED
    BY <2>2, <2>5 DEF ItemBegun
<1> QED
  BY <1>6, <1>7, <1>8

\* A complete header line tells what its text says.
LEMMA HeaderTaken ==
  ASSUME NEW f, NEW P, P \in Parsers(Words(f)), NEW l, l \in DOMAIN Headers, NEW h, h = Headers[l],
         NEW R, R = TakeHeader(P, l)
  PROVE  /\ R \in Parsers(Words(f)) /\ R.temp = <<>>
         /\ R.name = (IF h.name # None THEN h.name ELSE P.name)
         /\ R.filename = (IF h.filename # None THEN h.filename ELSE P.filename)
         /\ R.isFile = (P.isFile \/ MakesFile(l))
         /\ R.state = P.state /\ R.parsed = P.parsed /\ R.buf = P.buf /\ R.held = P.held /\ R.out = P.out
<1>1. PICK x, y, z :
        /\ x = IF h.name # None THEN h.name ELSE P.name
        /\ y = IF h.filename # None THEN h.filename ELSE P.filename
        /\ z = (P.isFile \/ h.type \/ h.filename # None)
  OBVIOUS
<1>2. P.name \in Words(f) /\ P.filename \in Words(f) /\ P.isFile \in BOOLEAN
  BY DEF Parsers
<1>3. h.name \in Words(f) /\ h.filename \in Words(f)
  BY WordsProperties
<1>4. x \in Words(f) /\ y \in Words(f) /\ z \in BOOLEAN /\ <<>> \in Seq(Words(f))
  BY <1>1, <1>2, <1>3
<1>5. R = [P EXCEPT !.name = x, !.filename = y, !.isFile = z, !.temp = <<>>]
  BY <1>1 DEF TakeHeader
<1>6. R \in Parsers(Words(f)) /\ R.temp = <<>> /\ R.name = x /\ R.filename = y /\ R.isFile = z
      /\ R.state = P.state /\ R.parsed = P.parsed /\ R.buf = P.buf /\ R.held = P.held /\ R.out = P.out
  BY <1>4, <1>5 DEF Parsers
<1> QED
  BY <1>1, <1>6 DEF MakesFile

\* The next byte of the headers of a part.
LEMMA HeadersStep ==
  ASSUME NEW f, WellFormed(f), NEW i, i \in 1 .. Len(f), NEW m, NEW whole, NEW j, NEW r, NEW P,
         InHeaders(m, whole, f, i, j, r, P),
         NEW b, NEW last, NEW length, Feeds(whole, f, P, b, last, length), NEW allocated
  PROVE  Zone(m, whole, f, ParseByte(P, b, last, length, allocated))
<1>1. PICK A, R, Q, lines, n, h :
        /\ A = Words(f) /\ R = Parse(P, b, last, length, allocated)
        /\ Q = ParseByte(P, b, last, length, allocated)
        /\ lines = f[i].lines /\ n = Len(lines) /\ h = HeadersAt(f, i)
  OBVIOUS
<1>2. Q = [R EXCEPT !.parsed = @ + 1]
  BY <1>1 DEF ParseByte
<1>3. /\ Settled(m, whole, f, i - 1, P) /\ Named(f, i, j, P.name, P.filename)
      /\ j \in 0 .. n /\ r \in 0 .. 2 /\ (j = n => r < 2)
      /\ P.temp = IF r = 0 \/ j = n THEN <<>> ELSE <<lines[j + 1]>>
      /\ P.isFile = \E k \in 1 .. j : MakesFile(lines[k])
      /\ P.state = "PARSE_HEADERS" /\ P.parsed = h + 3 * j + r
  BY <1>1 DEF InHeaders
<1>4. P \in Parsers(A)
  BY <1>1, <1>3 DEF Settled
<1>5. lines \in Seq(A) /\ lines \in Seq(DOMAIN Headers) /\ n \in Nat
  <2>1. lines \in Seq(A) /\ lines \in Seq(DOMAIN Headers)
    BY <1>1, PartProperties
  <2> QED
    BY <1>1, <2>1
<1>6. j \in Nat /\ j <= n /\ r \in Nat /\ (r = 0 \/ r = 1 \/ r = 2)
  BY <1>3, <1>5
<1>7. h \in Int
  <2>1. P.parsed \in Nat
    BY <1>4 DEF Parsers
  <2>2. PICK A2 : A2 = {CR, LF, Dash} \cup ToSet(Boundary)
    OBVIOUS
  <2>3. D \in Nat
    BY <2>2, DelimiterProperties
  <2>4. i \in 1 .. Len(f) + 1
    BY PartProperties
  <2>5. Start(f, i) \in Int
    BY <2>4, EncodeLayout DEF Layout, Ordered
  <2> QED
    BY <1>1, <2>3, <2>5 DEF HeadersAt
<1>8. /\ j < n => (r = 0 => b = lines[j + 1]) /\ (r = 1 => b = CR) /\ (r = 2 => b = LF)
      /\ j = n => (r = 0 => b = CR) /\ (r = 1 => b = LF)
  <2>1. b = Encode(f)[h + 3 * j + r + 1]
    BY <1>3 DEF Feeds
  <2>2. HeaderSymbol(f, i, j, r, b)
    <3>1. j \in 0 .. Len(f[i].lines) /\ r \in 0 .. 2
      BY <1>1, <1>3
    <3>2. b = Encode(f)[HeadersAt(f, i) + 3 * j + r + 1]
      BY <1>1, <2>1
    <3> QED
      BY <3>1, <3>2, HeaderText, Zenon
  <2> QED
    BY <1>1, <2>2 DEF HeaderSymbol
<1>9. R = ParseHeaders(P, b, allocated)
  BY <1>1, <1>3 DEF Parse
<1>10. ASSUME j < n PROVE lines[j + 1] \in DOMAIN Headers /\ lines[j + 1] \in A
  <2>1. j + 1 \in 1 .. n
    BY <1>5, <1>6, <1>10
  <2> QED
    BY <1>1, <1>5, <2>1
\* One symbol further in the same line
<1>11. ASSUME R \in Parsers(A), R.temp = IF j = n THEN <<>> ELSE <<lines[j + 1]>>, R.state = P.state, R.parsed = P.parsed, R.buf = P.buf,
              R.held = P.held, R.out = P.out, R.name = P.name, R.filename = P.filename, R.isFile = P.isFile,
              r + 1 \in 0 .. 2, j = n => r + 1 < 2
       PROVE  Zone(m, whole, f, Q)
  <2>1. Q \in Parsers(A) /\ Q.parsed = R.parsed + 1 /\ Q.state = R.state /\ Alike(R, Q)
    BY <1>2, <1>11, Counted
  <2>2. Settled(m, whole, f, i - 1, Q)
    BY <1>1, <1>3, <1>11, <2>1, SettledAlike DEF Alike
  <2>3. Q.parsed = h + 3 * j + (r + 1)
    <3>1. (h + 3 * j + r) + 1 = h + 3 * j + (r + 1)
      BY <1>6, <1>7
    <3> QED
      BY <1>3, <1>11, <2>1, <3>1
  <2>4. Q.temp = IF r + 1 = 0 \/ j = n THEN <<>> ELSE <<lines[j + 1]>>
    <3>1. r + 1 # 0
      BY <1>6
    <3> QED
      BY <1>11, <2>1, <3>1 DEF Alike
  <2>5. /\ Named(f, i, j, Q.name, Q.filename) /\ Q.state = "PARSE_HEADERS"
        /\ Q.isFile = \E k \in 1 .. j : MakesFile(lines[k])
    BY <1>3, <1>11, <2>1 DEF Alike
  <2>6. InHeaders(m, whole, f, i, j, r + 1, Q)
    BY <1>1, <1>3, <1>11, <2>2, <2>3, <2>4, <2>5 DEF InHeaders
  <2> QED
    BY <2>6 DEF Zone
<1>12. CASE j < n /\ r = 0
  <2>1. b = lines[j + 1] /\ b \in DOMAIN Headers /\ b \in A /\ P.temp = <<>>
    BY <1>3, <1>8, <1>10, <1>12
  <2>2. b # CR /\ b # LF
    BY <2>1, HeadersAssumption
  <2>3. Append(P.temp, b) = <<b>> /\ <<b>> \in Seq(A)
    BY <2>1, AppendToNone
  <2>4. R = [P EXCEPT !.temp = <<b>>]
    BY <1>9, <2>2, <2>3 DEF ParseHeaders
  <2>5. /\ R \in Parsers(A) /\ R.temp = <<b>> /\ R.state = P.state /\ R.parsed = P.parsed /\ R.buf = P.buf
        /\ R.held = P.held /\ R.out = P.out /\ R.name = P.name /\ R.filename = P.filename
        /\ R.isFile = P.isFile
    BY <1>4, <2>3, <2>4 DEF Parsers
  <2>6. r + 1 \in 0 .. 2 /\ j # n /\ (j = n => r + 1 < 2)
    BY <1>6, <1>12
  <2>7. R.temp = IF j = n THEN <<>> ELSE <<lines[j + 1]>>
    BY <2>1, <2>5, <2>6
  <2> QED
    BY <1>1, <1>11, <2>5, <2>6, <2>7
<1>13. CASE (j < n /\ r = 1) \/ (j = n /\ r = 0)
  <2>1. b = CR
    BY <1>8, <1>13
  <2>2. R = P
    BY <1>9, <2>1 DEF ParseHeaders
  <2>3. P.temp = IF j = n THEN <<>> ELSE <<lines[j + 1]>>
    BY <1>3, <1>6, <1>13
  <2>4. r + 1 \in 0 .. 2 /\ (j = n => r + 1 < 2)
    BY <1>6, <1>13
  <2>5. R \in Parsers(A) /\ R.temp = IF j = n THEN <<>> ELSE <<lines[j + 1]>>
    BY <1>4, <2>2, <2>3
  <2> QED
    BY <1>1, <1>11, <2>2, <2>4, <2>5
<1>14. CASE j < n /\ r = 2
  <2>1. PICK l : l = lines[j + 1]
    OBVIOUS
  <2>2. b = LF /\ P.temp = <<l>> /\ l \in DOMAIN Headers
    <3>1. r # 0 /\ j # n
      BY <1>6, <1>14
    <3> QED
      BY <1>3, <1>8, <1>10, <1>14, <2>1, <3>1
  <2>3. R = TakeHeader(P, l)
    <3>1. <<l>> # <<>> /\ <<l>>[1] = l
      OBVIOUS
    <3> QED
      BY <1>9, <2>2, <3>1 DEF ParseHeaders, CR, LF
  <2>4. PICK hd : hd = Headers[l]
    OBVIOUS
  <2>5. /\ R \in Parsers(A) /\ R.temp = <<>>
        /\ R.name = (IF hd.name # None THEN hd.name ELSE P.name)
        /\ R.filename = (IF hd.filename # None THEN hd.filename ELSE P.filename)
        /\ R.isFile = (P.isFile \/ MakesFile(l))
        /\ R.state = P.state /\ R.parsed = P.parsed /\ R.buf = P.buf /\ R.held = P.held /\ R.out = P.out
    BY <1>1, <1>4, <2>2, <2>3, <2>4, HeaderTaken
  <2>6. Q \in Parsers(A) /\ Q.parsed = R.parsed + 1 /\ Q.state = R.state /\ Alike(R, Q)
    BY <1>2, <2>5, Counted
  <2>7. Settled(m, whole, f, i - 1, Q)
    BY <1>1, <1>3, <2>5, <2>6, SettledAlike DEF Alike
  <2>8. Named(f, i, j + 1, Q.name, Q.filename)
    <3>1. j \in 0 .. Len(f[i].lines) - 1 /\ hd = Headers[f[i].lines[j + 1]]
      BY <1>1, <1>5, <1>6, <1>14, <2>1, <2>4
    <3>2. PICK x, y : x = P.name /\ y = P.filename
      OBVIOUS
    <3>3. Named(f, i, j + 1, IF hd.name # None THEN hd.name ELSE x,
                             IF hd.filename # None THEN hd.filename ELSE y)
      BY <1>3, <3>1, <3>2, NamedMore, SMTT(30)
    <3> QED
      BY <2>5, <2>6, <3>2, <3>3 DEF Alike
  <2>9. Q.parsed = h + 3 * (j + 1) + 0
    <3>1. (h + 3 * j + 2) + 1 = h + 3 * (j + 1) + 0
      BY <1>6, <1>7
    <3> QED
      BY <1>3, <1>14, <2>5, <2>6, <3>1
  <2>10. Q.isFile = \E k \in 1 .. j + 1 : MakesFile(lines[k])
    <3>1. 1 .. j + 1 = (1 .. j) \cup {j + 1}
      BY <1>6
    <3>2. (\E k \in 1 .. j + 1 : MakesFile(lines[k]))
            <=> ((\E k \in 1 .. j : MakesFile(lines[k])) \/ MakesFile(l))
      BY <2>1, <3>1
    <3>3. Q.isFile = (P.isFile \/ MakesFile(l)) /\ Q.isFile \in BOOLEAN
      BY <2>5, <2>6 DEF Alike, Parsers
    <3> QED
      BY <1>3, <3>2, <3>3
  <2>11. j + 1 \in 0 .. n /\ 0 \in 0 .. 2 /\ 0 < 2
    BY <1>5, <1>6, <1>14
  <2>12. Q.temp = <<>> /\ Q.state = "PARSE_HEADERS"
    BY <1>3, <2>5, <2>6 DEF Alike
  <2>13. InHeaders(m, whole, f, i, j + 1, 0, Q)
    BY <1>1, <2>7, <2>8, <2>9, <2>10, <2>11, <2>12 DEF InHeaders
  <2> QED
    BY <1>1, <2>13 DEF Zone
<1>15. CASE j = n /\ r = 1
  <2>1. b = LF /\ P.temp = <<>>
    BY <1>3, <1>8, <1>15
  <2>2. R = StartItem(P, allocated)
    BY <1>9, <2>1 DEF ParseHeaders, CR, LF
  <2>3. P.isFile = f[i].file
    <3>1. f[i].file = \E k \in 1 .. Len(f[i].lines) : MakesFile(f[i].lines[k])
      BY DEF WellFormed
    <3> QED
      BY <1>1, <1>3, <1>15, <3>1
  <2>4. ItemBegun(m, whole, f, i, P, R)
    BY <1>1, <1>3, <1>15, <2>1, <2>2, <2>3, ItemBegins
  <2>5. CASE Data(m, whole, f, i, 0, R) /\ R.state = "WAIT_FOR_RETURN1" /\ R.parsed = P.parsed
    <3>1. R \in Parsers(A)
      BY <1>1, <2>5 DEF Data
    <3>2. Q \in Parsers(A) /\ Q.parsed = R.parsed + 1 /\ Q.state = R.state /\ Alike(R, Q)
      BY <1>2, <3>1, Counted
    <3>3. Data(m, whole, f, i, 0, Q)
      BY <1>1, <2>5, <3>2, DataAlike
    <3>4. Guess(A, Q, 0) /\ Guessed(f, i, 0, 0)
      <4>1. PICK A2 : A2 = {CR, LF, Dash} \cup ToSet(Boundary)
        OBVIOUS
      <4>2. D \in Nat /\ D # 0
        <5>1. PICK k \in Nat : D = 4 + k
          BY <4>1, DelimiterProperties
        <5> QED
          BY <5>1
      <4>3. f[i].content \in Seq(A)
        BY <1>1, PartProperties
      <4>4. PICK c \in Nat : c = Len(f[i].content)
        BY <4>3
      <4>5. 0 \in 0 .. D - 1 /\ 0 \in 0 .. D /\ 0 \in 0 .. c /\ 1 .. 0 = {} /\ ~(0 >= 4)
        BY <4>2, <4>4
      <4>6. Guess(A, Q, 0)
        BY <2>5, <3>2, <4>5 DEF Guess, GuessState
      <4>7. Guessed(f, i, 0, 0)
        BY <4>4, <4>5 DEF Guessed
      <4> QED
        BY <4>6, <4>7
    <3>5. Q.parsed = ContentAt(f, i) + 0 + 0
      <4>1. ContentAt(f, i) = h + 3 * n + 2
        BY <1>1 DEF ContentAt
      <4>2. (h + 3 * n + 1) + 1 = (h + 3 * n + 2) + 0 + 0
        BY <1>5, <1>7
      <4> QED
        BY <1>3, <1>15, <2>5, <3>2, <4>1, <4>2
    <3>6. InContent(m, whole, f, i, 0, 0, Q)
      BY <1>1, <3>3, <3>4, <3>5 DEF InContent
    <3> QED
      BY <1>1, <3>6 DEF Zone
  <2>6. CASE GaveUp(m, whole, f, R)
    <3>1. R \in Parsers(A)
      BY <1>1, <2>6 DEF GaveUp
    <3>2. Q \in Parsers(A) /\ Q.state = R.state /\ Alike(R, Q)
      BY <1>2, <3>1, Counted
    <3>3. GaveUp(m, whole, f, Q)
      BY <1>1, <2>6, <3>2 DEF GaveUp, Alike
    <3> QED
      BY <1>1, <3>3 DEF Zone
  <2> QED
    BY <2>4, <2>5, <2>6 DEF ItemBegun
<1>16. j < n \/ j = n
  BY <1>5, <1>6
<1>17. j = n => r # 2
  BY <1>3, <1>6
<1> QED
  BY <1>6, <1>12, <1>13, <1>14, <1>15, <1>16, <1>17

\* Behind the form, and when it has given up, the parser does nothing more.
LEMMA RestStep ==
  ASSUME NEW f, NEW m, NEW whole, NEW P, Finished(m, whole, f, P) \/ GaveUp(m, whole, f, P),
         NEW b, NEW last, NEW length, NEW allocated
  PROVE  Zone(m, whole, f, ParseByte(P, b, last, length, allocated))
<1>1. PICK A, R, Q : A = Words(f) /\ R = Parse(P, b, last, length, allocated)
                     /\ Q = ParseByte(P, b, last, length, allocated)
  OBVIOUS
<1>2. Q = [R EXCEPT !.parsed = @ + 1]
  BY <1>1 DEF ParseByte
<1>3. CASE Finished(m, whole, f, P)
  <2>1. Settled(m, whole, f, Len(f), P) /\ P.state = "PARSING_FINISHED" /\ P \in Parsers(A)
    BY <1>1, <1>3 DEF Finished, Settled
  <2>2. R = P
    BY <1>1, <2>1 DEF Parse
  <2>3. Q \in Parsers(A) /\ Q.state = P.state /\ Alike(P, Q)
    BY <1>2, <2>1, <2>2, Counted
  <2>4. Settled(m, whole, f, Len(f), Q)
    BY <1>1, <2>1, <2>3, SettledAlike DEF Alike
  <2>5. Finished(m, whole, f, Q)
    BY <2>1, <2>3, <2>4 DEF Finished
  <2> QED
    BY <1>1, <2>5 DEF Zone
<1>4. CASE GaveUp(m, whole, f, P)
  <2>1. P \in Parsers(A) /\ P.state = "PARSE_ERROR"
    BY <1>1, <1>4 DEF GaveUp
  <2>2. R = [P EXCEPT !.held = FALSE]
    BY <1>1, <2>1 DEF Parse
  <2>3. /\ R \in Parsers(A) /\ ~R.held /\ R.buf = P.buf /\ R.out = P.out /\ R.state = P.state
        /\ R.isFile = P.isFile /\ R.size = P.size
    BY <2>1, <2>2 DEF Parsers
  <2>4. Q \in Parsers(A) /\ Q.state = R.state /\ Alike(R, Q)
    BY <1>2, <2>3, Counted
  <2>5. GaveUp(m, whole, f, Q)
    BY <1>1, <1>4, <2>3, <2>4 DEF GaveUp, Alike
  <2> QED
    BY <1>1, <2>5 DEF Zone
<1> QED
  BY <1>3, <1>4

\* The next byte of the body takes the parser from its zone to a zone.
LEMMA ZoneStep ==
  ASSUME NEW f, WellFormed(f), NEW m, NEW whole, NEW P, Zone(m, whole, f, P),
         NEW b, NEW last, NEW length, Feeds(whole, f, P, b, last, length), NEW allocated
  PROVE  Zone(m, whole, f, ParseByte(P, b, last, length, allocated))
<1>1. CASE FirstLine(m, whole, f, P)
  BY <1>1, FirstLineStep, Zenon
<1>2. ASSUME NEW i \in 1 .. Len(f), NEW j, NEW r, InHeaders(m, whole, f, i, j, r, P)
      PROVE  Zone(m, whole, f, ParseByte(P, b, last, length, allocated))
  BY <1>2, HeadersStep, Zenon
<1>3. ASSUME NEW i \in 1 .. Len(f), NEW w, NEW g, InContent(m, whole, f, i, w, g, P)
      PROVE  Zone(m, whole, f, ParseByte(P, b, last, length, allocated))
  <2>1. ContentGoesOn(m, whole, f, i, ParseByte(P, b, last, length, allocated))
    BY <1>3, ContentStep, Zenon
  <2> QED
    BY <2>1, Zenon DEF ContentGoesOn, Zone
<1>4. ASSUME NEW i \in 1 .. Len(f), Behind(m, whole, f, i, P)
      PROVE  Zone(m, whole, f, ParseByte(P, b, last, length, allocated))
  BY <1>4, BehindStep, Zenon
<1>5. ASSUME NEW i \in 1 .. Len(f), AtFeed(m, whole, f, i, P)
      PROVE  Zone(m, whole, f, ParseByte(P, b, last, length, allocated))
  BY <1>5, FeedStep, Zenon
<1>6. CASE Finished(m, whole, f, P) \/ GaveUp(m, whole, f, P)
  BY <1>6, RestStep, Zenon
<1> QED
  BY <1>1, <1>2, <1>3, <1>4, <1>5, <1>6, Zenon DEF Zone

-----------------------------------------------------------------------------
(* What each zone says of the parser.                                      *)

ContentStates ==
  {"WAIT_FOR_RETURN1", "EXPECT_FEED1", "EXPECT_DASH1", "EXPECT_DASH2", "BOUNDARY_OR_DATA"}

\* What has been handed on is right so far.
HeardSoFar(m, f, P) ==
  /\ IsPrefix(AllTold(m, P.out), AllSaid(m, f)) /\ PiecesOk(m, P.out)
  /\ P.state = "PARSING_FINISHED" => AllTold(m, P.out) = AllSaid(m, f)

Sound(m, whole, f, P) ==
  /\ Len(P.buf) < ChunkSize
  /\ whole => HeardSoFar(m, f, P)
  /\ P.state = "PARSE_ERROR" => P.isFile /\ P.size = 0
  /\ P.parsed = Len(Encode(f)) => P.state \in {"PARSING_FINISHED", "PARSE_ERROR"} /\ ~P.held
  /\ P.isFile /\ P.state \in ContentStates => P.held

\* The first byte of the body of f behind every zone but the last two
LEMMA Boundaries ==
  ASSUME NEW f, WellFormed(f)
  PROVE  \E d, e : /\ d = D /\ e = Len(Encode(f)) /\ d \in Nat /\ d >= 5 /\ e \in Nat /\ d < e
                   /\ \A i \in 1 .. Len(f) :
                        /\ Start(f, i + 1) \in Int /\ Start(f, i + 1) + d + 1 < e
                        /\ ContentAt(f, i) + Len(f[i].content) = Start(f, i + 1)
                        /\ HeadersAt(f, i) + 3 * Len(f[i].lines) + 2 = ContentAt(f, i)
                        /\ ContentAt(f, i) \in Int /\ HeadersAt(f, i) \in Int
                        /\ Len(f[i].lines) \in Nat /\ Len(f[i].content) \in Nat
<1>1. Ordered(f)
  BY EncodeLayout DEF Layout
<1>2. PICK A : A = {CR, LF, Dash} \cup ToSet(Boundary)
  OBVIOUS
<1>3. PICK n \in Nat : D = 4 + n /\ n # 0
  BY <1>2, DelimiterProperties
<1>4. PICK d \in Nat, z \in Int, l \in Nat : d = D /\ z = Start(f, Len(f) + 1) /\ l = Len(f) /\ d >= 5 /\ l # 0
  <2>1. Len(f) \in Nat \ {0}
    BY PartProperties
  <2>2. Len(f) + 1 \in 1 .. Len(f) + 1
    BY <2>1
  <2>3. Start(f, Len(f) + 1) \in Int
    BY <1>1, <2>2 DEF Ordered
  <2>4. D \in Nat /\ D >= 5
    BY <1>3
  <2> QED
    BY <2>1, <2>3, <2>4
<1>5. z >= -2
  <2>1. Start(f, 1) = -2 /\ 1 \in 1 .. l + 1
    BY <1>1, <1>4 DEF Ordered
  <2> QED
    BY <1>1, <1>4, <2>1 DEF Ordered
<1>6. PICK e : e = Len(Encode(f)) /\ e = z + d + 4
  BY <1>1, <1>4 DEF Ordered
<1>7. e \in Nat /\ d < e
  BY <1>4, <1>5, <1>6
<1>8. ASSUME NEW i \in 1 .. Len(f)
      PROVE  /\ Start(f, i + 1) \in Int /\ Start(f, i + 1) + d + 1 < e
             /\ ContentAt(f, i) + Len(f[i].content) = Start(f, i + 1)
             /\ HeadersAt(f, i) + 3 * Len(f[i].lines) + 2 = ContentAt(f, i)
             /\ ContentAt(f, i) \in Int /\ HeadersAt(f, i) \in Int
             /\ Len(f[i].lines) \in Nat /\ Len(f[i].content) \in Nat
  <2>1. i + 1 \in 1 .. l + 1 /\ i \in 1 .. l + 1
    BY <1>4
  <2>2. PICK s \in Int, t \in Int : s = Start(f, i + 1) /\ t = Start(f, i) /\ s <= z
    BY <1>1, <1>4, <2>1 DEF Ordered
  <2>3. s + d + 1 < e
    BY <1>4, <1>6, <2>2
  <2>4. f[i].lines \in Seq(Words(f)) /\ f[i].content \in Seq(Words(f))
    BY PartProperties
  <2>5. PICK k \in Nat, c \in Nat : k = Len(f[i].lines) /\ c = Len(f[i].content)
    BY <2>4
  <2>6. HeadersAt(f, i) = t + d + 2 /\ ContentAt(f, i) = HeadersAt(f, i) + 3 * k + 2
    BY <1>4, <2>2, <2>5 DEF HeadersAt, ContentAt
  <2>7. t + d + 2 \in Int /\ (t + d + 2) + 3 * k + 2 \in Int
    BY <1>4
  <2>8. ContentAt(f, i) + c = s
    BY <1>1, <2>2, <2>5 DEF Ordered
  <2> QED
    BY <2>2, <2>3, <2>5, <2>6, <2>7, <2>8
<1> QED
  BY <1>4, <1>6, <1>7, <1>8

\* Between two items the parser is sound.
LEMMA SettledSound ==
  ASSUME NEW f, WellFormed(f), NEW m, NEW whole, NEW k, k \in 0 .. Len(f), NEW P, Settled(m, whole, f, k, P),
         P.state \notin ContentStates, P.state # "PARSE_ERROR",
         P.state = "PARSING_FINISHED" => k = Len(f),
         P.parsed = Len(Encode(f)) => P.state = "PARSING_FINISHED"
  PROVE  Sound(m, whole, f, P)
<1>1. P.buf = <<>> /\ ~P.held /\ (whole => AllTold(m, P.out) = SaidUpto(m, f, k) /\ Joined(m, P.out, 0))
  BY DEF Settled
<1>2. Len(P.buf) < ChunkSize
  BY <1>1, ChunkAssumption
<1>3. ASSUME whole PROVE HeardSoFar(m, f, P)
  <2>1. IsPrefix(SaidUpto(m, f, k), AllSaid(m, f)) /\ AllSaid(m, f) = SaidUpto(m, f, Len(f))
    BY SaidPrefix, SaidProperties
  <2> QED
    BY <1>1, <1>3, <2>1 DEF HeardSoFar, Joined
<1> QED
  BY <1>1, <1>2, <1>3 DEF Sound

\* What has been told of a part is the beginning of what the part says.
LEMMA BegunPrefix ==
  ASSUME NEW f, WellFormed(f), NEW i, i \in 1 .. Len(f), NEW m, NEW u, u \in 0 .. Len(f[i].content), f[i].file
  PROVE  Begun(m, f[i], u) \in Seq(Words(f)) /\ IsPrefix(Begun(m, f[i], u), Said(m, f[i]))
<1>1. PICK A, p, s : A = Words(f) /\ p = f[i] /\ s = Said(m, f[i])
  OBVIOUS
<1>2. PICK c \in Seq(A) : c = p.content
  BY <1>1, PartProperties
<1>3. s \in Seq(A)
  BY <1>1, SaidProperties
<1>4. CASE u = 0 \/ m # "multipart"
  <2>1. Begun(m, p, u) = <<>> /\ <<>> \in Seq(A)
    BY <1>4 DEF Begun
  <2>2. <<>> \o s = s
    BY <1>3
  <2>3. IsPrefix(<<>>, <<>> \o s)
    BY <1>3, <2>1, ConcatPrefix
  <2> QED
    BY <1>1, <2>1, <2>2, <2>3
<1>5. CASE u # 0 /\ m = "multipart"
  <2>1. "upload" \in A /\ "param" \in A /\ "end" \in A /\ p.filename \in A /\ p.name \in A
    BY <1>1, WordsProperties, PartProperties
  <2>2. PICK h \in Seq(A), e \in Seq(A), k \in Seq(A) :
          h = <<"upload", p.filename>> /\ e = <<"end">> /\ k = <<"param", p.name, p.filename>>
    <3>1. <<"upload", p.filename>> \in Seq(A)
      BY <2>1
    <3>2. <<"end">> \in Seq(A)
      BY <2>1
    <3>3. <<"param", p.name, p.filename>> \in Seq(A)
      BY <2>1
    <3> QED
      BY <3>1, <3>2, <3>3
  <2>3. PICK n \in Nat : n = Len(c)
    <3>1. Len(c) \in Nat
      BY <1>2
    <3> QED
      BY <3>1
  <2>4. PICK a, d : a = SubSeq(c, 1, u) /\ d = SubSeq(c, u + 1, n)
    OBVIOUS
  <2>5. a \in Seq(A) /\ a \o d = c
    <3>1. n \in 0 .. Len(c) /\ u \in 0 .. n
      BY <1>1, <1>2, <2>3
    <3>2. a \in Seq(A) /\ a \o d = SubSeq(c, 1, n)
      BY <2>4, <3>1, WindowJoins
    <3>3. SubSeq(c, 1, n) = c
      BY <2>3, BeginningEnds
    <3> QED
      BY <3>2, <3>3
  <2>6. d \in Seq(A)
    <3>1. u \in Nat
      BY <1>1, <1>2, <2>3
    <3> QED
      BY <2>3, <2>4, <3>1
  <2>7. PICK x \in Seq(A), y \in Seq(A), z \in Seq(A) : x = h \o a /\ y = h \o c /\ z = y \o e
    <3>1. h \o a \in Seq(A)
      BY <2>2, <2>5
    <3>2. PICK y \in Seq(A) : y = h \o c
      <4>1. h \o c \in Seq(A)
        BY <1>2, <2>2
      <4> QED
        BY <4>1
    <3>3. y \o e \in Seq(A)
      BY <2>2, <3>2
    <3> QED
      BY <3>1, <3>2, <3>3
  <2>8. s = z \o k
    <3>1. c # <<>>
      <4>1. n # 0
        BY <1>1, <1>2, <1>5, <2>3
      <4> QED
        BY <2>3, <4>1
    <3> QED
      BY <1>1, <1>2, <1>5, <2>2, <2>7, <3>1 DEF Said
  <2>9. Begun(m, p, u) = x
    BY <1>2, <1>5, <2>2, <2>4, <2>7 DEF Begun
  <2>10. IsPrefix(x, y)
    <3>1. IsPrefix(a, a \o d)
      BY <2>5, <2>6, ConcatPrefix
    <3>2. IsPrefix(a, c)
      BY <2>5, <3>1
    <3> QED
      BY <1>2, <2>2, <2>5, <2>7, <3>2, ConcatPrefix
  <2>11. IsPrefix(y, z) /\ IsPrefix(z, z \o k)
    BY <2>2, <2>7, ConcatPrefix
  <2>12. IsPrefix(x, s)
    <3>1. IsPrefix(x, z)
      BY <2>7, <2>10, <2>11, PrefixTransitive
    <3> QED
      BY <1>3, <2>7, <2>8, <2>11, <3>1, PrefixTransitive
  <2> QED
    BY <1>1, <2>7, <2>9, <2>12
<1> QED
  BY <1>4, <1>5

\* In a content the parser is sound.
LEMMA ContentSound ==
  ASSUME NEW f, WellFormed(f), NEW i, i \in 1 .. Len(f), NEW m, NEW whole, NEW w, NEW g, NEW P,
         InContent(m, whole, f, i, w, g, P)
  PROVE  Sound(m, whole, f, P)
<1>1. Data(m, whole, f, i, w, P) /\ Guess(Words(f), P, g) /\ P.parsed = ContentAt(f, i) + w + g
  BY DEF InContent
<1>2. /\ Len(P.buf) < ChunkSize /\ P.isFile = f[i].file /\ P.held = f[i].file
      /\ w \in 0 .. Len(f[i].content) /\ Len(P.buf) <= w /\ P \in Parsers(Words(f))
  BY <1>1 DEF Data
<1>3. P.state = GuessState(g) /\ g \in 0 .. D - 1
  BY <1>1 DEF Guess
<1>4. P.state \in ContentStates /\ P.state # "PARSING_FINISHED" /\ P.state # "PARSE_ERROR"
  BY <1>3 DEF GuessState, ContentStates
<1>5. P.parsed # Len(Encode(f))
  <2>1. PICK d \in Nat, e \in Nat : /\ d = D /\ e = Len(Encode(f))
                    /\ Start(f, i + 1) \in Int /\ Start(f, i + 1) + d + 1 < e
                    /\ ContentAt(f, i) + Len(f[i].content) = Start(f, i + 1)
                    /\ ContentAt(f, i) \in Int /\ Len(f[i].content) \in Nat
    BY Boundaries
  <2>2. PICK o \in Int, c \in Nat : o = ContentAt(f, i) /\ c = Len(f[i].content) /\ o + c + d + 1 < e
    BY <2>1
  <2>3. w \in 0 .. c /\ g \in 0 .. d - 1 /\ P.parsed = o + w + g
    BY <1>1, <1>2, <1>3, <2>1, <2>2
  <2>4. PICK k \in Int : k = o + w + g /\ k < e
    <3>1. o + c + d + 1 < e
      BY <2>2
    <3>2. w \in 0 .. c /\ g \in 0 .. d - 1
      BY <2>3
    <3>3. o + w + g \in Int /\ o + w + g < e
      BY <3>1, <3>2
    <3> QED
      BY <3>3
  <2> QED
    BY <2>1, <2>3, <2>4
<1>6. ASSUME whole PROVE HeardSoFar(m, f, P)
  <2>1. Kept(m, f, i, w, P)
    BY <1>1, <1>6 DEF Data
  <2>2. PiecesOk(m, P.out)
    BY <2>1 DEF Kept, Joined
  <2>3. i - 1 \in 0 .. Len(f) /\ i \in 0 .. Len(f)
    BY PartProperties
  <2>4. IsPrefix(AllTold(m, P.out), AllSaid(m, f))
    <3>1. CASE ~f[i].file
      <4>1. AllTold(m, P.out) = SaidUpto(m, f, i - 1)
        BY <2>1, <3>1 DEF Kept
      <4> QED
        BY <2>3, <4>1, SaidPrefix
    <3>2. CASE f[i].file
      <4>1. PICK A, u, s, b, t, a :
              /\ A = Words(f) /\ u = w - Len(P.buf) /\ s = SaidUpto(m, f, i - 1)
              /\ b = Begun(m, f[i], u) /\ t = Said(m, f[i]) /\ a = AllSaid(m, f)
        OBVIOUS
      <4>2. AllTold(m, P.out) = s \o b
        BY <2>1, <3>2, <4>1 DEF Kept
      <4>3. u \in 0 .. Len(f[i].content)
        <5>1. f[i].content \in Seq(A) /\ P.buf \in Seq(A)
          BY <1>2, <4>1, PartProperties DEF Parsers
        <5>2. PICK c \in Nat, k \in Nat : c = Len(f[i].content) /\ k = Len(P.buf)
          BY <5>1
        <5> QED
          BY <1>2, <4>1, <5>2
      <4>4. b \in Seq(A) /\ IsPrefix(b, t)
        BY <3>2, <4>1, <4>3, BegunPrefix
      <4>5. s \in Seq(A) /\ t \in Seq(A) /\ SaidUpto(m, f, i) = s \o t
        BY <2>3, <4>1, SaidProperties
      <4>6. SaidUpto(m, f, i) \in Seq(A) /\ a \in Seq(A)
        <5>1. Len(f) \in 0 .. Len(f)
          BY PartProperties
        <5> QED
          BY <2>3, <4>1, <5>1, SaidProperties
      <4>7. IsPrefix(s \o b, s \o t)
        BY <4>4, <4>5, ConcatPrefix
      <4>8. IsPrefix(s \o t, a)
        BY <2>3, <4>1, <4>5, SaidPrefix
      <4>9. s \o b \in Seq(A) /\ s \o t \in Seq(A)
        BY <4>4, <4>5
      <4>10. IsPrefix(s \o b, a)
        BY <4>6, <4>7, <4>8, <4>9, PrefixTransitive
      <4> QED
        BY <4>1, <4>2, <4>10
    <3> QED
      BY <3>1, <3>2
  <2> QED
    BY <1>4, <2>2, <2>4 DEF HeardSoFar
<1> QED
  BY <1>2, <1>4, <1>5, <1>6 DEF Sound

\* In every zone the parser is sound.
LEMMA ZoneSound ==
  ASSUME NEW f, WellFormed(f), NEW m, NEW whole, NEW P, Zone(m, whole, f, P)
  PROVE  Sound(m, whole, f, P) /\ P \in Parsers(Words(f))
<1>1. PICK d \in Nat, e \in Nat : /\ d = D /\ e = Len(Encode(f)) /\ d < e
                  /\ \A i \in 1 .. Len(f) :
                       /\ Start(f, i + 1) \in Int /\ Start(f, i + 1) + d + 1 < e
                       /\ ContentAt(f, i) + Len(f[i].content) = Start(f, i + 1)
                       /\ HeadersAt(f, i) + 3 * Len(f[i].lines) + 2 = ContentAt(f, i)
                       /\ ContentAt(f, i) \in Int /\ HeadersAt(f, i) \in Int
                       /\ Len(f[i].lines) \in Nat /\ Len(f[i].content) \in Nat
  BY Boundaries
<1>2. /\ 0 \in 0 .. Len(f) /\ Len(f) \in 0 .. Len(f)
      /\ \A i \in 1 .. Len(f) : i \in 0 .. Len(f) /\ i - 1 \in 0 .. Len(f)
  BY PartProperties
<1>3. CASE FirstLine(m, whole, f, P)
  <2>1. /\ Settled(m, whole, f, 0, P) /\ P.state = "EXPECT_BOUNDARY" /\ P.parsed \in 0 .. d - 1
    BY <1>1, <1>3 DEF FirstLine
  <2>2. P.parsed # e
    BY <1>1, <2>1
  <2>3. P.state \notin ContentStates
    BY <2>1 DEF ContentStates
  <2> QED
    BY <1>1, <1>2, <2>1, <2>2, <2>3, SettledSound DEF Settled
<1>4. ASSUME NEW i \in 1 .. Len(f), NEW j, NEW r, InHeaders(m, whole, f, i, j, r, P)
      PROVE  Sound(m, whole, f, P) /\ P \in Parsers(Words(f))
  <2>1. PICK h \in Int, n \in Nat, c \in Nat :
          h = HeadersAt(f, i) /\ n = Len(f[i].lines) /\ c = Len(f[i].content) /\ (h + 3 * n + 2) + c + d + 1 < e
    BY <1>1
  <2>2. /\ Settled(m, whole, f, i - 1, P) /\ P.state = "PARSE_HEADERS"
        /\ j \in 0 .. n /\ r \in 0 .. 2 /\ P.parsed = h + 3 * j + r
    BY <1>4, <2>1 DEF InHeaders
  <2>3. P.parsed # e
    <3>1. (h + 3 * n + 2) + c + d + 1 < e
      BY <2>1
    <3>2. j \in 0 .. n /\ r \in 0 .. 2
      BY <2>2
    <3>3. PICK k \in Int : k = h + 3 * j + r /\ k < e
      <4>1. h + 3 * j + r \in Int /\ h + 3 * j + r < e
        BY <3>1, <3>2
      <4> QED
        BY <4>1
    <3> QED
      BY <2>2, <3>3
  <2>4. P.state \notin ContentStates
    BY <2>2 DEF ContentStates
  <2> QED
    BY <1>1, <1>2, <2>2, <2>3, <2>4, SettledSound DEF Settled
<1>5. ASSUME NEW i \in 1 .. Len(f), NEW w, NEW g, InContent(m, whole, f, i, w, g, P)
      PROVE  Sound(m, whole, f, P) /\ P \in Parsers(Words(f))
  <2>1. Sound(m, whole, f, P)
    BY <1>5, ContentSound, Zenon
  <2> QED
    BY <1>5, <2>1 DEF InContent, Data
<1>6. ASSUME NEW i \in 1 .. Len(f), Behind(m, whole, f, i, P) \/ AtFeed(m, whole, f, i, P)
      PROVE  Sound(m, whole, f, P) /\ P \in Parsers(Words(f))
  <2>1. PICK s \in Int : s = Start(f, i + 1) /\ s + d + 1 < e
    BY <1>1
  <2>2. /\ Settled(m, whole, f, i, P) /\ (P.state = "DASH3_OR_RETURN2" \/ P.state = "EXPECT_FEED2")
        /\ (P.parsed = s + d \/ P.parsed = s + d + 1)
    BY <1>1, <1>6, <2>1 DEF Behind, AtFeed
  <2>3. P.parsed # e
    BY <1>1, <2>1, <2>2
  <2>4. P.state \notin ContentStates /\ P.state # "PARSE_ERROR" /\ P.state # "PARSING_FINISHED"
    BY <2>2 DEF ContentStates
  <2> QED
    BY <1>1, <1>2, <2>2, <2>3, <2>4, SettledSound DEF Settled
<1>7. CASE Finished(m, whole, f, P)
  <2>1. Settled(m, whole, f, Len(f), P) /\ P.state = "PARSING_FINISHED"
    BY <1>7 DEF Finished
  <2>2. P.state \notin ContentStates
    BY <2>1 DEF ContentStates
  <2> QED
    BY <1>2, <2>1, <2>2, SettledSound DEF Settled
<1>8. CASE GaveUp(m, whole, f, P)
  <2>1. /\ P \in Parsers(Words(f)) /\ P.buf = <<>> /\ ~P.held
        /\ whole => IsPrefix(AllTold(m, P.out), AllSaid(m, f)) /\ Joined(m, P.out, 0)
        /\ P.state = "PARSE_ERROR" /\ P.isFile /\ P.size = 0
    BY <1>8 DEF GaveUp
  <2>2. Len(P.buf) < ChunkSize
    BY <2>1, ChunkAssumption
  <2>3. P.state \notin ContentStates /\ P.state # "PARSING_FINISHED"
    BY <2>1 DEF ContentStates
  <2>4. whole => HeardSoFar(m, f, P)
    BY <2>1, <2>3 DEF HeardSoFar, Joined
  <2> QED
    BY <2>1, <2>2, <2>3, <2>4 DEF Sound
<1> QED
  BY <1>3, <1>4, <1>5, <1>6, <1>7, <1>8, Zenon DEF Zone

\* A new parser is before the first line of every form.
LEMMA NewParserZone ==
  ASSUME NEW f, WellFormed(f), NEW m, NEW whole
  PROVE  Zone(m, whole, f, NewParser)
<1>1. None \in Words(f) /\ <<>> \in Seq(Words(f)) /\ <<>> \in Seq(Items(Words(f)))
  BY WordsProperties
<1>2. NewParser \in Parsers(Words(f))
  BY <1>1 DEF NewParser, Parsers, States
<1>3. /\ NewParser.buf = <<>> /\ ~NewParser.held /\ NewParser.out = <<>> /\ NewParser.name = None
      /\ NewParser.filename = None /\ NewParser.temp = <<>> /\ NewParser.state = "EXPECT_BOUNDARY"
      /\ NewParser.parsed = 0
  BY DEF NewParser
<1>4. AllTold(m, <<>>) = <<>> /\ SaidUpto(m, f, 0) = <<>>
  <2>1. {"param", "upload", "end"} \subseteq Words(f)
    BY WordsProperties
  <2>2. [what |-> "param", name |-> None, data |-> <<>>, index |-> 0, last |-> TRUE] \in Items(Words(f))
    BY <1>1 DEF Items
  <2>3. AllTold(m, <<>>) = <<>>
    BY <1>1, <2>1, <2>2, ToldMore
  <2> QED
    BY <2>3, SaidProperties
<1>5. Settled(m, whole, f, 0, NewParser)
  BY <1>2, <1>3, <1>4, JoinedEmpty DEF Settled
<1>6. 0 \in 0 .. D - 1
  <2>1. PICK d, e : d = D /\ e = Len(Encode(f)) /\ d \in Nat /\ d >= 5 /\ e \in Nat /\ d < e
    BY Boundaries
  <2> QED
    BY <2>1
<1>7. FirstLine(m, whole, f, NewParser)
  BY <1>3, <1>5, <1>6, NamedFirst DEF FirstLine
<1> QED
  BY <1>7 DEF Zone

-----------------------------------------------------------------------------
(* Every byte counts once.                                                 *)

\* Giving bytes back counts none of them again.
LEMMA GivenCounted ==
  ASSUME NEW A, NEW P, P \in Parsers(A), NEW bytes, bytes \in Seq(A), NEW last, last \in BOOLEAN
  PROVE  Given(P, bytes, last) \in Parsers(A) /\ Given(P, bytes, last).parsed = P.parsed
<1>1. PICK g \in [0 .. Len(bytes) -> Parsers(A)] :
        /\ g[0] = [P EXCEPT !.state = "WAIT_FOR_RETURN1"]
        /\ \A i \in 1 .. Len(bytes) : g[i] = WriteByte(g[i - 1], bytes[i], last)
        /\ Given(P, bytes, last) = g[Len(bytes)]
  BY GivenSteps
<1>2. PICK n \in Nat : n = Len(bytes)
  OBVIOUS
<1> DEFINE T == {k \in 0 .. n : g[k].parsed = P.parsed}
<1>3. 0 \in T
  <2>1. g[0].parsed = P.parsed
    BY <1>1 DEF Parsers
  <2> QED
    BY <2>1
<1>4. ASSUME NEW k \in 0 .. n - 1, k \in T PROVE k + 1 \in T
  <2>1. k + 1 \in 1 .. n /\ k + 1 \in 0 .. n /\ (k + 1) - 1 = k /\ k \in 0 .. n
    OBVIOUS
  <2>2. PICK R, b : R = g[k] /\ b = bytes[k + 1]
    OBVIOUS
  <2>3. R \in Parsers(A) /\ b \in A /\ R.parsed = P.parsed
    BY <1>1, <1>2, <1>4, <2>1, <2>2
  <2>4. g[k + 1] = WriteByte(R, b, last)
    BY <1>1, <1>2, <2>1, <2>2
  <2>5. Written(R, b, last, WriteByte(R, b, last))
    BY <2>3, WriteByteWrites
  <2>6. g[k + 1].parsed = P.parsed
    BY <2>3, <2>4, <2>5 DEF Written, Same
  <2> QED
    BY <2>1, <2>6
<1>5. \A k \in 0 .. n : k \in T
  <2> HIDE DEF T
  <2> QED
    BY <1>3, <1>4, InductionUpto
<1>6. n \in 0 .. n
  OBVIOUS
<1> QED
  BY <1>1, <1>2, <1>5, <1>6

\* Nor does looking at a byte in a content.
LEMMA WaitCounted ==
  ASSUME NEW A, NEW P, P \in Parsers(A), NEW b, b \in A, NEW last, last \in BOOLEAN
  PROVE  WaitForReturn(P, b, last).parsed = P.parsed
<1>1. CASE b = CR
  <2>1. WaitForReturn(P, b, last) = [P EXCEPT !.state = "EXPECT_FEED1"]
    BY <1>1 DEF WaitForReturn
  <2> QED
    BY <2>1 DEF Parsers
<1>2. CASE b # CR
  <2>1. WaitForReturn(P, b, last) = WriteByte(P, b, last)
    BY <1>2 DEF WaitForReturn
  <2>2. Written(P, b, last, WriteByte(P, b, last))
    BY WriteByteWrites
  <2> QED
    BY <2>1, <2>2 DEF Written, Same
<1> QED
  BY <1>1, <1>2

\* Nor do both together.
LEMMA GiveBackCounted ==
  ASSUME NEW A, NEW P, P \in Parsers(A), NEW bytes, bytes \in Seq(A), NEW b, b \in A,
         NEW last, last \in BOOLEAN
  PROVE  GiveBack(P, bytes, b, last).parsed = P.parsed
<1>1. PICK G : G = Given(P, bytes, last)
  OBVIOUS
<1>2. G \in Parsers(A) /\ G.parsed = P.parsed
  BY <1>1, GivenCounted
<1>3. WaitForReturn(G, b, last).parsed = G.parsed
  BY <1>2, WaitCounted
<1> QED
  BY <1>1, <1>2, <1>3 DEF GiveBack

\* Parse itself counts no byte: that is left to ParseByte.
LEMMA ParseCounted ==
  ASSUME NEW A, {CR, LF, Dash} \cup ToSet(Boundary) \subseteq A, NEW P, P \in Parsers(A),
         P.state = "BOUNDARY_OR_DATA" => P.bpos < Len(Boundary),
         NEW b, b \in A, NEW last, last \in BOOLEAN, NEW length, NEW allocated
  PROVE  Parse(P, b, last, length, allocated).parsed = P.parsed
<1>1. PICK R : R = Parse(P, b, last, length, allocated)
  OBVIOUS
<1>2. P.state \in States /\ P.bpos \in Nat
  BY DEF Parsers
<1>3. \A s : [P EXCEPT !.state = s].parsed = P.parsed
  BY DEF Parsers
<1>4. Delimiter \in Seq(A) /\ <<CR>> \in Seq(A) /\ <<CR, LF>> \in Seq(A) /\ <<CR, LF, Dash>> \in Seq(A)
  <2>1. Delimiter \in Seq(A)
    BY DelimiterProperties
  <2>2. <<CR>> \in Seq(A)
    OBVIOUS
  <2>3. <<CR, LF>> \in Seq(A)
    OBVIOUS
  <2>4. <<CR, LF, Dash>> \in Seq(A)
    OBVIOUS
  <2> QED
    BY <2>1, <2>2, <2>3, <2>4
<1>5. \A s : s \in Seq(A) => GiveBack(P, s, b, last).parsed = P.parsed
  BY GiveBackCounted
<1>6. CASE P.state = "PARSE_ERROR"
  BY <1>1, <1>6 DEF Parse, Parsers
<1>7. CASE P.state = "WAIT_FOR_RETURN1"
  <2>1. R = WaitForReturn(P, b, last)
    BY <1>1, <1>7 DEF Parse
  <2> QED
    BY <1>1, <2>1, WaitCounted
<1>8. CASE P.state = "EXPECT_BOUNDARY"
  <2>1. R = ExpectBoundary(P, b)
    BY <1>1, <1>8 DEF Parse
  <2>2. R = P \/ R = Error(P) \/ R = [P EXCEPT !.state = "PARSE_HEADERS", !.isFile = FALSE]
    BY <2>1 DEF ExpectBoundary
  <2>3. [P EXCEPT !.state = "PARSE_HEADERS", !.isFile = FALSE].parsed = P.parsed
    BY DEF Parsers
  <2> QED
    BY <1>1, <1>3, <2>2, <2>3 DEF Error
<1>9. CASE P.state = "PARSE_HEADERS"
  <2>1. R = ParseHeaders(P, b, allocated)
    BY <1>1, <1>9 DEF Parse
  <2>2. PICK v : v = Append(P.temp, b)
    OBVIOUS
  <2>3. R = P \/ R = [P EXCEPT !.temp = v] \/ R = TakeHeader(P, P.temp[1]) \/ R = StartItem(P, allocated)
    BY <2>1, <2>2 DEF ParseHeaders
  <2>4. [P EXCEPT !.temp = v].parsed = P.parsed
    BY DEF Parsers
  <2>5. TakeHeader(P, P.temp[1]).parsed = P.parsed
    BY DEF TakeHeader, Parsers
  <2>6. StartItem(P, allocated).parsed = P.parsed
    <3>1. PICK Q : Q = [P EXCEPT !.state = "WAIT_FOR_RETURN1", !.size = 0, !.value = <<>>]
      OBVIOUS
    <3>2. Q \in Parsers(A) /\ Q.parsed = P.parsed
      <4>1. <<>> \in Seq(A)
        OBVIOUS
      <4> QED
        BY <3>1, <4>1 DEF Parsers, States
    <3>3. [Q EXCEPT !.held = TRUE, !.buf = <<>>].parsed = Q.parsed
      BY <3>2 DEF Parsers
    <3>4. [[Q EXCEPT !.held = FALSE] EXCEPT !.state = "PARSE_ERROR"].parsed = Q.parsed
      BY <3>2 DEF Parsers
    <3>5. \/ StartItem(P, allocated) = Q
          \/ StartItem(P, allocated) = [Q EXCEPT !.held = TRUE, !.buf = <<>>]
          \/ StartItem(P, allocated) = [[Q EXCEPT !.held = FALSE] EXCEPT !.state = "PARSE_ERROR"]
      BY <3>1 DEF StartItem, Error
    <3> QED
      BY <3>2, <3>3, <3>4, <3>5
  <2> QED
    BY <1>1, <2>3, <2>4, <2>5, <2>6
<1>10. CASE P.state = "EXPECT_FEED1"
  <2>1. R = ExpectFeed1(P, b, last)
    BY <1>1, <1>10 DEF Parse
  <2>2. R = [P EXCEPT !.state = "EXPECT_DASH1"] \/ R = GiveBack(P, <<CR>>, b, last)
    BY <2>1 DEF ExpectFeed1
  <2>3. [P EXCEPT !.state = "EXPECT_DASH1"].parsed = P.parsed
    BY DEF Parsers
  <2>4. GiveBack(P, <<CR>>, b, last).parsed = P.parsed
    BY <1>4, <1>5
  <2> QED
    BY <1>1, <2>2, <2>3, <2>4
<1>11. CASE P.state = "EXPECT_DASH1"
  <2>1. R = ExpectDash1(P, b, last)
    BY <1>1, <1>11 DEF Parse
  <2>2. R = [P EXCEPT !.state = "EXPECT_DASH2"] \/ R = GiveBack(P, <<CR, LF>>, b, last)
    BY <2>1 DEF ExpectDash1
  <2>3. [P EXCEPT !.state = "EXPECT_DASH2"].parsed = P.parsed
    BY DEF Parsers
  <2>4. GiveBack(P, <<CR, LF>>, b, last).parsed = P.parsed
    BY <1>4, <1>5
  <2> QED
    BY <1>1, <2>2, <2>3, <2>4
<1>12. CASE P.state = "EXPECT_DASH2"
  <2>1. R = ExpectDash2(P, b, last)
    BY <1>1, <1>12 DEF Parse
  <2>2. R = [P EXCEPT !.state = "BOUNDARY_OR_DATA", !.bpos = 0] \/ R = GiveBack(P, <<CR, LF, Dash>>, b, last)
    BY <2>1 DEF ExpectDash2
  <2>3. [P EXCEPT !.state = "BOUNDARY_OR_DATA", !.bpos = 0].parsed = P.parsed
    BY DEF Parsers
  <2> QED
    BY <1>1, <1>4, <2>2, <2>3, <1>5
<1>13. CASE P.state = "BOUNDARY_OR_DATA"
  <2>1. R = BoundaryOrData(P, b, last)
    BY <1>1, <1>13 DEF Parse
  <2>2. PICK k, s : k = P.bpos + 1 /\ s = SubSeq(Delimiter, 1, 4 + P.bpos)
    OBVIOUS
  <2>3. R = GiveBack(P, s, b, last) \/ R = FinishItem(P) \/ R = [P EXCEPT !.bpos = k]
    BY <2>1, <2>2 DEF BoundaryOrData
  <2>4. [P EXCEPT !.bpos = k].parsed = P.parsed
    BY DEF Parsers
  <2>5. FinishItem(P).parsed = P.parsed
    BY FinishItemFinishes DEF Finishing
  <2>6. R = GiveBack(P, s, b, last) => s \in Seq(A)
    <3>1. PICK n \in Nat, o \in Nat, d \in Nat : n = Len(Boundary) /\ o = P.bpos /\ d = Len(Delimiter) /\ d = 4 + n
      <4>1. D = 4 + Len(Boundary) /\ Len(Boundary) \in Nat /\ D \in Nat
        BY DelimiterProperties
      <4> QED
        BY <1>2, <4>1 DEF D
    <3>2. 4 + o \in 0 .. d
      BY <1>13, <3>1
    <3>3. PICK t : t = Delimiter
      OBVIOUS
    <3>4. t \in Seq(A) /\ Len(t) = d
      BY <1>4, <3>1, <3>3
    <3>5. SubSeq(t, 1, 4 + o) \in Seq(A)
      BY <3>2, <3>4
    <3> QED
      BY <2>2, <3>1, <3>3, <3>5
  <2> QED
    BY <1>1, <2>3, <2>4, <2>5, <2>6, <1>5
<1>14. CASE P.state = "DASH3_OR_RETURN2"
  <2>1. R = Dash3OrReturn2(P, b, last, length)
    BY <1>1, <1>14 DEF Parse
  <2>2. \/ R = [P EXCEPT !.state = "PARSE_ERROR"]
        \/ R = [P EXCEPT !.state = "EXPECT_FEED2"]
        \/ R = [P EXCEPT !.state = "PARSING_FINISHED"]
        \/ R = GiveBack(P, Delimiter, b, last)
    BY <2>1 DEF Dash3OrReturn2, Error
  <2>3. /\ [P EXCEPT !.state = "PARSE_ERROR"].parsed = P.parsed
        /\ [P EXCEPT !.state = "EXPECT_FEED2"].parsed = P.parsed
        /\ [P EXCEPT !.state = "PARSING_FINISHED"].parsed = P.parsed
    BY DEF Parsers
  <2>4. GiveBack(P, Delimiter, b, last).parsed = P.parsed
    BY <1>4, <1>5
  <2> QED
    BY <1>1, <2>2, <2>3, <2>4
<1>15. CASE P.state = "EXPECT_FEED2"
  <2>1. R = ExpectFeed2(P, b, last)
    BY <1>1, <1>15 DEF Parse
  <2>2. PICK s : s = Delimiter \o <<CR>>
    OBVIOUS
  <2>3. s \in Seq(A)
    <3>1. PICK t, u : t = Delimiter /\ u = <<CR>>
      OBVIOUS
    <3>2. t \in Seq(A) /\ u \in Seq(A)
      BY <1>4, <3>1
    <3>3. t \o u \in Seq(A)
      BY <3>2
    <3> QED
      BY <2>2, <3>1, <3>3
  <2>4. R = [P EXCEPT !.state = "PARSE_HEADERS", !.isFile = FALSE] \/ R = GiveBack(P, s, b, last)
    BY <2>1, <2>2 DEF ExpectFeed2
  <2>5. [P EXCEPT !.state = "PARSE_HEADERS", !.isFile = FALSE].parsed = P.parsed
    BY DEF Parsers
  <2> QED
    BY <1>1, <2>3, <2>4, <2>5, <1>5
<1>16. CASE P.state = "PARSING_FINISHED"
  BY <1>1, <1>16 DEF Parse
<1> QED
  BY <1>1, <1>2, <1>6, <1>7, <1>8, <1>9, <1>10, <1>11, <1>12, <1>13, <1>14, <1>15, <1>16 DEF States

\* The next byte of a well-formed body is counted, whatever it makes of the parser.
LEMMA ZoneCounts ==
  ASSUME NEW f, WellFormed(f), NEW m, NEW whole, NEW P, Zone(m, whole, f, P),
         NEW b, NEW last, NEW length, Feeds(whole, f, P, b, last, length), NEW allocated
  PROVE  ParseByte(P, b, last, length, allocated).parsed = P.parsed + 1
<1>1. PICK A, R, Q : A = Words(f) /\ R = Parse(P, b, last, length, allocated)
                     /\ Q = ParseByte(P, b, last, length, allocated)
  OBVIOUS
<1>2. P \in Parsers(A)
  BY <1>1, ZoneSound
<1>3. Q \in Parsers(A)
  <2>1. Zone(m, whole, f, Q)
    BY <1>1, ZoneStep
  <2> QED
    BY <1>1, <2>1, ZoneSound
<1>4. {CR, LF, Dash} \cup ToSet(Boundary) \subseteq A
  BY <1>1, WordsProperties
<1>5. b \in A /\ last \in BOOLEAN
  <2>1. Encode(f) \in Seq(A)
    BY <1>1, EncodeLayout DEF Layout, Ordered
  <2>2. PICK t, k : t = Encode(f) /\ k = P.parsed + 1
    OBVIOUS
  <2>3. P.parsed \in Nat /\ P.parsed < Len(t) /\ b = t[k] /\ last \in BOOLEAN
    BY <1>2, <2>2 DEF Parsers, Feeds
  <2>4. t \in Seq(A) /\ k \in 1 .. Len(t)
    BY <2>1, <2>2, <2>3
  <2> QED
    BY <2>3, <2>4
<1>6. P.state = "BOUNDARY_OR_DATA" => P.bpos < Len(Boundary)
  <2> SUFFICES ASSUME P.state = "BOUNDARY_OR_DATA" PROVE P.bpos < Len(Boundary)
    OBVIOUS
  <2>0. PICK i \in 1 .. Len(f) : \E w, g : InContent(m, whole, f, i, w, g, P)
    BY DEF Zone, FirstLine, InHeaders, Behind, AtFeed, Finished, GaveUp
  <2>1. PICK w, g : InContent(m, whole, f, i, w, g, P)
    BY <2>0
  <2>2. g \in 0 .. D - 1 /\ P.state = GuessState(g) /\ (g >= 4 => P.bpos = g - 4)
    BY <2>1 DEF InContent, Guess
  <2>3. PICK d \in Nat, n \in Nat : d = D /\ n = Len(Boundary) /\ d = 4 + n
    BY <1>4, DelimiterProperties
  <2>4. g >= 4
    BY <2>2, <2>3 DEF GuessState
  <2> QED
    BY <2>2, <2>3, <2>4
<1>7. R.parsed = P.parsed
  BY <1>1, <1>2, <1>4, <1>5, <1>6, ParseCounted
<1>8. PICK n : n = R.parsed + 1
  OBVIOUS
<1>9. Q = [R EXCEPT !.parsed = n]
  BY <1>1, <1>8 DEF ParseByte
<1>10. "parsed" \in DOMAIN Q
  BY <1>3 DEF Parsers
<1>11. Q.parsed = n
  BY <1>9, <1>10
<1> QED
  BY <1>1, <1>7, <1>8, <1>11

-----------------------------------------------------------------------------
(* The loops.                                                              *)

\* All of the body is there when the parser sees its first byte, or will be.
Entire == mode = "multipart" \/ taken = ContentLength

Loop ==
  /\ mode \in Modes
  /\ IF mode = "basic" THEN body \in Raw ELSE form \in Forms[mode] /\ body = Encode(form)
  /\ taken \in 0 .. ContentLength /\ late \in 0 .. MaxTimeouts
  /\ peer \in {"open", "closed"} /\ err \in {"ok", "fail"}
  /\ pc \in {"receive", "respond", "done"}
  /\ answer \in {None, "callback", "400", "500"}
  /\ mode = "body" => err = "ok"
  /\ answer # "callback" \/ (err = "ok" /\ pc = "done")
  /\ mode # "body" /\ pc # "receive" /\ err = "ok" => taken = ContentLength

Parsing ==
  /\ parser.parsed \in 0 .. taken
  /\ mode = "basic" \/ (mode = "body" /\ pc = "receive") => parser = NewParser
  /\ mode # "basic" => Zone(mode, Entire, form, parser)
  /\ mode = "multipart" /\ pc # "receive" => parser.parsed = taken
  /\ mode = "body" /\ pc = "done" => parser.parsed = taken

\* The calls join up, and the loop goes on where the last one ended.
CallsJoin(cs, length) ==
  \A i \in 1 .. Len(cs) :
    /\ cs[i].index = IF i = 1 THEN 0 ELSE cs[i - 1].index + Len(cs[i - 1].data)
    /\ cs[i].last <=> cs[i].index + Len(cs[i].data) = length

EndOf(cs) == IF cs = <<>> THEN 0 ELSE cs[Len(cs)].index + Len(cs[Len(cs)].data)

Calls(A) == [index : Nat, data : Seq(A), last : BOOLEAN]

Calling ==
  /\ mode # "basic" => calls = <<>>
  /\ calls \in Seq(Calls(ToSet(body))) /\ CallsJoin(calls, ContentLength)
  /\ mode = "basic" /\ pc = "receive" => EndOf(calls) = taken

Inv == Loop /\ Parsing /\ Calling

\* The body is a text, and a form is well-formed.
LEMMA BodyIsText ==
  ASSUME Loop
  PROVE  /\ body \in Seq(ToSet(body)) /\ ContentLength \in Nat
         /\ mode # "basic" => WellFormed(form) /\ body = Encode(form)
<1>1. CASE mode = "basic"
  <2>1. IsText(body)
    BY <1>1, RawAssumption DEF Loop
  <2>2. body \in Seq(ToSet(body))
    BY <2>1 DEF IsText
  <2> QED
    BY <1>1, <2>2 DEF ContentLength
<1>2. CASE mode # "basic"
  <2>1. WellFormed(form) /\ body = Encode(form)
    BY <1>2, FormsAssumption DEF Loop
  <2>2. body \in Seq(Words(form))
    BY <2>1, EncodeLayout DEF Layout, Ordered
  <2>3. body \in Seq(ToSet(body))
    BY <2>2 DEF ToSet
  <2> QED
    BY <2>1, <2>3 DEF ContentLength
<1> QED
  BY <1>1, <1>2

\* The parser is new, and nothing has been received.
LEMMA InitHolds == Init => Inv
<1> SUFFICES ASSUME Init PROVE Inv
  OBVIOUS
<1>1. /\ mode \in Modes /\ taken = 0 /\ parser = NewParser /\ calls = <<>>
      /\ late = 0 /\ peer = "open" /\ err = "ok" /\ pc = "receive" /\ answer = None
      /\ IF mode = "basic" THEN body \in Raw ELSE form \in Forms[mode] /\ body = Encode(form)
  BY DEF Init
<1>2. ContentLength \in Nat
  <2>1. CASE mode = "basic"
    <3>1. IsText(body)
      BY <1>1, <2>1, RawAssumption
    <3> QED
      BY <3>1 DEF IsText, ContentLength
  <2>2. CASE mode # "basic"
    <3>1. WellFormed(form) /\ body = Encode(form)
      BY <1>1, <2>2, FormsAssumption
    <3>2. body \in Seq(Words(form))
      BY <3>1, EncodeLayout DEF Layout, Ordered
    <3> QED
      BY <3>2 DEF ContentLength
  <2> QED
    BY <2>1, <2>2
<1>3. Loop
  <2>1. 0 \in 0 .. ContentLength /\ 0 \in 0 .. MaxTimeouts
    BY <1>2, MaxTimeoutsAssumption
  <2>2. answer # "callback" \/ (err = "ok" /\ pc = "done")
    BY <1>1, NoneAssumption
  <2> QED
    BY <1>1, <2>1, <2>2 DEF Loop
<1>4. Parsing
  <2>1. parser.parsed = 0
    BY <1>1 DEF NewParser
  <2>2. mode # "basic" => Zone(mode, Entire, form, parser)
    BY <1>1, <1>3, BodyIsText, NewParserZone
  <2> QED
    BY <1>1, <2>1, <2>2 DEF Parsing
<1>5. Calling
  <2>1. <<>> \in Seq(Calls(ToSet(body)))
    OBVIOUS
  <2>2. CallsJoin(<<>>, ContentLength) /\ EndOf(<<>>) = 0
    BY DEF CallsJoin, EndOf
  <2> QED
    BY <1>1, <2>1, <2>2 DEF Calling
<1> QED
  BY <1>3, <1>4, <1>5 DEF Inv

-----------------------------------------------------------------------------
(* Every step of a loop keeps them.                                        *)

\* The request does not change.
LEMMA SameRequest ==
  ASSUME [Next]_vars
  PROVE  mode' = mode /\ form' = form /\ body' = body
<1>1. ASSUME NEW n, ReceiveBody(n) \/ ReceiveMultipart(n) PROVE mode' = mode /\ form' = form /\ body' = body
  BY <1>1 DEF ReceiveBody, ReceiveMultipart
<1>2. ASSUME NEW n, NEW accepted, ReceiveBasic(n, accepted)
      PROVE  mode' = mode /\ form' = form /\ body' = body
  BY <1>2 DEF ReceiveBasic
<1>3. ASSUME NEW allocated, ParseMultipart(allocated) \/ ParseParams(allocated)
      PROVE  mode' = mode /\ form' = form /\ body' = body
  BY <1>3 DEF ParseMultipart, ParseParams
<1>4. CASE AllReceived \/ RespondWeb \/ RespondUpload \/ SocketError
  BY <1>4 DEF AllReceived, RespondWeb, RespondUpload, SocketError
<1>5. CASE TimeOut \/ PeerCloses \/ UNCHANGED vars
  BY <1>5 DEF TimeOut, PeerCloses, vars
<1> QED
  BY <1>1, <1>2, <1>3, <1>4, <1>5 DEF Next, Step

\* No more is received than was asked for, and no more is asked for than is left.
LEMMA WithinBody ==
  ASSUME Loop, NEW k, k \in 0 .. Asked, Remaining > 0, Received(k)
  PROVE  k \in Nat /\ taken + k \in 0 .. ContentLength /\ (Remaining = k <=> taken + k = ContentLength)
<1>1. PICK n \in Nat, t \in Nat, c \in Nat :
        n = ContentLength /\ t = taken /\ t <= n /\ c = ChunkSize
  <2>1. ContentLength \in Nat
    BY BodyIsText
  <2>2. taken \in 0 .. ContentLength
    BY DEF Loop
  <2> QED
    BY <2>1, <2>2, ChunkAssumption
<1>2. PICK r \in Int : r = Remaining /\ r = n - t /\ r > 0
  BY <1>1 DEF Remaining
<1>3. PICK a \in Int : a = Asked /\ a <= r
  <2>1. Asked = r \/ Asked = Least(r, c)
    BY <1>1, <1>2 DEF Asked
  <2>2. Least(r, c) \in Int /\ Least(r, c) <= r
    BY DEF Least
  <2> QED
    BY <2>1, <2>2
<1>4. k \in 0 .. a
  BY <1>3
<1>5. k \in Nat /\ t + k \in 0 .. n /\ (r = k <=> t + k = n)
  BY <1>2, <1>3, <1>4
<1> QED
  BY <1>1, <1>2, <1>5

\* Each step keeps the variables of the loops in order.
LEMMA LoopKept ==
  ASSUME Inv, [Next]_vars
  PROVE  Loop'
<1>1. mode' = mode /\ form' = form /\ body' = body
  BY SameRequest
<1>2. PICK n \in Nat : n = ContentLength /\ ContentLength' = n
  <2>1. ContentLength \in Nat
    BY BodyIsText DEF Inv
  <2>2. ContentLength' = ContentLength
    BY <1>1 DEF ContentLength
  <2> QED
    BY <2>1, <2>2
<1>3. /\ mode \in Modes
      /\ IF mode = "basic" THEN body \in Raw ELSE form \in Forms[mode] /\ body = Encode(form)
      /\ taken \in 0 .. n /\ late \in 0 .. MaxTimeouts
      /\ peer \in {"open", "closed"} /\ err \in {"ok", "fail"}
      /\ pc \in {"receive", "respond", "done"}
      /\ answer \in {None, "callback", "400", "500"}
      /\ mode = "body" => err = "ok"
      /\ answer # "callback" \/ (err = "ok" /\ pc = "done")
      /\ mode # "body" /\ pc # "receive" /\ err = "ok" => taken = n
  BY <1>2 DEF Inv, Loop
<1> DEFINE Rest == /\ taken' \in 0 .. n /\ late' \in 0 .. MaxTimeouts
                   /\ peer' \in {"open", "closed"} /\ err' \in {"ok", "fail"}
                   /\ pc' \in {"receive", "respond", "done"}
                   /\ answer' \in {None, "callback", "400", "500"}
                   /\ mode = "body" => err' = "ok"
                   /\ answer' # "callback" \/ (err' = "ok" /\ pc' = "done")
                   /\ mode # "body" /\ pc' # "receive" /\ err' = "ok" => taken' = n
<1>4. ASSUME NEW k \in 0 .. Asked, ReceiveBody(k) \/ ReceiveMultipart(k) PROVE Rest
  <2>1. /\ taken' = taken + k /\ UNCHANGED <<late, peer, err, pc, answer>>
        /\ pc = "receive" /\ Remaining > 0 /\ Received(k)
    BY <1>4 DEF ReceiveBody, ReceiveMultipart, Receiving, AtRecv
  <2>2. taken' \in 0 .. n
    BY <1>2, <2>1, WithinBody DEF Inv
  <2> QED
    BY <1>3, <2>1, <2>2
<1>5. ASSUME NEW k \in 0 .. Asked, NEW accepted \in BOOLEAN, ReceiveBasic(k, accepted) PROVE Rest
  <2>1. /\ UNCHANGED <<late, peer, answer>> /\ pc = "receive" /\ Remaining > 0 /\ Received(k)
        /\ mode = "basic"
        /\ IF accepted THEN taken' = taken + k /\ UNCHANGED <<err, pc>>
                       ELSE err' = "fail" /\ pc' = "respond" /\ UNCHANGED taken
    BY <1>5 DEF ReceiveBasic, Receiving, AtRecv
  <2>2. taken' \in 0 .. n
    BY <1>2, <1>3, <2>1, WithinBody DEF Inv
  <2> QED
    BY <1>3, <2>1, <2>2
<1>6. ASSUME NEW allocated, ParseMultipart(allocated) \/ ParseParams(allocated) PROVE Rest
  BY <1>3, <1>6 DEF ParseMultipart, ParseParams
<1>7. ASSUME AllReceived PROVE Rest
  <2>1. /\ UNCHANGED <<taken, late, peer, err, answer>> /\ pc' = "respond" /\ Remaining = 0
        /\ pc = "receive"
    BY <1>7 DEF AllReceived, AtRecv
  <2>2. taken = n
    BY <1>2, <1>3, <2>1 DEF Remaining
  <2> QED
    BY <1>3, <2>1, <2>2
<1>8. ASSUME RespondWeb PROVE Rest
  BY <1>3, <1>8 DEF RespondWeb
<1>9. ASSUME RespondUpload PROVE Rest
  BY <1>3, <1>9 DEF RespondUpload
<1>10. ASSUME SocketError PROVE Rest
  BY <1>3, <1>10 DEF SocketError, AtRecv
<1>11. ASSUME TimeOut PROVE Rest
  <2>1. late < MaxTimeouts /\ late' = late + 1 /\ UNCHANGED <<taken, peer, err, pc, answer>>
    BY <1>11 DEF TimeOut
  <2>2. late' \in 0 .. MaxTimeouts
    BY <1>3, <2>1, MaxTimeoutsAssumption
  <2> QED
    BY <1>3, <2>1, <2>2
<1>12. ASSUME PeerCloses PROVE Rest
  BY <1>3, <1>12 DEF PeerCloses
<1>13. ASSUME UNCHANGED vars PROVE Rest
  BY <1>3, <1>13 DEF vars
<1>14. Rest
  BY <1>4, <1>5, <1>6, <1>7, <1>8, <1>9, <1>10, <1>11, <1>12, <1>13 DEF Next, Step
<1> QED
  BY <1>1, <1>2, <1>3, <1>14 DEF Loop

\* The parser stays in a zone of the body, and counts what it is fed.
LEMMA Fed ==
  ASSUME Inv, mode # "basic", parser.parsed < taken, NEW end, Entire => end = ContentLength,
         NEW allocated, ParseNext(end, allocated)
  PROVE  Zone(mode, Entire, form, parser') /\ parser'.parsed = parser.parsed + 1
<1>1. WellFormed(form) /\ body = Encode(form)
  BY BodyIsText DEF Inv
<1>2. PICK n \in Nat : n = ContentLength /\ n = Len(Encode(form))
  BY <1>1, BodyIsText DEF Inv, ContentLength
<1>3. PICK p \in Nat : p = parser.parsed /\ p < n
  <2>1. parser.parsed \in 0 .. taken /\ taken \in 0 .. n
    BY <1>2 DEF Inv, Parsing, Loop
  <2> QED
    BY <2>1
<1>4. PICK b, last : b = Encode(form)[p + 1] /\ last = (p + 1 = end)
  OBVIOUS
<1>5. parser' = ParseByte(parser, b, last, n, allocated)
  BY <1>1, <1>2, <1>3, <1>4 DEF ParseNext
<1>6. Zone(mode, Entire, form, parser)
  BY DEF Inv, Parsing
<1>7. Feeds(Entire, form, parser, b, last, n)
  <2>1. last \in BOOLEAN /\ (Entire => (last <=> p + 1 = n))
    BY <1>2, <1>4
  <2> QED
    BY <1>2, <1>3, <1>4, <2>1 DEF Feeds
<1>8. Zone(mode, Entire, form, ParseByte(parser, b, last, n, allocated))
  BY <1>1, <1>6, <1>7, ZoneStep
<1>9. ParseByte(parser, b, last, n, allocated).parsed = parser.parsed + 1
  BY <1>1, <1>6, <1>7, ZoneCounts
<1> QED
  BY <1>5, <1>8, <1>9

\* Each step keeps the parser in a zone of the body.
LEMMA ParsingKept ==
  ASSUME Inv, [Next]_vars
  PROVE  Parsing'
<1>1. mode' = mode /\ form' = form /\ body' = body
  BY SameRequest
<1>2. PICK n \in Nat, t \in Nat, p \in Nat :
        /\ n = ContentLength /\ ContentLength' = n /\ t = taken /\ p = parser.parsed
        /\ t \in 0 .. n /\ p \in 0 .. t
  <2>1. ContentLength \in Nat
    BY BodyIsText DEF Inv
  <2>2. ContentLength' = ContentLength
    BY <1>1 DEF ContentLength
  <2>3. taken \in 0 .. ContentLength /\ parser.parsed \in 0 .. taken
    BY DEF Inv, Loop, Parsing
  <2>4. taken \in Nat /\ parser.parsed \in Nat
    BY <2>1, <2>3
  <2> QED
    BY <2>1, <2>2, <2>3, <2>4
<1>3. /\ mode = "basic" \/ (mode = "body" /\ pc = "receive") => parser = NewParser
      /\ mode # "basic" => Zone(mode, Entire, form, parser)
      /\ mode = "multipart" /\ pc # "receive" => p = t
      /\ mode = "body" /\ pc = "done" => p = t
  BY <1>2 DEF Inv, Parsing
<1>4. p <= t
  BY <1>2
<1>5. mode # "basic" => WellFormed(form)
  BY BodyIsText DEF Inv
<1>6. pc \in {"receive", "respond", "done"} /\ (mode = "body" => err = "ok")
  BY DEF Inv, Loop
<1>7. (mode = "multipart" \/ taken' = taken) => Entire' = Entire
  BY <1>1, <1>2 DEF Entire
<1>8. ASSUME parser' = parser, taken' = taken,
             mode = "multipart" /\ pc' # "receive" => p = t,
             mode = "body" /\ pc' = "done" => p = t,
             mode = "body" /\ pc' = "receive" => pc = "receive"
      PROVE  Parsing'
  <2>1. mode # "basic" => Zone(mode, Entire', form, parser)
    BY <1>3, <1>7, <1>8
  <2> QED
    BY <1>1, <1>2, <1>3, <1>8, <2>1 DEF Parsing
<1>9. ASSUME NEW k \in 0 .. Asked, ReceiveBody(k) PROVE Parsing'
  <2>1. /\ mode = "body" /\ taken' = taken + k /\ UNCHANGED <<parser, pc>>
        /\ pc = "receive" /\ Remaining > 0 /\ Received(k)
    BY <1>9 DEF ReceiveBody, Receiving, AtRecv
  <2>2. k \in Nat
    BY <2>1, WithinBody DEF Inv
  <2>3. p \in 0 .. t + k
    BY <1>4, <2>2
  <2>4. Zone(mode, Entire', form, NewParser)
    BY <1>5, <2>1, NewParserZone
  <2>5. parser = NewParser
    BY <1>3, <2>1
  <2> QED
    BY <1>1, <1>2, <2>1, <2>3, <2>4, <2>5 DEF Parsing
<1>10. ASSUME NEW k \in 0 .. Asked, ReceiveMultipart(k) PROVE Parsing'
  <2>1. /\ mode = "multipart" /\ taken' = taken + k /\ UNCHANGED <<parser, pc>>
        /\ pc = "receive" /\ Remaining > 0 /\ Received(k)
    BY <1>10 DEF ReceiveMultipart, Receiving, AtRecv
  <2>2. k \in Nat
    BY <2>1, WithinBody DEF Inv
  <2>3. p \in 0 .. t + k
    BY <1>4, <2>2
  <2>4. Zone(mode, Entire', form, parser)
    BY <1>3, <1>7, <2>1
  <2> QED
    BY <1>1, <1>2, <2>1, <2>3, <2>4 DEF Parsing
<1>11. ASSUME NEW k \in 0 .. Asked, NEW accepted \in BOOLEAN, ReceiveBasic(k, accepted) PROVE Parsing'
  <2>1. /\ mode = "basic" /\ parser' = parser /\ (taken' = taken + k \/ taken' = taken)
        /\ Remaining > 0 /\ Received(k)
    BY <1>11 DEF ReceiveBasic, Receiving
  <2>2. k \in Nat
    BY <2>1, WithinBody DEF Inv
  <2>3. p \in 0 .. t + k
    BY <1>4, <2>2
  <2> QED
    BY <1>1, <1>2, <1>3, <2>1, <2>3 DEF Parsing
<1>12. ASSUME mode # "basic", p < t, NEW end, Entire => end = n, NEW allocated, ParseNext(end, allocated),
              taken' = taken, pc' = pc, mode = "multipart" => pc = "receive", mode = "body" => pc = "respond"
       PROVE  Parsing'
  <2>1. Zone(mode, Entire, form, parser') /\ parser'.parsed = p + 1
    BY <1>2, <1>12, Fed
  <2>2. p + 1 \in 0 .. t
    BY <1>12
  <2>3. Zone(mode, Entire', form, parser')
    BY <1>7, <1>12, <2>1
  <2> QED
    BY <1>1, <1>2, <1>6, <1>12, <2>1, <2>2, <2>3 DEF Parsing
<1>13. ASSUME NEW allocated, ParseMultipart(allocated) PROVE Parsing'
  <2>1. /\ pc = "receive" /\ mode = "multipart" /\ p < t /\ ParseNext(n, allocated)
        /\ taken' = taken /\ pc' = pc
    BY <1>2, <1>13 DEF ParseMultipart
  <2> QED
    BY <1>12, <2>1
<1>14. ASSUME NEW allocated, ParseParams(allocated) PROVE Parsing'
  <2>1. /\ pc = "respond" /\ mode = "body" /\ p < t /\ ParseNext(t, allocated)
        /\ taken' = taken /\ pc' = pc
    BY <1>2, <1>14 DEF ParseParams
  <2>2. Entire => t = n
    BY <1>2, <2>1 DEF Entire
  <2> QED
    BY <1>12, <2>1, <2>2
<1>15. CASE AllReceived
  BY <1>2, <1>8, <1>15 DEF AllReceived, AtRecv
<1>16. CASE RespondWeb
  BY <1>2, <1>6, <1>8, <1>16 DEF RespondWeb
<1>17. CASE RespondUpload
  BY <1>3, <1>8, <1>17 DEF RespondUpload
<1>18. CASE SocketError
  BY <1>2, <1>8, <1>18 DEF SocketError, AtRecv
<1>19. CASE TimeOut
  BY <1>3, <1>8, <1>19 DEF TimeOut
<1>20. CASE PeerCloses
  BY <1>3, <1>8, <1>20 DEF PeerCloses
<1>21. CASE UNCHANGED vars
  BY <1>3, <1>8, <1>21 DEF vars
<1> QED
  BY <1>9, <1>10, <1>11, <1>13, <1>14, <1>15, <1>16, <1>17, <1>18, <1>19, <1>20, <1>21 DEF Next, Step

\* One more call of the upload callback joins the ones before.
LEMMA CallsMore ==
  ASSUME NEW A, NEW cs, cs \in Seq(Calls(A)), NEW n, CallsJoin(cs, n), NEW x, x \in Calls(A),
         x.index = EndOf(cs), x.last <=> x.index + Len(x.data) = n
  PROVE  /\ Append(cs, x) \in Seq(Calls(A)) /\ CallsJoin(Append(cs, x), n)
         /\ EndOf(Append(cs, x)) = x.index + Len(x.data)
<1>1. PICK l \in Nat : l = Len(cs)
  OBVIOUS
<1>2. PICK ds : l = Len(cs) /\ ds = Append(cs, x)
  BY <1>1
<1>3. /\ ds \in Seq(Calls(A)) /\ Len(ds) = l + 1 /\ ds[l + 1] = x /\ ds # <<>>
      /\ \A i \in 1 .. l : ds[i] = cs[i]
  BY <1>2
<1>4. CallsJoin(ds, n)
  <2> SUFFICES ASSUME NEW i \in 1 .. l + 1
               PROVE  /\ ds[i].index = IF i = 1 THEN 0 ELSE ds[i - 1].index + Len(ds[i - 1].data)
                      /\ ds[i].last <=> ds[i].index + Len(ds[i].data) = n
    BY <1>3 DEF CallsJoin
  <2>1. CASE i \in 1 .. l
    <3>1. ds[i] = cs[i] /\ (i # 1 => ds[i - 1] = cs[i - 1])
      BY <1>3, <2>1
    <3>2. /\ cs[i].index = IF i = 1 THEN 0 ELSE cs[i - 1].index + Len(cs[i - 1].data)
          /\ cs[i].last <=> cs[i].index + Len(cs[i].data) = n
      BY <1>2, <2>1 DEF CallsJoin
    <3> QED
      BY <3>1, <3>2
  <2>2. CASE i \notin 1 .. l
    <3>1. i = l + 1 /\ i - 1 = l /\ (i = 1 <=> l = 0) /\ (i # 1 => l \in 1 .. l)
      BY <2>2
    <3>2. ds[i] = x /\ (i # 1 => ds[i - 1] = cs[l])
      BY <1>3, <3>1
    <3>3. l = 0 <=> cs = <<>>
      BY <1>2
    <3>4. x.index = IF i = 1 THEN 0 ELSE cs[l].index + Len(cs[l].data)
      BY <1>2, <3>1, <3>3 DEF EndOf
    <3> QED
      BY <3>2, <3>4
  <2> QED
    BY <2>1, <2>2
<1>5. EndOf(ds) = x.index + Len(x.data)
  BY <1>3 DEF EndOf
<1> QED
  BY <1>2, <1>3, <1>4, <1>5

\* Each step keeps the calls of the basic upload joined up.
LEMMA CallingKept ==
  ASSUME Inv, [Next]_vars
  PROVE  Calling'
<1>1. mode' = mode /\ form' = form /\ body' = body
  BY SameRequest
<1>2. PICK A, cs : A = ToSet(body) /\ cs = calls
  OBVIOUS
<1>3. PICK n \in Nat, t \in Nat : n = ContentLength /\ t = taken
  <2>1. ContentLength \in Nat
    BY BodyIsText DEF Inv
  <2>2. taken \in Nat
    BY <2>1 DEF Inv, Loop
  <2>3. PICK n \in Nat, t \in Nat : n = ContentLength /\ t = taken
    BY <2>1, <2>2
  <2> QED
    BY <2>3
<1>4. ToSet(body') = A /\ ContentLength' = n /\ body \in Seq(A) /\ Len(body) = n
  <2>1. body \in Seq(A)
    BY <1>2, <1>3, BodyIsText DEF Inv
  <2> QED
    BY <1>1, <1>2, <1>3, <2>1 DEF ContentLength
<1>5. /\ mode # "basic" => cs = <<>>
      /\ cs \in Seq(Calls(A)) /\ CallsJoin(cs, n)
      /\ mode = "basic" /\ pc = "receive" => EndOf(cs) = t
  BY <1>2, <1>3 DEF Inv, Calling
<1>6. ASSUME calls' = calls, mode # "basic" \/ pc' # "receive" \/ (pc = "receive" /\ taken' = taken)
      PROVE  Calling'
  <2>1. mode = "basic" /\ pc' = "receive" => EndOf(cs) = taken'
    BY <1>2, <1>3, <1>5, <1>6
  <2> QED
    BY <1>1, <1>2, <1>3, <1>4, <1>5, <1>6, <2>1 DEF Calling
<1>7. ASSUME NEW k \in 0 .. Asked, NEW accepted \in BOOLEAN, ReceiveBasic(k, accepted) PROVE Calling'
  <2>1. /\ mode = "basic" /\ pc = "receive" /\ Remaining > 0 /\ Received(k)
        /\ calls' = IF k = 0 THEN calls
                    ELSE Append(calls, [index |-> taken, data |-> SubSeq(body, taken + 1, taken + k),
                                        last |-> Remaining = k])
        /\ IF accepted THEN taken' = taken + k /\ UNCHANGED <<err, pc>>
                       ELSE err' = "fail" /\ pc' = "respond" /\ UNCHANGED taken
    BY <1>7 DEF ReceiveBasic, Receiving, AtRecv
  <2>2. k \in Nat /\ t + k \in 0 .. n /\ (Remaining = k <=> t + k = n)
    BY <1>2, <1>3, <2>1, WithinBody DEF Inv
  <2>3. CASE k = 0
    <3>1. t + 0 = t
      OBVIOUS
    <3>2. calls' = calls /\ (pc' # "receive" \/ taken' = taken)
      BY <1>2, <1>3, <2>1, <2>3, <3>1
    <3> QED
      BY <1>6, <2>1, <3>2
  <2>4. CASE k # 0
    <3>1. PICK d : d = SubSeq(body, t + 1, t + k)
      OBVIOUS
    <3>2. PICK s : s = body
      OBVIOUS
    <3>3. s \in Seq(A) /\ Len(s) = n /\ d = SubSeq(s, t + 1, t + k)
      BY <1>4, <3>1, <3>2
    <3>4. d \in Seq(A) /\ Len(d) = k
      <4>1. t + k <= n /\ t + 1 \in 1 .. n /\ t + k \in 1 .. n /\ t + 1 <= t + k /\ (t + k) - (t + 1) + 1 = k
        BY <2>2, <2>4
      <4> QED
        BY <3>3, <4>1
    <3>5. PICK e \in BOOLEAN : e = (Remaining = k)
      OBVIOUS
    <3>6. PICK x : x = [index |-> t, data |-> d, last |-> e]
      OBVIOUS
    <3>7. x \in Calls(A) /\ x.index = t /\ x.data = d /\ x.last = e
      BY <3>4, <3>6 DEF Calls
    <3>8. calls' = Append(cs, x)
      BY <1>2, <1>3, <2>1, <2>4, <3>1, <3>5, <3>6
    <3>9. EndOf(cs) = t
      BY <1>5, <2>1
    <3>10. x.last <=> x.index + Len(x.data) = n
      BY <2>2, <3>4, <3>5, <3>7
    <3>11. /\ calls' \in Seq(Calls(A)) /\ CallsJoin(calls', n) /\ EndOf(calls') = t + k
      <4>1. cs \in Seq(Calls(A)) /\ CallsJoin(cs, n) /\ x \in Calls(A) /\ x.index = EndOf(cs)
        BY <1>5, <3>7, <3>9
      <4>2. /\ Append(cs, x) \in Seq(Calls(A)) /\ CallsJoin(Append(cs, x), n)
            /\ EndOf(Append(cs, x)) = x.index + Len(x.data)
        BY <3>10, <4>1, CallsMore, Zenon
      <4> QED
        BY <3>4, <3>7, <3>8, <4>2
    <3>12. pc' = "receive" => taken' = t + k
      BY <1>2, <1>3, <2>1
    <3> QED
      BY <1>1, <1>4, <2>1, <3>11, <3>12 DEF Calling
  <2> QED
    BY <2>3, <2>4
<1>8. ASSUME NEW k, ReceiveBody(k) \/ ReceiveMultipart(k) PROVE Calling'
  BY <1>6, <1>8 DEF ReceiveBody, ReceiveMultipart, Receiving
<1>9. ASSUME NEW allocated, ParseMultipart(allocated) \/ ParseParams(allocated) PROVE Calling'
  BY <1>6, <1>9 DEF ParseMultipart, ParseParams
<1>10. CASE AllReceived \/ RespondWeb \/ RespondUpload \/ SocketError
  BY <1>6, <1>10 DEF AllReceived, RespondWeb, RespondUpload, SocketError
<1>11. CASE TimeOut
  <2>1. pc = "receive" /\ taken' = taken /\ calls' = calls
    BY <1>11 DEF TimeOut, AtRecv
  <2> QED
    BY <1>6, <2>1
<1>12. CASE PeerCloses
  <2>1. pc = "receive" /\ taken' = taken /\ calls' = calls
    BY <1>12 DEF PeerCloses
  <2> QED
    BY <1>6, <2>1
<1>13. CASE UNCHANGED vars
  <2>1. pc' = pc /\ taken' = taken /\ calls' = calls
    BY <1>13 DEF vars
  <2> QED
    BY <1>6, <2>1
<1> QED
  BY <1>7, <1>8, <1>9, <1>10, <1>11, <1>12, <1>13 DEF Next, Step

\* The inductive invariant
LEMMA InvHolds == Spec => []Inv
<1>1. Inv /\ [Next]_vars => Inv'
  BY LoopKept, ParsingKept, CallingKept DEF Inv
<1> QED
  BY <1>1, InitHolds, PTL DEF Spec

-----------------------------------------------------------------------------
(* What follows from it.                                                   *)

\* Unless the upload is a basic one, the parser is sound; in a basic one nothing was parsed.
LEMMA ParserSound ==
  ASSUME Inv
  PROVE  /\ mode # "basic" => Sound(mode, Entire, form, parser) /\ parser \in Parsers(Words(form))
         /\ mode = "basic" => parser = NewParser
  <1>1. ASSUME mode # "basic" PROVE Sound(mode, Entire, form, parser) /\ parser \in Parsers(Words(form))
    <2>1. WellFormed(form) /\ Zone(mode, Entire, form, parser)
      BY <1>1, BodyIsText DEF Inv, Parsing
    <2> QED
      BY <2>1, ZoneSound
  <1> QED
    BY <1>1 DEF Inv, Parsing

\* PsychicRequest::loadParams and MultipartProcessor: the application hears exactly what the
\* form says, in order and byte for byte, however the body is cut into pieces, wherever a
\* guess of the delimiter goes wrong, and whatever the boundary, the header lines and the
\* contents of the form are; the parser gives up only for want of memory.
THEOREM FormAlwaysHeard == Spec => []FormIsHeard
<1>1. Inv => FormIsHeard
  <2> SUFFICES ASSUME Inv, mode = "multipart" \/ (mode = "body" /\ taken = ContentLength)
               PROVE  /\ IsPrefix(AllTold(mode, parser.out), AllSaid(mode, form))
                      /\ parser.state = "PARSING_FINISHED" => AllTold(mode, parser.out) = AllSaid(mode, form)
                      /\ parser.state = "PARSE_ERROR" => parser.isFile /\ parser.size = 0
                      /\ parser.parsed = ContentLength => parser.state \in {"PARSING_FINISHED", "PARSE_ERROR"}
    BY DEF FormIsHeard
  <2>1. Entire /\ mode # "basic"
    BY DEF Entire
  <2>2. Sound(mode, Entire, form, parser)
    BY <2>1, ParserSound
  <2>3. ContentLength = Len(Encode(form))
    BY <2>1, BodyIsText DEF Inv, ContentLength
  <2> QED
    BY <2>1, <2>2, <2>3 DEF Sound, HeardSoFar
<1> QED
  BY <1>1, InvHolds, PTL

\* PsychicUploadHandler::_basicUploadHandler and MultipartProcessor::_handleUploadByte: the
\* pieces the upload callback is given join up without a gap or an overlap, whatever pieces
\* the body arrives in, and the last one is marked.
THEOREM PiecesAlwaysJoin == Spec => []PiecesJoin
<1>1. Inv => PiecesJoin
  <2> SUFFICES ASSUME Inv PROVE PiecesJoin
    OBVIOUS
  <2>1. PiecesOk(mode, parser.out)
    <3>1. CASE mode = "multipart"
      <4>1. Entire /\ mode # "basic"
        BY <3>1 DEF Entire
      <4> QED
        BY <4>1, ParserSound DEF Sound, HeardSoFar
    <3>2. CASE mode # "multipart"
      <4>1. Pieces(mode, parser.out) = {}
        BY <3>2 DEF Pieces, Heard
      <4> QED
        BY <4>1 DEF PiecesOk
    <3> QED
      BY <3>1, <3>2
  <2>2. CallsJoin(calls, ContentLength)
    BY DEF Inv, Calling
  <2> QED
    BY <2>1, <2>2 DEF PiecesJoin, PiecesOk, CallsJoin
<1> QED
  BY <1>1, InvHolds, PTL

\* PsychicUploadHandler::handleRequest: the request callback of an upload runs only behind a
\* body that was received to the end; with it the types of the whole state.
THEOREM UploadAlwaysWhole == Spec => []WholeUpload
<1>1. Inv => WholeUpload
  <2> SUFFICES ASSUME Inv PROVE WholeUpload
    OBVIOUS
  <2>1. Len(parser.buf) < ChunkSize
    <3>1. CASE mode = "basic"
      <4>1. parser.buf = <<>>
        BY <3>1, ParserSound DEF NewParser
      <4> QED
        BY <4>1, ChunkAssumption
    <3>2. CASE mode # "basic"
      BY <3>2, ParserSound DEF Sound
    <3> QED
      BY <3>1, <3>2
  <2>2. TypeOK
    BY <2>1 DEF Inv, Loop, Parsing, TypeOK
  <2>3. mode # "body" /\ answer = "callback" => taken = ContentLength
    BY DEF Inv, Loop
  <2> QED
    BY <2>2, <2>3 DEF WholeUpload
<1> QED
  BY <1>1, InvHolds, PTL

\* MultipartProcessor's _itemBuffer: there is one whenever a byte of a file may be written to
\* it, however the guesses of the delimiter go, and a request that was received whole has
\* freed it.
THEOREM BufferAlwaysHeld == Spec => []BufferHeld
<1>1. Inv => BufferHeld
  <2> SUFFICES ASSUME Inv PROVE BufferHeld
    OBVIOUS
  <2>1. CASE mode = "basic"
    <3>1. parser = NewParser
      BY <2>1, ParserSound
    <3>2. ~parser.isFile /\ ~parser.held
      BY <3>1 DEF NewParser
    <3> QED
      BY <3>2 DEF BufferHeld
  <2>2. CASE mode # "basic"
    <3>1. Sound(mode, Entire, form, parser)
      BY <2>2, ParserSound
    <3>2. mode \in {"body", "multipart"}
      BY <2>2, ModesAssumption DEF Inv, Loop
    <3>3. ContentLength = Len(Encode(form))
      BY <2>2, BodyIsText DEF Inv, ContentLength
    <3>4. pc = "done" /\ taken = ContentLength => ~parser.held
      BY <3>1, <3>2, <3>3 DEF Inv, Parsing, Sound
    <3> QED
      BY <3>1, <3>4 DEF BufferHeld, Sound, ContentStates
  <2> QED
    BY <2>1, <2>2
<1> QED
  BY <1>1, InvHolds, PTL

=============================================================================
