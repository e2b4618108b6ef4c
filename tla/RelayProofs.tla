----------------------------- MODULE RelayProofs -----------------------------
(***************************************************************************)
(* For any blocks an upstream may send, any number of them, any chunks the *)
(* network cuts them into, and either path, when all the lines of a stream *)
(* end in LF or all in CR and the last of them comes: the client reads the *)
(* events as they were sent, and the meter has observed the same.          *)
(*                                                                         *)
(* The parser and the reader are folds over bytes, so the lemmas say what  *)
(* one byte more does, what one chunk more does, and then what the chunks  *)
(* of a stream come to: the events of the parser are those of the reader,  *)
(* however they are cut; an event written is an event read; and rewriting  *)
(* bytes is rewriting events.                                              *)
(***************************************************************************)
EXTENDS Relay, FiniteSetTheorems, SequenceTheorems, TLAPS

-----------------------------------------------------------------------------
(* Folds.                                                                  *)

\* The first n positions of a list.
LEMMA PositionsCount ==
  ASSUME NEW n \in Nat
  PROVE  IsFiniteSet(1..n) /\ Cardinality(1..n) = n
<1>1. IsFiniteSet(1..n) /\ Cardinality(1..n) = IF 1 > n THEN 0 ELSE n - 1 + 1
  BY FS_Interval
<1> QED
  BY <1>1

\* Induction up to n, over a set: the numbers with only numbers of E up to them
\* are as many first ones.
LEMMA Upto ==
  ASSUME NEW n \in Nat, NEW E \in SUBSET (0..n), 0 \in E,
         \A i \in 0..(n - 1) : i \in E => i + 1 \in E
  PROVE  E = 0..n
<1> DEFINE F == {i \in 1..n : \A j \in 1..i : j \in E}
<1>1. IsFiniteSet(F)
  BY PositionsCount, FS_Subset
<1>2. PICK c \in Nat : c = Cardinality(F)
  BY <1>1, FS_CardinalityType
<1>3. ASSUME NEW i \in F
      PROVE  i <= c
  <2>1. 1..i \in SUBSET F
    OBVIOUS
  <2>2. Cardinality(1..i) = i
    BY PositionsCount
  <2> QED
    BY <1>1, <1>2, <2>1, <2>2, FS_Subset
<1>4. F \in SUBSET (1..c)
  BY <1>3
<1>5. F = 1..c
  BY <1>2, <1>4, PositionsCount, FS_Subset
<1>6. c <= n
  <2>1. CASE c = 0
    BY <2>1
  <2>2. CASE c > 0
    <3>1. c \in F
      BY <1>5, <2>2
    <3> QED
      BY <3>1
  <2> QED
    BY <2>1, <2>2
<1>7. \A i \in 0..c : i \in E
  <2>1. \A i \in 1..c : i \in E
    BY <1>5
  <2> QED
    BY <2>1
<1>8. c = n
  <2>1. SUFFICES ASSUME c < n
                 PROVE  FALSE
    BY <1>6
  <2>2. c + 1 \in E
    BY <1>7, <2>1
  <2>3. \A j \in 1..(c + 1) : j \in E
    BY <1>7, <2>2
  <2>4. c + 1 \in F
    BY <2>1, <2>3
  <2> QED
    BY <1>5, <2>4
<1> QED
  BY <1>7, <1>8

\* Induction over sequences, over a set: one that holds the empty sequence and
\* whatever an element more makes of its own holds every sequence.
LEMMA SeqBuilt ==
  ASSUME NEW S, NEW E \in SUBSET Seq(S), <<>> \in E,
         \A s \in E : \A x \in S : Append(s, x) \in E
  PROVE  E = Seq(S)
<1> SUFFICES ASSUME NEW s \in Seq(S)
             PROVE  s \in E
  OBVIOUS
<1>1. PICK n \in Nat : n = Len(s)
  BY LenProperties
<1>2. PICK pre : pre = [k \in 0 .. n |-> SubSeq(s, 1, k)]
  OBVIOUS
<1> DEFINE P == {k \in 0 .. n : pre[k] \in E}
<1>3. 0 \in P
  <2>1. SubSeq(s, 1, 0) = <<>>
    BY SubSeqEmpty
  <2>2. pre[0] = <<>>
    BY <1>1, <1>2, <2>1
  <2>3. pre[0] \in E
    BY <2>2
  <2> QED
    BY <1>1, <2>3
<1>4. ASSUME NEW k \in 0 .. (n - 1), k \in P
      PROVE  k + 1 \in P
  <2>1. 1 \in 1 .. n /\ k + 1 \in 1 .. n /\ (k + 1) - 1 = k /\ k \in 0 .. n /\ k + 1 \in 0 .. n
    <3>1. 1 \in 1 .. n /\ k + 1 \in 1 .. n
      OBVIOUS
    <3>2. (k + 1) - 1 = k
      OBVIOUS
    <3> QED
      BY <3>1, <3>2
  <2>2. SubSeq(s, 1, k + 1) = SubSeq(s, 1, k) \o <<s[k + 1]>>
    BY <1>1, <2>1, SubSeqRecursiveSecond
  <2>3. pre[k] = SubSeq(s, 1, k) /\ pre[k] \in E /\ pre[k] \in Seq(S)
    BY <1>2, <1>4, <2>1
  <2>4. s[k + 1] \in S
    BY <1>1, <2>1, ElementOfSeq
  <2>5. pre[k + 1] = Append(pre[k], s[k + 1])
    <3>1. pre[k + 1] = pre[k] \o <<s[k + 1]>>
      BY <1>2, <2>1, <2>2, <2>3
    <3> QED
      BY <2>3, <2>4, <3>1, AppendIsConcat
  <2>6. pre[k + 1] \in E
    BY <2>3, <2>4, <2>5
  <2> QED
    BY <2>1, <2>6
<1>5. P \in SUBSET (0 .. n)
  OBVIOUS
<1> HIDE DEF P
<1>6. P = 0 .. n
  BY <1>1, <1>3, <1>4, <1>5, Upto
<1>7. n \in P
  BY <1>1, <1>6
<1>8. pre[n] = s
  <2>1. SubSeq(s, 1, n) = s
    BY <1>1, SubSeqFull
  <2> QED
    BY <1>1, <1>2, <2>1
<1> QED
  BY <1>7, <1>8 DEF P

\* The steps of a fold.
Steps(f, step, base, s) ==
  /\ f[0] = base
  /\ \A n \in 1 .. Len(s) : f[n] = step[<<f[n - 1], s[n]>>]

\* A fold whose steps stay in a set can be carried out.
LEMMA FoldExists ==
  ASSUME NEW S, NEW T, NEW base \in S, NEW step \in [S \X T -> S], NEW s \in Seq(T)
  PROVE  \E f \in [0 .. Len(s) -> S] : Steps(f, step, base, s)
<1> DEFINE E == {r \in Seq(T) : \E f \in [0 .. Len(r) -> S] : Steps(f, step, base, r)}
<1>1. <<>> \in E
  <2>1. PICK f : f = [n \in 0 .. 0 |-> base]
    OBVIOUS
  <2>2. Len(<<>>) = 0 /\ <<>> \in Seq(T)
    OBVIOUS
  <2>3. f \in [0 .. Len(<<>>) -> S] /\ Steps(f, step, base, <<>>)
    BY <2>1, <2>2 DEF Steps
  <2> QED
    BY <2>2, <2>3
<1>2. ASSUME NEW r \in E, NEW x \in T
      PROVE  Append(r, x) \in E
  <2>1. PICK f \in [0 .. Len(r) -> S] : Steps(f, step, base, r)
    BY <1>2
  <2>2. PICK m \in Nat : m = Len(r)
    BY <1>2
  <2>3. PICK y : y = step[<<f[m], x>>]
    OBVIOUS
  <2>4. y \in S
    BY <2>1, <2>2, <2>3
  <2>5. PICK g : g = [n \in 0 .. (m + 1) |-> IF n <= m THEN f[n] ELSE y]
    OBVIOUS
  <2>6. g \in [0 .. (m + 1) -> S]
    BY <2>1, <2>2, <2>4, <2>5
  <2>7. /\ Append(r, x) \in Seq(T) /\ Len(Append(r, x)) = m + 1
        /\ \A n \in 1 .. m : Append(r, x)[n] = r[n]
        /\ Append(r, x)[m + 1] = x
    BY <1>2, <2>2, AppendProperties
  <2>8. g[0] = base
    BY <2>1, <2>2, <2>5 DEF Steps
  <2>9. ASSUME NEW n \in 1 .. (m + 1)
        PROVE  g[n] = step[<<g[n - 1], Append(r, x)[n]>>]
    <3>1. CASE n <= m
      <4>1. g[n] = f[n] /\ g[n - 1] = f[n - 1]
        BY <2>2, <2>5, <3>1
      <4>2. f[n] = step[<<f[n - 1], r[n]>>]
        BY <2>1, <2>2, <3>1 DEF Steps
      <4>3. Append(r, x)[n] = r[n]
        BY <2>2, <2>7, <3>1
      <4> QED
        BY <4>1, <4>2, <4>3
    <3>2. CASE n = m + 1
      <4>1. g[n] = y /\ g[n - 1] = f[m]
        BY <2>2, <2>5, <3>2
      <4>2. Append(r, x)[n] = x
        BY <2>7, <3>2
      <4> QED
        BY <2>3, <4>1, <4>2
    <3>3. n <= m \/ n = m + 1
      BY <2>2
    <3> QED
      BY <3>1, <3>2, <3>3
  <2>10. Steps(g, step, base, Append(r, x))
    BY <2>7, <2>8, <2>9 DEF Steps
  <2> QED
    BY <2>6, <2>7, <2>10
<1> HIDE DEF E
<1>3. E = Seq(T)
  <2>1. E \in SUBSET Seq(T)
    BY DEF E
  <2> QED
    BY <1>1, <1>2, <2>1, SeqBuilt
<1> QED
  BY <1>3 DEF E

\* Two folds take the same steps from the same start.
SameSteps(f, g, n) ==
  /\ f[0] = g[0]
  /\ \A i \in 1 .. n : f[i - 1] = g[i - 1] => f[i] = g[i]

\* Then they agree.
LEMMA FoldsAgree ==
  ASSUME NEW n \in Nat, NEW f, NEW g, SameSteps(f, g, n)
  PROVE  \A i \in 0 .. n : f[i] = g[i]
<1> DEFINE E == {i \in 0 .. n : f[i] = g[i]}
<1>1. 0 \in E
  BY DEF SameSteps
<1>2. ASSUME NEW i \in 0 .. (n - 1), i \in E
      PROVE  i + 1 \in E
  <2>1. i + 1 \in 1 .. n /\ (i + 1) - 1 = i
    OBVIOUS
  <2>2. f[i] = g[i]
    BY <1>2
  <2>3. f[i + 1] = g[i + 1]
    BY <2>1, <2>2 DEF SameSteps
  <2> QED
    BY <2>1, <2>3
<1>3. E \in SUBSET (0 .. n)
  OBVIOUS
<1> HIDE DEF E
<1>4. E = 0 .. n
  BY <1>1, <1>2, <1>3, Upto
<1> QED
  BY <1>4 DEF E

\* A fold over a sequence with one element more begins as the fold over it.
LEMMA FoldGoesOn ==
  ASSUME NEW base, NEW step, NEW m \in Nat, NEW s, NEW r, NEW f, NEW g,
         Len(s) = m, Len(r) = m + 1, \A n \in 1 .. m : r[n] = s[n],
         Steps(f, step, base, s), Steps(g, step, base, r)
  PROVE  g[m] = f[m]
<1>1. f[0] = g[0]
  BY DEF Steps
<1>2. \A i \in 1 .. m : f[i - 1] = g[i - 1] => f[i] = g[i]
  <2> SUFFICES ASSUME NEW i \in 1 .. m, f[i - 1] = g[i - 1]
               PROVE  f[i] = g[i]
    OBVIOUS
  <2>1. i \in 1 .. (m + 1)
    OBVIOUS
  <2>2. f[i] = step[<<f[i - 1], s[i]>>] /\ g[i] = step[<<g[i - 1], r[i]>>]
    BY <2>1 DEF Steps
  <2> QED
    BY <2>2
<1>3. \A i \in 0 .. m : f[i] = g[i]
  <2>1. SameSteps(f, g, m)
    BY <1>1, <1>2 DEF SameSteps
  <2> QED
    BY <2>1, FoldsAgree
<1> QED
  BY <1>3

-----------------------------------------------------------------------------
(* The parser and the reader, byte by byte.                                *)

Tokens == Words \cup {CR, LF, "data", Thoughts, Shifted, Failure, Done}
Bytes  == Seq(Tokens)
Events == [named : BOOLEAN, data : Seq(Bytes)]

ParseStates == [line : Bytes, data : Seq(Bytes)]
SplitStates == [buf : Bytes, events : Seq(Bytes)]
Readers     == [cr : BOOLEAN, line : Bytes, event : Events, events : Seq(Events)]

Blank == [line |-> <<>>, data |-> <<>>]
Empty == [buf |-> <<>>, events |-> <<>>]

\* What Payload() has gathered when it comes to the end.
Parse(raw) ==
  LET f[n \in 0 .. Len(raw)] == IF n = 0 THEN Blank ELSE Parsed(f[n - 1], raw[n])
  IN  f[Len(raw)]

\* What Payload() gathers.
LEMMA PayloadIs ==
  ASSUME NEW raw
  PROVE  Payload(raw) = DataSoFar(Parse(raw))
BY Zenon DEF Payload, Parse, Blank

\* The payloads gathered so far are lines of bytes.
LEMMA DataSoFarType ==
  ASSUME NEW acc \in ParseStates
  PROVE  DataSoFar(acc) \in Seq(Bytes)
<1>1. acc.line \in Bytes /\ acc.data \in Seq(Bytes)
  BY DEF ParseStates
<1>2. CASE acc.line # <<>> /\ Head(acc.line) = "data"
  <2>1. Tail(acc.line) \in Bytes
    BY <1>1, <1>2, HeadTailProperties DEF Bytes
  <2>2. Append(acc.data, Tail(acc.line)) \in Seq(Bytes)
    BY <1>1, <2>1, AppendProperties
  <2> QED
    BY <1>2, <2>2 DEF DataSoFar
<1>3. CASE ~(acc.line # <<>> /\ Head(acc.line) = "data")
  BY <1>1, <1>3 DEF DataSoFar
<1> QED
  BY <1>2, <1>3

\* One byte more for _parse_block().
LEMMA ParsedType ==
  ASSUME NEW acc \in ParseStates, NEW t \in Tokens
  PROVE  Parsed(acc, t) \in ParseStates
<1>1. acc.line \in Bytes /\ acc.data \in Seq(Bytes)
  BY DEF ParseStates
<1>2. DataSoFar(acc) \in Seq(Bytes)
  BY DataSoFarType
<1>3. <<>> \in Bytes /\ Append(acc.line, t) \in Bytes
  BY <1>1, EmptySeq, AppendProperties DEF Bytes
<1>4. [acc EXCEPT !.line = Append(@, t)] \in ParseStates
  BY <1>1, <1>3 DEF ParseStates
<1>5. [line |-> <<>>, data |-> DataSoFar(acc)] \in ParseStates
  BY <1>2, <1>3 DEF ParseStates
<1> QED
  BY <1>4, <1>5 DEF Parsed

\* The parser of a block.
ParseRun(h, s) ==
  h = [n \in 0 .. Len(s) |-> IF n = 0 THEN Blank ELSE Parsed(h[n - 1], s[n])]

\* Anything that takes its steps is its result.
LEMMA ParseIs ==
  ASSUME NEW s \in Bytes, NEW f \in [0 .. Len(s) -> ParseStates],
         f[0] = Blank, \A n \in 1 .. Len(s) : f[n] = Parsed(f[n - 1], s[n])
  PROVE  Parse(s) = f[Len(s)]
<1>1. Len(s) \in Nat
  BY LenProperties DEF Bytes
<1>2. ParseRun(f, s)
  <2>1. f = [n \in 0 .. Len(s) |-> f[n]]
    OBVIOUS
  <2>2. \A n \in 0 .. Len(s) : f[n] = IF n = 0 THEN Blank ELSE Parsed(f[n - 1], s[n])
    BY <1>1
  <2>3. f = [n \in 0 .. Len(s) |-> IF n = 0 THEN Blank ELSE Parsed(f[n - 1], s[n])]
    BY <2>1, <2>2, Zenon
  <2> QED
    BY <2>3, Zenon DEF ParseRun
<1>3. PICK g : g = CHOOSE h : ParseRun(h, s)
  OBVIOUS
<1>4. ParseRun(g, s)
  BY <1>2, <1>3, Zenon
<1>5. Parse(s) = g[Len(s)]
  BY <1>3, Zenon DEF Parse, ParseRun
<1>6. \A n \in 0 .. Len(s) : g[n] = IF n = 0 THEN Blank ELSE Parsed(g[n - 1], s[n])
  BY <1>4, Zenon DEF ParseRun
<1>7. g[0] = f[0]
  BY <1>1, <1>6
<1>8. \A n \in 1 .. Len(s) : g[n] = Parsed(g[n - 1], s[n])
  BY <1>1, <1>6
<1>9. \A n \in 1 .. Len(s) : g[n - 1] = f[n - 1] => g[n] = f[n]
  <2> SUFFICES ASSUME NEW n \in 1 .. Len(s), g[n - 1] = f[n - 1]
               PROVE  g[n] = f[n]
    OBVIOUS
  <2>1. g[n] = Parsed(g[n - 1], s[n]) /\ f[n] = Parsed(f[n - 1], s[n])
    BY <1>8
  <2> QED
    BY <2>1
<1>10. \A n \in 0 .. Len(s) : g[n] = f[n]
  <2>1. SameSteps(g, f, Len(s))
    BY <1>7, <1>9 DEF SameSteps
  <2> QED
    BY <1>1, <2>1, FoldsAgree
<1> QED
  BY <1>1, <1>5, <1>10

\* _parse_block(), byte by byte: it takes a step more for a byte more.
LEMMA ParseUnfold ==
  /\ Parse(<<>>) = Blank
  /\ \A s \in Bytes : Parse(s) \in ParseStates
  /\ \A s \in Bytes : \A t \in Tokens : Parse(Append(s, t)) = Parsed(Parse(s), t)
<1>1. Blank \in ParseStates
  BY EmptySeq DEF ParseStates, Blank, Bytes
<1>2. PICK step : step = [x \in ParseStates \X Tokens |-> Parsed(x[1], x[2])]
  OBVIOUS
<1>3. step \in [ParseStates \X Tokens -> ParseStates]
  BY <1>2, ParsedType
<1>4. \A r \in ParseStates : \A t \in Tokens : step[<<r, t>>] = Parsed(r, t)
  BY <1>2
<1>5. ASSUME NEW s \in Bytes, NEW f \in [0 .. Len(s) -> ParseStates], Steps(f, step, Blank, s)
      PROVE  Parse(s) = f[Len(s)]
  <2>1. Len(s) \in Nat /\ \A n \in 1 .. Len(s) : s[n] \in Tokens
    BY LenProperties, ElementOfSeq DEF Bytes
  <2>2. f[0] = Blank
    BY <1>5 DEF Steps
  <2>3. ASSUME NEW n \in 1 .. Len(s)
        PROVE  f[n] = Parsed(f[n - 1], s[n])
    <3>1. n - 1 \in 0 .. Len(s)
      BY <2>1
    <3>2. f[n - 1] \in ParseStates /\ s[n] \in Tokens
      BY <2>1, <3>1
    <3>3. f[n] = step[<<f[n - 1], s[n]>>]
      BY <1>5 DEF Steps
    <3> QED
      BY <1>4, <3>2, <3>3
  <2> QED
    BY <2>2, <2>3, ParseIs
<1>6. Parse(<<>>) = Blank
  <2>1. <<>> \in Bytes /\ Len(<<>>) = 0
    BY EmptySeq DEF Bytes
  <2>2. PICK f \in [0 .. Len(<<>>) -> ParseStates] : Steps(f, step, Blank, <<>>)
    BY <1>1, <1>3, <2>1, FoldExists DEF Bytes
  <2> QED
    BY <1>5, <2>1, <2>2 DEF Steps
<1>7. ASSUME NEW s \in Bytes, NEW t \in Tokens
      PROVE  /\ Parse(s) \in ParseStates
             /\ Parse(Append(s, t)) = Parsed(Parse(s), t)
  <2>1. PICK r, m : r = Append(s, t) /\ m = Len(s)
    OBVIOUS
  <2>2. /\ s \in Seq(Tokens) /\ r \in Seq(Tokens) /\ m \in Nat /\ Len(s) = m
        /\ Len(r) = m + 1
        /\ \A n \in 1 .. m : r[n] = s[n]
        /\ r[m + 1] = t
    BY <2>1, AppendProperties DEF Bytes
  <2>3. PICK g \in [0 .. Len(r) -> ParseStates] : Steps(g, step, Blank, r)
    BY <1>1, <1>3, <2>2, FoldExists
  <2>4. PICK f \in [0 .. Len(s) -> ParseStates] : Steps(f, step, Blank, s)
    BY <1>1, <1>3, <2>2, FoldExists
  <2>5. g[m + 1] = step[<<f[m], t>>]
    <3>1. g[m] = f[m]
      BY <2>2, <2>3, <2>4, FoldGoesOn
    <3>2. m + 1 \in 1 .. Len(r) /\ (m + 1) - 1 = m
      BY <2>2
    <3>3. g[m + 1] = step[<<g[m], r[m + 1]>>]
      BY <2>3, <3>2 DEF Steps
    <3> QED
      BY <2>2, <3>1, <3>3
  <2>6. Parse(s) = f[m] /\ Parse(r) = g[m + 1]
    BY <1>5, <2>1, <2>2, <2>3, <2>4 DEF Bytes
  <2>7. f[m] \in ParseStates
    BY <2>1, <2>2, <2>4
  <2> QED
    BY <1>4, <2>1, <2>2, <2>5, <2>6, <2>7
<1>8. LF \in Tokens
  BY DEF Tokens
<1> QED
  BY <1>6, <1>7, <1>8

\* A sequence without its last element.
LEMMA FrontIs ==
  ASSUME NEW S, NEW s \in Seq(S), s # <<>>
  PROVE  /\ Front(s) \in Seq(S) /\ Last(s) \in S /\ s = Append(Front(s), Last(s))
         /\ Len(Front(s)) = Len(s) - 1
<1>1. PICK r \in Seq(S), x \in S : s = Append(r, x)
  BY SequenceEmptyOrAppend
<1>2. PICK n \in Nat : n = Len(r)
  BY LenProperties
<1>3. Len(s) = n + 1 /\ s[n + 1] = x /\ \A i \in 1 .. n : s[i] = r[i]
  BY <1>1, <1>2, AppendProperties
<1>4. Last(s) = x
  BY <1>3 DEF Last
<1>5. Front(s) = r
  <2>1. Front(s) = SubSeq(s, 1, n)
    BY <1>3 DEF Front
  <2>2. \A i \in 1 .. n : s[i] \in S
    BY <1>2, <1>3, ElementOfSeq
  <2>3. /\ SubSeq(s, 1, n) \in Seq(S) /\ Len(SubSeq(s, 1, n)) = n
        /\ \A i \in 1 .. n : SubSeq(s, 1, n)[i] = s[i]
    BY <2>2, SubSeqProperties
  <2> QED
    BY <1>2, <1>3, <2>1, <2>3, SeqEqual
<1> QED
  BY <1>1, <1>2, <1>3, <1>4, <1>5

\* A sequence with one element more.
LEMMA AppendIs ==
  ASSUME NEW S, NEW s \in Seq(S), NEW x \in S
  PROVE  /\ Append(s, x) \in Seq(S) /\ Append(s, x) # <<>>
         /\ Front(Append(s, x)) = s /\ Last(Append(s, x)) = x
<1>1. PICK r : r = Append(s, x)
  OBVIOUS
<1>2. r \in Seq(S) /\ r # <<>>
  BY <1>1, AppendProperties
<1>3. r = Append(Front(r), Last(r)) /\ Front(r) \in Seq(S) /\ Last(r) \in S
  BY <1>2, FrontIs
<1>4. Front(r) = s /\ Last(r) = x
  BY <1>1, <1>3, AppendInjective
<1> QED
  BY <1>1, <1>2, <1>4

\* One byte more for feed().
LEMMA TakenType ==
  ASSUME NEW acc \in SplitStates, NEW t \in Tokens
  PROVE  Taken(acc, t) \in SplitStates
<1>1. acc.buf \in Bytes /\ acc.events \in Seq(Bytes)
  BY DEF SplitStates
<1>2. CASE t = LF /\ acc.buf # <<>> /\ Last(acc.buf) = LF
  <2>1. Front(acc.buf) \in Bytes /\ <<>> \in Bytes
    BY <1>1, <1>2, FrontIs, EmptySeq DEF Bytes
  <2>2. PICK e : e = IF Payload(Front(acc.buf)) = <<>> THEN acc.events
                     ELSE Append(acc.events, Front(acc.buf))
    OBVIOUS
  <2>3. e \in Seq(Bytes)
    BY <1>1, <2>1, <2>2, AppendProperties
  <2>4. Taken(acc, t) = [buf |-> <<>>, events |-> e]
    BY <1>2, <2>2 DEF Taken
  <2> QED
    BY <2>1, <2>3, <2>4 DEF SplitStates
<1>3. CASE ~(t = LF /\ acc.buf # <<>> /\ Last(acc.buf) = LF)
  <2>1. Append(acc.buf, t) \in Bytes
    BY <1>1, AppendProperties DEF Bytes
  <2>2. Taken(acc, t) = [acc EXCEPT !.buf = Append(@, t)]
    BY <1>3, Zenon DEF Taken
  <2> QED
    BY <1>1, <2>1, <2>2 DEF SplitStates
<1> QED
  BY <1>2, <1>3

\* The cutting of bytes into blocks.
SplitRun(h, s) ==
  h = [n \in 0 .. Len(s) |-> IF n = 0 THEN Empty ELSE Taken(h[n - 1], s[n])]

\* Anything that takes its steps is its result.
LEMMA SplitIs ==
  ASSUME NEW s \in Bytes, NEW f \in [0 .. Len(s) -> SplitStates],
         f[0] = Empty, \A n \in 1 .. Len(s) : f[n] = Taken(f[n - 1], s[n])
  PROVE  Split(s) = f[Len(s)]
<1>1. Len(s) \in Nat
  BY LenProperties DEF Bytes
<1>2. SplitRun(f, s)
  <2>1. f = [n \in 0 .. Len(s) |-> f[n]]
    OBVIOUS
  <2>2. \A n \in 0 .. Len(s) : f[n] = IF n = 0 THEN Empty ELSE Taken(f[n - 1], s[n])
    BY <1>1
  <2>3. f = [n \in 0 .. Len(s) |-> IF n = 0 THEN Empty ELSE Taken(f[n - 1], s[n])]
    BY <2>1, <2>2, Zenon
  <2> QED
    BY <2>3, Zenon DEF SplitRun
<1>3. PICK g : g = CHOOSE h : SplitRun(h, s)
  OBVIOUS
<1>4. SplitRun(g, s)
  BY <1>2, <1>3, Zenon
<1>5. Split(s) = g[Len(s)]
  BY <1>3, Zenon DEF Split, SplitRun, Empty
<1>6. \A n \in 0 .. Len(s) : g[n] = IF n = 0 THEN Empty ELSE Taken(g[n - 1], s[n])
  BY <1>4, Zenon DEF SplitRun
<1>7. g[0] = f[0]
  BY <1>1, <1>6
<1>8. \A n \in 1 .. Len(s) : g[n] = Taken(g[n - 1], s[n])
  BY <1>1, <1>6
<1>9. \A n \in 1 .. Len(s) : g[n - 1] = f[n - 1] => g[n] = f[n]
  <2> SUFFICES ASSUME NEW n \in 1 .. Len(s), g[n - 1] = f[n - 1]
               PROVE  g[n] = f[n]
    OBVIOUS
  <2>1. g[n] = Taken(g[n - 1], s[n]) /\ f[n] = Taken(f[n - 1], s[n])
    BY <1>8
  <2> QED
    BY <2>1
<1>10. \A n \in 0 .. Len(s) : g[n] = f[n]
  <2>1. SameSteps(g, f, Len(s))
    BY <1>7, <1>9 DEF SameSteps
  <2> QED
    BY <1>1, <2>1, FoldsAgree
<1> QED
  BY <1>1, <1>5, <1>10

\* feed(), byte by byte.
LEMMA SplitUnfold ==
  /\ Split(<<>>) = Empty
  /\ \A s \in Bytes : Split(s) \in SplitStates
  /\ \A s \in Bytes : \A t \in Tokens : Split(Append(s, t)) = Taken(Split(s), t)
<1>1. Empty \in SplitStates
  BY EmptySeq DEF SplitStates, Empty, Bytes
<1>2. PICK step : step = [x \in SplitStates \X Tokens |-> Taken(x[1], x[2])]
  OBVIOUS
<1>3. step \in [SplitStates \X Tokens -> SplitStates]
  BY <1>2, TakenType
<1>4. \A r \in SplitStates : \A t \in Tokens : step[<<r, t>>] = Taken(r, t)
  BY <1>2
<1>5. ASSUME NEW s \in Bytes, NEW f \in [0 .. Len(s) -> SplitStates], Steps(f, step, Empty, s)
      PROVE  Split(s) = f[Len(s)]
  <2>1. Len(s) \in Nat /\ \A n \in 1 .. Len(s) : s[n] \in Tokens
    BY LenProperties, ElementOfSeq DEF Bytes
  <2>2. f[0] = Empty
    BY <1>5 DEF Steps
  <2>3. ASSUME NEW n \in 1 .. Len(s)
        PROVE  f[n] = Taken(f[n - 1], s[n])
    <3>1. n - 1 \in 0 .. Len(s)
      BY <2>1
    <3>2. f[n - 1] \in SplitStates /\ s[n] \in Tokens
      BY <2>1, <3>1
    <3>3. f[n] = step[<<f[n - 1], s[n]>>]
      BY <1>5 DEF Steps
    <3> QED
      BY <1>4, <3>2, <3>3
  <2> QED
    BY <2>2, <2>3, SplitIs
<1>6. Split(<<>>) = Empty
  <2>1. <<>> \in Bytes /\ Len(<<>>) = 0
    BY EmptySeq DEF Bytes
  <2>2. PICK f \in [0 .. Len(<<>>) -> SplitStates] : Steps(f, step, Empty, <<>>)
    BY <1>1, <1>3, <2>1, FoldExists DEF Bytes
  <2> QED
    BY <1>5, <2>1, <2>2 DEF Steps
<1>7. ASSUME NEW s \in Bytes, NEW t \in Tokens
      PROVE  /\ Split(s) \in SplitStates
             /\ Split(Append(s, t)) = Taken(Split(s), t)
  <2>1. PICK r, m : r = Append(s, t) /\ m = Len(s)
    OBVIOUS
  <2>2. /\ s \in Seq(Tokens) /\ r \in Seq(Tokens) /\ m \in Nat /\ Len(s) = m
        /\ Len(r) = m + 1
        /\ \A n \in 1 .. m : r[n] = s[n]
        /\ r[m + 1] = t
    BY <2>1, AppendProperties DEF Bytes
  <2>3. PICK g \in [0 .. Len(r) -> SplitStates] : Steps(g, step, Empty, r)
    BY <1>1, <1>3, <2>2, FoldExists
  <2>4. PICK f \in [0 .. Len(s) -> SplitStates] : Steps(f, step, Empty, s)
    BY <1>1, <1>3, <2>2, FoldExists
  <2>5. g[m + 1] = step[<<f[m], t>>]
    <3>1. g[m] = f[m]
      BY <2>2, <2>3, <2>4, FoldGoesOn
    <3>2. m + 1 \in 1 .. Len(r) /\ (m + 1) - 1 = m
      BY <2>2
    <3>3. g[m + 1] = step[<<g[m], r[m + 1]>>]
      BY <2>3, <3>2 DEF Steps
    <3> QED
      BY <2>2, <3>1, <3>3
  <2>6. Split(s) = f[m] /\ Split(r) = g[m + 1]
    BY <1>5, <2>1, <2>2, <2>3, <2>4 DEF Bytes
  <2>7. f[m] \in SplitStates
    BY <2>1, <2>2, <2>4
  <2> QED
    BY <1>4, <2>1, <2>2, <2>5, <2>6, <2>7
<1>8. LF \in Tokens
  BY DEF Tokens
<1> QED
  BY <1>6, <1>7, <1>8

\* A reader who ends a line is a reader.
LEMMA EndLineType ==
  ASSUME NEW r \in Readers
  PROVE  EndLine(r) \in Readers
<1>1. /\ r.line \in Bytes /\ r.event \in Events /\ r.events \in Seq(Events) /\ r.cr \in BOOLEAN
      /\ r.event.named \in BOOLEAN /\ r.event.data \in Seq(Bytes)
  BY DEF Readers, Events
<1>2. <<>> \in Bytes /\ Reading.event \in Events
  BY EmptySeq DEF Bytes, Reading, Events
<1>3. CASE r.line = <<>>
  <2>1. PICK es : es = IF r.event.data = <<>> THEN r.events ELSE Append(r.events, r.event)
    OBVIOUS
  <2>2. es \in Seq(Events)
    BY <1>1, <2>1, AppendProperties
  <2>3. EndLine(r) = [r EXCEPT !.event = Reading.event, !.events = es]
    BY <1>3, <2>1 DEF EndLine
  <2> QED
    BY <1>1, <1>2, <2>2, <2>3 DEF Readers
<1>4. CASE r.line # <<>> /\ Head(r.line) = "data"
  <2>1. Tail(r.line) \in Bytes
    BY <1>1, <1>4, HeadTailProperties DEF Bytes
  <2>2. Append(r.event.data, Tail(r.line)) \in Seq(Bytes)
    BY <1>1, <2>1, AppendProperties
  <2>3. EndLine(r) = [r EXCEPT !.line = <<>>, !.event.data = Append(@, Tail(r.line))]
    BY <1>4 DEF EndLine
  <2> QED
    BY <1>1, <1>2, <2>2, <2>3 DEF Readers, Events
<1>5. CASE r.line # <<>> /\ Head(r.line) = "event"
  <2>1. EndLine(r) = [r EXCEPT !.line = <<>>, !.event.named = TRUE]
    BY <1>5 DEF EndLine
  <2> QED
    BY <1>1, <1>2, <2>1 DEF Readers, Events
<1>6. CASE r.line # <<>> /\ Head(r.line) # "data" /\ Head(r.line) # "event"
  <2>1. EndLine(r) = [r EXCEPT !.line = <<>>]
    BY <1>6 DEF EndLine
  <2> QED
    BY <1>1, <1>2, <2>1 DEF Readers
<1> QED
  BY <1>3, <1>4, <1>5, <1>6

\* A reader who reads a byte is a reader.
LEMMA ReadTokenType ==
  ASSUME NEW r \in Readers, NEW t \in Tokens
  PROVE  ReadToken(r, t) \in Readers
<1>1. r.line \in Bytes /\ r.cr \in BOOLEAN
  BY DEF Readers
<1>2. CASE t = LF /\ r.cr
  BY <1>2 DEF ReadToken, Readers
<1>3. CASE ~(t = LF /\ r.cr) /\ t \in {CR, LF}
  <2>1. ReadToken(r, t) = [EndLine(r) EXCEPT !.cr = (t = CR)]
    BY <1>3 DEF ReadToken
  <2>2. EndLine(r) \in Readers
    BY EndLineType
  <2> QED
    BY <2>1, <2>2 DEF Readers
<1>4. CASE t \notin {CR, LF}
  <2>1. ReadToken(r, t) = [r EXCEPT !.cr = FALSE, !.line = Append(@, t)]
    BY <1>4 DEF ReadToken
  <2>2. Append(r.line, t) \in Bytes
    BY <1>1, AppendProperties DEF Bytes
  <2> QED
    BY <2>1, <2>2 DEF Readers
<1> QED
  BY <1>2, <1>3, <1>4

\* A reader.
ReadOnRun(h, q, s) ==
  h = [n \in 0 .. Len(s) |-> IF n = 0 THEN q ELSE ReadToken(h[n - 1], s[n])]

\* Anything that takes the steps of a reader is what the reader comes to.
LEMMA ReadOnIs ==
  ASSUME NEW q \in Readers, NEW s \in Bytes, NEW f \in [0 .. Len(s) -> Readers],
         f[0] = q, \A n \in 1 .. Len(s) : f[n] = ReadToken(f[n - 1], s[n])
  PROVE  ReadOn(q, s) = f[Len(s)]
<1>1. Len(s) \in Nat
  BY LenProperties DEF Bytes
<1>2. ReadOnRun(f, q, s)
  <2>1. f = [n \in 0 .. Len(s) |-> f[n]]
    OBVIOUS
  <2>2. \A n \in 0 .. Len(s) : f[n] = IF n = 0 THEN q ELSE ReadToken(f[n - 1], s[n])
    BY <1>1
  <2>3. f = [n \in 0 .. Len(s) |-> IF n = 0 THEN q ELSE ReadToken(f[n - 1], s[n])]
    BY <2>1, <2>2, Zenon
  <2> QED
    BY <2>3, Zenon DEF ReadOnRun
<1>3. PICK g : g = CHOOSE h : ReadOnRun(h, q, s)
  OBVIOUS
<1>4. ReadOnRun(g, q, s)
  BY <1>2, <1>3, Zenon
<1>5. ReadOn(q, s) = g[Len(s)]
  BY <1>3, Zenon DEF ReadOn, ReadOnRun
<1>6. \A n \in 0 .. Len(s) : g[n] = IF n = 0 THEN q ELSE ReadToken(g[n - 1], s[n])
  BY <1>4, Zenon DEF ReadOnRun
<1>7. g[0] = f[0]
  BY <1>1, <1>6
<1>8. \A n \in 1 .. Len(s) : g[n] = ReadToken(g[n - 1], s[n])
  BY <1>1, <1>6
<1>9. \A n \in 1 .. Len(s) : g[n - 1] = f[n - 1] => g[n] = f[n]
  <2> SUFFICES ASSUME NEW n \in 1 .. Len(s), g[n - 1] = f[n - 1]
               PROVE  g[n] = f[n]
    OBVIOUS
  <2>1. g[n] = ReadToken(g[n - 1], s[n]) /\ f[n] = ReadToken(f[n - 1], s[n])
    BY <1>8
  <2> QED
    BY <2>1
<1>10. \A n \in 0 .. Len(s) : g[n] = f[n]
  <2>1. SameSteps(g, f, Len(s))
    BY <1>7, <1>9 DEF SameSteps
  <2> QED
    BY <1>1, <2>1, FoldsAgree
<1> QED
  BY <1>1, <1>5, <1>10

\* A reader, byte by byte.
LEMMA ReadOnUnfold ==
  ASSUME NEW q \in Readers
  PROVE  /\ ReadOn(q, <<>>) = q
         /\ \A s \in Bytes : ReadOn(q, s) \in Readers
         /\ \A s \in Bytes : \A t \in Tokens : ReadOn(q, Append(s, t)) = ReadToken(ReadOn(q, s), t)
<1>1. q \in Readers
  BY EmptySeq DEF Bytes
<1>2. PICK step : step = [x \in Readers \X Tokens |-> ReadToken(x[1], x[2])]
  OBVIOUS
<1>3. step \in [Readers \X Tokens -> Readers]
  BY <1>2, ReadTokenType
<1>4. \A r \in Readers : \A t \in Tokens : step[<<r, t>>] = ReadToken(r, t)
  BY <1>2
<1>5. ASSUME NEW s \in Bytes, NEW f \in [0 .. Len(s) -> Readers], Steps(f, step, q, s)
      PROVE  ReadOn(q, s) = f[Len(s)]
  <2>1. Len(s) \in Nat /\ \A n \in 1 .. Len(s) : s[n] \in Tokens
    BY LenProperties, ElementOfSeq DEF Bytes
  <2>2. f[0] = q
    BY <1>5 DEF Steps
  <2>3. ASSUME NEW n \in 1 .. Len(s)
        PROVE  f[n] = ReadToken(f[n - 1], s[n])
    <3>1. n - 1 \in 0 .. Len(s)
      BY <2>1
    <3>2. f[n - 1] \in Readers /\ s[n] \in Tokens
      BY <2>1, <3>1
    <3>3. f[n] = step[<<f[n - 1], s[n]>>]
      BY <1>5 DEF Steps
    <3> QED
      BY <1>4, <3>2, <3>3
  <2> QED
    BY <2>2, <2>3, ReadOnIs
<1>6. ReadOn(q, <<>>) = q
  <2>1. <<>> \in Bytes /\ Len(<<>>) = 0
    BY EmptySeq DEF Bytes
  <2>2. PICK f \in [0 .. Len(<<>>) -> Readers] : Steps(f, step, q, <<>>)
    BY <1>1, <1>3, <2>1, FoldExists DEF Bytes
  <2> QED
    BY <1>5, <2>1, <2>2 DEF Steps
<1>7. ASSUME NEW s \in Bytes, NEW t \in Tokens
      PROVE  /\ ReadOn(q, s) \in Readers
             /\ ReadOn(q, Append(s, t)) = ReadToken(ReadOn(q, s), t)
  <2>1. PICK r, m : r = Append(s, t) /\ m = Len(s)
    OBVIOUS
  <2>2. /\ s \in Seq(Tokens) /\ r \in Seq(Tokens) /\ m \in Nat /\ Len(s) = m
        /\ Len(r) = m + 1
        /\ \A n \in 1 .. m : r[n] = s[n]
        /\ r[m + 1] = t
    BY <2>1, AppendProperties DEF Bytes
  <2>3. PICK g \in [0 .. Len(r) -> Readers] : Steps(g, step, q, r)
    BY <1>1, <1>3, <2>2, FoldExists
  <2>4. PICK f \in [0 .. Len(s) -> Readers] : Steps(f, step, q, s)
    BY <1>1, <1>3, <2>2, FoldExists
  <2>5. g[m + 1] = step[<<f[m], t>>]
    <3>1. g[m] = f[m]
      BY <2>2, <2>3, <2>4, FoldGoesOn
    <3>2. m + 1 \in 1 .. Len(r) /\ (m + 1) - 1 = m
      BY <2>2
    <3>3. g[m + 1] = step[<<g[m], r[m + 1]>>]
      BY <2>3, <3>2 DEF Steps
    <3> QED
      BY <2>2, <3>1, <3>3
  <2>6. ReadOn(q, s) = f[m] /\ ReadOn(q, r) = g[m + 1]
    BY <1>5, <2>1, <2>2, <2>3, <2>4 DEF Bytes
  <2>7. f[m] \in Readers
    BY <2>1, <2>2, <2>4
  <2> QED
    BY <1>4, <2>1, <2>2, <2>5, <2>6, <2>7
<1>8. LF \in Tokens
  BY DEF Tokens
<1> QED
  BY <1>6, <1>7, <1>8

-----------------------------------------------------------------------------
(* One chunk after the other.                                              *)

\* A row with an element more, after another.
LEMMA ConcatAppend ==
  ASSUME NEW S, NEW a \in Seq(S), NEW b \in Seq(S), NEW x \in S
  PROVE  a \o Append(b, x) = Append(a \o b, x)
<1>1. a \o b \in Seq(S) /\ <<x>> \in Seq(S)
  BY ConcatProperties
<1>2. Append(b, x) = b \o <<x>> /\ Append(a \o b, x) = (a \o b) \o <<x>>
  BY <1>1, AppendIsConcat
<1>3. (a \o b) \o <<x>> = a \o (b \o <<x>>)
  BY <1>1, ConcatAssociative
<1> QED
  BY <1>2, <1>3

\* A reader reads on where it is.
LEMMA ReadConcat ==
  ASSUME NEW q \in Readers, NEW a \in Bytes, NEW b \in Bytes
  PROVE  ReadOn(q, a \o b) = ReadOn(ReadOn(q, a), b)
<1> DEFINE E == {s \in Bytes : ReadOn(q, a \o s) = ReadOn(ReadOn(q, a), s)}
<1>1. ReadOn(q, a) \in Readers
  BY ReadOnUnfold
<1>2. <<>> \in E
  <2>1. <<>> \in Bytes /\ a \o <<>> = a
    BY EmptySeq, ConcatEmptySeq DEF Bytes
  <2>2. ReadOn(ReadOn(q, a), <<>>) = ReadOn(q, a)
    BY <1>1, ReadOnUnfold
  <2> QED
    BY <2>1, <2>2
<1>3. ASSUME NEW s \in E, NEW x \in Tokens
      PROVE  Append(s, x) \in E
  <2>1. s \in Bytes /\ Append(s, x) \in Bytes /\ a \o s \in Bytes
    BY <1>3, AppendProperties, ConcatProperties DEF Bytes
  <2>2. a \o Append(s, x) = Append(a \o s, x)
    BY <2>1, ConcatAppend DEF Bytes
  <2>3. ReadOn(q, Append(a \o s, x)) = ReadToken(ReadOn(q, a \o s), x)
    BY <2>1, ReadOnUnfold
  <2>4. ReadOn(ReadOn(q, a), Append(s, x)) = ReadToken(ReadOn(ReadOn(q, a), s), x)
    BY <1>1, <2>1, ReadOnUnfold
  <2>5. ReadOn(q, a \o s) = ReadOn(ReadOn(q, a), s)
    BY <1>3
  <2> QED
    BY <2>1, <2>2, <2>3, <2>4, <2>5
<1> HIDE DEF E
<1>4. E = Seq(Tokens)
  <2>1. E \in SUBSET Seq(Tokens)
    BY DEF E, Bytes
  <2> QED
    BY <1>2, <1>3, <2>1, SeqBuilt
<1> QED
  BY <1>4 DEF E, Bytes

\* Events that agree are the same.
LEMMA SameEvents ==
  ASSUME NEW e \in Events, NEW f \in Events, (e.named <=> f.named), e.data = f.data
  PROVE  e = f
BY DEF Events

\* Readers who agree are the same.
LEMMA SameReaders ==
  ASSUME NEW r \in Readers, NEW s \in Readers,
         (r.cr <=> s.cr), r.line = s.line, r.event = s.event, r.events = s.events
  PROVE  r = s
BY DEF Readers

\* The end of a line, field by field.
LEMMA EndLineIs ==
  ASSUME NEW r \in Readers
  PROVE  /\ (EndLine(r).cr <=> r.cr) /\ EndLine(r).line = <<>>
         /\ r.line = <<>> =>
              /\ EndLine(r).event = Reading.event
              /\ EndLine(r).events = IF r.event.data = <<>> THEN r.events
                                     ELSE Append(r.events, r.event)
         /\ r.line # <<>> =>
              /\ EndLine(r).events = r.events
              /\ EndLine(r).event.data = IF Head(r.line) = "data"
                                         THEN Append(r.event.data, Tail(r.line))
                                         ELSE r.event.data
              /\ (EndLine(r).event.named <=> r.event.named \/ Head(r.line) = "event")
<1>1. /\ r.line \in Bytes /\ r.event \in Events /\ r.events \in Seq(Events) /\ r.cr \in BOOLEAN
      /\ r.event.named \in BOOLEAN /\ r.event.data \in Seq(Bytes)
  BY DEF Readers, Events
<1>2. CASE r.line = <<>>
  <2>1. PICK es : es = IF r.event.data = <<>> THEN r.events ELSE Append(r.events, r.event)
    OBVIOUS
  <2>2. EndLine(r) = [r EXCEPT !.event = Reading.event, !.events = es]
    BY <1>2, <2>1 DEF EndLine
  <2> QED
    BY <1>1, <1>2, <2>1, <2>2 DEF Readers
<1>3. CASE r.line # <<>> /\ Head(r.line) = "data"
  <2>1. EndLine(r) = [r EXCEPT !.line = <<>>, !.event.data = Append(@, Tail(r.line))]
    BY <1>3 DEF EndLine
  <2> QED
    BY <1>1, <1>3, <2>1 DEF Readers, Events
<1>4. CASE r.line # <<>> /\ Head(r.line) = "event"
  <2>1. EndLine(r) = [r EXCEPT !.line = <<>>, !.event.named = TRUE]
    BY <1>4 DEF EndLine
  <2> QED
    BY <1>1, <1>4, <2>1 DEF Readers, Events
<1>5. CASE r.line # <<>> /\ Head(r.line) # "data" /\ Head(r.line) # "event"
  <2>1. EndLine(r) = [r EXCEPT !.line = <<>>]
    BY <1>5 DEF EndLine
  <2> QED
    BY <1>1, <1>5, <2>1 DEF Readers, Events
<1> QED
  BY <1>2, <1>3, <1>4, <1>5

\* A byte, field by field.
LEMMA ReadTokenIs ==
  ASSUME NEW r \in Readers, NEW t \in Tokens
  PROVE  /\ t = LF /\ r.cr =>
              /\ ~ReadToken(r, t).cr /\ ReadToken(r, t).line = r.line
              /\ ReadToken(r, t).event = r.event /\ ReadToken(r, t).events = r.events
         /\ t \in {CR, LF} /\ ~(t = LF /\ r.cr) =>
              /\ (ReadToken(r, t).cr <=> t = CR) /\ ReadToken(r, t).line = <<>>
              /\ ReadToken(r, t).event = EndLine(r).event
              /\ ReadToken(r, t).events = EndLine(r).events
         /\ t \notin {CR, LF} =>
              /\ ~ReadToken(r, t).cr /\ ReadToken(r, t).line = Append(r.line, t)
              /\ ReadToken(r, t).event = r.event /\ ReadToken(r, t).events = r.events
<1>1. CASE t = LF /\ r.cr
  <2>1. ReadToken(r, t) = [r EXCEPT !.cr = FALSE]
    BY <1>1 DEF ReadToken
  <2> QED
    BY <1>1, <2>1 DEF Readers
<1>2. CASE ~(t = LF /\ r.cr) /\ t \in {CR, LF}
  <2>1. ReadToken(r, t) = [EndLine(r) EXCEPT !.cr = (t = CR)]
    BY <1>2 DEF ReadToken
  <2>2. EndLine(r) \in Readers /\ EndLine(r).line = <<>>
    BY EndLineType, EndLineIs
  <2> QED
    BY <1>2, <2>1, <2>2 DEF Readers
<1>3. CASE t \notin {CR, LF}
  <2>1. ReadToken(r, t) = [r EXCEPT !.cr = FALSE, !.line = Append(@, t)]
    BY <1>3 DEF ReadToken
  <2> QED
    BY <1>3, <2>1 DEF Readers
<1> QED
  BY <1>1, <1>2, <1>3

\* The events a reader has already do not matter to the rest.
After(es, r) == [r EXCEPT !.events = es \o r.events]

\* Only the events of such a reader differ.
LEMMA AfterIs ==
  ASSUME NEW es \in Seq(Events), NEW r \in Readers
  PROVE  /\ After(es, r) \in Readers
         /\ (After(es, r).cr <=> r.cr) /\ After(es, r).line = r.line /\ After(es, r).event = r.event
         /\ After(es, r).events = es \o r.events
<1>1. es \o r.events \in Seq(Events)
  BY ConcatProperties DEF Readers
<1> QED
  BY <1>1 DEF After, Readers

\* Events read before change nothing in how a line ends.
LEMMA EndLineAfter ==
  ASSUME NEW es \in Seq(Events), NEW r \in Readers
  PROVE  EndLine(After(es, r)) = After(es, EndLine(r))
<1>1. PICK a : a = After(es, r)
  OBVIOUS
<1>2. /\ a \in Readers /\ (a.cr <=> r.cr) /\ a.line = r.line /\ a.event = r.event
      /\ a.events = es \o r.events
  BY <1>1, AfterIs
<1>3. PICK e, f : e = EndLine(r) /\ f = EndLine(a)
  OBVIOUS
<1>4. e \in Readers /\ f \in Readers
  BY <1>2, <1>3, EndLineType
<1>5. (f.cr <=> e.cr) /\ f.line = e.line
  BY <1>2, <1>3, EndLineIs
<1>6. f.event = e.event
  <2>1. CASE r.line = <<>>
    BY <1>2, <1>3, <2>1, EndLineIs
  <2>2. CASE r.line # <<>>
    <3>1. f.event.data = e.event.data /\ (f.event.named <=> e.event.named)
      BY <1>2, <1>3, <2>2, EndLineIs
    <3>2. e.event \in Events /\ f.event \in Events
      BY <1>4 DEF Readers
    <3> QED
      BY <3>1, <3>2, SameEvents
  <2> QED
    BY <2>1, <2>2
<1>7. f.events = es \o e.events
  <2>1. CASE r.line = <<>> /\ r.event.data # <<>>
    <3>1. f.events = Append(a.events, a.event)
      <4>1. a.line = <<>> /\ a.event.data # <<>>
        BY <1>2, <2>1
      <4> QED
        BY <1>2, <1>3, <4>1, EndLineIs
    <3>2. e.events = Append(r.events, r.event)
      BY <1>3, <2>1, EndLineIs
    <3>3. f.events = Append(es \o r.events, r.event) /\ e.events = Append(r.events, r.event)
      BY <1>2, <3>1, <3>2
    <3>4. PICK evs \in Seq(Events), x \in Events : evs = r.events /\ x = r.event
      BY DEF Readers
    <3>5. es \o Append(evs, x) = Append(es \o evs, x)
      BY ConcatAppend
    <3> QED
      BY <3>3, <3>4, <3>5
  <2>2. CASE r.line # <<>> \/ r.event.data = <<>>
    <3>1. e.events = r.events
      BY <1>3, <2>2, EndLineIs
    <3>2. f.events = a.events
      BY <1>2, <1>3, <2>2, EndLineIs
    <3> QED
      BY <1>2, <3>1, <3>2
  <2> QED
    BY <2>1, <2>2
<1>8. PICK b : b = After(es, e)
  OBVIOUS
<1>9. b \in Readers /\ (b.cr <=> e.cr) /\ b.line = e.line /\ b.event = e.event /\ b.events = es \o e.events
  BY <1>4, <1>8, AfterIs
<1>10. f = b
  BY <1>4, <1>5, <1>6, <1>7, <1>9, SameReaders
<1> QED
  BY <1>1, <1>3, <1>8, <1>10

\* Nor in how a byte is read.
LEMMA ReadTokenAfter ==
  ASSUME NEW es \in Seq(Events), NEW r \in Readers, NEW t \in Tokens
  PROVE  ReadToken(After(es, r), t) = After(es, ReadToken(r, t))
<1>1. PICK a, e, f, b : /\ a = After(es, r) /\ e = ReadToken(r, t) /\ f = ReadToken(a, t)
                        /\ b = After(es, e)
  OBVIOUS
<1>2. /\ a \in Readers /\ (a.cr <=> r.cr) /\ a.line = r.line /\ a.event = r.event
      /\ a.events = es \o r.events
  BY <1>1, AfterIs
<1>3. e \in Readers /\ f \in Readers
  BY <1>1, <1>2, ReadTokenType
<1>4. b \in Readers /\ (b.cr <=> e.cr) /\ b.line = e.line /\ b.event = e.event /\ b.events = es \o e.events
  BY <1>1, <1>3, AfterIs
<1>5. ASSUME t = LF /\ r.cr
      PROVE  f = b
  <2>1. ~e.cr /\ e.line = r.line /\ e.event = r.event /\ e.events = r.events
    BY <1>1, <1>5, ReadTokenIs
  <2>2. ~f.cr /\ f.line = a.line /\ f.event = a.event /\ f.events = a.events
    BY <1>1, <1>2, <1>5, ReadTokenIs
  <2>3. (f.cr <=> b.cr) /\ f.line = b.line /\ f.event = b.event /\ f.events = b.events
    BY <1>2, <1>4, <2>1, <2>2
  <2> QED
    BY <1>3, <1>4, <2>3, SameReaders
<1>6. ASSUME t \in {CR, LF} /\ ~(t = LF /\ r.cr)
      PROVE  f = b
  <2>1. EndLine(a) = After(es, EndLine(r)) /\ EndLine(r) \in Readers
    BY <1>1, EndLineAfter, EndLineType
  <2>2. EndLine(a).event = EndLine(r).event /\ EndLine(a).events = es \o EndLine(r).events
    BY <2>1, AfterIs
  <2>3. /\ (e.cr <=> t = CR) /\ e.line = <<>> /\ e.event = EndLine(r).event
        /\ e.events = EndLine(r).events
    BY <1>1, <1>6, ReadTokenIs
  <2>4. /\ (f.cr <=> t = CR) /\ f.line = <<>> /\ f.event = EndLine(a).event
        /\ f.events = EndLine(a).events
    BY <1>1, <1>2, <1>6, ReadTokenIs
  <2>5. (f.cr <=> b.cr) /\ f.line = b.line /\ f.event = b.event /\ f.events = b.events
    BY <1>4, <2>2, <2>3, <2>4
  <2> QED
    BY <1>3, <1>4, <2>5, SameReaders
<1>7. ASSUME t \notin {CR, LF}
      PROVE  f = b
  <2>1. ~e.cr /\ e.line = Append(r.line, t) /\ e.event = r.event /\ e.events = r.events
    BY <1>1, <1>7, ReadTokenIs
  <2>2. ~f.cr /\ f.line = Append(a.line, t) /\ f.event = a.event /\ f.events = a.events
    BY <1>1, <1>2, <1>7, ReadTokenIs
  <2>3. (f.cr <=> b.cr) /\ f.line = b.line /\ f.event = b.event /\ f.events = b.events
    BY <1>2, <1>4, <2>1, <2>2
  <2> QED
    BY <1>3, <1>4, <2>3, SameReaders
<1>8. f = b
  BY <1>5, <1>6, <1>7
<1> QED
  BY <1>1, <1>8

\* Nor in how bytes are read.
LEMMA ReadAfter ==
  ASSUME NEW es \in Seq(Events), NEW q \in Readers, NEW b \in Bytes
  PROVE  ReadOn(After(es, q), b) = After(es, ReadOn(q, b))
<1> DEFINE E == {s \in Bytes : ReadOn(After(es, q), s) = After(es, ReadOn(q, s))}
<1>1. After(es, q) \in Readers
  BY AfterIs
<1>2. <<>> \in E
  <2>1. <<>> \in Bytes
    BY EmptySeq DEF Bytes
  <2> QED
    BY <1>1, <2>1, ReadOnUnfold
<1>3. ASSUME NEW s \in E, NEW x \in Tokens
      PROVE  Append(s, x) \in E
  <2>1. s \in Bytes /\ Append(s, x) \in Bytes
    BY <1>3, AppendProperties DEF Bytes
  <2>2. ReadOn(After(es, q), Append(s, x)) = ReadToken(ReadOn(After(es, q), s), x)
    BY <1>1, <2>1, ReadOnUnfold
  <2>3. ReadOn(q, Append(s, x)) = ReadToken(ReadOn(q, s), x) /\ ReadOn(q, s) \in Readers
    BY <2>1, ReadOnUnfold
  <2>4. ReadOn(After(es, q), s) = After(es, ReadOn(q, s))
    BY <1>3
  <2> QED
    BY <2>1, <2>2, <2>3, <2>4, ReadTokenAfter
<1> HIDE DEF E
<1>4. E = Seq(Tokens)
  <2>1. E \in SUBSET Seq(Tokens)
    BY DEF E, Bytes
  <2> QED
    BY <1>2, <1>3, <2>1, SeqBuilt
<1> QED
  BY <1>4 DEF E, Bytes

\* A byte completes a block.
Completes(buf, t) == t = LF /\ buf # <<>> /\ Last(buf) = LF

\* What a byte does to the buffer and to the events: a blank line takes a block
\* out of the buffer, and the block is an event if it has payloads.
LEMMA TakenIs ==
  ASSUME NEW acc \in SplitStates, NEW t \in Tokens
  PROVE  /\ Completes(acc.buf, t) =>
              /\ Taken(acc, t).buf = <<>>
              /\ Taken(acc, t).events = IF Payload(Front(acc.buf)) = <<>> THEN acc.events
                                        ELSE Append(acc.events, Front(acc.buf))
         /\ ~Completes(acc.buf, t) =>
              /\ Taken(acc, t).buf = Append(acc.buf, t)
              /\ Taken(acc, t).events = acc.events
<1>1. CASE Completes(acc.buf, t)
  BY <1>1 DEF Completes, Taken
<1>2. CASE ~Completes(acc.buf, t)
  <2>1. Taken(acc, t) = [acc EXCEPT !.buf = Append(@, t)]
    BY <1>2, Zenon DEF Completes, Taken
  <2> QED
    BY <1>2, <2>1 DEF SplitStates
<1> QED
  BY <1>1, <1>2

\* What is found in bytes are blocks of bytes.
LEMMA SplitType ==
  ASSUME NEW s \in Bytes
  PROVE  Split(s) \in SplitStates /\ Split(s).buf \in Bytes /\ Split(s).events \in Seq(Bytes)
<1>1. Split(s) \in SplitStates
  BY SplitUnfold
<1> QED
  BY <1>1 DEF SplitStates

\* What is left in the buffer completes no block.
LEMMA SplitQuiet ==
  ASSUME NEW a \in Bytes
  PROVE  Split(Split(a).buf).buf = Split(a).buf /\ Split(Split(a).buf).events = <<>>
<1> DEFINE E == {s \in Bytes : /\ Split(Split(s).buf).buf = Split(s).buf
                               /\ Split(Split(s).buf).events = <<>>}
<1>0. Split(<<>>).buf = <<>> /\ Split(<<>>).events = <<>> /\ <<>> \in Bytes
  BY SplitUnfold, EmptySeq DEF Empty, Bytes
<1>1. <<>> \in E
  BY <1>0
<1>2. ASSUME NEW s \in E, NEW x \in Tokens
      PROVE  Append(s, x) \in E
  <2>1. s \in Bytes /\ Append(s, x) \in Bytes
    BY <1>2, AppendProperties DEF Bytes
  <2>2. PICK p : p = Split(s)
    OBVIOUS
  <2>3. p \in SplitStates /\ p.buf \in Bytes
    BY <2>1, <2>2, SplitType
  <2>4. Split(p.buf).buf = p.buf /\ Split(p.buf).events = <<>>
    BY <1>2, <2>2
  <2>5. Split(Append(s, x)) = Taken(p, x)
    BY <2>1, <2>2, SplitUnfold
  <2>6. CASE Completes(p.buf, x)
    <3>1. Split(Append(s, x)).buf = <<>>
      BY <2>3, <2>5, <2>6, TakenIs
    <3> QED
      BY <1>0, <2>1, <3>1
  <2>7. CASE ~Completes(p.buf, x)
    <3>1. Split(Append(s, x)).buf = Append(p.buf, x)
      BY <2>3, <2>5, <2>7, TakenIs
    <3>2. PICK q : q = Split(p.buf)
      OBVIOUS
    <3>3. q \in SplitStates /\ q.buf = p.buf /\ q.events = <<>>
      BY <2>3, <2>4, <3>2, SplitType
    <3>4. Split(Append(p.buf, x)) = Taken(q, x)
      BY <2>3, <3>2, SplitUnfold
    <3>5. Taken(q, x).buf = Append(p.buf, x) /\ Taken(q, x).events = <<>>
      BY <2>7, <3>3, TakenIs
    <3> QED
      BY <2>1, <3>1, <3>4, <3>5
  <2> QED
    BY <2>6, <2>7
<1> HIDE DEF E
<1>3. E = Seq(Tokens)
  <2>1. E \in SUBSET Seq(Tokens)
    BY DEF E, Bytes
  <2> QED
    BY <1>1, <1>2, <2>1, SeqBuilt
<1> QED
  BY <1>3 DEF E, Bytes

\* feed() may take a stream up chunk by chunk: what it has left of one goes
\* before the next.
LEMMA SplitConcat ==
  ASSUME NEW a \in Bytes, NEW b \in Bytes
  PROVE  /\ Split(a \o b).buf = Split(Split(a).buf \o b).buf
         /\ Split(a \o b).events = Split(a).events \o Split(Split(a).buf \o b).events
<1>1. PICK l, es : l = Split(a).buf /\ es = Split(a).events
  OBVIOUS
<1>2. l \in Bytes /\ es \in Seq(Bytes)
  BY <1>1, SplitType
<1> DEFINE E == {s \in Bytes : /\ Split(a \o s).buf = Split(l \o s).buf
                               /\ Split(a \o s).events = es \o Split(l \o s).events}
<1>3. <<>> \in E
  <2>1. <<>> \in Bytes /\ a \o <<>> = a /\ l \o <<>> = l
    BY <1>2, EmptySeq, ConcatEmptySeq DEF Bytes
  <2>2. Split(l).buf = l /\ Split(l).events = <<>>
    BY <1>1, SplitQuiet
  <2>3. es \o <<>> = es
    BY <1>2, ConcatEmptySeq
  <2> QED
    BY <1>1, <2>1, <2>2, <2>3
<1>4. ASSUME NEW s \in E, NEW x \in Tokens
      PROVE  Append(s, x) \in E
  <2>1. s \in Bytes /\ Append(s, x) \in Bytes /\ a \o s \in Bytes /\ l \o s \in Bytes
    BY <1>2, <1>4, AppendProperties, ConcatProperties DEF Bytes
  <2>2. a \o Append(s, x) = Append(a \o s, x) /\ l \o Append(s, x) = Append(l \o s, x)
    BY <1>2, <2>1, ConcatAppend DEF Bytes
  <2>3. PICK p, q : p = Split(a \o s) /\ q = Split(l \o s)
    OBVIOUS
  <2>4. p \in SplitStates /\ q \in SplitStates /\ q.events \in Seq(Bytes) /\ q.buf \in Bytes
    BY <2>1, <2>3, SplitType
  <2>5. p.buf = q.buf /\ p.events = es \o q.events
    BY <1>4, <2>3
  <2>6. Split(a \o Append(s, x)) = Taken(p, x) /\ Split(l \o Append(s, x)) = Taken(q, x)
    BY <2>1, <2>2, <2>3, SplitUnfold
  <2>7. CASE Completes(q.buf, x)
    <3>1. PICK raw : raw = Front(q.buf)
      OBVIOUS
    <3>2. raw \in Bytes
      BY <2>4, <2>7, <3>1, FrontIs DEF Completes, Bytes
    <3>3. /\ Taken(p, x).buf = <<>> /\ Taken(q, x).buf = <<>>
          /\ Taken(p, x).events = IF Payload(raw) = <<>> THEN p.events ELSE Append(p.events, raw)
          /\ Taken(q, x).events = IF Payload(raw) = <<>> THEN q.events ELSE Append(q.events, raw)
      BY <2>4, <2>5, <2>7, <3>1, TakenIs
    <3>4. Append(es \o q.events, raw) = es \o Append(q.events, raw)
      <4>1. PICK evs \in Seq(Bytes) : evs = q.events
        BY <2>4
      <4>2. es \in Seq(Bytes)
        BY <1>2
      <4>3. es \o Append(evs, raw) = Append(es \o evs, raw)
        BY <3>2, <4>2, ConcatAppend
      <4> QED
        BY <4>1, <4>3
    <3>5. Taken(p, x).events = es \o Taken(q, x).events
      BY <2>5, <3>3, <3>4
    <3> QED
      BY <2>1, <2>6, <3>3, <3>5
  <2>8. CASE ~Completes(q.buf, x)
    <3>1. /\ Taken(p, x).buf = Append(p.buf, x) /\ Taken(q, x).buf = Append(q.buf, x)
          /\ Taken(p, x).events = p.events /\ Taken(q, x).events = q.events
      BY <2>4, <2>5, <2>8, TakenIs
    <3> QED
      BY <2>1, <2>5, <2>6, <3>1
  <2> QED
    BY <2>7, <2>8
<1> HIDE DEF E
<1>5. E = Seq(Tokens)
  <2>1. E \in SUBSET Seq(Tokens)
    BY DEF E, Bytes
  <2> QED
    BY <1>3, <1>4, <2>1, SeqBuilt
<1>6. b \in E
  BY <1>5 DEF Bytes
<1> QED
  BY <1>1, <1>6 DEF E

-----------------------------------------------------------------------------
(* What the parser finds is what a reader finds.                           *)

\* What a byte does to a line and to the payloads.
LEMMA ParsedIs ==
  ASSUME NEW acc \in ParseStates, NEW t \in Tokens
  PROVE  /\ t = LF => Parsed(acc, t).line = <<>> /\ Parsed(acc, t).data = DataSoFar(acc)
         /\ t # LF => Parsed(acc, t).line = Append(acc.line, t) /\ Parsed(acc, t).data = acc.data
<1>1. CASE t = LF
  BY <1>1 DEF Parsed
<1>2. CASE t # LF
  <2>1. Parsed(acc, t) = [acc EXCEPT !.line = Append(@, t)]
    BY <1>2, Zenon DEF Parsed
  <2> QED
    BY <1>2, <2>1 DEF ParseStates
<1> QED
  BY <1>1, <1>2

\* A reader who begins has read nothing.
LEMMA ReadingType ==
  /\ Reading \in Readers /\ ~Reading.cr /\ Reading.line = <<>> /\ Reading.events = <<>>
  /\ Reading.event \in Events /\ ~Reading.event.named /\ Reading.event.data = <<>>
<1>1. <<>> \in Bytes /\ <<>> \in Seq(Bytes) /\ <<>> \in Seq(Events)
  BY EmptySeq DEF Bytes
<1> QED
  BY <1>1 DEF Reading, Readers, Events

\* The event a reader makes of a block, and the blocks that make one.
EventOf(raw) == ReadOn(Reading, Append(raw, LF)).event

Heard(blocks) == [i \in DOMAIN blocks |-> EventOf(blocks[i])]

IsEvent(raw) ==
  LET r == ReadOn(Reading, Append(raw, LF))
  IN  /\ raw \in Bytes /\ raw # <<>> /\ Last(raw) # LF
      /\ ~r.cr /\ r.line = <<>> /\ r.events = <<>>
      /\ r.event.data = Payload(raw) /\ Payload(raw) # <<>>

\* What a reader makes of a block is an event.
LEMMA EventOfType ==
  ASSUME NEW raw \in Bytes
  PROVE  EventOf(raw) \in Events
<1>1. LF \in Tokens
  BY DEF Tokens
<1>2. Append(raw, LF) \in Bytes
  BY <1>1, AppendProperties DEF Bytes
<1>3. ReadOn(Reading, Append(raw, LF)) \in Readers
  BY <1>2, ReadOnUnfold, ReadingType
<1> QED
  BY <1>3 DEF EventOf, Readers

\* What a reader makes of blocks is an event of each.
LEMMA HeardType ==
  ASSUME NEW blocks \in Seq(Bytes)
  PROVE  /\ Heard(blocks) \in Seq(Events) /\ Len(Heard(blocks)) = Len(blocks)
         /\ \A i \in 1 .. Len(blocks) : Heard(blocks)[i] = EventOf(blocks[i])
<1>1. PICK n \in Nat : n = Len(blocks) /\ DOMAIN blocks = 1 .. n
  BY LenProperties
<1>2. \A i \in 1 .. n : EventOf(blocks[i]) \in Events
  BY <1>1, ElementOfSeq, EventOfType
<1>3. Heard(blocks) = [i \in 1 .. n |-> EventOf(blocks[i])]
  BY <1>1 DEF Heard
<1>4. Heard(blocks) \in [1 .. n -> Events]
  BY <1>2, <1>3
<1> QED
  BY <1>1, <1>3, <1>4

\* One block more is one event more.
LEMMA HeardMore ==
  ASSUME NEW blocks \in Seq(Bytes), NEW raw \in Bytes
  PROVE  Heard(Append(blocks, raw)) = Append(Heard(blocks), EventOf(raw))
<1>1. PICK n \in Nat, more \in Seq(Bytes), h \in Seq(Events), e \in Events :
        /\ n = Len(blocks) /\ more = Append(blocks, raw) /\ h = Heard(blocks) /\ e = EventOf(raw)
  BY LenProperties, AppendProperties, HeardType, EventOfType
<1>2. /\ Len(more) = n + 1 /\ more[n + 1] = raw
      /\ \A i \in 1 .. n : more[i] = blocks[i]
  BY <1>1, AppendProperties
<1>3. /\ Heard(more) \in Seq(Events) /\ Len(Heard(more)) = n + 1
      /\ \A i \in 1 .. (n + 1) : Heard(more)[i] = EventOf(more[i])
  BY <1>2, HeardType
<1>4. Len(h) = n /\ \A i \in 1 .. n : h[i] = EventOf(blocks[i])
  BY <1>1, HeardType
<1>5. /\ Append(h, e) \in Seq(Events) /\ Len(Append(h, e)) = n + 1 /\ Append(h, e)[n + 1] = e
      /\ \A i \in 1 .. n : Append(h, e)[i] = h[i]
  BY <1>4, AppendProperties
<1>6. ASSUME NEW i \in 1 .. (n + 1)
      PROVE  Heard(more)[i] = Append(h, e)[i]
  <2>1. CASE i = n + 1
    BY <1>1, <1>2, <1>3, <1>5, <2>1
  <2>2. CASE i # n + 1
    <3>1. i \in 1 .. n
      BY <2>2
    <3>2. Heard(more)[i] = EventOf(blocks[i])
      BY <1>2, <1>3, <3>1
    <3> QED
      BY <1>4, <1>5, <3>1, <3>2
  <2> QED
    BY <2>1, <2>2
<1>7. Heard(more) = Append(h, e)
  BY <1>3, <1>5, <1>6, SeqEqual
<1> QED
  BY <1>1, <1>7

\* How far the parser and a reader are after the same bytes: the reader has the
\* events the parser has found, and is in the middle of what the parser has in
\* its buffer.
Follows(s) ==
  LET p == Split(s)
      r == ReadOn(Reading, s)
      q == ReadOn(Reading, p.buf)
      d == Parse(p.buf)
  IN  /\ ~r.cr /\ ~q.cr
      /\ r.line = q.line /\ r.event = q.event /\ q.events = <<>>
      /\ d.line = q.line /\ d.data = q.event.data
      /\ p.buf # <<>> => (Last(p.buf) = LF <=> q.line = <<>>)
      /\ p.buf # <<>> /\ Last(p.buf) = LF /\ Front(p.buf) # <<>> => Last(Front(p.buf)) # LF
      /\ r.events = Heard(p.events)
      /\ \A i \in 1 .. Len(p.events) : IsEvent(p.events[i])

\* Before the first byte.
LEMMA FollowsStart == Follows(<<>>)
<1>1. /\ <<>> \in Bytes /\ Split(<<>>) = Empty /\ ReadOn(Reading, <<>>) = Reading
      /\ Parse(<<>>) = Blank
  BY EmptySeq, SplitUnfold, ReadOnUnfold, ParseUnfold, ReadingType DEF Bytes
<1>2. Empty.buf = <<>> /\ Empty.events = <<>> /\ Blank.line = <<>> /\ Blank.data = <<>>
  BY DEF Empty, Blank
<1>3. <<>> \in Seq(Bytes) /\ Len(<<>>) = 0
  BY EmptySeq
<1>4. Heard(<<>>) \in Seq(Events) /\ Len(Heard(<<>>)) = 0
  BY <1>3, HeardType
<1>5. Heard(<<>>) = <<>>
  BY <1>4, EmptySeq
<1> QED
  BY <1>1, <1>2, <1>3, <1>5, ReadingType DEF Follows

\* A byte more that is not a CR.
LEMMA FollowsMore ==
  ASSUME NEW s \in Bytes, Follows(s), NEW x \in Tokens \ {CR}
  PROVE  Follows(Append(s, x))
<1>1. PICK p, r, q, d : /\ p = Split(s) /\ r = ReadOn(Reading, s) /\ q = ReadOn(Reading, p.buf)
                        /\ d = Parse(p.buf)
  OBVIOUS
<1>2. /\ ~r.cr /\ ~q.cr
      /\ r.line = q.line /\ r.event = q.event /\ q.events = <<>>
      /\ d.line = q.line /\ d.data = q.event.data
      /\ p.buf # <<>> => (Last(p.buf) = LF <=> q.line = <<>>)
      /\ p.buf # <<>> /\ Last(p.buf) = LF /\ Front(p.buf) # <<>> => Last(Front(p.buf)) # LF
      /\ r.events = Heard(p.events)
      /\ \A i \in 1 .. Len(p.events) : IsEvent(p.events[i])
  BY <1>1 DEF Follows
<1>3. p \in SplitStates /\ p.buf \in Bytes /\ p.events \in Seq(Bytes)
  BY <1>1, SplitType
<1>4. r \in Readers /\ q \in Readers /\ d \in ParseStates
  BY <1>1, <1>3, ReadOnUnfold, ParseUnfold, ReadingType
<1>5. x \in Tokens /\ LF # CR
  BY DEF LF, CR
<1>6. PICK p2, r2, t : p2 = Taken(p, x) /\ r2 = ReadToken(r, x) /\ t = Append(s, x)
  OBVIOUS
<1>7. Split(t) = p2 /\ ReadOn(Reading, t) = r2
  BY <1>1, <1>6, SplitUnfold, ReadOnUnfold, ReadingType
<1>8. CASE Completes(p.buf, x)
  <2>1. PICK raw : raw = Front(p.buf)
    OBVIOUS
  <2>2. /\ x = LF /\ raw \in Bytes /\ p.buf = Append(raw, LF)
        /\ p.buf # <<>> /\ Last(p.buf) = LF
    BY <1>3, <1>8, <2>1, FrontIs DEF Completes, Bytes
  <2>3. q.line = <<>> /\ r.line = <<>>
    BY <1>2, <2>2
  <2>4. q.event.data = Payload(raw)
    <3>1. LF \in Tokens
      BY <1>5, <2>2
    <3>2. d = Parsed(Parse(raw), LF) /\ Parse(raw) \in ParseStates
      BY <1>1, <2>2, <3>1, ParseUnfold
    <3>3. d.data = DataSoFar(Parse(raw))
      BY <3>1, <3>2, ParsedIs
    <3> QED
      BY <1>2, <3>3, PayloadIs
  <2>5. EventOf(raw) = q.event
    BY <1>1, <2>2 DEF EventOf
  <2>6. /\ p2.buf = <<>>
        /\ p2.events = IF Payload(raw) = <<>> THEN p.events ELSE Append(p.events, raw)
    BY <1>3, <1>5, <1>6, <1>8, <2>1, TakenIs
  <2>7. /\ ~r2.cr /\ r2.line = <<>> /\ r2.event = EndLine(r).event /\ r2.events = EndLine(r).events
    BY <1>2, <1>4, <1>5, <1>6, <2>2, ReadTokenIs
  <2>8. /\ r2.event = Reading.event
        /\ r2.events = IF r.event.data = <<>> THEN r.events ELSE Append(r.events, r.event)
    BY <1>4, <2>3, <2>7, EndLineIs
  <2>9. ReadOn(Reading, <<>>) = Reading /\ Parse(<<>>) = Blank
    BY ReadOnUnfold, ParseUnfold, ReadingType
  <2>10. r2.events = Heard(p2.events)
    <3>1. CASE Payload(raw) = <<>>
      BY <1>2, <2>4, <2>6, <2>8, <3>1
    <3>2. CASE Payload(raw) # <<>>
      <4>1. r2.events = Append(r.events, r.event) /\ p2.events = Append(p.events, raw)
        BY <1>2, <2>4, <2>6, <2>8, <3>2
      <4>2. PICK evs \in Seq(Bytes) : evs = p.events
        BY <1>3
      <4>3. Heard(Append(evs, raw)) = Append(Heard(evs), EventOf(raw))
        BY <2>2, HeardMore
      <4> QED
        BY <1>2, <2>5, <4>1, <4>2, <4>3
    <3> QED
      BY <3>1, <3>2
  <2>11. \A i \in 1 .. Len(p2.events) : IsEvent(p2.events[i])
    <3>1. CASE Payload(raw) = <<>>
      BY <1>2, <2>6, <3>1
    <3>2. CASE Payload(raw) # <<>>
      <4>1. IsEvent(raw)
        <5>1. raw # <<>>
          <6>1. Payload(<<>>) = DataSoFar(Blank)
            BY <2>9, PayloadIs
          <6>2. DataSoFar(Blank) = <<>>
            BY DEF DataSoFar, Blank
          <6> QED
            BY <3>2, <6>1, <6>2
        <5>2. Last(raw) # LF
          BY <1>2, <2>1, <2>2, <5>1
        <5>3. q = ReadOn(Reading, Append(raw, LF))
          BY <1>1, <2>2
        <5> QED
          BY <1>2, <2>2, <2>3, <2>4, <3>2, <5>1, <5>2, <5>3 DEF IsEvent
      <4>2. PICK evs \in Seq(Bytes), n \in Nat : evs = p.events /\ n = Len(evs)
        BY <1>3, LenProperties
      <4>3. /\ Len(Append(evs, raw)) = n + 1 /\ Append(evs, raw)[n + 1] = raw
            /\ \A i \in 1 .. n : Append(evs, raw)[i] = evs[i]
        BY <2>2, <4>2, AppendProperties
      <4>4. p2.events = Append(evs, raw)
        BY <2>6, <3>2, <4>2
      <4>5. \A i \in 1 .. n : IsEvent(evs[i])
        BY <1>2, <4>2
      <4>6. ASSUME NEW i \in 1 .. (n + 1)
            PROVE  IsEvent(p2.events[i])
        <5>1. CASE i = n + 1
          BY <4>1, <4>3, <4>4, <5>1
        <5>2. CASE i # n + 1
          <6>1. i \in 1 .. n
            BY <5>2
          <6> QED
            BY <4>3, <4>4, <4>5, <6>1
        <5> QED
          BY <5>1, <5>2
      <4> QED
        BY <4>3, <4>4, <4>6
    <3> QED
      BY <3>1, <3>2
  <2>12. Blank.line = <<>> /\ Blank.data = <<>>
    BY DEF Blank
  <2> QED
    BY <1>6, <1>7, <2>6, <2>7, <2>8, <2>9, <2>10, <2>11, <2>12, ReadingType DEF Follows
<1>9. CASE ~Completes(p.buf, x)
  <2>1. p2.buf = Append(p.buf, x) /\ p2.events = p.events
    BY <1>3, <1>5, <1>6, <1>9, TakenIs
  <2>2. PICK q2, d2 : q2 = ReadToken(q, x) /\ d2 = Parsed(d, x)
    OBVIOUS
  <2>3. ReadOn(Reading, p2.buf) = q2 /\ Parse(p2.buf) = d2
    BY <1>1, <1>3, <1>5, <2>1, <2>2, ReadOnUnfold, ParseUnfold, ReadingType
  <2>4. /\ p2.buf # <<>> /\ Last(p2.buf) = x /\ Front(p2.buf) = p.buf
    BY <1>3, <1>5, <2>1, AppendIs DEF Bytes
  <2>5. p.buf # <<>> /\ x = LF => Last(p.buf) # LF
    BY <1>9 DEF Completes
  <2>6. CASE x # LF
    <3>1. /\ ~r2.cr /\ r2.line = Append(r.line, x) /\ r2.event = r.event /\ r2.events = r.events
      BY <1>4, <1>5, <1>6, <2>6, ReadTokenIs
    <3>2. /\ ~q2.cr /\ q2.line = Append(q.line, x) /\ q2.event = q.event /\ q2.events = q.events
      BY <1>4, <1>5, <2>2, <2>6, ReadTokenIs
    <3>3. d2.line = Append(d.line, x) /\ d2.data = d.data
      BY <1>4, <1>5, <2>2, <2>6, ParsedIs
    <3>4. q2.line # <<>>
      <4>1. q.line \in Seq(Tokens)
        BY <1>4 DEF Readers, Bytes
      <4> QED
        BY <1>5, <3>2, <4>1, AppendProperties
    <3> QED
      BY <1>2, <1>6, <1>7, <2>1, <2>3, <2>4, <2>6, <3>1, <3>2, <3>3, <3>4 DEF Follows
  <2>7. CASE x = LF
    <3>1. /\ ~r2.cr /\ r2.line = <<>> /\ r2.event = EndLine(r).event /\ r2.events = EndLine(r).events
      BY <1>2, <1>4, <1>5, <1>6, <2>7, ReadTokenIs
    <3>2. /\ ~q2.cr /\ q2.line = <<>> /\ q2.event = EndLine(q).event /\ q2.events = EndLine(q).events
      BY <1>2, <1>4, <1>5, <2>2, <2>7, ReadTokenIs
    <3>3. d2.line = <<>> /\ d2.data = DataSoFar(d)
      BY <1>4, <1>5, <2>2, <2>7, ParsedIs
    <3>4. q.line = <<>> => q.event.data = <<>>
      <4>1. CASE p.buf = <<>>
        <5>1. q = Reading
          BY <1>1, <4>1, ReadOnUnfold, ReadingType
        <5> QED
          BY <5>1, ReadingType
      <4>2. CASE p.buf # <<>>
        BY <1>2, <2>5, <2>7, <4>2
      <4> QED
        BY <4>1, <4>2
    <3>5. r2.events = r.events /\ q2.events = <<>> /\ r2.event = q2.event /\ d2.data = q2.event.data
      <4>1. CASE q.line = <<>>
        <5>1. r2.event = Reading.event /\ r2.events = r.events
          BY <1>2, <1>4, <3>1, <3>4, <4>1, EndLineIs
        <5>2. q2.event = Reading.event /\ q2.events = <<>>
          BY <1>2, <1>4, <3>2, <3>4, <4>1, EndLineIs
        <5>3. d2.data = <<>>
          BY <1>2, <3>3, <3>4, <4>1 DEF DataSoFar
        <5> QED
          BY <5>1, <5>2, <5>3, ReadingType
      <4>2. CASE q.line # <<>>
        <5>1. /\ r2.events = r.events
              /\ r2.event.data = IF Head(r.line) = "data" THEN Append(r.event.data, Tail(r.line))
                                 ELSE r.event.data
              /\ (r2.event.named <=> r.event.named \/ Head(r.line) = "event")
          BY <1>2, <1>4, <3>1, <4>2, EndLineIs
        <5>2. /\ q2.events = <<>>
              /\ q2.event.data = IF Head(q.line) = "data" THEN Append(q.event.data, Tail(q.line))
                                 ELSE q.event.data
              /\ (q2.event.named <=> q.event.named \/ Head(q.line) = "event")
          BY <1>2, <1>4, <3>2, <4>2, EndLineIs
        <5>3. r2 \in Readers /\ q2 \in Readers
          BY <1>4, <1>5, <1>6, <2>2, ReadTokenType
        <5>4. r2.event \in Events /\ q2.event \in Events
          BY <5>3 DEF Readers
        <5>5. r2.event.data = q2.event.data /\ (r2.event.named <=> q2.event.named)
          BY <1>2, <5>1, <5>2
        <5>6. r2.event = q2.event
          BY <5>4, <5>5, SameEvents
        <5>7. d2.data = q2.event.data
          BY <1>2, <3>3, <4>2, <5>2 DEF DataSoFar
        <5> QED
          BY <5>1, <5>2, <5>6, <5>7
      <4> QED
        BY <4>1, <4>2
    <3> QED
      BY <1>2, <1>6, <1>7, <2>1, <2>3, <2>4, <2>5, <2>7, <3>1, <3>2, <3>3, <3>5 DEF Follows
  <2> QED
    BY <2>6, <2>7
<1> QED
  BY <1>8, <1>9

\* After any bytes without a CR.
LEMMA AlwaysFollows ==
  ASSUME NEW s \in Seq(Tokens \ {CR})
  PROVE  s \in Bytes /\ Follows(s)
<1> DEFINE E == {t \in Seq(Tokens \ {CR}) : t \in Bytes /\ Follows(t)}
<1>1. <<>> \in E
  BY EmptySeq, FollowsStart DEF Bytes
<1>2. ASSUME NEW t \in E, NEW x \in Tokens \ {CR}
      PROVE  Append(t, x) \in E
  <2>1. Append(t, x) \in Seq(Tokens \ {CR}) /\ Append(t, x) \in Bytes
    BY <1>2, AppendProperties DEF Bytes
  <2>2. Follows(Append(t, x))
    BY <1>2, FollowsMore
  <2> QED
    BY <2>1, <2>2
<1>3. E \in SUBSET Seq(Tokens \ {CR})
  OBVIOUS
<1> HIDE DEF E
<1>4. E = Seq(Tokens \ {CR})
  BY <1>1, <1>2, <1>3, SeqBuilt
<1> QED
  BY <1>4 DEF E

-----------------------------------------------------------------------------
(* Line endings.                                                           *)

\* The alphabets of streams that end their lines with one of CR and LF.
Alphabets == {Tokens \ {LF}, Tokens \ {CR}}

\* The same with every CR an LF.
AsLF(x) == IF x = CR THEN LF ELSE x

Lf(s) == [i \in DOMAIN s |-> AsLF(s[i])]

\* No CR is left.
LEMMA AsLFIs ==
  ASSUME NEW x \in Tokens
  PROVE  AsLF(x) \in Tokens \ {CR}
<1>1. LF \in Tokens /\ LF # CR
  BY DEF Tokens, LF, CR
<1> QED
  BY <1>1 DEF AsLF

\* With every CR taken for LF, bytes have no CR, and are as many.
LEMMA LfType ==
  ASSUME NEW s \in Bytes
  PROVE  /\ Lf(s) \in Seq(Tokens \ {CR}) /\ Lf(s) \in Bytes /\ Len(Lf(s)) = Len(s)
         /\ \A i \in 1 .. Len(s) : Lf(s)[i] = AsLF(s[i])
<1>1. PICK n \in Nat : n = Len(s) /\ DOMAIN s = 1 .. n
  BY LenProperties DEF Bytes
<1>2. \A i \in 1 .. n : AsLF(s[i]) \in Tokens \ {CR}
  BY <1>1, ElementOfSeq, AsLFIs DEF Bytes
<1>3. Lf(s) = [i \in 1 .. n |-> AsLF(s[i])]
  BY <1>1 DEF Lf
<1>4. Lf(s) \in [1 .. n -> Tokens \ {CR}]
  BY <1>2, <1>3
<1>5. Lf(s) \in Seq(Tokens \ {CR}) /\ Len(Lf(s)) = n
  BY <1>1, <1>3, <1>4
<1>6. Lf(s) \in Bytes
  BY <1>5, SeqMonotonic DEF Bytes
<1> QED
  BY <1>1, <1>3, <1>5, <1>6

\* Of one row after another.
LEMMA LfConcat ==
  ASSUME NEW a \in Bytes, NEW b \in Bytes
  PROVE  Lf(a \o b) = Lf(a) \o Lf(b)
<1>1. PICK m \in Nat, n \in Nat : m = Len(a) /\ n = Len(b)
  BY LenProperties DEF Bytes
<1>2. PICK c \in Bytes, x \in Bytes, y \in Bytes : c = a \o b /\ x = Lf(a) /\ y = Lf(b)
  BY ConcatProperties, LfType DEF Bytes
<1>3. Len(c) = m + n /\ \A i \in 1 .. (m + n) : c[i] = IF i <= m THEN a[i] ELSE b[i - m]
  BY <1>1, <1>2, ConcatProperties DEF Bytes
<1>4. /\ Len(x) = m /\ Len(y) = n
      /\ \A i \in 1 .. m : x[i] = AsLF(a[i])
      /\ \A i \in 1 .. n : y[i] = AsLF(b[i])
  BY <1>1, <1>2, LfType
<1>5. /\ x \o y \in Seq(Tokens) /\ Len(x \o y) = m + n
      /\ \A i \in 1 .. (m + n) : (x \o y)[i] = IF i <= m THEN x[i] ELSE y[i - m]
  BY <1>4, ConcatProperties DEF Bytes
<1>6. /\ Lf(c) \in Seq(Tokens) /\ Len(Lf(c)) = m + n
      /\ \A i \in 1 .. (m + n) : Lf(c)[i] = AsLF(c[i])
  BY <1>3, LfType DEF Bytes
<1>7. ASSUME NEW i \in 1 .. (m + n)
      PROVE  Lf(c)[i] = (x \o y)[i]
  <2>1. CASE i <= m
    <3>1. i \in 1 .. m
      BY <2>1
    <3> QED
      BY <1>3, <1>4, <1>5, <1>6, <2>1, <3>1
  <2>2. CASE ~(i <= m)
    <3>1. i - m \in 1 .. n
      BY <2>2
    <3> QED
      BY <1>3, <1>4, <1>5, <1>6, <2>2, <3>1
  <2> QED
    BY <2>1, <2>2
<1>8. Lf(c) = x \o y
  BY <1>5, <1>6, <1>7, SeqEqual
<1> QED
  BY <1>2, <1>8

\* Of one byte more.
LEMMA LfMore ==
  ASSUME NEW s \in Bytes, NEW x \in Tokens
  PROVE  Lf(Append(s, x)) = Append(Lf(s), AsLF(x))
<1>1. <<x>> \in Bytes /\ Append(s, x) = s \o <<x>>
  BY AppendIsConcat DEF Bytes
<1>2. Lf(<<x>>) = <<AsLF(x)>>
  BY DEF Lf
<1>3. Lf(s) \in Seq(Tokens) /\ AsLF(x) \in Tokens
  BY LfType, AsLFIs DEF Bytes
<1>4. Append(Lf(s), AsLF(x)) = Lf(s) \o <<AsLF(x)>>
  BY <1>3, AppendIsConcat
<1> QED
  BY <1>1, <1>2, <1>4, LfConcat

\* Of no bytes.
LEMMA LfEmpty == Lf(<<>>) = <<>> /\ <<>> \in Bytes
<1>1. <<>> \in Bytes /\ Len(<<>>) = 0
  BY EmptySeq DEF Bytes
<1>2. Lf(<<>>) \in Seq(Tokens) /\ Len(Lf(<<>>)) = 0
  BY <1>1, LfType DEF Bytes
<1> QED
  BY <1>1, <1>2, EmptySeq

NormalStates == [bytes : Bytes, cr : BOOLEAN]

Fresh == [bytes |-> <<>>, cr |-> FALSE]

\* What Normal() has when it comes to the end of a chunk.
ToLFs(chunk) ==
  LET f[n \in 0 .. Len(chunk)] == IF n = 0 THEN Fresh ELSE ToLF(f[n - 1], chunk[n])
  IN  f[Len(chunk)]

\* What the normalisation of a chunk comes to.
LEMMA NormalIs ==
  ASSUME NEW chunk
  PROVE  Normal(chunk) = ToLFs(chunk).bytes
BY Zenon DEF Normal, ToLFs, Fresh

\* One byte more for it.
LEMMA ToLFType ==
  ASSUME NEW acc \in NormalStates, NEW t \in Tokens
  PROVE  ToLF(acc, t) \in NormalStates
<1>1. acc.bytes \in Bytes /\ acc.cr \in BOOLEAN
  BY DEF NormalStates
<1>2. CASE t = LF /\ acc.cr
  BY <1>2 DEF ToLF, NormalStates
<1>3. CASE ~(t = LF /\ acc.cr)
  <2>1. PICK x : x = AsLF(t)
    OBVIOUS
  <2>2. x \in Tokens
    BY <2>1, AsLFIs
  <2>3. Append(acc.bytes, x) \in Bytes
    BY <1>1, <2>2, AppendProperties DEF Bytes
  <2>4. ToLF(acc, t) = [bytes |-> Append(acc.bytes, x), cr |-> t = CR]
    BY <1>3, <2>1 DEF ToLF, AsLF
  <2> QED
    BY <2>3, <2>4 DEF NormalStates
<1> QED
  BY <1>2, <1>3

\* The line endings of a chunk.
ToLFsRun(h, s) ==
  h = [n \in 0 .. Len(s) |-> IF n = 0 THEN Fresh ELSE ToLF(h[n - 1], s[n])]

\* Anything that takes its steps is its result.
LEMMA ToLFsIs ==
  ASSUME NEW s \in Bytes, NEW f \in [0 .. Len(s) -> NormalStates],
         f[0] = Fresh, \A n \in 1 .. Len(s) : f[n] = ToLF(f[n - 1], s[n])
  PROVE  ToLFs(s) = f[Len(s)]
<1>1. Len(s) \in Nat
  BY LenProperties DEF Bytes
<1>2. ToLFsRun(f, s)
  <2>1. f = [n \in 0 .. Len(s) |-> f[n]]
    OBVIOUS
  <2>2. \A n \in 0 .. Len(s) : f[n] = IF n = 0 THEN Fresh ELSE ToLF(f[n - 1], s[n])
    BY <1>1
  <2>3. f = [n \in 0 .. Len(s) |-> IF n = 0 THEN Fresh ELSE ToLF(f[n - 1], s[n])]
    BY <2>1, <2>2, Zenon
  <2> QED
    BY <2>3, Zenon DEF ToLFsRun
<1>3. PICK g : g = CHOOSE h : ToLFsRun(h, s)
  OBVIOUS
<1>4. ToLFsRun(g, s)
  BY <1>2, <1>3, Zenon
<1>5. ToLFs(s) = g[Len(s)]
  BY <1>3, Zenon DEF ToLFs, ToLFsRun
<1>6. \A n \in 0 .. Len(s) : g[n] = IF n = 0 THEN Fresh ELSE ToLF(g[n - 1], s[n])
  BY <1>4, Zenon DEF ToLFsRun
<1>7. g[0] = f[0]
  BY <1>1, <1>6
<1>8. \A n \in 1 .. Len(s) : g[n] = ToLF(g[n - 1], s[n])
  BY <1>1, <1>6
<1>9. \A n \in 1 .. Len(s) : g[n - 1] = f[n - 1] => g[n] = f[n]
  <2> SUFFICES ASSUME NEW n \in 1 .. Len(s), g[n - 1] = f[n - 1]
               PROVE  g[n] = f[n]
    OBVIOUS
  <2>1. g[n] = ToLF(g[n - 1], s[n]) /\ f[n] = ToLF(f[n - 1], s[n])
    BY <1>8
  <2> QED
    BY <2>1
<1>10. \A n \in 0 .. Len(s) : g[n] = f[n]
  <2>1. SameSteps(g, f, Len(s))
    BY <1>7, <1>9 DEF SameSteps
  <2> QED
    BY <1>1, <2>1, FoldsAgree
<1> QED
  BY <1>1, <1>5, <1>10

\* The normalisation, byte by byte.
LEMMA ToLFsUnfold ==
  /\ ToLFs(<<>>) = Fresh
  /\ \A s \in Bytes : ToLFs(s) \in NormalStates
  /\ \A s \in Bytes : \A t \in Tokens : ToLFs(Append(s, t)) = ToLF(ToLFs(s), t)
<1>1. Fresh \in NormalStates
  BY EmptySeq DEF NormalStates, Fresh, Bytes
<1>2. PICK step : step = [x \in NormalStates \X Tokens |-> ToLF(x[1], x[2])]
  OBVIOUS
<1>3. step \in [NormalStates \X Tokens -> NormalStates]
  BY <1>2, ToLFType
<1>4. \A r \in NormalStates : \A t \in Tokens : step[<<r, t>>] = ToLF(r, t)
  BY <1>2
<1>5. ASSUME NEW s \in Bytes, NEW f \in [0 .. Len(s) -> NormalStates], Steps(f, step, Fresh, s)
      PROVE  ToLFs(s) = f[Len(s)]
  <2>1. Len(s) \in Nat /\ \A n \in 1 .. Len(s) : s[n] \in Tokens
    BY LenProperties, ElementOfSeq DEF Bytes
  <2>2. f[0] = Fresh
    BY <1>5 DEF Steps
  <2>3. ASSUME NEW n \in 1 .. Len(s)
        PROVE  f[n] = ToLF(f[n - 1], s[n])
    <3>1. n - 1 \in 0 .. Len(s)
      BY <2>1
    <3>2. f[n - 1] \in NormalStates /\ s[n] \in Tokens
      BY <2>1, <3>1
    <3>3. f[n] = step[<<f[n - 1], s[n]>>]
      BY <1>5 DEF Steps
    <3> QED
      BY <1>4, <3>2, <3>3
  <2> QED
    BY <2>2, <2>3, ToLFsIs
<1>6. ToLFs(<<>>) = Fresh
  <2>1. <<>> \in Bytes /\ Len(<<>>) = 0
    BY EmptySeq DEF Bytes
  <2>2. PICK f \in [0 .. Len(<<>>) -> NormalStates] : Steps(f, step, Fresh, <<>>)
    BY <1>1, <1>3, <2>1, FoldExists DEF Bytes
  <2> QED
    BY <1>5, <2>1, <2>2 DEF Steps
<1>7. ASSUME NEW s \in Bytes, NEW t \in Tokens
      PROVE  /\ ToLFs(s) \in NormalStates
             /\ ToLFs(Append(s, t)) = ToLF(ToLFs(s), t)
  <2>1. PICK r, m : r = Append(s, t) /\ m = Len(s)
    OBVIOUS
  <2>2. /\ s \in Seq(Tokens) /\ r \in Seq(Tokens) /\ m \in Nat /\ Len(s) = m
        /\ Len(r) = m + 1
        /\ \A n \in 1 .. m : r[n] = s[n]
        /\ r[m + 1] = t
    BY <2>1, AppendProperties DEF Bytes
  <2>3. PICK g \in [0 .. Len(r) -> NormalStates] : Steps(g, step, Fresh, r)
    BY <1>1, <1>3, <2>2, FoldExists
  <2>4. PICK f \in [0 .. Len(s) -> NormalStates] : Steps(f, step, Fresh, s)
    BY <1>1, <1>3, <2>2, FoldExists
  <2>5. g[m + 1] = step[<<f[m], t>>]
    <3>1. g[m] = f[m]
      BY <2>2, <2>3, <2>4, FoldGoesOn
    <3>2. m + 1 \in 1 .. Len(r) /\ (m + 1) - 1 = m
      BY <2>2
    <3>3. g[m + 1] = step[<<g[m], r[m + 1]>>]
      BY <2>3, <3>2 DEF Steps
    <3> QED
      BY <2>2, <3>1, <3>3
  <2>6. ToLFs(s) = f[m] /\ ToLFs(r) = g[m + 1]
    BY <1>5, <2>1, <2>2, <2>3, <2>4 DEF Bytes
  <2>7. f[m] \in NormalStates
    BY <2>1, <2>2, <2>4
  <2> QED
    BY <1>4, <2>1, <2>2, <2>5, <2>6, <2>7
<1>8. LF \in Tokens
  BY DEF Tokens
<1> QED
  BY <1>6, <1>7, <1>8

\* Bytes of such a stream are bytes.
LEMMA AlphabetIs ==
  ASSUME NEW K \in Alphabets
  PROVE  K \in SUBSET Tokens /\ Seq(K) \in SUBSET Bytes /\ (CR \notin K \/ LF \notin K)
<1>1. K \in SUBSET Tokens
  BY DEF Alphabets
<1>2. \A s \in Seq(K) : s \in Bytes
  BY <1>1, SeqMonotonic DEF Bytes
<1> QED
  BY <1>1, <1>2 DEF Alphabets

\* A chunk of such a stream has its CRs replaced.
LEMMA NormalOne ==
  ASSUME NEW K \in Alphabets, NEW chunk \in Seq(K)
  PROVE  Normal(chunk) = Lf(chunk)
<1> DEFINE E == {s \in Seq(K) : ToLFs(s).bytes = Lf(s) /\ (ToLFs(s).cr => LF \notin K)}
<1>1. <<>> \in E
  <2>1. ToLFs(<<>>) = Fresh
    BY ToLFsUnfold
  <2> QED
    BY <2>1, LfEmpty, EmptySeq DEF Fresh
<1>2. ASSUME NEW s \in E, NEW x \in K
      PROVE  Append(s, x) \in E
  <2>1. x \in Tokens /\ s \in Seq(K) /\ s \in Bytes /\ Append(s, x) \in Seq(K)
    BY <1>2, AlphabetIs, AppendProperties
  <2>2. PICK acc \in NormalStates : acc = ToLFs(s)
    BY <2>1, ToLFsUnfold
  <2>3. acc.bytes = Lf(s) /\ (acc.cr => LF \notin K)
    BY <1>2, <2>2
  <2>4. ToLFs(Append(s, x)) = ToLF(acc, x)
    BY <2>1, <2>2, ToLFsUnfold
  <2>5. ~(x = LF /\ acc.cr)
    BY <2>3
  <2>6. ToLF(acc, x) = [bytes |-> Append(acc.bytes, AsLF(x)), cr |-> x = CR]
    BY <2>5 DEF ToLF, AsLF
  <2>7. ToLF(acc, x).bytes = Lf(Append(s, x))
    BY <2>1, <2>3, <2>6, LfMore
  <2>8. CASE x = CR
    <3>1. LF \notin K
      BY <2>8, AlphabetIs
    <3> QED
      BY <2>1, <2>4, <2>7, <3>1
  <2>9. CASE x # CR
    <3>1. ToLF(acc, x) = [bytes |-> Append(acc.bytes, AsLF(x)), cr |-> FALSE]
      <4>1. (x = CR) = FALSE
        BY <2>9
      <4> QED
        BY <2>6, <4>1
    <3>2. ~ToLF(acc, x).cr
      BY <3>1
    <3> QED
      BY <2>1, <2>4, <2>7, <3>2
  <2> QED
    BY <2>8, <2>9
<1>3. E \in SUBSET Seq(K)
  OBVIOUS
<1> HIDE DEF E
<1>4. E = Seq(K)
  BY <1>1, <1>2, <1>3, SeqBuilt
<1>5. ToLFs(chunk).bytes = Lf(chunk)
  BY <1>4 DEF E
<1> QED
  BY <1>5, NormalIs

\* A reader does not tell CR from LF in one.
LEMMA ReadOne ==
  ASSUME NEW K \in Alphabets, NEW c \in Seq(K)
  PROVE  /\ ReadOn(Reading, c).line = ReadOn(Reading, Lf(c)).line
         /\ ReadOn(Reading, c).event = ReadOn(Reading, Lf(c)).event
         /\ ReadOn(Reading, c).events = ReadOn(Reading, Lf(c)).events
<1> DEFINE E == {s \in Seq(K) : /\ ReadOn(Reading, s).line = ReadOn(Reading, Lf(s)).line
                                /\ ReadOn(Reading, s).event = ReadOn(Reading, Lf(s)).event
                                /\ ReadOn(Reading, s).events = ReadOn(Reading, Lf(s)).events
                                /\ ReadOn(Reading, s).cr => LF \notin K}
<1>1. <<>> \in E
  <2>1. ReadOn(Reading, <<>>) = Reading
    BY ReadOnUnfold, ReadingType
  <2> QED
    BY <2>1, LfEmpty, EmptySeq, ReadingType
<1>2. ASSUME NEW s \in E, NEW x \in K
      PROVE  Append(s, x) \in E
  <2>1. x \in Tokens /\ s \in Seq(K) /\ s \in Bytes /\ Append(s, x) \in Seq(K)
    BY <1>2, AlphabetIs, AppendProperties
  <2>2. PICK y : y = AsLF(x)
    OBVIOUS
  <2>3. y \in Tokens /\ Lf(s) \in Seq(Tokens \ {CR}) /\ Lf(s) \in Bytes
    BY <2>1, <2>2, LfType, AsLFIs
  <2>4. PICK r \in Readers, n \in Readers : r = ReadOn(Reading, s) /\ n = ReadOn(Reading, Lf(s))
    BY <2>1, <2>3, ReadOnUnfold, ReadingType
  <2>5. r.line = n.line /\ r.event = n.event /\ r.events = n.events /\ (r.cr => LF \notin K)
    BY <1>2, <2>4
  <2>6. ~n.cr
    BY <2>3, <2>4, AlwaysFollows DEF Follows
  <2>7. PICK r2, n2 : r2 = ReadToken(r, x) /\ n2 = ReadToken(n, y)
    OBVIOUS
  <2>8. ReadOn(Reading, Append(s, x)) = r2 /\ ReadOn(Reading, Lf(Append(s, x))) = n2
    <3>1. ReadOn(Reading, Append(s, x)) = ReadToken(ReadOn(Reading, s), x)
      BY <2>1, ReadOnUnfold, ReadingType
    <3>2. PICK m \in Bytes : m = Lf(s)
      BY <2>3
    <3>3. ReadOn(Reading, Append(m, y)) = ReadToken(ReadOn(Reading, m), y)
      BY <2>3, ReadOnUnfold, ReadingType
    <3>4. Lf(Append(s, x)) = Append(Lf(s), y)
      BY <2>1, <2>2, LfMore
    <3> QED
      BY <2>4, <2>7, <3>1, <3>2, <3>3, <3>4
  <2>9. CASE x \in {CR, LF}
    <3>1. y = LF /\ ~(x = LF /\ r.cr)
      BY <2>2, <2>5, <2>9 DEF AsLF
    <3>2. /\ (r2.cr <=> x = CR) /\ r2.line = <<>> /\ r2.event = EndLine(r).event
          /\ r2.events = EndLine(r).events
      BY <2>1, <2>7, <2>9, <3>1, ReadTokenIs
    <3>3. n2.line = <<>> /\ n2.event = EndLine(n).event /\ n2.events = EndLine(n).events
      BY <2>3, <2>6, <2>7, <3>1, ReadTokenIs
    <3>4. EndLine(r).event = EndLine(n).event /\ EndLine(r).events = EndLine(n).events
      <4>1. CASE r.line = <<>>
        <5>1. /\ EndLine(r).event = Reading.event
              /\ EndLine(r).events = IF r.event.data = <<>> THEN r.events
                                     ELSE Append(r.events, r.event)
          BY <4>1, EndLineIs
        <5>2. /\ EndLine(n).event = Reading.event
              /\ EndLine(n).events = IF n.event.data = <<>> THEN n.events
                                     ELSE Append(n.events, n.event)
          BY <2>5, <4>1, EndLineIs
        <5> QED
          BY <2>5, <5>1, <5>2
      <4>2. CASE r.line # <<>>
        <5>1. /\ EndLine(r).events = r.events /\ EndLine(n).events = n.events
              /\ EndLine(r).event.data = EndLine(n).event.data
              /\ (EndLine(r).event.named <=> EndLine(n).event.named)
          BY <2>5, <4>2, EndLineIs
        <5>2. EndLine(r) \in Readers /\ EndLine(n) \in Readers
          BY EndLineType
        <5>3. EndLine(r).event \in Events /\ EndLine(n).event \in Events
          BY <5>2 DEF Readers
        <5>4. EndLine(r).event = EndLine(n).event
          BY <5>1, <5>3, SameEvents
        <5> QED
          BY <2>5, <5>1, <5>4
      <4> QED
        BY <4>1, <4>2
    <3>5. r2.cr => LF \notin K
      BY <3>2, AlphabetIs
    <3> QED
      BY <2>1, <2>8, <3>2, <3>3, <3>4, <3>5
  <2>10. CASE x \notin {CR, LF}
    <3>1. y = x
      BY <2>2, <2>10 DEF AsLF
    <3>2. /\ ~r2.cr /\ r2.line = Append(r.line, x) /\ r2.event = r.event /\ r2.events = r.events
      BY <2>1, <2>7, <2>10, ReadTokenIs
    <3>3. n2.line = Append(n.line, x) /\ n2.event = n.event /\ n2.events = n.events
      BY <2>1, <2>7, <2>10, <3>1, ReadTokenIs
    <3> QED
      BY <2>1, <2>5, <2>8, <3>2, <3>3
  <2> QED
    BY <2>9, <2>10
<1>3. E \in SUBSET Seq(K)
  OBVIOUS
<1> HIDE DEF E
<1>4. E = Seq(K)
  BY <1>1, <1>2, <1>3, SeqBuilt
<1> QED
  BY <1>4 DEF E





-----------------------------------------------------------------------------
(* A function applied along a sequence.                                    *)

Maps(g, S, T) == g \in [S -> T]

Mapped(g, s) == [i \in DOMAIN s |-> g[s[i]]]

\* Its elements.
LEMMA MappedIs ==
  ASSUME NEW S, NEW T, NEW g, Maps(g, S, T), NEW s \in Seq(S)
  PROVE  /\ Mapped(g, s) \in Seq(T) /\ Len(Mapped(g, s)) = Len(s)
         /\ \A i \in 1 .. Len(s) : Mapped(g, s)[i] = g[s[i]]
<1>1. PICK n \in Nat : n = Len(s) /\ DOMAIN s = 1 .. n
  BY LenProperties
<1>2. \A i \in 1 .. n : g[s[i]] \in T
  BY <1>1, ElementOfSeq DEF Maps
<1>3. Mapped(g, s) = [i \in 1 .. n |-> g[s[i]]]
  BY <1>1 DEF Mapped
<1>4. Mapped(g, s) \in [1 .. n -> T]
  BY <1>2, <1>3
<1>5. Mapped(g, s) \in Seq(T) /\ Len(Mapped(g, s)) = n
  BY <1>1, <1>3, <1>4
<1> QED
  BY <1>1, <1>3, <1>5

\* Along two sequences, one after the other.
LEMMA MappedConcat ==
  ASSUME NEW S, NEW T, NEW g, Maps(g, S, T), NEW a \in Seq(S), NEW b \in Seq(S)
  PROVE  Mapped(g, a \o b) = Mapped(g, a) \o Mapped(g, b)
<1>1. PICK m \in Nat, n \in Nat : m = Len(a) /\ n = Len(b)
  BY LenProperties
<1>2. PICK c \in Seq(S), x \in Seq(T), y \in Seq(T) :
        c = a \o b /\ x = Mapped(g, a) /\ y = Mapped(g, b)
  BY ConcatProperties, MappedIs
<1>3. Len(c) = m + n /\ \A i \in 1 .. (m + n) : c[i] = IF i <= m THEN a[i] ELSE b[i - m]
  BY <1>1, <1>2, ConcatProperties
<1>4. /\ Len(x) = m /\ Len(y) = n
      /\ \A i \in 1 .. m : x[i] = g[a[i]]
      /\ \A i \in 1 .. n : y[i] = g[b[i]]
  <2>1. Len(Mapped(g, a)) = Len(a) /\ \A i \in 1 .. Len(a) : Mapped(g, a)[i] = g[a[i]]
    BY MappedIs
  <2>2. Len(Mapped(g, b)) = Len(b) /\ \A i \in 1 .. Len(b) : Mapped(g, b)[i] = g[b[i]]
    BY MappedIs
  <2> QED
    BY <1>1, <1>2, <2>1, <2>2
<1>5. /\ x \o y \in Seq(T) /\ Len(x \o y) = m + n
      /\ \A i \in 1 .. (m + n) : (x \o y)[i] = IF i <= m THEN x[i] ELSE y[i - m]
  BY <1>4, ConcatProperties
<1>6. /\ Mapped(g, c) \in Seq(T) /\ Len(Mapped(g, c)) = m + n
      /\ \A i \in 1 .. (m + n) : Mapped(g, c)[i] = g[c[i]]
  <2>1. /\ Mapped(g, c) \in Seq(T) /\ Len(Mapped(g, c)) = Len(c)
        /\ \A i \in 1 .. Len(c) : Mapped(g, c)[i] = g[c[i]]
    BY MappedIs
  <2> QED
    BY <1>3, <2>1
<1>7. ASSUME NEW i \in 1 .. (m + n)
      PROVE  Mapped(g, c)[i] = (x \o y)[i]
  <2>1. Mapped(g, c)[i] = g[c[i]]
    BY <1>6
  <2>2. CASE i <= m
    <3>1. i \in 1 .. m
      BY <2>2
    <3>2. c[i] = a[i] /\ (x \o y)[i] = x[i]
      BY <1>3, <1>5, <2>2
    <3>3. x[i] = g[a[i]]
      BY <1>4, <3>1
    <3> QED
      BY <2>1, <3>2, <3>3
  <2>3. CASE ~(i <= m)
    <3>1. i - m \in 1 .. n
      BY <2>3
    <3>2. c[i] = b[i - m] /\ (x \o y)[i] = y[i - m]
      BY <1>3, <1>5, <2>3
    <3>3. y[i - m] = g[b[i - m]]
      BY <1>4, <3>1
    <3> QED
      BY <2>1, <3>2, <3>3
  <2> QED
    BY <2>2, <2>3
<1>8. Mapped(g, c) = x \o y
  BY <1>5, <1>6, <1>7, SeqEqual
<1> QED
  BY <1>2, <1>8

\* Along none.
LEMMA MappedNone ==
  ASSUME NEW g
  PROVE  Mapped(g, <<>>) = <<>>
BY DEF Mapped

\* Along one more.
LEMMA MappedMore ==
  ASSUME NEW S, NEW T, NEW g, Maps(g, S, T), NEW s \in Seq(S), NEW x \in S
  PROVE  Mapped(g, Append(s, x)) = Append(Mapped(g, s), g[x])
<1>1. PICK one : one = <<x>>
  OBVIOUS
<1>2. one \in Seq(S) /\ Append(s, x) = s \o one
  BY <1>1, AppendIsConcat
<1>3. one \in Seq(S)
  BY <1>2
<1>4. Mapped(g, s \o one) = Mapped(g, s) \o Mapped(g, one)
  BY <1>3, MappedConcat
<1>5. Mapped(g, one) = <<g[x]>>
  BY <1>1 DEF Mapped
<1>6. Mapped(g, s) \in Seq(T) /\ g[x] \in T
  BY MappedIs DEF Maps
<1>7. Append(Mapped(g, s), g[x]) = Mapped(g, s) \o <<g[x]>>
  BY <1>6, AppendIsConcat
<1> QED
  BY <1>2, <1>4, <1>5, <1>7

-----------------------------------------------------------------------------
(* The rows of a list in one.                                              *)

FlatRun(f, ls) ==
  f = [i \in 1 .. Len(ls) |-> IF i = 1 THEN ls[i] ELSE f[i - 1] \o ls[i]]

Gathers(f, ls) ==
  /\ f \in [0 .. Len(ls) -> Bytes] /\ f[0] = <<>>
  /\ \A i \in 1 .. Len(ls) : f[i] = f[i - 1] \o ls[i]

\* FlattenSeq() is the fold that puts one more row after the others.
LEMMA FlattenIs ==
  ASSUME NEW ls \in Seq(Bytes), NEW f, Gathers(f, ls)
  PROVE  FlattenSeq(ls) = f[Len(ls)]
<1>1. PICK n \in Nat : n = Len(ls)
  BY LenProperties
<1>0. f[0] = <<>> /\ \A i \in 1 .. n : f[i] = f[i - 1] \o ls[i]
  BY <1>1 DEF Gathers
<1>2. CASE n = 0
  <2>1. ls = <<>>
    BY <1>1, <1>2, EmptySeq
  <2>2. FlattenSeq(ls) = ls
    BY <1>1, <1>2 DEF FlattenSeq
  <2> QED
    BY <1>0, <1>1, <1>2, <2>1, <2>2
<1>3. CASE n # 0
  <2>1. PICK h : h = [i \in 1 .. n |-> f[i]]
    OBVIOUS
  <2>2. \A i \in 1 .. n : h[i] = IF i = 1 THEN ls[i] ELSE h[i - 1] \o ls[i]
    <3> SUFFICES ASSUME NEW i \in 1 .. n
                 PROVE  h[i] = IF i = 1 THEN ls[i] ELSE h[i - 1] \o ls[i]
      OBVIOUS
    <3>1. h[i] = f[i - 1] \o ls[i]
      BY <1>0, <2>1
    <3>2. CASE i = 1
      <4>1. f[i - 1] = <<>> /\ ls[i] \in Bytes
        BY <1>0, <1>1, <3>2, ElementOfSeq
      <4>2. <<>> \o ls[i] = ls[i]
        BY <4>1, ConcatEmptySeq DEF Bytes
      <4> QED
        BY <3>1, <3>2, <4>1, <4>2
    <3>3. CASE i # 1
      <4>1. h[i - 1] = f[i - 1]
        BY <2>1, <3>3
      <4> QED
        BY <3>1, <3>3, <4>1
    <3> QED
      BY <3>2, <3>3
  <2>3. FlatRun(h, ls)
    <3>1. h = [i \in 1 .. n |-> h[i]]
      BY <2>1
    <3>2. h = [i \in 1 .. n |-> IF i = 1 THEN ls[i] ELSE h[i - 1] \o ls[i]]
      BY <2>2, <3>1, Zenon
    <3> QED
      BY <1>1, <3>2, Zenon DEF FlatRun
  <2>4. PICK g : g = CHOOSE e : FlatRun(e, ls)
    OBVIOUS
  <2>5. FlatRun(g, ls)
    BY <2>3, <2>4, Zenon
  <2>6. FlattenSeq(ls) = g[n]
    BY <1>1, <1>3, <2>4, Zenon DEF FlattenSeq, FlatRun
  <2>7. \A i \in 1 .. n : g[i] = IF i = 1 THEN ls[i] ELSE g[i - 1] \o ls[i]
    BY <1>1, <2>5, Zenon DEF FlatRun
  <2>8. PICK k : k = [i \in 0 .. n |-> IF i = 0 THEN <<>> ELSE g[i]]
    OBVIOUS
  <2>9. k[0] = f[0]
    BY <1>0, <2>8
  <2>10. \A i \in 1 .. n : k[i - 1] = f[i - 1] => k[i] = f[i]
    <3> SUFFICES ASSUME NEW i \in 1 .. n, k[i - 1] = f[i - 1]
                 PROVE  k[i] = f[i]
      OBVIOUS
    <3>1. k[i] = g[i]
      BY <2>8
    <3>2. CASE i = 1
      <4>1. k[i] = ls[i] /\ h[i] = ls[i] /\ h[i] = f[i]
        BY <2>1, <2>2, <2>7, <3>1, <3>2
      <4> QED
        BY <4>1
    <3>3. CASE i # 1
      <4>1. k[i - 1] = g[i - 1]
        BY <2>8, <3>3
      <4>2. g[i] = g[i - 1] \o ls[i]
        BY <2>7, <3>3
      <4>3. f[i] = f[i - 1] \o ls[i]
        BY <1>0
      <4> QED
        BY <3>1, <4>1, <4>2, <4>3
    <3> QED
      BY <3>2, <3>3
  <2>11. \A i \in 0 .. n : k[i] = f[i]
    <3>1. SameSteps(k, f, n)
      BY <2>9, <2>10 DEF SameSteps
    <3> QED
      BY <3>1, FoldsAgree
  <2>12. k[n] = g[n] /\ k[n] = f[n]
    BY <1>3, <2>8, <2>11
  <2> QED
    BY <1>1, <2>6, <2>12
<1> QED
  BY <1>2, <1>3

Folded(f, S, step, base, s) == f \in [0 .. Len(s) -> S] /\ Steps(f, step, base, s)

GoesOn(f, g, S, step, base, s, t) ==
  /\ Folded(f, S, step, base, s) /\ Folded(g, S, step, base, Append(s, t))
  /\ g[Len(s) + 1] = step[<<f[Len(s)], t>>]

\* A fold over a sequence, and the one over the sequence and an element more.
LEMMA FoldMore ==
  ASSUME NEW S, NEW T, NEW base \in S, NEW step, Maps(step, S \X T, S), NEW s \in Seq(T),
         NEW t \in T
  PROVE  \E f, g : GoesOn(f, g, S, step, base, s, t)
<1>0. step \in [S \X T -> S]
  BY DEF Maps
<1>1. PICK r, m : r = Append(s, t) /\ m = Len(s)
  OBVIOUS
<1>2. /\ r \in Seq(T) /\ m \in Nat /\ Len(s) = m /\ Len(r) = m + 1
      /\ \A n \in 1 .. m : r[n] = s[n]
      /\ r[m + 1] = t
  BY <1>1, AppendProperties
<1>3. PICK g \in [0 .. Len(r) -> S] : Steps(g, step, base, r)
  BY <1>0, <1>2, FoldExists
<1>4. PICK f \in [0 .. Len(s) -> S] : Steps(f, step, base, s)
  BY <1>0, FoldExists
<1>5. g[m + 1] = step[<<f[m], t>>]
  <2>1. g[m] = f[m]
    BY <1>2, <1>3, <1>4, FoldGoesOn
  <2>2. m + 1 \in 1 .. Len(r) /\ (m + 1) - 1 = m
    BY <1>2
  <2>3. g[m + 1] = step[<<g[m], r[m + 1]>>]
    BY <1>3, <2>2 DEF Steps
  <2> QED
    BY <1>2, <2>1, <2>3
<1>6. Folded(f, S, step, base, s)
  BY <1>4 DEF Folded
<1>7. Folded(g, S, step, base, Append(s, t))
  BY <1>1, <1>3 DEF Folded
<1>8. g[Len(s) + 1] = step[<<f[Len(s)], t>>]
  BY <1>1, <1>5
<1>9. GoesOn(f, g, S, step, base, s, t)
  BY <1>6, <1>7, <1>8 DEF GoesOn
<1> QED
  BY <1>9

\* None, and one row more.
LEMMA FlattenMore ==
  ASSUME NEW ls \in Seq(Bytes), NEW l \in Bytes
  PROVE  /\ FlattenSeq(<<>>) = <<>> /\ FlattenSeq(ls) \in Bytes
         /\ FlattenSeq(Append(ls, l)) = FlattenSeq(ls) \o l
<1>1. PICK step : step = [x \in Bytes \X Bytes |-> x[1] \o x[2]]
  OBVIOUS
<1>2. step \in [Bytes \X Bytes -> Bytes]
  BY <1>1, ConcatProperties DEF Bytes
<1>3. \A a, b \in Bytes : step[<<a, b>>] = a \o b
  BY <1>1
<1>4. PICK none \in Bytes : none = <<>>
  BY EmptySeq DEF Bytes
<1>5. ASSUME NEW s \in Seq(Bytes), NEW f \in [0 .. Len(s) -> Bytes], Steps(f, step, none, s)
      PROVE  FlattenSeq(s) = f[Len(s)]
  <2>1. Len(s) \in Nat /\ \A i \in 1 .. Len(s) : s[i] \in Bytes
    BY LenProperties, ElementOfSeq
  <2>2. f[0] = <<>>
    BY <1>4, <1>5 DEF Steps
  <2>3. ASSUME NEW i \in 1 .. Len(s)
        PROVE  f[i] = f[i - 1] \o s[i]
    <3>1. i - 1 \in 0 .. Len(s)
      BY <2>1
    <3>2. f[i - 1] \in Bytes /\ s[i] \in Bytes
      BY <2>1, <3>1
    <3>3. f[i] = step[<<f[i - 1], s[i]>>]
      BY <1>5 DEF Steps
    <3> QED
      BY <1>3, <3>2, <3>3
  <2> QED
    BY <2>2, <2>3, FlattenIs DEF Gathers
<1>6. FlattenSeq(<<>>) = <<>>
  BY DEF FlattenSeq
<1>7. PICK f, g : GoesOn(f, g, Bytes, step, none, ls, l)
  <2>1. Maps(step, Bytes \X Bytes, Bytes)
    BY <1>2 DEF Maps
  <2> QED
    BY <2>1, FoldMore
<1>8. FlattenSeq(ls) = f[Len(ls)] /\ f[Len(ls)] \in Bytes
  <2>1. f \in [0 .. Len(ls) -> Bytes] /\ Steps(f, step, none, ls) /\ Len(ls) \in Nat
    BY <1>7, LenProperties DEF GoesOn, Folded
  <2> QED
    BY <1>5, <2>1
<1>9. FlattenSeq(Append(ls, l)) = g[Len(ls) + 1]
  <2>1. PICK r \in Seq(Bytes) : r = Append(ls, l) /\ Len(r) = Len(ls) + 1
    BY AppendProperties
  <2>2. g \in [0 .. Len(r) -> Bytes] /\ Steps(g, step, none, r)
    BY <1>7, <2>1 DEF GoesOn, Folded
  <2>3. FlattenSeq(r) = g[Len(r)]
    BY <1>5, <2>2
  <2> QED
    BY <2>1, <2>3
<1> QED
  BY <1>3, <1>6, <1>7, <1>8, <1>9 DEF GoesOn











-----------------------------------------------------------------------------
(* feed(), chunk by chunk.                                                 *)

\* No CR gets into the buffer.
LEMMA BufferType ==
  ASSUME NEW s \in Seq(Tokens \ {CR})
  PROVE  Split(s).buf \in Seq(Tokens \ {CR})
<1> DEFINE E == {t \in Seq(Tokens \ {CR}) : t \in Bytes /\ Split(t).buf \in Seq(Tokens \ {CR})}
<1>1. <<>> \in E
  <2>1. <<>> \in Bytes /\ <<>> \in Seq(Tokens \ {CR})
    BY EmptySeq DEF Bytes
  <2>2. Split(<<>>).buf = <<>>
    BY SplitUnfold DEF Empty
  <2> QED
    BY <2>1, <2>2
<1>2. ASSUME NEW t \in E, NEW x \in Tokens \ {CR}
      PROVE  Append(t, x) \in E
  <2>1. Append(t, x) \in Seq(Tokens \ {CR}) /\ t \in Bytes /\ Append(t, x) \in Bytes
    BY <1>2, AppendProperties DEF Bytes
  <2>2. PICK p \in SplitStates : p = Split(t)
    BY <2>1, SplitUnfold
  <2>3. Split(Append(t, x)) = Taken(p, x)
    BY <2>1, <2>2, SplitUnfold
  <2>4. p.buf \in Seq(Tokens \ {CR})
    BY <1>2, <2>2
  <2>5. CASE Completes(p.buf, x)
    <3>1. Taken(p, x).buf = <<>> /\ <<>> \in Seq(Tokens \ {CR})
      BY <2>5, TakenIs, EmptySeq
    <3> QED
      BY <2>1, <2>3, <3>1
  <2>6. CASE ~Completes(p.buf, x)
    <3>1. Taken(p, x).buf = Append(p.buf, x)
      BY <2>6, TakenIs
    <3>2. Append(p.buf, x) \in Seq(Tokens \ {CR})
      BY <2>4, AppendProperties
    <3> QED
      BY <2>1, <2>3, <3>1, <3>2
  <2> QED
    BY <2>5, <2>6
<1>3. E \in SUBSET Seq(Tokens \ {CR})
  OBVIOUS
<1> HIDE DEF E
<1>4. E = Seq(Tokens \ {CR})
  BY <1>1, <1>2, <1>3, SeqBuilt
<1> QED
  BY <1>4 DEF E

\* However a stream that ends its lines with one of CR and LF is cut, feed()
\* takes it up as a whole.
LEMMA FeedIs ==
  ASSUME NEW K \in Alphabets, NEW c \in Seq(K), NEW chunk \in Seq(K),
         NEW buf, buf = Split(Lf(c)).buf
  PROVE  /\ Feed(buf, chunk) \in SplitStates
         /\ Feed(buf, chunk).buf = Split(Lf(c \o chunk)).buf
         /\ Split(Lf(c \o chunk)).events = Split(Lf(c)).events \o Feed(buf, chunk).events
         /\ \A i \in 1 .. Len(Feed(buf, chunk).events) : IsEvent(Feed(buf, chunk).events[i])
<1>1. c \in Bytes /\ chunk \in Bytes
  BY AlphabetIs
<1>2. PICK a \in Seq(Tokens \ {CR}), b \in Seq(Tokens \ {CR}) : a = Lf(c) /\ b = Lf(chunk)
  BY <1>1, LfType
<1>3. a \in Bytes /\ b \in Bytes
  BY SeqMonotonic DEF Bytes
<1>4. buf \in Seq(Tokens \ {CR})
  BY <1>2, BufferType
<1>5. Feed(buf, chunk) = Split(buf \o b)
  <2>1. Normal(chunk) = b
    BY <1>2, NormalOne
  <2>2. buf # <<>> => Last(buf) # CR
    <3>1. PICK S, d : S = Tokens \ {CR} /\ d = buf
      OBVIOUS
    <3>2. d \in Seq(S)
      BY <1>4, <3>1
    <3>3. d # <<>> => Last(d) \in S
      BY <3>2, FrontIs
    <3> QED
      BY <3>1, <3>3
  <2>3. TakenUp(buf, chunk) = buf \o b
    BY <2>1, <2>2 DEF TakenUp
  <2> QED
    BY <2>3 DEF Feed
<1>6. Lf(c \o chunk) = a \o b
  BY <1>1, <1>2, LfConcat
<1>7. /\ Split(a \o b).buf = Split(Split(a).buf \o b).buf
      /\ Split(a \o b).events = Split(a).events \o Split(Split(a).buf \o b).events
  BY <1>3, SplitConcat
<1>8. PICK t \in Seq(Tokens \ {CR}) : t = buf \o b
  BY <1>4, ConcatProperties
<1>9. t \in Bytes /\ Follows(t)
  BY AlwaysFollows
<1>10. Split(t) \in SplitStates
  BY <1>9, SplitUnfold
<1>11. \A i \in 1 .. Len(Split(t).events) : IsEvent(Split(t).events[i])
  BY <1>9 DEF Follows
<1>12. Feed(buf, chunk) = Split(t) /\ Split(Split(a).buf \o b) = Split(t)
  BY <1>2, <1>5, <1>8
<1>13. Split(Lf(c)) = Split(a) /\ Split(Lf(c \o chunk)) = Split(a \o b)
  BY <1>2, <1>6
<1> QED
  BY <1>7, <1>10, <1>11, <1>12, <1>13

\* What a reader has found in such a stream, and what the parser has.
LEMMA ReadIs ==
  ASSUME NEW K \in Alphabets, NEW c \in Seq(K)
  PROVE  /\ Split(Lf(c)) \in SplitStates /\ Split(Lf(c)).events \in Seq(Bytes)
         /\ Read(c) = Heard(Split(Lf(c)).events)
         /\ \A i \in 1 .. Len(Split(Lf(c)).events) : IsEvent(Split(Lf(c)).events[i])
         /\ Split(Lf(c)).buf = <<>> =>
              ReadOn(Reading, c).line = <<>> /\ ReadOn(Reading, c).event = Reading.event
<1>1. c \in Bytes
  BY AlphabetIs
<1>2. PICK a \in Seq(Tokens \ {CR}) : a = Lf(c)
  BY <1>1, LfType
<1>3. a \in Bytes /\ Follows(a)
  BY AlwaysFollows
<1>4. Split(a) \in SplitStates /\ Split(a).events \in Seq(Bytes)
  BY <1>3, SplitType
<1>5. /\ ReadOn(Reading, c).line = ReadOn(Reading, a).line
      /\ ReadOn(Reading, c).event = ReadOn(Reading, a).event
      /\ ReadOn(Reading, c).events = ReadOn(Reading, a).events
  BY <1>2, ReadOne
<1>6. ReadOn(Reading, a).events = Heard(Split(a).events)
  BY <1>3 DEF Follows
<1>7. \A i \in 1 .. Len(Split(a).events) : IsEvent(Split(a).events[i])
  BY <1>3 DEF Follows
<1>8. /\ ReadOn(Reading, a).line = ReadOn(Reading, Split(a).buf).line
      /\ ReadOn(Reading, a).event = ReadOn(Reading, Split(a).buf).event
  BY <1>3 DEF Follows
<1>9. ReadOn(Reading, <<>>) = Reading
  BY ReadOnUnfold, ReadingType
<1>10. Read(c) = Heard(Split(a).events)
  BY <1>5, <1>6 DEF Read
<1>11. Split(a).buf = <<>> =>
         ReadOn(Reading, c).line = <<>> /\ ReadOn(Reading, c).event = Reading.event
  BY <1>5, <1>8, <1>9, ReadingType
<1> QED
  BY <1>2, <1>4, <1>7, <1>10, <1>11



-----------------------------------------------------------------------------
(* What is written is read.                                                *)

\* The bytes the gateway itself writes, and that they differ.
LEMMA TokensAre ==
  /\ LF \in Tokens /\ CR \in Tokens /\ LF # CR
  /\ "data" \in Tokens \ {CR, LF} /\ Thoughts \in Tokens \ {CR, LF} /\ Shifted \in Tokens \ {CR, LF}
  /\ Failure \in Tokens \ {CR, LF} /\ Done \in Tokens \ {CR, LF}
BY DEF Tokens, LF, CR, Thoughts, Shifted, Failure, Done

\* A reader who is between two events.
AtRest(r) == r \in Readers /\ r.line = <<>> /\ r.event = Reading.event

\* An event of one data line.
LEMMA EventIs ==
  ASSUME NEW p \in Tokens
  PROVE  Event(p) \in Events /\ ~Event(p).named /\ Event(p).data = << <<p>> >>
<1>1. <<p>> \in Bytes
  BY DEF Bytes
<1>2. << <<p>> >> \in Seq(Bytes)
  BY <1>1
<1> QED
  BY <1>2 DEF Event, Events

\* One data line and a blank line are read as one event.
LEMMA ReadDataEvent ==
  ASSUME NEW r, AtRest(r), NEW p \in Tokens \ {CR, LF}
  PROVE  /\ <<"data", p, LF, LF>> \in Bytes
         /\ ReadOn(r, <<"data", p, LF, LF>>) = After(Append(r.events, Event(p)), Reading)
<1>1. r \in Readers /\ r.line = <<>> /\ r.event = Reading.event /\ r.events \in Seq(Events)
  BY DEF AtRest, Readers
<1>2. PICK d : d = "data"
  OBVIOUS
<1>3. d \in Tokens \ {CR, LF} /\ LF \in Tokens
  BY <1>2, TokensAre
<1>4. /\ <<>> \in Bytes /\ <<d>> = Append(<<>>, d) /\ <<d, p>> = Append(<<d>>, p)
      /\ <<d, p, LF>> = Append(<<d, p>>, LF) /\ <<d, p, LF, LF>> = Append(<<d, p, LF>>, LF)
  BY EmptySeq DEF Bytes
<1>5. PICK s1, s2, s3, s4 : s1 = <<d>> /\ s2 = <<d, p>> /\ s3 = <<d, p, LF>> /\ s4 = <<d, p, LF, LF>>
  OBVIOUS
<1>6. s1 \in Bytes /\ s2 \in Bytes /\ s3 \in Bytes /\ s4 \in Bytes
  BY <1>3, <1>5 DEF Bytes
<1>7. PICK r1, r2, r3, r4 : /\ r1 = ReadToken(r, d) /\ r2 = ReadToken(r1, p)
                            /\ r3 = ReadToken(r2, LF) /\ r4 = ReadToken(r3, LF)
  OBVIOUS
<1>8. r1 \in Readers /\ r2 \in Readers /\ r3 \in Readers /\ r4 \in Readers
  BY <1>1, <1>3, <1>7, ReadTokenType
<1>9. ReadOn(r, s4) = r4
  <2>1. ReadOn(r, <<>>) = r
    BY <1>1, ReadOnUnfold
  <2>2. ReadOn(r, Append(<<>>, d)) = ReadToken(ReadOn(r, <<>>), d)
    BY <1>1, <1>3, <1>4, ReadOnUnfold
  <2>3. ReadOn(r, Append(s1, p)) = ReadToken(ReadOn(r, s1), p)
    BY <1>1, <1>6, ReadOnUnfold
  <2>4. ReadOn(r, Append(s2, LF)) = ReadToken(ReadOn(r, s2), LF)
    BY <1>1, <1>3, <1>6, ReadOnUnfold
  <2>5. ReadOn(r, Append(s3, LF)) = ReadToken(ReadOn(r, s3), LF)
    BY <1>1, <1>3, <1>6, ReadOnUnfold
  <2>6. s1 = Append(<<>>, d) /\ s2 = Append(s1, p) /\ s3 = Append(s2, LF) /\ s4 = Append(s3, LF)
    BY <1>4, <1>5
  <2> QED
    BY <1>7, <2>1, <2>2, <2>3, <2>4, <2>5, <2>6
<1>10. /\ ~r1.cr /\ r1.line = <<d>> /\ r1.event = Reading.event /\ r1.events = r.events
  <2>1. /\ ~r1.cr /\ r1.line = Append(r.line, d) /\ r1.event = r.event /\ r1.events = r.events
    BY <1>1, <1>3, <1>7, ReadTokenIs
  <2> QED
    BY <1>1, <1>4, <2>1
<1>11. /\ ~r2.cr /\ r2.line = <<d, p>> /\ r2.event = Reading.event /\ r2.events = r.events
  <2>1. /\ ~r2.cr /\ r2.line = Append(r1.line, p) /\ r2.event = r1.event /\ r2.events = r1.events
    BY <1>7, <1>8, ReadTokenIs
  <2> QED
    BY <1>4, <1>10, <2>1
<1>12. /\ ~r3.cr /\ r3.line = <<>> /\ r3.event = Event(p) /\ r3.events = r.events
  <2>1. /\ ~r3.cr /\ r3.line = <<>> /\ r3.event = EndLine(r2).event /\ r3.events = EndLine(r2).events
    BY <1>3, <1>7, <1>8, <1>11, TokensAre, ReadTokenIs
  <2>2. r2.line # <<>> /\ Head(r2.line) = "data" /\ Tail(r2.line) = <<p>>
    BY <1>2, <1>11
  <2>3. /\ EndLine(r2).events = r2.events
        /\ EndLine(r2).event.data = Append(r2.event.data, Tail(r2.line))
        /\ (EndLine(r2).event.named <=> r2.event.named \/ Head(r2.line) = "event")
    BY <1>8, <2>2, EndLineIs
  <2>4. EndLine(r2).event.data = << <<p>> >> /\ ~EndLine(r2).event.named
    BY <1>11, <2>2, <2>3, ReadingType
  <2>5. EndLine(r2).event \in Events
    BY <1>8, EndLineType DEF Readers
  <2>6. EndLine(r2).event = Event(p)
    BY <2>4, <2>5, EventIs, SameEvents
  <2> QED
    BY <1>11, <2>1, <2>3, <2>6
<1>13. /\ ~r4.cr /\ r4.line = <<>> /\ r4.event = Reading.event
       /\ r4.events = Append(r.events, Event(p))
  <2>1. /\ ~r4.cr /\ r4.line = <<>> /\ r4.event = EndLine(r3).event /\ r4.events = EndLine(r3).events
    BY <1>3, <1>7, <1>8, <1>12, TokensAre, ReadTokenIs
  <2>2. /\ EndLine(r3).event = Reading.event
        /\ EndLine(r3).events = IF r3.event.data = <<>> THEN r3.events ELSE Append(r3.events, r3.event)
    BY <1>8, <1>12, EndLineIs
  <2>3. r3.event.data # <<>>
    <3>1. Event(p).data = << <<p>> >>
      BY EventIs
    <3> QED
      BY <1>12, <3>1
  <2> QED
    BY <1>12, <2>1, <2>2, <2>3
<1>14. PICK es \in Seq(Events) : es = Append(r.events, Event(p))
  BY <1>1, EventIs, AppendProperties
<1>15. /\ After(es, Reading) \in Readers /\ ~After(es, Reading).cr /\ After(es, Reading).line = <<>>
       /\ After(es, Reading).event = Reading.event /\ After(es, Reading).events = es \o <<>>
  BY AfterIs, ReadingType
<1>16. es \o <<>> = es
  BY ConcatEmptySeq
<1>17. r4 = After(es, Reading)
  BY <1>8, <1>13, <1>14, <1>15, <1>16, SameReaders
<1> QED
  BY <1>2, <1>5, <1>6, <1>9, <1>14, <1>17

\* render_event() gives the event back with a blank line after it.
LEMMA RenderedIs ==
  ASSUME NEW raw, IsEvent(raw)
  PROVE  /\ Append(raw, LF) \in Bytes /\ Rendered(raw) \in Bytes
         /\ Rendered(raw) = Append(Append(raw, LF), LF)
<1>1. raw \in Bytes /\ raw # <<>> /\ Last(raw) # LF
  BY DEF IsEvent
<1>2. PICK n \in Nat : n = Len(raw)
  BY <1>1, LenProperties DEF Bytes
<1>3. n # 0
  BY <1>1, <1>2, EmptySeq DEF Bytes
<1>4. DOMAIN raw = 1 .. n
  BY <1>1, <1>2, LenProperties DEF Bytes
<1>5. raw[n] # LF
  BY <1>1, <1>2 DEF Last
<1>6. PICK I : I = {i \in DOMAIN raw : raw[i] # LF}
  OBVIOUS
<1>7. n \in I /\ \A i \in I : i \in Nat /\ n >= i
  BY <1>3, <1>4, <1>5, <1>6
<1>8. Max(I) = n
  <2>1. Max(I) \in I /\ \A i \in I : Max(I) >= i
    BY <1>7 DEF Max
  <2>2. PICK m : m = Max(I)
    OBVIOUS
  <2>3. m \in Nat /\ m >= n /\ n >= m
    BY <1>7, <2>1, <2>2
  <2>4. m = n
    BY <2>3
  <2> QED
    BY <2>2, <2>4
<1>9. SubSeq(raw, 1, n) = raw
  BY <1>1, <1>2, SubSeqFull DEF Bytes
<1>10. Rendered(raw) = raw \o <<LF, LF>>
  BY <1>6, <1>8, <1>9 DEF Rendered
<1>11. PICK one, two : one = <<LF>> /\ two = <<LF, LF>>
  OBVIOUS
<1>12. one \in Bytes /\ two \in Bytes /\ two = Append(one, LF)
  BY <1>11, TokensAre DEF Bytes
<1>13. raw \o Append(one, LF) = Append(raw \o one, LF)
  BY <1>1, <1>12, TokensAre, ConcatAppend DEF Bytes
<1>14. Append(raw, LF) = raw \o one
  BY <1>1, <1>11, TokensAre, AppendIsConcat DEF Bytes
<1>15. Append(raw, LF) \in Bytes
  BY <1>1, TokensAre, AppendProperties DEF Bytes
<1>16. Append(Append(raw, LF), LF) \in Bytes
  BY <1>15, TokensAre, AppendProperties DEF Bytes
<1> QED
  BY <1>10, <1>11, <1>12, <1>13, <1>14, <1>15, <1>16

\* And the reader has the event.
LEMMA ReadRendered ==
  ASSUME NEW raw, IsEvent(raw)
  PROVE  ReadOn(Reading, Rendered(raw)) = After(<<EventOf(raw)>>, Reading)
<1>1. PICK s \in Bytes : s = Append(raw, LF) /\ Rendered(raw) = Append(s, LF)
  BY RenderedIs
<1>2. PICK r : r = ReadOn(Reading, s)
  OBVIOUS
<1>3. r \in Readers /\ ReadOn(Reading, Append(s, LF)) = ReadToken(r, LF)
  BY <1>2, ReadOnUnfold, ReadingType, TokensAre
<1>4. /\ ~r.cr /\ r.line = <<>> /\ r.events = <<>> /\ r.event = EventOf(raw) /\ r.event.data # <<>>
      /\ raw \in Bytes
  BY <1>1, <1>2 DEF IsEvent, EventOf
<1>5. PICK e \in Events : e = EventOf(raw)
  BY <1>4, EventOfType
<1>6. PICK q : q = ReadToken(r, LF)
  OBVIOUS
<1>7. q \in Readers /\ ~q.cr /\ q.line = <<>> /\ q.event = EndLine(r).event /\ q.events = EndLine(r).events
  BY <1>3, <1>4, <1>6, TokensAre, ReadTokenType, ReadTokenIs
<1>8. /\ EndLine(r).event = Reading.event
      /\ EndLine(r).events = IF r.event.data = <<>> THEN r.events ELSE Append(r.events, r.event)
  BY <1>3, <1>4, EndLineIs
<1>9. q.event = Reading.event /\ q.events = <<e>>
  BY <1>4, <1>5, <1>7, <1>8
<1>10. PICK es : es = <<e>>
  OBVIOUS
<1>11. es \in Seq(Events) /\ es \o <<>> = es
  BY <1>10, ConcatEmptySeq
<1>12. /\ After(es, Reading) \in Readers /\ ~After(es, Reading).cr /\ After(es, Reading).line = <<>>
       /\ After(es, Reading).event = Reading.event /\ After(es, Reading).events = es \o <<>>
  BY <1>11, AfterIs, ReadingType
<1>13. q = After(es, Reading)
  BY <1>7, <1>9, <1>10, <1>11, <1>12, SameReaders
<1> QED
  BY <1>1, <1>3, <1>5, <1>6, <1>10, <1>13

\* The event with its reasoning under every name.
Renamed(e) == IF e.data = Event(Thought).data THEN Event(Thoughts) ELSE e

\* An event with its reasoning renamed is an event.
LEMMA RenamedType ==
  ASSUME NEW e \in Events
  PROVE  Renamed(e) \in Events
BY TokensAre, EventIs DEF Renamed

\* What transform_stream_chunk() writes is read as that.
LEMMA ReadRewritten ==
  ASSUME NEW raw, IsEvent(raw)
  PROVE  /\ Rewritten(raw) \in Bytes
         /\ ReadOn(Reading, Rewritten(raw)) = After(<<Renamed(EventOf(raw))>>, Reading)
<1>1. EventOf(raw).data = Payload(raw)
  BY DEF IsEvent, EventOf
<1>2. Event(Thought).data = << <<Thought>> >>
  BY DEF Event
<1>3. CASE Payload(raw) = << <<Thought>> >>
  <2>1. Rewritten(raw) = <<"data", Thoughts, LF, LF>> /\ Renamed(EventOf(raw)) = Event(Thoughts)
    BY <1>1, <1>2, <1>3 DEF Rewritten, Renamed
  <2>2. AtRest(Reading) /\ Reading.events = <<>>
    BY ReadingType DEF AtRest
  <2>3. /\ <<"data", Thoughts, LF, LF>> \in Bytes
        /\ ReadOn(Reading, <<"data", Thoughts, LF, LF>>)
             = After(Append(Reading.events, Event(Thoughts)), Reading)
    BY <2>2, TokensAre, ReadDataEvent
  <2>4. Append(<<>>, Event(Thoughts)) = <<Event(Thoughts)>>
    OBVIOUS
  <2> QED
    BY <2>1, <2>2, <2>3, <2>4
<1>4. CASE Payload(raw) # << <<Thought>> >>
  <2>1. Rewritten(raw) = Rendered(raw) /\ Renamed(EventOf(raw)) = EventOf(raw)
    BY <1>1, <1>2, <1>4 DEF Rewritten, Renamed
  <2> QED
    BY <2>1, RenderedIs, ReadRendered
<1> QED
  BY <1>3, <1>4



-----------------------------------------------------------------------------
(* Usage shifted is usage read shifted.                                    *)

AsCached(t) == IF t = Used THEN Shifted ELSE t

\* Nothing a reader tells apart is shifted into anything else.
LEMMA AsCachedIs ==
  ASSUME NEW t \in Tokens
  PROVE  /\ AsCached(t) \in Tokens
         /\ (AsCached(t) = LF <=> t = LF) /\ (AsCached(t) = CR <=> t = CR)
         /\ (AsCached(t) = "data" <=> t = "data") /\ (AsCached(t) = "event" <=> t = "event")
         /\ (AsCached(t) = Done <=> t = Done) /\ (t = Thoughts => AsCached(t) = t)
BY TokensAre DEF AsCached, LF, CR, Used, Shifted, Done, Thoughts

Caching == [t \in Tokens |-> AsCached(t)]

\* A line is shifted byte by byte.
LEMMA CachingIs ==
  ASSUME NEW s \in Bytes
  PROVE  Maps(Caching, Tokens, Tokens) /\ Cached(s) = Mapped(Caching, s)
<1>1. Maps(Caching, Tokens, Tokens)
  BY AsCachedIs DEF Maps, Caching
<1>2. PICK n \in Nat : n = Len(s) /\ DOMAIN s = 1 .. n
  BY LenProperties DEF Bytes
<1>3. \A i \in 1 .. n : Caching[s[i]] = AsCached(s[i])
  BY <1>2, ElementOfSeq DEF Bytes, Caching
<1>4. Cached(s) = [i \in 1 .. n |-> AsCached(s[i])]
  BY <1>2 DEF Cached, AsCached
<1>5. Mapped(Caching, s) = [i \in 1 .. n |-> Caching[s[i]]]
  BY <1>2 DEF Mapped
<1> QED
  BY <1>1, <1>3, <1>4, <1>5

\* It keeps its length.
LEMMA CachedIs ==
  ASSUME NEW s \in Bytes
  PROVE  /\ Cached(s) \in Bytes /\ Len(Cached(s)) = Len(s) /\ (Cached(s) = <<>> <=> s = <<>>)
         /\ \A i \in 1 .. Len(s) : Cached(s)[i] = AsCached(s[i])
<1>1. Maps(Caching, Tokens, Tokens) /\ Cached(s) = Mapped(Caching, s) /\ s \in Seq(Tokens)
  BY CachingIs DEF Bytes
<1>2. /\ Mapped(Caching, s) \in Seq(Tokens) /\ Len(Mapped(Caching, s)) = Len(s)
      /\ \A i \in 1 .. Len(s) : Mapped(Caching, s)[i] = Caching[s[i]]
  BY <1>1, MappedIs
<1>3. \A i \in 1 .. Len(s) : Caching[s[i]] = AsCached(s[i])
  BY <1>1, ElementOfSeq DEF Caching
<1>4. Cached(s) = <<>> <=> s = <<>>
  <2>1. \A r \in Seq(Tokens) : r = <<>> <=> Len(r) = 0
    BY EmptySeq
  <2>2. Cached(s) \in Seq(Tokens) /\ Len(Cached(s)) = Len(s)
    BY <1>1, <1>2
  <2> QED
    BY <1>1, <2>1, <2>2
<1> QED
  BY <1>1, <1>2, <1>3, <1>4 DEF Bytes

\* With one byte more.
LEMMA CachedMore ==
  ASSUME NEW s \in Bytes, NEW t \in Tokens
  PROVE  Cached(Append(s, t)) = Append(Cached(s), AsCached(t))
<1>1. Append(s, t) \in Bytes /\ s \in Seq(Tokens)
  BY AppendProperties DEF Bytes
<1>2. Maps(Caching, Tokens, Tokens)
  BY <1>1, CachingIs
<1>3. Cached(s) = Mapped(Caching, s) /\ Cached(Append(s, t)) = Mapped(Caching, Append(s, t))
  BY <1>1, CachingIs
<1>4. Mapped(Caching, Append(s, t)) = Append(Mapped(Caching, s), Caching[t])
  <2>1. s \in Seq(Tokens)
    BY <1>1
  <2> QED
    BY <1>2, <2>1, MappedMore
<1>5. Caching[t] = AsCached(t)
  BY DEF Caching
<1> QED
  BY <1>3, <1>4, <1>5

\* Without its first byte.
LEMMA CachedTail ==
  ASSUME NEW s \in Bytes, s # <<>>
  PROVE  /\ Head(Cached(s)) = AsCached(Head(s)) /\ Head(s) \in Tokens
         /\ Tail(s) \in Bytes /\ Tail(Cached(s)) = Cached(Tail(s))
<1>1. PICK c \in Bytes, n \in Nat : c = Cached(s) /\ n = Len(s)
  BY LenProperties, CachedIs DEF Bytes
<1>2. /\ Len(Cached(s)) = Len(s) /\ (Cached(s) = <<>> <=> s = <<>>)
      /\ \A i \in 1 .. Len(s) : Cached(s)[i] = AsCached(s[i])
  BY CachedIs
<1>3. c # <<>> /\ Len(c) = n /\ \A i \in 1 .. n : c[i] = AsCached(s[i])
  BY <1>1, <1>2
<1>4. /\ Head(s) = s[1] /\ Head(s) \in Tokens /\ Tail(s) \in Seq(Tokens) /\ Len(Tail(s)) = n - 1
      /\ \A i \in 1 .. (n - 1) : Tail(s)[i] = s[i + 1]
  BY <1>1, HeadTailProperties DEF Bytes
<1>5. /\ Head(c) = c[1] /\ Tail(c) \in Seq(Tokens) /\ Len(Tail(c)) = n - 1
      /\ \A i \in 1 .. (n - 1) : Tail(c)[i] = c[i + 1]
  BY <1>3, HeadTailProperties DEF Bytes
<1>6. n # 0
  BY <1>1, EmptySeq DEF Bytes
<1>7. PICK t \in Bytes : t = Tail(s)
  BY <1>4 DEF Bytes
<1>8. /\ Cached(t) \in Seq(Tokens) /\ Len(Cached(t)) = Len(t)
      /\ \A i \in 1 .. Len(t) : Cached(t)[i] = AsCached(t[i])
  BY CachedIs DEF Bytes
<1>9. ASSUME NEW i \in 1 .. (n - 1)
      PROVE  Cached(t)[i] = Tail(c)[i]
  <2>1. i + 1 \in 1 .. n
    OBVIOUS
  <2>2. c[i + 1] = AsCached(s[i + 1])
    BY <1>3, <2>1
  <2>3. t[i] = s[i + 1] /\ Tail(c)[i] = c[i + 1]
    BY <1>4, <1>5, <1>7
  <2>4. Cached(t)[i] = AsCached(t[i])
    BY <1>4, <1>7, <1>8
  <2> QED
    BY <2>2, <2>3, <2>4
<1>10. Len(Cached(t)) = n - 1
  BY <1>4, <1>7, <1>8
<1>11. Cached(t) = Tail(c)
  BY <1>5, <1>8, <1>9, <1>10, SeqEqual
<1>12. 1 \in 1 .. n
  BY <1>6
<1>13. Head(c) = AsCached(Head(s))
  BY <1>3, <1>4, <1>5, <1>12
<1> QED
  BY <1>1, <1>4, <1>7, <1>11, <1>13







\* Line by line.
CachedLines == [l \in Bytes |-> Cached(l)]

CachedEvent(e) == [e EXCEPT !.data = [i \in DOMAIN e.data |-> Cached(e.data[i])]]

\* The payloads of an event are shifted each.
LEMMA CachedEventIs ==
  ASSUME NEW e \in Events
  PROVE  /\ Maps(CachedLines, Bytes, Bytes)
         /\ CachedEvent(e) \in Events /\ (CachedEvent(e).named <=> e.named)
         /\ CachedEvent(e).data = Mapped(CachedLines, e.data)
         /\ (CachedEvent(e).data = <<>> <=> e.data = <<>>)
<1>1. Maps(CachedLines, Bytes, Bytes)
  BY CachedIs DEF Maps, CachedLines
<1>2. PICK d \in Seq(Bytes) : d = e.data
  BY DEF Events
<1>3. PICK n \in Nat : n = Len(d) /\ DOMAIN d = 1 .. n
  BY LenProperties
<1>4. \A i \in 1 .. n : CachedLines[d[i]] = Cached(d[i])
  BY <1>3, ElementOfSeq DEF CachedLines
<1>5. [i \in DOMAIN d |-> Cached(d[i])] = Mapped(CachedLines, d)
  BY <1>3, <1>4 DEF Mapped
<1>6. Mapped(CachedLines, d) \in Seq(Bytes) /\ Len(Mapped(CachedLines, d)) = Len(d)
  BY <1>1, MappedIs
<1>7. Mapped(CachedLines, d) = <<>> <=> d = <<>>
  <2>1. \A s \in Seq(Bytes) : s = <<>> <=> Len(s) = 0
    BY EmptySeq
  <2> QED
    BY <1>6, <2>1
<1>8. CachedEvent(e) = [e EXCEPT !.data = Mapped(CachedLines, d)]
  BY <1>2, <1>5 DEF CachedEvent
<1> QED
  BY <1>1, <1>2, <1>6, <1>7, <1>8 DEF Events

Caches == [e \in Events |-> CachedEvent(e)]

CachedReader(r) == [cr |-> r.cr, line |-> Cached(r.line), event |-> CachedEvent(r.event),
                    events |-> Mapped(Caches, r.events)]

\* What a reader has of shifted bytes is what a reader has, shifted.
LEMMA CachedReaderIs ==
  ASSUME NEW r \in Readers
  PROVE  /\ Maps(Caches, Events, Events)
         /\ CachedReader(r) \in Readers /\ (CachedReader(r).cr <=> r.cr)
         /\ CachedReader(r).line = Cached(r.line)
         /\ CachedReader(r).event = CachedEvent(r.event)
         /\ CachedReader(r).events = Mapped(Caches, r.events)
<1>1. Maps(Caches, Events, Events)
  BY CachedEventIs DEF Maps, Caches
<1>2. r.line \in Bytes /\ r.event \in Events /\ r.events \in Seq(Events) /\ r.cr \in BOOLEAN
  BY DEF Readers
<1>3. Cached(r.line) \in Bytes
  BY <1>2, CachedIs
<1>4. CachedEvent(r.event) \in Events
  BY <1>2, CachedEventIs
<1>5. Mapped(Caches, r.events) \in Seq(Events)
  BY <1>1, <1>2, MappedIs
<1> QED
  BY <1>1, <1>2, <1>3, <1>4, <1>5 DEF CachedReader, Readers

\* No event is one no event is cached of.
LEMMA CachedNothing ==
  /\ CachedEvent(Reading.event) = Reading.event
  /\ CachedReader(Reading) = Reading
<1>1. PICK e \in Events : e = Reading.event /\ ~e.named /\ e.data = <<>>
  BY ReadingType
<1>2. CachedEvent(e) \in Events /\ ~CachedEvent(e).named /\ CachedEvent(e).data = <<>>
  BY <1>1, CachedEventIs
<1>3. CachedEvent(e) = e
  BY <1>1, <1>2, SameEvents
<1>4. PICK c : c = CachedReader(Reading)
  OBVIOUS
<1>5. /\ c \in Readers /\ ~c.cr /\ c.line = Cached(<<>>) /\ c.event = Reading.event
      /\ c.events = Mapped(Caches, <<>>)
  BY <1>1, <1>3, <1>4, CachedReaderIs, ReadingType
<1>6. Cached(<<>>) = <<>> /\ Mapped(Caches, <<>>) = <<>>
  BY MappedNone DEF Cached
<1>7. c = Reading
  BY <1>5, <1>6, ReadingType, SameReaders
<1> QED
  BY <1>1, <1>3, <1>4, <1>7

\* So it is when a line ends.
LEMMA EndLineCached ==
  ASSUME NEW r \in Readers
  PROVE  /\ EndLine(CachedReader(r)).event = CachedEvent(EndLine(r).event)
         /\ EndLine(CachedReader(r)).events = Mapped(Caches, EndLine(r).events)
<1>1. PICK c, e, f : c = CachedReader(r) /\ e = EndLine(r) /\ f = EndLine(c)
  OBVIOUS
<1>2. /\ c \in Readers /\ c.line = Cached(r.line) /\ c.event = CachedEvent(r.event)
      /\ c.events = Mapped(Caches, r.events) /\ Maps(Caches, Events, Events)
  BY <1>1, CachedReaderIs
<1>3. e \in Readers /\ f \in Readers
  BY <1>1, <1>2, EndLineType
<1>4. PICK l \in Bytes, x \in Events, es \in Seq(Events) :
        l = r.line /\ x = r.event /\ es = r.events
  BY DEF Readers
<1>5. c.line = <<>> <=> l = <<>>
  <2>1. Cached(l) = <<>> <=> l = <<>>
    BY CachedIs
  <2> QED
    BY <1>2, <1>4, <2>1
<1>6. /\ CachedEvent(x) \in Events /\ (CachedEvent(x).named <=> x.named)
      /\ CachedEvent(x).data = Mapped(CachedLines, x.data) /\ Maps(CachedLines, Bytes, Bytes)
      /\ (CachedEvent(x).data = <<>> <=> x.data = <<>>)
  BY CachedEventIs
<1>7. CASE l = <<>>
  <2>1. e.event = Reading.event /\ e.events = IF x.data = <<>> THEN es ELSE Append(es, x)
    BY <1>1, <1>4, <1>7, EndLineIs
  <2>2. /\ f.event = Reading.event
        /\ f.events = IF c.event.data = <<>> THEN c.events ELSE Append(c.events, c.event)
    BY <1>1, <1>2, <1>5, <1>7, EndLineIs
  <2>3. Mapped(Caches, Append(es, x)) = Append(Mapped(Caches, es), CachedEvent(x))
    <3>1. Mapped(Caches, Append(es, x)) = Append(Mapped(Caches, es), Caches[x])
      BY <1>2, MappedMore
    <3> QED
      BY <3>1 DEF Caches
  <2>4. f.events = Mapped(Caches, e.events)
    BY <1>2, <1>4, <1>6, <2>1, <2>2, <2>3
  <2> QED
    BY <1>1, <2>1, <2>2, <2>4, CachedNothing
<1>8. CASE l # <<>>
  <2>1. /\ e.events = es
        /\ e.event.data = IF Head(l) = "data" THEN Append(x.data, Tail(l)) ELSE x.data
        /\ (e.event.named <=> x.named \/ Head(l) = "event")
    BY <1>1, <1>4, <1>8, EndLineIs
  <2>2. /\ f.events = c.events
        /\ f.event.data = IF Head(c.line) = "data" THEN Append(c.event.data, Tail(c.line))
                          ELSE c.event.data
        /\ (f.event.named <=> c.event.named \/ Head(c.line) = "event")
    BY <1>1, <1>2, <1>5, <1>8, EndLineIs
  <2>3. /\ Head(Cached(l)) = AsCached(Head(l)) /\ Head(l) \in Tokens /\ Tail(l) \in Bytes
        /\ Tail(Cached(l)) = Cached(Tail(l))
    BY <1>8, CachedTail
  <2>4. /\ (Head(c.line) = "data" <=> Head(l) = "data")
        /\ (Head(c.line) = "event" <=> Head(l) = "event")
        /\ Tail(c.line) = Cached(Tail(l))
    BY <1>2, <1>4, <2>3, AsCachedIs
  <2>5. PICK y \in Events, z \in Events : y = e.event /\ z = f.event
    BY <1>3 DEF Readers
  <2>6. /\ CachedEvent(y) \in Events /\ (CachedEvent(y).named <=> y.named)
        /\ CachedEvent(y).data = Mapped(CachedLines, y.data)
    BY CachedEventIs
  <2>7. z.data = Mapped(CachedLines, y.data)
    <3>1. CASE Head(l) = "data"
      <4>1. PICK d \in Seq(Bytes), w \in Bytes : d = x.data /\ w = Tail(l)
        BY <2>3 DEF Events
      <4>2. Mapped(CachedLines, Append(d, w)) = Append(Mapped(CachedLines, d), CachedLines[w])
        BY <1>6, MappedMore
      <4>3. CachedLines[w] = Cached(w)
        BY DEF CachedLines
      <4>4. z.data = Append(Mapped(CachedLines, d), Cached(w)) /\ y.data = Append(d, w)
        BY <1>2, <1>4, <1>6, <2>1, <2>2, <2>4, <2>5, <3>1, <4>1
      <4> QED
        BY <4>2, <4>3, <4>4
    <3>2. CASE Head(l) # "data"
      BY <1>2, <1>4, <1>6, <2>1, <2>2, <2>4, <2>5, <3>2
    <3> QED
      BY <3>1, <3>2
  <2>8. z.named <=> y.named
    BY <1>2, <1>4, <1>6, <2>1, <2>2, <2>4, <2>5
  <2>9. z = CachedEvent(y)
    BY <2>6, <2>7, <2>8, SameEvents
  <2>10. f.events = Mapped(Caches, e.events)
    BY <1>2, <1>4, <2>1, <2>2
  <2> QED
    BY <1>1, <2>5, <2>9, <2>10
<1> QED
  BY <1>7, <1>8

\* So it is after one byte more.
LEMMA ReadTokenCached ==
  ASSUME NEW r \in Readers, NEW t \in Tokens
  PROVE  ReadToken(CachedReader(r), AsCached(t)) = CachedReader(ReadToken(r, t))
<1>1. PICK c, e, f, b, u : /\ c = CachedReader(r) /\ e = ReadToken(r, t) /\ u = AsCached(t)
                           /\ f = ReadToken(c, u) /\ b = CachedReader(e)
  OBVIOUS
<1>2. u \in Tokens /\ (u = LF <=> t = LF) /\ (u = CR <=> t = CR)
  BY <1>1, AsCachedIs
<1>3. /\ c \in Readers /\ (c.cr <=> r.cr) /\ c.line = Cached(r.line)
      /\ c.event = CachedEvent(r.event) /\ c.events = Mapped(Caches, r.events)
  BY <1>1, CachedReaderIs
<1>4. e \in Readers /\ f \in Readers
  BY <1>1, <1>2, <1>3, ReadTokenType
<1>5. /\ b \in Readers /\ (b.cr <=> e.cr) /\ b.line = Cached(e.line)
      /\ b.event = CachedEvent(e.event) /\ b.events = Mapped(Caches, e.events)
  BY <1>1, <1>4, CachedReaderIs
<1>6. CASE t = LF /\ r.cr
  <2>1. ~e.cr /\ e.line = r.line /\ e.event = r.event /\ e.events = r.events
    BY <1>1, <1>6, ReadTokenIs
  <2>2. ~f.cr /\ f.line = c.line /\ f.event = c.event /\ f.events = c.events
    BY <1>1, <1>2, <1>3, <1>6, ReadTokenIs
  <2>3. f = b
    BY <1>3, <1>4, <1>5, <2>1, <2>2, SameReaders
  <2> QED
    BY <1>1, <2>3
<1>7. CASE t \in {CR, LF} /\ ~(t = LF /\ r.cr)
  <2>1. (e.cr <=> t = CR) /\ e.line = <<>> /\ e.event = EndLine(r).event /\ e.events = EndLine(r).events
    BY <1>1, <1>7, ReadTokenIs
  <2>2. u \in {CR, LF} /\ ~(u = LF /\ c.cr)
    BY <1>2, <1>3, <1>7
  <2>3. (f.cr <=> u = CR) /\ f.line = <<>> /\ f.event = EndLine(c).event /\ f.events = EndLine(c).events
    BY <1>1, <1>2, <1>3, <2>2, ReadTokenIs
  <2>4. /\ EndLine(c).event = CachedEvent(EndLine(r).event)
        /\ EndLine(c).events = Mapped(Caches, EndLine(r).events)
    BY <1>1, EndLineCached
  <2>5. Cached(<<>>) = <<>>
    BY DEF Cached
  <2>6. f = b
    <3>1. (f.cr <=> b.cr) /\ f.line = b.line
      BY <1>2, <1>5, <2>1, <2>3, <2>5
    <3>2. f.event = b.event /\ f.events = b.events
      BY <1>5, <2>1, <2>3, <2>4
    <3> QED
      BY <1>4, <1>5, <3>1, <3>2, SameReaders
  <2> QED
    BY <1>1, <2>6
<1>8. CASE t \notin {CR, LF}
  <2>1. ~e.cr /\ e.line = Append(r.line, t) /\ e.event = r.event /\ e.events = r.events
    BY <1>1, <1>8, ReadTokenIs
  <2>2. u \notin {CR, LF}
    BY <1>2, <1>8
  <2>3. ~f.cr /\ f.line = Append(c.line, u) /\ f.event = c.event /\ f.events = c.events
    BY <1>1, <1>2, <1>3, <2>2, ReadTokenIs
  <2>4. PICK l \in Bytes : l = r.line
    BY DEF Readers
  <2>5. Cached(Append(l, t)) = Append(Cached(l), AsCached(t))
    BY CachedMore
  <2>6. f.line = b.line
    BY <1>1, <1>3, <1>5, <2>1, <2>3, <2>4, <2>5
  <2>7. f = b
    BY <1>3, <1>4, <1>5, <2>1, <2>3, <2>6, SameReaders
  <2> QED
    BY <1>1, <2>7
<1> QED
  BY <1>6, <1>7, <1>8

\* So it is after all of them.
LEMMA ReadCached ==
  ASSUME NEW s \in Bytes
  PROVE  Cached(s) \in Bytes /\ ReadOn(Reading, Cached(s)) = CachedReader(ReadOn(Reading, s))
<1> DEFINE E == {b \in Bytes : ReadOn(Reading, Cached(b)) = CachedReader(ReadOn(Reading, b))}
<1>1. <<>> \in E
  <2>1. <<>> \in Bytes /\ Cached(<<>>) = <<>>
    BY EmptySeq DEF Bytes, Cached
  <2>2. ReadOn(Reading, <<>>) = Reading
    BY ReadOnUnfold, ReadingType
  <2> QED
    BY <2>1, <2>2, CachedNothing
<1>2. ASSUME NEW b \in E, NEW x \in Tokens
      PROVE  Append(b, x) \in E
  <2>1. b \in Bytes /\ Append(b, x) \in Bytes
    BY <1>2, AppendProperties DEF Bytes
  <2>2. PICK c \in Bytes, u \in Tokens : c = Cached(b) /\ u = AsCached(x)
    BY <2>1, CachedIs, AsCachedIs
  <2>3. ReadOn(Reading, Append(c, u)) = ReadToken(ReadOn(Reading, c), u)
    BY ReadOnUnfold, ReadingType
  <2>4. PICK r \in Readers : r = ReadOn(Reading, b)
    BY <2>1, ReadOnUnfold, ReadingType
  <2>5. ReadOn(Reading, Append(b, x)) = ReadToken(r, x)
    BY <2>1, <2>4, ReadOnUnfold, ReadingType
  <2>6. ReadOn(Reading, c) = CachedReader(r)
    BY <1>2, <2>2, <2>4
  <2>7. Cached(Append(b, x)) = Append(c, u)
    BY <2>1, <2>2, CachedMore
  <2>8. ReadToken(CachedReader(r), AsCached(x)) = CachedReader(ReadToken(r, x))
    BY ReadTokenCached
  <2> QED
    BY <2>1, <2>2, <2>3, <2>5, <2>6, <2>7, <2>8
<1> HIDE DEF E
<1>3. E = Seq(Tokens)
  <2>1. E \in SUBSET Seq(Tokens)
    BY DEF E, Bytes
  <2> QED
    BY <1>1, <1>2, <2>1, SeqBuilt
<1>4. s \in E
  BY <1>3 DEF Bytes
<1> QED
  BY <1>4, CachedIs DEF E

-----------------------------------------------------------------------------
(* The events of a chunk, as they go on.                                   *)

EventBlocks == {b \in Bytes : IsEvent(b)}

\* Events before events before what is read.
LEMMA AfterAfter ==
  ASSUME NEW a \in Seq(Events), NEW b \in Seq(Events), NEW r \in Readers
  PROVE  After(a, After(b, r)) = After(a \o b, r)
<1>1. PICK q, p, u, es : /\ q = After(b, r) /\ p = After(a, q) /\ es = a \o b /\ u = After(es, r)
  OBVIOUS
<1>2. es \in Seq(Events)
  BY <1>1, ConcatProperties
<1>3. q \in Readers /\ (q.cr <=> r.cr) /\ q.line = r.line /\ q.event = r.event /\ q.events = b \o r.events
  BY <1>1, AfterIs
<1>4. p \in Readers /\ (p.cr <=> q.cr) /\ p.line = q.line /\ p.event = q.event /\ p.events = a \o q.events
  BY <1>1, <1>3, AfterIs
<1>5. u \in Readers /\ (u.cr <=> r.cr) /\ u.line = r.line /\ u.event = r.event /\ u.events = es \o r.events
  BY <1>1, <1>2, AfterIs
<1>6. PICK evs \in Seq(Events) : evs = r.events
  BY DEF Readers
<1>7. (a \o b) \o evs = a \o (b \o evs)
  BY ConcatAssociative
<1>8. p.events = u.events
  BY <1>1, <1>3, <1>4, <1>5, <1>6, <1>7
<1>9. p = u
  BY <1>3, <1>4, <1>5, <1>8, SameReaders
<1> QED
  BY <1>1, <1>9

\* A reader between two events, with events read.
LEMMA AfterReading ==
  ASSUME NEW es \in Seq(Events)
  PROVE  /\ After(es, Reading) \in Readers /\ AtRest(After(es, Reading))
         /\ ~After(es, Reading).cr /\ After(es, Reading).events = es
<1>1. PICK q \in Readers : /\ q = Reading /\ ~q.cr /\ q.line = <<>> /\ q.events = <<>>
                           /\ q.event = Reading.event
  BY ReadingType
<1>2. /\ After(es, q) \in Readers /\ (After(es, q).cr <=> q.cr) /\ After(es, q).line = q.line
      /\ After(es, q).event = q.event /\ After(es, q).events = es \o q.events
  BY AfterIs
<1>3. es \o <<>> = es
  BY ConcatEmptySeq
<1>4. /\ After(es, q) \in Readers /\ ~After(es, q).cr /\ After(es, q).line = <<>>
      /\ After(es, q).event = Reading.event /\ After(es, q).events = es
  BY <1>1, <1>2, <1>3
<1>5. AtRest(After(es, q))
  BY <1>4 DEF AtRest
<1> QED
  BY <1>1, <1>4, <1>5

Renames == [e \in Events |-> Renamed(e)]

Rewrites == [b \in EventBlocks |-> Rewritten(b)]

\* What is renamed are events, and what is rewritten is bytes.
LEMMA RewritesIs ==
  /\ Maps(Renames, Events, Events) /\ Maps(Rewrites, EventBlocks, Bytes)
  /\ \A blocks \in Seq(EventBlocks) :
       blocks \in Seq(Bytes)
       /\ [i \in DOMAIN blocks |-> Rewritten(blocks[i])] = Mapped(Rewrites, blocks)
<1>1. Maps(Renames, Events, Events)
  BY RenamedType DEF Maps, Renames
<1>2. Maps(Rewrites, EventBlocks, Bytes)
  BY ReadRewritten DEF Maps, Rewrites, EventBlocks
<1>3. ASSUME NEW blocks \in Seq(EventBlocks)
      PROVE  /\ blocks \in Seq(Bytes)
             /\ [i \in DOMAIN blocks |-> Rewritten(blocks[i])] = Mapped(Rewrites, blocks)
  <2>1. EventBlocks \in SUBSET Bytes
    BY DEF EventBlocks
  <2>2. blocks \in Seq(Bytes)
    BY <2>1, SeqMonotonic
  <2>3. PICK n \in Nat : n = Len(blocks) /\ DOMAIN blocks = 1 .. n
    BY LenProperties
  <2>4. \A i \in 1 .. n : Rewrites[blocks[i]] = Rewritten(blocks[i])
    BY <2>3, ElementOfSeq DEF Rewrites
  <2> QED
    BY <2>2, <2>3, <2>4 DEF Mapped
<1> QED
  BY <1>1, <1>2, <1>3

\* What goes down the chat path before usage is shifted is read as the events,
\* renamed, and leaves the reader between two events.
LEMMA ReadFlat ==
  ASSUME NEW blocks \in Seq(EventBlocks)
  PROVE  /\ FlattenSeq(Mapped(Rewrites, blocks)) \in Bytes
         /\ Mapped(Renames, Heard(blocks)) \in Seq(Events)
         /\ ReadOn(Reading, FlattenSeq(Mapped(Rewrites, blocks)))
              = After(Mapped(Renames, Heard(blocks)), Reading)
<1> DEFINE Holds(bs) ==
             /\ FlattenSeq(Mapped(Rewrites, bs)) \in Bytes
             /\ Mapped(Renames, Heard(bs)) \in Seq(Events)
             /\ ReadOn(Reading, FlattenSeq(Mapped(Rewrites, bs)))
                  = After(Mapped(Renames, Heard(bs)), Reading)
           E == {bs \in Seq(EventBlocks) : Holds(bs)}
<1>1. <<>> \in E
  <2>1. PICK none \in Seq(Bytes) : none = <<>>
    BY EmptySeq
  <2>2. Mapped(Rewrites, <<>>) = <<>> /\ Mapped(Renames, <<>>) = <<>>
    BY MappedNone
  <2>3. Heard(<<>>) = <<>>
    BY DEF Heard
  <2>4. FlattenSeq(<<>>) = <<>>
    BY DEF FlattenSeq
  <2>5. ReadOn(Reading, <<>>) = Reading
    BY ReadOnUnfold, ReadingType
  <2>6. After(<<>>, Reading) = Reading
    <3>1. PICK es \in Seq(Events) : es = <<>>
      BY EmptySeq
    <3>2. PICK q : q = After(es, Reading)
      OBVIOUS
    <3>3. /\ q \in Readers /\ ~q.cr /\ q.line = <<>> /\ q.event = Reading.event
          /\ q.events = <<>>
      BY <3>1, <3>2, AfterReading DEF AtRest
    <3>4. q = Reading
      BY <3>3, ReadingType, SameReaders
    <3> QED
      BY <3>1, <3>2, <3>4
  <2>7. <<>> \in Bytes /\ <<>> \in Seq(Events) /\ <<>> \in Seq(EventBlocks)
    BY EmptySeq DEF Bytes
  <2>8. Holds(<<>>)
    BY <2>2, <2>3, <2>4, <2>5, <2>6, <2>7
  <2> QED
    BY <2>7, <2>8
<1>2. ASSUME NEW bs \in E, NEW b \in EventBlocks
      PROVE  Append(bs, b) \in E
  <2>1. Holds(bs) /\ bs \in Seq(EventBlocks)
    BY <1>2
  <2>2. bs \in Seq(Bytes) /\ Append(bs, b) \in Seq(EventBlocks) /\ b \in Bytes /\ IsEvent(b)
    BY <2>1, RewritesIs, AppendProperties DEF EventBlocks
  <2>3. PICK rows \in Seq(Bytes), row \in Bytes : rows = Mapped(Rewrites, bs) /\ row = Rewritten(b)
    BY <2>1, <2>2, RewritesIs, MappedIs, ReadRewritten
  <2>4. Mapped(Rewrites, Append(bs, b)) = Append(rows, row)
    <3>1. Mapped(Rewrites, Append(bs, b)) = Append(Mapped(Rewrites, bs), Rewrites[b])
      BY <2>1, RewritesIs, MappedMore
    <3> QED
      BY <2>3, <3>1 DEF Rewrites
  <2>5. FlattenSeq(rows) \in Bytes /\ FlattenSeq(Append(rows, row)) = FlattenSeq(rows) \o row
    BY FlattenMore
  <2>6. PICK flat \in Bytes : flat = FlattenSeq(rows)
    BY <2>5
  <2>7. PICK h \in Seq(Events), e \in Events, es \in Seq(Events) :
          h = Heard(bs) /\ e = EventOf(b) /\ es = Mapped(Renames, h)
    BY <2>1, <2>2, HeardType, EventOfType
  <2>8. Heard(Append(bs, b)) = Append(h, e)
    BY <2>2, <2>7, HeardMore
  <2>9. Mapped(Renames, Append(h, e)) = Append(es, Renamed(e))
    <3>1. Mapped(Renames, Append(h, e)) = Append(Mapped(Renames, h), Renames[e])
      BY RewritesIs, MappedMore
    <3> QED
      BY <2>7, <3>1 DEF Renames
  <2>10. PICK x \in Events, one \in Seq(Events) : x = Renamed(e) /\ one = <<x>>
    <3>1. PICK x \in Events : x = Renamed(e)
      BY RenamedType
    <3>2. PICK one : one = <<x>>
      OBVIOUS
    <3>3. one \in Seq(Events)
      BY <3>2
    <3> QED
      BY <3>1, <3>2, <3>3
  <2>11. ReadOn(Reading, flat) = After(es, Reading)
    BY <2>1, <2>3, <2>6, <2>7
  <2>12. ReadOn(Reading, row) = After(one, Reading)
    BY <2>2, <2>3, <2>7, <2>10, ReadRewritten
  <2>13. ReadOn(Reading, flat \o row) = ReadOn(ReadOn(Reading, flat), row)
    BY ReadConcat, ReadingType
  <2>14. ReadOn(After(es, Reading), row) = After(es, ReadOn(Reading, row))
    BY ReadAfter, ReadingType
  <2>15. After(es, After(one, Reading)) = After(es \o one, Reading)
    BY AfterAfter, ReadingType
  <2>16. es \o one = Append(es, x) /\ Append(es, x) \in Seq(Events)
    BY <2>10, AppendIsConcat, AppendProperties
  <2>17. flat \o row \in Bytes
    BY ConcatProperties DEF Bytes
  <2>18. Holds(Append(bs, b))
    BY <2>4, <2>5, <2>6, <2>8, <2>9, <2>10, <2>11, <2>12, <2>13, <2>14, <2>15, <2>16, <2>17
  <2> QED
    BY <2>2, <2>18
<1>3. E \in SUBSET Seq(EventBlocks)
  OBVIOUS
<1> HIDE DEF E
<1>4. E = Seq(EventBlocks)
  BY <1>1, <1>2, <1>3, SeqBuilt
<1> QED
  BY <1>4 DEF E



\* Along a sequence twice.
LEMMA MappedTwice ==
  ASSUME NEW S, NEW T, NEW U, NEW f, NEW g, NEW k, Maps(f, S, T), Maps(g, T, U), Maps(k, S, U),
         \A x \in S : k[x] = g[f[x]], NEW s \in Seq(S)
  PROVE  Mapped(g, Mapped(f, s)) = Mapped(k, s)
<1>1. PICK m : m = Mapped(f, s)
  OBVIOUS
<1>2. m \in Seq(T) /\ Len(m) = Len(s) /\ \A i \in 1 .. Len(s) : m[i] = f[s[i]]
  BY <1>1, MappedIs
<1>3. m \in Seq(T)
  BY <1>2
<1>4. /\ Mapped(g, m) \in Seq(U) /\ Len(Mapped(g, m)) = Len(m)
      /\ \A i \in 1 .. Len(m) : Mapped(g, m)[i] = g[m[i]]
  BY <1>3, MappedIs
<1>5. /\ Mapped(k, s) \in Seq(U) /\ Len(Mapped(k, s)) = Len(s)
      /\ \A i \in 1 .. Len(s) : Mapped(k, s)[i] = k[s[i]]
  BY MappedIs
<1>6. ASSUME NEW i \in 1 .. Len(s)
      PROVE  Mapped(g, m)[i] = Mapped(k, s)[i]
  <2>1. Mapped(g, m)[i] = g[f[s[i]]]
    BY <1>2, <1>4
  <2>2. s[i] \in S
    BY ElementOfSeq
  <2>3. k[s[i]] = g[f[s[i]]]
    BY <2>2
  <2> QED
    BY <1>5, <2>1, <2>3
<1>7. Mapped(g, m) = Mapped(k, s)
  BY <1>2, <1>4, <1>5, <1>6, SeqEqual
<1> QED
  BY <1>1, <1>7

\* Along a sequence, twice the same.
LEMMA MappedSame ==
  ASSUME NEW S, NEW f, NEW g, NEW s \in Seq(S), \A x \in S : f[x] = g[x]
  PROVE  Mapped(f, s) = Mapped(g, s)
<1>1. PICK n \in Nat : n = Len(s) /\ DOMAIN s = 1 .. n
  BY LenProperties
<1>2. \A i \in 1 .. n : f[s[i]] = g[s[i]]
  BY <1>1, ElementOfSeq
<1> QED
  BY <1>1, <1>2 DEF Mapped

Promises == [e \in Events |-> Promised(e)]

\* A promise, path by path.
LEMMA PromisedIs ==
  ASSUME NEW e \in Events
  PROVE  /\ Promised(e) \in Events
         /\ path = "raw" => Promised(e) = e
         /\ path = "chat" /\ ~shift => Promised(e) = Renamed(e)
         /\ path = "chat" /\ shift => Promised(e) = CachedEvent(Renamed(e))
<1>1. CachedEvent(Event(Thoughts)) = Event(Thoughts)
  <2>1. PICK t \in Tokens, v \in Events : t = Thoughts /\ v = Event(t) /\ ~v.named /\ v.data = << <<t>> >>
    BY TokensAre, EventIs
  <2>2. CachedEvent(v) \in Events /\ ~CachedEvent(v).named /\ CachedEvent(v).data = Mapped(CachedLines, v.data)
    BY <2>1, CachedEventIs
  <2>3. Mapped(CachedLines, << <<t>> >>) = <<CachedLines[<<t>>]>>
    BY DEF Mapped
  <2>4. <<t>> \in Bytes
    BY DEF Bytes
  <2>5. CachedLines[<<t>>] = Cached(<<t>>)
    BY <2>4 DEF CachedLines
  <2>6. Cached(<<t>>) = <<AsCached(t)>>
    BY DEF Cached, AsCached
  <2>7. AsCached(t) = t
    BY <2>1, AsCachedIs
  <2>8. CachedEvent(v).data = v.data
    BY <2>1, <2>2, <2>3, <2>5, <2>6, <2>7
  <2>9. CachedEvent(v) = v
    BY <2>1, <2>2, <2>8, SameEvents
  <2> QED
    BY <2>1, <2>9
<1>2. Renamed(e) \in Events /\ CachedEvent(Renamed(e)) \in Events /\ CachedEvent(e) \in Events
  BY RenamedType, CachedEventIs
<1>3. Event(Thoughts) \in Events
  BY TokensAre, EventIs
<1>4. path = "raw" => Promised(e) = e
  BY DEF Promised
<1>5. path # "raw" /\ ~shift => Promised(e) = Renamed(e)
  BY DEF Promised, Renamed
<1>6. path # "raw" /\ shift => Promised(e) = CachedEvent(Renamed(e))
  BY <1>1 DEF Promised, Renamed, CachedEvent
<1> QED
  BY <1>2, <1>4, <1>5, <1>6

\* What is promised of an event is an event.
LEMMA PromisesIs == Maps(Promises, Events, Events)
BY PromisedIs DEF Maps, Promises

\* A blank line more between two events is none.
LEMMA BlankLine ==
  ASSUME NEW r, AtRest(r), ~r.cr
  PROVE  ReadToken(r, LF) = r
<1>1. r \in Readers /\ r.line = <<>> /\ r.event = Reading.event
  BY DEF AtRest
<1>2. PICK q : q = ReadToken(r, LF)
  OBVIOUS
<1>3. /\ q \in Readers /\ ~q.cr /\ q.line = <<>> /\ q.event = EndLine(r).event
      /\ q.events = EndLine(r).events
  BY <1>1, <1>2, TokensAre, ReadTokenType, ReadTokenIs
<1>4. /\ EndLine(r).event = Reading.event
      /\ EndLine(r).events = IF r.event.data = <<>> THEN r.events ELSE Append(r.events, r.event)
  BY <1>1, EndLineIs
<1>5. r.event.data = <<>>
  BY <1>1, ReadingType
<1>6. q = r
  BY <1>1, <1>3, <1>4, <1>5, SameReaders
<1> QED
  BY <1>2, <1>6

\* What is promised of events is a sequence of events.
LEMMA ForwardedType ==
  ASSUME NEW blocks \in Seq(EventBlocks)
  PROVE  blocks \in Seq(Bytes) /\ Mapped(Promises, Heard(blocks)) \in Seq(Events)
<1>1. EventBlocks \in SUBSET Bytes
  BY DEF EventBlocks
<1>2. blocks \in Seq(Bytes)
  BY <1>1, SeqMonotonic
<1>3. PICK h \in Seq(Events) : h = Heard(blocks)
  BY <1>2, HeardType
<1> QED
  BY <1>2, <1>3, PromisesIs, MappedIs

\* What goes down the chat path is read as the events, as promised.
LEMMA ForwardedIs ==
  ASSUME path = "chat", NEW blocks \in Seq(EventBlocks)
  PROVE  /\ Forwarded(blocks) \in Bytes /\ Mapped(Promises, Heard(blocks)) \in Seq(Events)
         /\ ReadOn(Reading, Forwarded(blocks)) = After(Mapped(Promises, Heard(blocks)), Reading)
<1>1. PICK flat \in Bytes, h \in Seq(Events), es \in Seq(Events) :
        /\ flat = FlattenSeq(Mapped(Rewrites, blocks)) /\ h = Heard(blocks) /\ es = Mapped(Renames, h)
        /\ ReadOn(Reading, flat) = After(es, Reading)
  BY RewritesIs, ReadFlat, HeardType
<1>2. Forwarded(blocks) = ShiftUsage(flat)
  BY <1>1, RewritesIs DEF Forwarded
<1>3. Mapped(Promises, h) \in Seq(Events)
  BY PromisesIs, MappedIs
<1>4. CASE ~shift
  <2>1. \A e \in Events : Promises[e] = Renames[e]
    BY <1>4, PromisedIs DEF Promises, Renames
  <2>2. Mapped(Promises, h) = es
    BY <1>1, <2>1, MappedSame
  <2>3. ShiftUsage(flat) = flat
    BY <1>4 DEF ShiftUsage
  <2> QED
    BY <1>1, <1>2, <1>3, <2>2, <2>3
<1>5. CASE shift
  <2>1. \A e \in Events : Promises[e] = Caches[Renames[e]]
    <3>1. \A e \in Events : Renamed(e) \in Events /\ Promised(e) = CachedEvent(Renamed(e))
      BY <1>5, PromisedIs, RenamedType
    <3> QED
      BY <3>1 DEF Promises, Renames, Caches
  <2>2. Maps(Caches, Events, Events)
    BY CachedReaderIs, ReadingType
  <2>3. Mapped(Caches, es) = Mapped(Promises, h)
    <3>1. Mapped(Caches, Mapped(Renames, h)) = Mapped(Promises, h)
      BY <2>1, <2>2, PromisesIs, RewritesIs, MappedTwice
    <3> QED
      BY <1>1, <3>1
  <2>4. PICK p : p = After(Mapped(Promises, h), Reading)
    OBVIOUS
  <2>5. p \in Readers /\ AtRest(p) /\ ~p.cr /\ p.events = Mapped(Promises, h)
    BY <1>3, <2>4, AfterReading
  <2>6. PICK q, c : q = After(es, Reading) /\ c = CachedReader(q)
    OBVIOUS
  <2>7. q \in Readers /\ ~q.cr /\ q.line = <<>> /\ q.event = Reading.event /\ q.events = es
    BY <2>6, AfterReading DEF AtRest
  <2>8. /\ c \in Readers /\ ~c.cr /\ c.line = Cached(q.line) /\ c.event = CachedEvent(q.event)
        /\ c.events = Mapped(Caches, q.events)
    BY <2>6, <2>7, CachedReaderIs
  <2>9. Cached(<<>>) = <<>>
    BY DEF Cached
  <2>10. c = p
    <3>1. c.line = <<>> /\ c.event = Reading.event /\ c.events = Mapped(Promises, h)
      BY <2>3, <2>7, <2>8, <2>9, CachedNothing
    <3> QED
      BY <2>5, <2>8, <3>1, SameReaders DEF AtRest
  <2>11. Cached(flat) \in Bytes /\ ReadOn(Reading, Cached(flat)) = p
    BY <1>1, <2>6, <2>10, ReadCached
  <2>12. CASE Used \in {flat[i] : i \in DOMAIN flat}
    <3>1. ShiftUsage(flat) = Cached(flat) \o <<LF>>
      BY <1>5, <2>12 DEF ShiftUsage
    <3>2. PICK b \in Bytes : b = Cached(flat)
      BY <2>11
    <3>3. b \o <<LF>> = Append(b, LF) /\ Append(b, LF) \in Bytes
      BY TokensAre, AppendIsConcat, AppendProperties DEF Bytes
    <3>4. ReadOn(Reading, Append(b, LF)) = ReadToken(ReadOn(Reading, b), LF)
      BY TokensAre, ReadOnUnfold, ReadingType
    <3>5. ReadToken(p, LF) = p
      BY <2>5, BlankLine
    <3> QED
      BY <1>1, <1>2, <1>3, <2>4, <2>11, <3>1, <3>2, <3>3, <3>4, <3>5
  <2>13. CASE Used \notin {flat[i] : i \in DOMAIN flat}
    <3>1. ShiftUsage(flat) = flat
      BY <2>13 DEF ShiftUsage
    <3>2. Cached(flat) = flat
      <4>1. Cached(flat) = [i \in DOMAIN flat |-> flat[i]]
        BY <2>13 DEF Cached
      <4>2. flat = [i \in DOMAIN flat |-> flat[i]]
        BY LenProperties DEF Bytes
      <4> QED
        BY <4>1, <4>2
    <3> QED
      BY <1>1, <1>2, <1>3, <2>4, <2>11, <3>1, <3>2
  <2> QED
    BY <2>12, <2>13
<1> QED
  BY <1>4, <1>5

-----------------------------------------------------------------------------
(* The stream upstream sends, when its lines all end in LF or all in CR    *)
(* and it leaves out none of them.                                         *)

Eols == {<<LF>>, <<CR>>}

Alphabet == IF eol = <<LF>> THEN Tokens \ {CR} ELSE Tokens \ {LF}
Clean    == Seq(Alphabet)
Lines    == Seq(Words)

\* A line ending more is an LF more to the parser.
LEMMA EolIs ==
  ASSUME eol \in Eols, NEW s \in Clean
  PROVE  /\ Alphabet \in Alphabets /\ s \in Bytes /\ eol \in Clean /\ s \o eol \in Clean
         /\ Lf(s) \in Bytes /\ Lf(s \o eol) = Append(Lf(s), LF)
<1>1. Alphabet \in Alphabets
  BY DEF Alphabet, Alphabets
<1>2. s \in Bytes
  BY <1>1, AlphabetIs DEF Clean
<1>3. PICK y : eol = <<y>> /\ y \in Alphabet /\ y \in Tokens /\ AsLF(y) = LF
  <2>1. CASE eol = <<LF>>
    <3>1. LF \in Alphabet /\ LF \in Tokens /\ AsLF(LF) = LF
      BY <2>1, TokensAre DEF Alphabet, AsLF
    <3> QED
      BY <2>1, <3>1
  <2>2. CASE eol = <<CR>>
    <3>1. <<CR>> # <<LF>>
      BY TokensAre
    <3>2. CR \in Alphabet /\ CR \in Tokens /\ AsLF(CR) = LF
      BY <2>2, <3>1, TokensAre DEF Alphabet, AsLF
    <3> QED
      BY <2>2, <3>2
  <2> QED
    BY <2>1, <2>2 DEF Eols
<1>4. <<y>> \in Clean
  BY <1>3 DEF Clean
<1>5. s \o <<y>> = Append(s, y) /\ Append(s, y) \in Clean
  BY <1>3, AppendIsConcat, AppendProperties DEF Clean
<1>6. Lf(Append(s, y)) = Append(Lf(s), AsLF(y)) /\ Lf(s) \in Bytes
  BY <1>2, <1>3, LfMore, LfType
<1> QED
  BY <1>1, <1>2, <1>3, <1>4, <1>5, <1>6

\* Such rows can be joined in any order.
LEMMA CleanJoin ==
  ASSUME NEW a \in Clean, NEW b \in Clean, NEW c \in Clean
  PROVE  a \o b \in Clean /\ a \o (b \o c) = (a \o b) \o c
<1>1. PICK A : A = Alphabet
  OBVIOUS
<1>2. a \in Seq(A) /\ b \in Seq(A) /\ c \in Seq(A) /\ Clean = Seq(A)
  BY <1>1 DEF Clean
<1>3. a \o b \in Seq(A)
  BY <1>2, ConcatProperties
<1>4. a \o (b \o c) = (a \o b) \o c
  BY <1>2, ConcatAssociative
<1> QED
  BY <1>2, <1>3, <1>4

\* One line ending more.
LEMMA CleanEnd ==
  ASSUME eol \in Eols, NEW a \in Clean, NEW b \in Clean
  PROVE  a \o (b \o eol) = (a \o b) \o eol
<1>1. PICK e : e = eol
  OBVIOUS
<1>2. e \in Clean
  BY <1>1, EolIs
<1>3. a \o (b \o e) = (a \o b) \o e
  BY <1>2, CleanJoin
<1> QED
  BY <1>1, <1>3

\* Rows without the other line ending make a row without it.
LEMMA CleanRows ==
  ASSUME eol \in Eols, NEW rows \in Seq(Clean)
  PROVE  FlattenSeq(rows) \in Clean /\ rows \in Seq(Bytes)
<1> DEFINE E == {ls \in Seq(Clean) : ls \in Seq(Bytes) /\ FlattenSeq(ls) \in Clean}
<1>1. Clean \in SUBSET Bytes
  BY EolIs
<1>2. <<>> \in E
  <2>1. <<>> \in Clean /\ <<>> \in Seq(Clean) /\ <<>> \in Seq(Bytes)
    BY EmptySeq DEF Clean
  <2>2. FlattenSeq(<<>>) = <<>>
    BY DEF FlattenSeq
  <2> QED
    BY <2>1, <2>2
<1>3. ASSUME NEW ls \in E, NEW l \in Clean
      PROVE  Append(ls, l) \in E
  <2>1. ls \in Seq(Clean) /\ ls \in Seq(Bytes) /\ l \in Bytes
    BY <1>1, <1>3
  <2>2. Append(ls, l) \in Seq(Clean) /\ Append(ls, l) \in Seq(Bytes)
    BY <2>1, AppendProperties
  <2>3. FlattenSeq(Append(ls, l)) = FlattenSeq(ls) \o l
    BY <2>1, FlattenMore
  <2>4. FlattenSeq(ls) \o l \in Clean
    BY <1>3, ConcatProperties DEF Clean
  <2> QED
    BY <2>2, <2>3, <2>4
<1>4. E \in SUBSET Seq(Clean)
  OBVIOUS
<1> HIDE DEF E
<1>5. E = Seq(Clean)
  BY <1>2, <1>3, <1>4, SeqBuilt
<1> QED
  BY <1>5 DEF E

Ends == [l \in Lines |-> l \o eol]

\* A block on the wire ends in two line endings, or is one.
LEMMA WireIs ==
  ASSUME eol \in Eols, NEW block \in Seq(Lines)
  PROVE  \E w \in Clean : /\ Wire(block) = w \o eol
                          /\ w = <<>> \/ \E v \in Clean : w = v \o eol
<1>1. Lines \in SUBSET Clean
  <2>1. Words \in SUBSET Alphabet
    <3>1. CR \notin Words /\ LF \notin Words
      BY RelayAssumption
    <3> QED
      BY <3>1 DEF Alphabet, Tokens
  <2>2. \A l \in Lines : l \in Clean
    BY <2>1, SeqMonotonic DEF Lines, Clean
  <2> QED
    BY <2>2
<1>2. Maps(Ends, Lines, Clean)
  <2>1. \A l \in Lines : l \o eol \in Clean
    BY <1>1, EolIs
  <2> QED
    BY <2>1 DEF Maps, Ends
<1>3. \A b \in Seq(Lines) : [i \in DOMAIN b |-> b[i] \o eol] = Mapped(Ends, b)
  <2> SUFFICES ASSUME NEW b \in Seq(Lines)
               PROVE  [i \in DOMAIN b |-> b[i] \o eol] = Mapped(Ends, b)
    OBVIOUS
  <2>1. PICK n \in Nat : n = Len(b) /\ DOMAIN b = 1 .. n
    BY LenProperties
  <2>2. \A i \in 1 .. n : Ends[b[i]] = b[i] \o eol
    BY <2>1, ElementOfSeq DEF Ends
  <2> QED
    BY <2>1, <2>2 DEF Mapped
<1>4. Wire(block) = FlattenSeq(Mapped(Ends, block)) \o eol
  BY <1>3 DEF Wire
<1>5. CASE block = <<>>
  <2>1. FlattenSeq(Mapped(Ends, <<>>)) = <<>>
    BY MappedNone DEF FlattenSeq
  <2>2. <<>> \in Clean
    BY EmptySeq DEF Clean
  <2> QED
    BY <1>4, <1>5, <2>1, <2>2
<1>6. CASE block # <<>>
  <2>1. PICK b \in Seq(Lines), l \in Lines : block = Append(b, l)
    BY <1>6, SequenceEmptyOrAppend
  <2>2. Mapped(Ends, Append(b, l)) = Append(Mapped(Ends, b), Ends[l])
    BY <1>2, MappedMore
  <2>3. PICK rows \in Seq(Clean) : rows = Mapped(Ends, b)
    BY <1>2, MappedIs
  <2>4. FlattenSeq(rows) \in Clean /\ rows \in Seq(Bytes)
    BY CleanRows
  <2>5. l \in Clean /\ l \o eol \in Clean /\ l \o eol \in Bytes /\ eol \in Clean
    BY <1>1, EolIs
  <2>6. FlattenSeq(Append(rows, l \o eol)) = FlattenSeq(rows) \o (l \o eol)
    BY <2>4, <2>5, FlattenMore
  <2>7. PICK f \in Clean : f = FlattenSeq(rows)
    BY <2>4
  <2>8. PICK v : v = f \o l
    OBVIOUS
  <2>12. f \o (l \o eol) = (f \o l) \o eol
    BY <2>5, CleanEnd
  <2>9. v \in Clean /\ v \o eol \in Clean
    <3>1. f \o l \in Clean
      BY <2>5, CleanJoin
    <3> QED
      BY <2>8, <3>1, EolIs
  <2>10. Wire(block) = (v \o eol) \o eol
    <3>1. Ends[l] = l \o eol
      BY DEF Ends
    <3> QED
      BY <1>4, <2>1, <2>2, <2>3, <2>6, <2>7, <2>8, <2>12, <3>1
  <2> QED
    BY <2>9, <2>10
<1> QED
  BY <1>5, <1>6

\* What is in the parser's buffer then.
Quiet(s) == s \in Clean /\ Split(Lf(s)).buf \in {<<>>, <<LF>>}

\* A line ending more leaves no more than itself in the buffer.
LEMMA QuietOnce ==
  ASSUME eol \in Eols, NEW s, Quiet(s)
  PROVE  Quiet(s \o eol)
<1>1. s \in Clean /\ Split(Lf(s)).buf \in {<<>>, <<LF>>}
  BY DEF Quiet
<1>2. s \o eol \in Clean /\ Lf(s) \in Bytes /\ Lf(s \o eol) = Append(Lf(s), LF)
  BY <1>1, EolIs
<1>3. PICK p \in SplitStates : p = Split(Lf(s))
  BY <1>2, SplitUnfold
<1>4. Split(Append(Lf(s), LF)) = Taken(p, LF)
  BY <1>2, <1>3, SplitUnfold, TokensAre
<1>5. CASE p.buf = <<>>
  <2>1. ~Completes(p.buf, LF)
    BY <1>5 DEF Completes
  <2>2. Taken(p, LF).buf = Append(p.buf, LF)
    BY <2>1, TakenIs, TokensAre
  <2>3. Taken(p, LF).buf = <<LF>>
    BY <1>5, <2>2
  <2> QED
    BY <1>2, <1>4, <2>3 DEF Quiet
<1>6. CASE p.buf = <<LF>>
  <2>1. Last(<<LF>>) = LF
    BY DEF Last
  <2>2. Completes(p.buf, LF)
    BY <1>6, <2>1 DEF Completes
  <2>3. Taken(p, LF).buf = <<>>
    BY <2>2, TakenIs, TokensAre
  <2> QED
    BY <1>2, <1>4, <2>3 DEF Quiet
<1> QED
  BY <1>1, <1>3, <1>5, <1>6

\* Two line endings leave no more than one in it.
LEMMA QuietTwice ==
  ASSUME eol \in Eols, NEW s \in Clean
  PROVE  Quiet((s \o eol) \o eol)
<1>1. PICK u : u = s \o eol
  OBVIOUS
<1>2. u \in Clean /\ Lf(s) \in Bytes /\ Lf(u) = Append(Lf(s), LF)
  BY <1>1, EolIs
<1>3. u \o eol \in Clean /\ Lf(u) \in Bytes /\ Lf(u \o eol) = Append(Lf(u), LF)
  BY <1>2, EolIs
<1>4. PICK p \in SplitStates, q \in SplitStates : p = Split(Lf(s)) /\ q = Split(Lf(u))
  BY <1>2, <1>3, SplitUnfold
<1>5. q = Taken(p, LF)
  BY <1>2, <1>4, SplitUnfold, TokensAre
<1>6. Split(Append(Lf(u), LF)) = Taken(q, LF)
  BY <1>3, <1>4, SplitUnfold, TokensAre
<1>7. CASE Completes(p.buf, LF)
  <2>1. q.buf = <<>>
    BY <1>5, <1>7, TakenIs, TokensAre
  <2>2. Quiet(u)
    BY <1>2, <1>4, <2>1 DEF Quiet
  <2> QED
    BY <1>1, <2>2, QuietOnce
<1>8. CASE ~Completes(p.buf, LF)
  <2>1. q.buf = Append(p.buf, LF) /\ p.buf \in Bytes
    BY <1>5, <1>8, TakenIs, TokensAre DEF SplitStates
  <2>2. q.buf # <<>> /\ Last(q.buf) = LF
    BY <2>1, AppendIs, TokensAre DEF Bytes
  <2>3. Completes(q.buf, LF)
    BY <2>2 DEF Completes
  <2>4. Taken(q, LF).buf = <<>>
    BY <2>3, TakenIs, TokensAre
  <2>5. Quiet(u \o eol)
    BY <1>3, <1>6, <2>4 DEF Quiet
  <2> QED
    BY <1>1, <2>5
<1> QED
  BY <1>7, <1>8

Wires == [b \in Blocks |-> Wire(b)]

\* When all of the stream has come the parser has no event left.
LEMMA StreamIs ==
  ASSUME eol \in Eols, sent \in Histories
  PROVE  Quiet(Stream)
<1>1. \A b \in Blocks : b \in Seq(Lines)
  BY RelayAssumption DEF Lines
<1>2. Maps(Wires, Blocks, Clean)
  <2>1. ASSUME NEW b \in Blocks
        PROVE  Wire(b) \in Clean
    <3>1. PICK w \in Clean : Wire(b) = w \o eol
      BY <1>1, WireIs
    <3> QED
      BY <3>1, EolIs
  <2> QED
    BY <2>1 DEF Maps, Wires
<1> DEFINE E == {s \in Seq(Blocks) : Quiet(FlattenSeq(Mapped(Wires, s)))}
<1>3. <<>> \in E
  <2>1. FlattenSeq(Mapped(Wires, <<>>)) = <<>>
    BY MappedNone DEF FlattenSeq
  <2>2. <<>> \in Clean /\ <<>> \in Seq(Blocks)
    BY EmptySeq DEF Clean
  <2>3. Split(Lf(<<>>)).buf = <<>>
    BY LfEmpty, SplitUnfold DEF Empty
  <2> QED
    BY <2>1, <2>2, <2>3 DEF Quiet
<1>4. ASSUME NEW s \in E, NEW b \in Blocks
      PROVE  Append(s, b) \in E
  <2>1. s \in Seq(Blocks) /\ Append(s, b) \in Seq(Blocks)
    BY <1>4, AppendProperties
  <2>2. PICK rows \in Seq(Clean) : rows = Mapped(Wires, s)
    BY <1>2, <2>1, MappedIs
  <2>11. PICK a : a = FlattenSeq(rows)
    OBVIOUS
  <2>3. Quiet(a) /\ a \in Clean /\ rows \in Seq(Bytes)
    BY <1>4, <2>2, <2>11, CleanRows DEF Quiet
  <2>4. PICK w \in Clean : /\ Wire(b) = w \o eol
                           /\ w = <<>> \/ \E v \in Clean : w = v \o eol
    BY <1>1, WireIs
  <2>5. w \o eol \in Bytes /\ eol \in Clean
    BY EolIs
  <2>6. FlattenSeq(Append(rows, w \o eol)) = a \o (w \o eol)
    BY <2>11, <2>3, <2>5, FlattenMore
  <2>7. Mapped(Wires, Append(s, b)) = Append(rows, w \o eol)
    <3>1. Mapped(Wires, Append(s, b)) = Append(Mapped(Wires, s), Wires[b])
      BY <1>2, <2>1, MappedMore
    <3> QED
      BY <2>2, <2>4, <3>1 DEF Wires
  <2>8. a \o (w \o eol) = (a \o w) \o eol
    BY <2>3, CleanEnd
  <2>9. CASE w = <<>>
    <3>1. a \o <<>> = a
      BY <2>3, ConcatEmptySeq DEF Clean
    <3>2. Quiet(a \o eol)
      BY <2>3, QuietOnce
    <3> QED
      BY <2>1, <2>6, <2>7, <2>8, <2>9, <3>1, <3>2
  <2>10. ASSUME NEW v \in Clean, w = v \o eol
         PROVE  Append(s, b) \in E
    <3>1. a \o (v \o eol) = (a \o v) \o eol
      BY <2>3, CleanEnd
    <3>2. a \o v \in Clean
      BY <2>3, CleanJoin
    <3>3. Quiet(((a \o v) \o eol) \o eol)
      BY <3>2, QuietTwice
    <3>4. a \o (w \o eol) = ((a \o v) \o eol) \o eol
      BY <2>8, <2>10, <3>1
    <3> QED
      BY <2>1, <2>6, <2>7, <3>3, <3>4
  <2> QED
    BY <2>4, <2>9, <2>10
<1>5. E \in SUBSET Seq(Blocks)
  OBVIOUS
<1> HIDE DEF E
<1>6. E = Seq(Blocks)
  BY <1>3, <1>4, <1>5, SeqBuilt
<1>7. sent \in Seq(Blocks) /\ [i \in DOMAIN sent |-> Wire(sent[i])] = Mapped(Wires, sent)
  <2>1. PICK n \in 0 .. MaxBlocks : sent \in [1 .. n -> Blocks]
    BY DEF Histories
  <2>2. n \in Nat
    BY RelayAssumption
  <2>3. sent \in Seq(Blocks) /\ DOMAIN sent = 1 .. n
    BY <2>1, <2>2
  <2>4. \A i \in 1 .. n : Wires[sent[i]] = Wire(sent[i])
    BY <2>1 DEF Wires
  <2> QED
    BY <2>3, <2>4 DEF Mapped
<1>8. Quiet(FlattenSeq(Mapped(Wires, sent)))
  BY <1>6, <1>7 DEF E
<1> QED
  BY <1>7, <1>8 DEF Stream





-----------------------------------------------------------------------------
(* What has come of a stream, and what its reader is to be told of it.     *)

Found(c) == Split(Lf(c)).events
Kept(c)  == Split(Lf(c)).buf
Told(c)  == Mapped(Promises, Heard(Found(c)))
Noted(c) == Observed(Found(c))

Hears    == [b \in Bytes |-> EventOf(b)]
Payloads == [b \in Bytes |-> Payload(b)]

\* Both go from the events to what is made of them.
LEMMA HearsIs ==
  /\ Maps(Hears, Bytes, Events) /\ Maps(Payloads, Bytes, Seq(Bytes))
  /\ \A bs \in Seq(Bytes) : Heard(bs) = Mapped(Hears, bs) /\ Observed(bs) = Mapped(Payloads, bs)
<1>1. Maps(Hears, Bytes, Events)
  BY EventOfType DEF Maps, Hears
<1>2. Maps(Payloads, Bytes, Seq(Bytes))
  <2>1. ASSUME NEW b \in Bytes
        PROVE  Payload(b) \in Seq(Bytes)
    BY PayloadIs, ParseUnfold, DataSoFarType
  <2> QED
    BY <2>1 DEF Maps, Payloads
<1>3. ASSUME NEW bs \in Seq(Bytes)
      PROVE  Heard(bs) = Mapped(Hears, bs) /\ Observed(bs) = Mapped(Payloads, bs)
  <2>1. PICK n \in Nat : n = Len(bs) /\ DOMAIN bs = 1 .. n
    BY LenProperties
  <2>2. \A i \in 1 .. n : bs[i] \in Bytes
    BY <2>1, ElementOfSeq
  <2>3. \A i \in 1 .. n : Hears[bs[i]] = EventOf(bs[i]) /\ Payloads[bs[i]] = Payload(bs[i])
    BY <2>2 DEF Hears, Payloads
  <2> QED
    BY <2>1, <2>3 DEF Heard, Observed, Mapped
<1> QED
  BY <1>1, <1>2, <1>3

\* Blocks that are events are a sequence of events.
LEMMA EventRows ==
  ASSUME NEW bs \in Seq(Bytes), \A i \in 1 .. Len(bs) : IsEvent(bs[i])
  PROVE  bs \in Seq(EventBlocks)
<1>1. PICK n \in Nat : n = Len(bs) /\ DOMAIN bs = 1 .. n
  BY LenProperties
<1>2. \A i \in 1 .. n : bs[i] \in EventBlocks
  BY <1>1, ElementOfSeq DEF EventBlocks
<1>3. bs = [i \in 1 .. n |-> bs[i]]
  BY <1>1, LenProperties
<1>4. bs \in [1 .. n -> EventBlocks]
  BY <1>2, <1>3
<1> QED
  BY <1>4

\* What is heard of two sequences of blocks is heard of one after the other.
LEMMA HearsOn ==
  ASSUME NEW ds \in Seq(Bytes), NEW bs \in Seq(Bytes)
  PROVE  /\ Heard(ds \o bs) = Heard(ds) \o Heard(bs)
         /\ Observed(ds \o bs) = Observed(ds) \o Observed(bs)
<1>1. Maps(Hears, Bytes, Events)
  BY HearsIs
<1>2. Mapped(Hears, ds \o bs) = Mapped(Hears, ds) \o Mapped(Hears, bs)
  BY <1>1, MappedConcat
<1>3. PICK T : Maps(Payloads, Bytes, T)
  BY HearsIs
<1>4. Mapped(Payloads, ds \o bs) = Mapped(Payloads, ds) \o Mapped(Payloads, bs)
  BY <1>3, MappedConcat
<1>5. PICK cs \in Seq(Bytes) : cs = ds \o bs
  BY ConcatProperties
<1>6. /\ Heard(ds) = Mapped(Hears, ds) /\ Observed(ds) = Mapped(Payloads, ds)
      /\ Heard(bs) = Mapped(Hears, bs) /\ Observed(bs) = Mapped(Payloads, bs)
      /\ Heard(cs) = Mapped(Hears, cs) /\ Observed(cs) = Mapped(Payloads, cs)
  BY HearsIs
<1> QED
  BY <1>2, <1>4, <1>5, <1>6

\* What has come is read as the parser's events.
LEMMA FoundIs ==
  ASSUME eol \in Eols, NEW c \in Clean
  PROVE  /\ Found(c) \in Seq(EventBlocks) /\ Found(c) \in Seq(Bytes) /\ Kept(c) \in Bytes
         /\ Told(c) \in Seq(Events) /\ Noted(c) \in Seq(Seq(Bytes))
         /\ Len(Told(c)) = Len(Found(c)) /\ Len(Noted(c)) = Len(Found(c))
         /\ Read(c) = Heard(Found(c))
         /\ Kept(c) = <<>> => AtRest(ReadOn(Reading, c))
<1>1. PICK K \in Alphabets : K = Alphabet
  BY EolIs
<1>2. c \in Seq(K) /\ c \in Bytes
  BY <1>1, EolIs DEF Clean
<1>3. PICK p \in SplitStates, es \in Seq(Bytes) : p = Split(Lf(c)) /\ es = Split(Lf(c)).events
  BY <1>2, ReadIs
<1>4. Split(Lf(c)) \in SplitStates /\ Split(Lf(c)).events \in Seq(Bytes)
  BY <1>2, ReadIs
<1>5. \A i \in 1 .. Len(Split(Lf(c)).events) : IsEvent(Split(Lf(c)).events[i])
  BY <1>2, ReadIs
<1>6. Read(c) = Heard(Split(Lf(c)).events)
  BY <1>2, ReadIs
<1>7. es \in Seq(EventBlocks)
  <2>1. \A i \in 1 .. Len(es) : IsEvent(es[i])
    BY <1>3, <1>5
  <2> QED
    BY <2>1, EventRows
<1>8. Heard(es) \in Seq(Events) /\ Len(Heard(es)) = Len(es)
  BY HeardType
<1>9. PICK h \in Seq(Events) : h = Heard(es)
  BY <1>8
<1>10. Mapped(Promises, h) \in Seq(Events) /\ Len(Mapped(Promises, h)) = Len(h)
  BY PromisesIs, MappedIs
<1>11. Observed(es) \in Seq(Seq(Bytes)) /\ Len(Observed(es)) = Len(es)
  <2>1. Maps(Payloads, Bytes, Seq(Bytes)) /\ Observed(es) = Mapped(Payloads, es)
    BY HearsIs
  <2>2. PICK T : T = Seq(Bytes)
    OBVIOUS
  <2>3. Mapped(Payloads, es) \in Seq(T) /\ Len(Mapped(Payloads, es)) = Len(es)
    <3>1. Maps(Payloads, Bytes, T)
      BY <2>1, <2>2
    <3> QED
      BY <3>1, MappedIs
  <2> QED
    BY <2>1, <2>2, <2>3
<1>12. Kept(c) \in Bytes
  BY <1>4 DEF Kept, SplitStates
<1>13. Kept(c) = <<>> => AtRest(ReadOn(Reading, c))
  <2>1. Split(Lf(c)).buf = <<>> =>
          ReadOn(Reading, c).line = <<>> /\ ReadOn(Reading, c).event = Reading.event
    BY <1>2, ReadIs
  <2>2. ReadOn(Reading, c) \in Readers
    BY <1>2, ReadOnUnfold, ReadingType
  <2> QED
    BY <2>1, <2>2 DEF Kept, AtRest
<1>14. Found(c) = es /\ Told(c) = Mapped(Promises, h) /\ Noted(c) = Observed(es)
  BY <1>3, <1>9 DEF Found, Told, Noted
<1> QED
  BY <1>6, <1>7, <1>8, <1>9, <1>10, <1>11, <1>12, <1>13, <1>14 DEF Found

\* One more chunk, wherever it is cut, adds what feed() finds in it.
LEMMA FoundMore ==
  ASSUME eol \in Eols, NEW c \in Clean, NEW chunk \in Clean
  PROVE  \E es \in Seq(EventBlocks) :
           /\ Feed(Kept(c), chunk).buf = Kept(c \o chunk) /\ Feed(Kept(c), chunk).events = es
           /\ Told(c \o chunk) = Told(c) \o Mapped(Promises, Heard(es))
           /\ Noted(c \o chunk) = Noted(c) \o Observed(es)
<1>0. PICK buf, es : buf = Kept(c) /\ es = Feed(buf, chunk).events
  OBVIOUS
<1>1. PICK K \in Alphabets : K = Alphabet
  BY EolIs
<1>2. c \in Seq(K) /\ chunk \in Seq(K)
  BY <1>1 DEF Clean
<1>3. buf = Split(Lf(c)).buf
  BY <1>0 DEF Kept
<1>4. /\ Feed(buf, chunk) \in SplitStates
      /\ Feed(buf, chunk).buf = Split(Lf(c \o chunk)).buf
      /\ Split(Lf(c \o chunk)).events = Split(Lf(c)).events \o Feed(buf, chunk).events
      /\ \A i \in 1 .. Len(Feed(buf, chunk).events) : IsEvent(Feed(buf, chunk).events[i])
  BY <1>2, <1>3, FeedIs
<1>5. es \in Seq(Bytes) /\ \A i \in 1 .. Len(es) : IsEvent(es[i])
  BY <1>0, <1>4 DEF SplitStates
<1>6. es \in Seq(EventBlocks)
  BY <1>5, EventRows
<1>7. PICK fs \in Seq(Bytes), gs \in Seq(Bytes) : fs = Found(c) /\ gs = es
  BY <1>5, FoundIs
<1>8. Found(c \o chunk) = fs \o gs
  BY <1>0, <1>4, <1>7 DEF Found
<1>9. Heard(fs \o gs) = Heard(fs) \o Heard(gs) /\ Observed(fs \o gs) = Observed(fs) \o Observed(gs)
  BY HearsOn
<1>10. PICK h \in Seq(Events), k \in Seq(Events) : h = Heard(fs) /\ k = Heard(gs)
  BY HeardType
<1>11. Mapped(Promises, h \o k) = Mapped(Promises, h) \o Mapped(Promises, k)
  BY PromisesIs, MappedConcat
<1>12. Told(c \o chunk) = Told(c) \o Mapped(Promises, Heard(es))
  BY <1>7, <1>8, <1>9, <1>10, <1>11 DEF Told
<1>13. Noted(c \o chunk) = Noted(c) \o Observed(es)
  BY <1>7, <1>8, <1>9 DEF Noted
<1>14. Feed(buf, chunk).buf = Kept(c \o chunk)
  BY <1>4 DEF Kept
<1> QED
  BY <1>0, <1>6, <1>12, <1>13, <1>14

\* What has been told stays told, and what was told first stays first.
LEMMA ToldFirst ==
  ASSUME eol \in Eols, NEW c \in Clean, NEW d \in Clean
  PROVE  /\ c \o d \in Clean /\ IsPrefix(Told(c), Told(c \o d))
         /\ Len(Told(c)) \in 0 .. Len(Told(c \o d))
         /\ Told(c) = SubSeq(Told(c \o d), 1, Len(Told(c)))
<1>2. PICK es \in Seq(EventBlocks) : Told(c \o d) = Told(c) \o Mapped(Promises, Heard(es))
  BY FoundMore
<1>3. PICK a \in Seq(Events), b \in Seq(Events) : a = Told(c) /\ b = Mapped(Promises, Heard(es))
  BY <1>2, FoundIs, ForwardedType
<1>4. Len(a) \in Nat /\ Len(b) \in Nat /\ a \o b \in Seq(Events) /\ Len(a \o b) = Len(a) + Len(b)
  BY LenProperties, ConcatProperties
<1>5. SubSeq(a, 1, Len(a)) = a
  BY SubSeqFull
<1>6. SubSeq(a \o b, 1, Len(a)) = a
  <2>1. PICK s \in Seq(Events) : s = SubSeq(a \o b, 1, Len(a))
    BY <1>4, SubSeqProperties
  <2>2. Len(s) = Len(a) /\ \A i \in 1 .. Len(a) : s[i] = (a \o b)[i]
    BY <1>4, <2>1, SubSeqProperties
  <2>3. \A i \in 1 .. Len(a) : (a \o b)[i] = a[i]
    BY ConcatProperties
  <2>4. s = a
    BY <2>2, <2>3, SeqEqual
  <2> QED
    BY <2>1, <2>4
<1>7. IsPrefix(a, a \o b)
  BY <1>4, <1>5, <1>6 DEF IsPrefix
<1>8. c \o d \in Clean
  BY CleanJoin
<1> QED
  BY <1>2, <1>3, <1>4, <1>6, <1>7, <1>8





















\* Of nothing, nothing has come.
LEMMA NothingIs ==
  /\ <<>> \in Clean /\ Kept(<<>>) = <<>> /\ Told(<<>>) = <<>> /\ Noted(<<>>) = <<>>
<1>1. <<>> \in Clean
  BY EmptySeq DEF Clean
<1>2. Split(Lf(<<>>)) = Empty
  BY LfEmpty, SplitUnfold
<1>3. Kept(<<>>) = <<>> /\ Found(<<>>) = <<>>
  BY <1>2 DEF Kept, Found, Empty
<1>4. Heard(<<>>) = <<>> /\ Observed(<<>>) = <<>>
  BY DEF Heard, Observed
<1>5. Told(<<>>) = <<>>
  BY <1>3, <1>4, MappedNone DEF Told
<1>6. Noted(<<>>) = <<>>
  BY <1>3, <1>4 DEF Noted
<1> QED
  BY <1>1, <1>3, <1>5, <1>6

\* The raw path promises the events themselves.
LEMMA RawTold ==
  ASSUME path = "raw", NEW h \in Seq(Events)
  PROVE  Mapped(Promises, h) = h
<1>1. PICK n \in Nat : n = Len(h) /\ DOMAIN h = 1 .. n
  BY LenProperties
<1>2. \A i \in 1 .. n : h[i] \in Events /\ Promises[h[i]] = h[i]
  BY <1>1, ElementOfSeq, PromisedIs DEF Promises
<1>3. Mapped(Promises, h) \in Seq(Events) /\ Len(Mapped(Promises, h)) = n
      /\ \A i \in 1 .. n : Mapped(Promises, h)[i] = Promises[h[i]]
  BY <1>1, PromisesIs, MappedIs
<1>4. PICK m \in Seq(Events) : m = Mapped(Promises, h)
  BY <1>3
<1>5. Len(m) = Len(h) /\ \A i \in 1 .. Len(h) : m[i] = h[i]
  BY <1>1, <1>2, <1>3, <1>4
<1>6. m = h
  BY <1>5, SeqEqual
<1> QED
  BY <1>4, <1>6

\* What the client is promised is what it would be told of the whole stream.
LEMMA OriginalIs ==
  ASSUME eol \in Eols, sent \in Histories
  PROVE  Stream \in Clean /\ Original = Told(Stream)
<1>1. Stream \in Clean
  BY StreamIs DEF Quiet
<1>2. PICK h \in Seq(Events) : h = Read(Stream) /\ h = Heard(Found(Stream))
  <2>1. Found(Stream) \in Seq(Bytes) /\ Read(Stream) = Heard(Found(Stream))
    BY <1>1, FoundIs
  <2> QED
    BY <2>1, HeardType
<1>3. PICK n \in Nat : n = Len(h) /\ DOMAIN h = 1 .. n
  BY LenProperties
<1>4. \A i \in 1 .. n : Promises[h[i]] = Promised(h[i])
  BY <1>3, ElementOfSeq DEF Promises
<1>5. [i \in DOMAIN h |-> Promised(h[i])] = Mapped(Promises, h)
  BY <1>3, <1>4 DEF Mapped
<1> QED
  BY <1>1, <1>2, <1>5 DEF Original, Told

\* The parts agree that c has come of the stream: the meter and the chat path's
\* parser keep what the parser keeps of it, the meter has observed its events,
\* and the client has read what it is to be told of it.
Come(c) ==
  /\ c \in Clean /\ upstream \in Clean /\ Stream = c \o upstream
  /\ meter = [buf |-> Kept(c), seen |-> Noted(c)]
  /\ path = "chat" => /\ rewriter = Kept(c) /\ out \in Bytes
                      /\ ReadOn(Reading, out) = After(Told(c), Reading)
  /\ path = "raw" => out = c

\* What the client has read then.
LEMMA ReadSoFar ==
  ASSUME eol \in Eols, path \in {"chat", "raw"}, NEW c \in Clean, Come(c)
  PROVE  Told(c) \in Seq(Events) /\ Read(out) = Told(c)
<1>1. Told(c) \in Seq(Events)
  BY FoundIs
<1>2. CASE path = "chat"
  <2>1. PICK t \in Seq(Events) : t = Told(c)
    BY <1>1
  <2>2. ReadOn(Reading, out) = After(t, Reading)
    BY <1>2, <2>1 DEF Come
  <2>3. After(t, Reading).events = t
    BY AfterReading
  <2> QED
    BY <2>1, <2>2, <2>3 DEF Read
<1>3. CASE path = "raw"
  <2>1. out = c
    BY <1>3 DEF Come
  <2>2. Found(c) \in Seq(Bytes) /\ Read(c) = Heard(Found(c))
    BY FoundIs
  <2>3. Mapped(Promises, Heard(Found(c))) = Heard(Found(c))
    BY <1>3, <2>2, HeardType, RawTold
  <2> QED
    BY <1>1, <2>1, <2>2, <2>3 DEF Told
<1> QED
  BY <1>1, <1>2, <1>3

\* One more chunk, wherever it is cut.
LEMMA NextChunk ==
  ASSUME eol \in Eols, path \in {"chat", "raw"}, NEW c \in Clean, Come(c), NEW chunk \in Clean
  PROVE  /\ c \o chunk \in Clean
         /\ Metered(chunk) = [buf |-> Kept(c \o chunk), seen |-> Noted(c \o chunk)]
         /\ path = "chat" =>
              /\ Passed(chunk).buf = Kept(c \o chunk) /\ Passed(chunk).out \in Bytes
              /\ ReadOn(Reading, Passed(chunk).out) = After(Told(c \o chunk), Reading)
         /\ path = "raw" => Passed(chunk).out = c \o chunk
<1>2. PICK es \in Seq(EventBlocks) :
        /\ Feed(Kept(c), chunk).buf = Kept(c \o chunk) /\ Feed(Kept(c), chunk).events = es
        /\ Told(c \o chunk) = Told(c) \o Mapped(Promises, Heard(es))
        /\ Noted(c \o chunk) = Noted(c) \o Observed(es)
  BY FoundMore
<1>3. Metered(chunk) = [buf |-> Kept(c \o chunk), seen |-> Noted(c \o chunk)]
  BY <1>2 DEF Come, Metered
<1>4. c \o chunk \in Clean
  BY CleanJoin
<1>5. CASE path = "chat"
  <2>1. Passed(chunk).buf = Kept(c \o chunk) /\ Passed(chunk).out = out \o Forwarded(es)
    BY <1>2, <1>5 DEF Come, Passed
  <2>2. PICK f \in Bytes, m \in Seq(Events) :
          /\ f = Forwarded(es) /\ m = Mapped(Promises, Heard(es))
          /\ ReadOn(Reading, f) = After(m, Reading)
    BY <1>2, <1>5, ForwardedIs
  <2>3. PICK o \in Bytes, t \in Seq(Events) :
          o = out /\ t = Told(c) /\ ReadOn(Reading, o) = After(t, Reading)
    BY <1>5, FoundIs DEF Come
  <2>4. o \o f \in Bytes
    BY ConcatProperties DEF Bytes
  <2>5. ReadOn(Reading, o \o f) = ReadOn(ReadOn(Reading, o), f)
    BY ReadConcat, ReadingType
  <2>6. ReadOn(After(t, Reading), f) = After(t, ReadOn(Reading, f))
    BY ReadAfter, ReadingType
  <2>7. After(t, After(m, Reading)) = After(t \o m, Reading)
    BY AfterAfter, ReadingType
  <2>8. ReadOn(Reading, o \o f) = After(t \o m, Reading)
    BY <2>2, <2>3, <2>5, <2>6, <2>7
  <2> QED
    BY <1>2, <1>3, <1>4, <1>5, <2>1, <2>2, <2>3, <2>4, <2>8
<1>6. CASE path = "raw"
  <2>1. Passed(chunk).out = c \o chunk
    BY <1>6 DEF Come, Passed
  <2> QED
    BY <1>3, <1>4, <1>6, <2>1
<1> QED
  BY <1>5, <1>6

\* Nothing is left to flush when the whole stream has come.
LEMMA NothingLeft ==
  ASSUME NEW c, Quiet(c)
  PROVE  Flush(Kept(c)) = <<>>
<1>1. Kept(c) \in {<<>>, <<LF>>}
  BY DEF Quiet, Kept
<1>2. PICK none : none = <<>>
  OBVIOUS
<1>3. none \in Bytes /\ Append(none, LF) = <<LF>>
  BY <1>2, EmptySeq DEF Bytes
<1>4. Parse(<<>>) = Blank /\ Blank \in ParseStates
  BY EmptySeq, ParseUnfold DEF Bytes
<1>5. Blank.line = <<>> /\ Blank.data = <<>>
  BY DEF Blank
<1>6. DataSoFar(Blank) = <<>>
  BY <1>5 DEF DataSoFar
<1>7. Parse(Append(none, LF)) = Parsed(Parse(none), LF)
  BY <1>3, ParseUnfold, TokensAre
<1>8. Parsed(Blank, LF).line = <<>> /\ Parsed(Blank, LF).data = DataSoFar(Blank)
  BY <1>4, ParsedIs, TokensAre
<1>9. DataSoFar(Parsed(Blank, LF)) = <<>>
  BY <1>6, <1>8 DEF DataSoFar
<1>10. Payload(<<>>) = <<>> /\ Payload(<<LF>>) = <<>>
  BY <1>2, <1>3, <1>4, <1>6, <1>7, <1>9, PayloadIs
<1> QED
  BY <1>1, <1>10 DEF Flush

\* The promise keeps an event's payloads apart from its name.
LEMMA PromisedData ==
  ASSUME NEW e \in Events, NEW f \in Events, e.data = f.data
  PROVE  Promised(e).data = Promised(f).data
BY DEF Promised, Events



\* Each event told is the promise of one with the payloads the meter observed.
LEMMA ToldIs ==
  ASSUME eol \in Eols, NEW c \in Clean, NEW i \in 1 .. Len(Found(c))
  PROVE  \E e \in Events : e.data = Noted(c)[i] /\ Told(c)[i] = Promised(e)
<1>1. PICK fs \in Seq(Bytes) : fs = Found(c)
  BY FoundIs
<1>2. PICK n \in Nat : n = Len(fs) /\ DOMAIN fs = 1 .. n
  BY LenProperties
<1>3. i \in 1 .. n /\ fs[i] \in EventBlocks
  BY <1>1, <1>2, FoundIs, ElementOfSeq
<1>4. fs[i] \in Bytes /\ IsEvent(fs[i])
  BY <1>3 DEF EventBlocks
<1>5. EventOf(fs[i]) \in Events /\ EventOf(fs[i]).data = Payload(fs[i])
  BY <1>4, EventOfType DEF IsEvent, EventOf
<1>6. Noted(c)[i] = Payload(fs[i])
  BY <1>1, <1>2, <1>3 DEF Noted, Observed
<1>7. PICK h \in Seq(Events) : h = Heard(fs) /\ Len(h) = n /\ h[i] = EventOf(fs[i])
  BY <1>2, <1>3, HeardType
<1>8. Mapped(Promises, h)[i] = Promises[h[i]]
  BY <1>3, <1>7, PromisesIs, MappedIs
<1>9. Promises[h[i]] = Promised(h[i])
  BY <1>5, <1>7 DEF Promises
<1>10. Told(c)[i] = Promised(EventOf(fs[i]))
  BY <1>1, <1>7, <1>8, <1>9 DEF Told
<1> QED
  BY <1>5, <1>6, <1>10

\* An event is the sentinel exactly if it is so as promised.
LEMMA PromisedDone ==
  ASSUME path \in {"chat", "raw"}, shift \in BOOLEAN, NEW e \in Events
  PROVE  IsDone(Promised(e)) <=> IsDone(e)
<1>1. PICK d : d = Done
  OBVIOUS
<1>2. d # Thought /\ d # Thoughts /\ d # Shifted /\ d # Used /\ d \in Tokens
  BY <1>1, TokensAre DEF Done, Thought, Thoughts, Shifted, Used
<1>3. \A f : IsDone(f) <=> f.data = << <<d>> >>
  BY <1>1, <1>2, EventIs DEF IsDone
<1>4. ASSUME NEW f \in Events
      PROVE  IsDone(CachedEvent(f)) <=> IsDone(f)
  <2>1. PICK ds \in Seq(Bytes) : ds = f.data
    BY DEF Events
  <2>2. PICK cs \in Seq(Bytes) : /\ cs = CachedEvent(f).data /\ Len(cs) = Len(ds)
                                 /\ \A i \in 1 .. Len(ds) : cs[i] = Cached(ds[i])
    <3>1. Maps(CachedLines, Bytes, Bytes) /\ CachedEvent(f).data = Mapped(CachedLines, ds)
      BY <2>1, CachedEventIs
    <3>2. PICK cs : cs = Mapped(CachedLines, ds)
      OBVIOUS
    <3>3. cs \in Seq(Bytes) /\ Len(cs) = Len(ds)
          /\ \A i \in 1 .. Len(ds) : cs[i] = CachedLines[ds[i]]
      BY <3>1, <3>2, MappedIs
    <3>4. \A i \in 1 .. Len(ds) : CachedLines[ds[i]] = Cached(ds[i])
      BY ElementOfSeq DEF CachedLines
    <3> QED
      BY <3>1, <3>2, <3>3, <3>4
  <2>3. IsDone(f) <=> Len(ds) = 1 /\ ds[1] = <<d>>
    BY <1>3, <2>1
  <2>4. IsDone(CachedEvent(f)) <=> Len(cs) = 1 /\ cs[1] = <<d>>
    BY <1>3, <2>2
  <2>5. ASSUME Len(ds) = 1
        PROVE  cs[1] = <<d>> <=> ds[1] = <<d>>
    <3>1. PICK l \in Bytes : l = ds[1] /\ cs[1] = Cached(l)
      BY <2>2, <2>5, ElementOfSeq
    <3>2. Len(Cached(l)) = Len(l) /\ \A i \in 1 .. Len(l) : Cached(l)[i] = AsCached(l[i])
      BY CachedIs
    <3>3. PICK k \in Bytes : k = Cached(l)
      BY CachedIs
    <3>4. k = <<d>> <=> Len(k) = 1 /\ k[1] = d
      BY DEF Bytes
    <3>5. l = <<d>> <=> Len(l) = 1 /\ l[1] = d
      BY DEF Bytes
    <3>6. Len(l) = 1 => k[1] = AsCached(l[1])
      BY <3>2, <3>3
    <3>7. AsCached(l[1]) = d <=> l[1] = d
      BY <1>2 DEF AsCached
    <3> QED
      BY <3>1, <3>2, <3>3, <3>4, <3>5, <3>6, <3>7
  <2> QED
    BY <2>2, <2>3, <2>4, <2>5
<1>5. ASSUME NEW f \in Events
      PROVE  IsDone(Renamed(f)) <=> IsDone(f)
  <2>1. PICK a, b : a = Thought /\ b = Thoughts
    OBVIOUS
  <2>2. Event(a).data = << <<a>> >> /\ Event(b).data = << <<b>> >>
    BY DEF Event
  <2>3. << <<a>> >> # << <<d>> >> /\ << <<b>> >> # << <<d>> >>
    BY <1>2, <2>1
  <2>4. CASE f.data = << <<a>> >>
    <3>1. Renamed(f) = Event(b)
      BY <2>1, <2>2, <2>4 DEF Renamed
    <3> QED
      BY <1>3, <2>2, <2>3, <2>4, <3>1
  <2>5. CASE f.data # << <<a>> >>
    <3>1. Renamed(f) = f
      BY <2>1, <2>2, <2>5 DEF Renamed
    <3> QED
      BY <3>1
  <2> QED
    BY <2>4, <2>5
<1>6. Renamed(e) \in Events
  BY RenamedType
<1>7. CASE path = "raw"
  BY <1>7, PromisedIs
<1>8. CASE path = "chat" /\ ~shift
  BY <1>5, <1>8, PromisedIs
<1>9. CASE path = "chat" /\ shift
  <2>1. Promised(e) = CachedEvent(Renamed(e))
    BY <1>9, PromisedIs
  <2>2. IsDone(CachedEvent(Renamed(e))) <=> IsDone(Renamed(e))
    BY <1>4, <1>6
  <2>3. IsDone(Renamed(e)) <=> IsDone(e)
    BY <1>5
  <2> QED
    BY <2>1, <2>2, <2>3
<1> QED
  BY <1>7, <1>8, <1>9

\* The meter has seen the sentinel exactly if the client is told of it.
LEMMA SawDoneIs ==
  ASSUME eol \in Eols, path \in {"chat", "raw"}, shift \in BOOLEAN, NEW c \in Clean
  PROVE  SawDone(Noted(c)) <=> \E i \in DOMAIN Told(c) : IsDone(Told(c)[i])
<1>1. PICK n \in Nat : n = Len(Found(c)) /\ DOMAIN Told(c) = 1 .. n /\ DOMAIN Noted(c) = 1 .. n
  <2>1. Len(Told(c)) = Len(Found(c)) /\ Len(Noted(c)) = Len(Found(c))
    BY FoundIs
  <2>2. DOMAIN Told(c) = 1 .. Len(Told(c)) /\ DOMAIN Noted(c) = 1 .. Len(Noted(c))
        /\ Len(Told(c)) \in Nat
    BY FoundIs, LenProperties
  <2> QED
    BY <2>1, <2>2
<1>2. ASSUME NEW i \in 1 .. n
      PROVE  Noted(c)[i] = << <<Done>> >> <=> IsDone(Told(c)[i])
  <2>1. PICK e \in Events : e.data = Noted(c)[i] /\ Told(c)[i] = Promised(e)
    BY <1>1, ToldIs
  <2>2. IsDone(Promised(e)) <=> IsDone(e)
    BY PromisedDone
  <2>3. IsDone(e) <=> e.data = << <<Done>> >>
    BY TokensAre, EventIs DEF IsDone
  <2> QED
    BY <2>1, <2>2, <2>3
<1> QED
  BY <1>1, <1>2 DEF SawDone

\* The meter has observed what the client can read.
LEMMA MeterIs ==
  ASSUME eol \in Eols, path \in {"chat", "raw"}, NEW c \in Clean, Come(c)
  PROVE  MeterAgrees
<1>1. Read(out) = Told(c) /\ meter.seen = Noted(c)
  BY ReadSoFar DEF Come
<1>2. PICK n \in Nat : n = Len(Found(c)) /\ DOMAIN Told(c) = 1 .. n /\ DOMAIN Noted(c) = 1 .. n
  <2>1. Len(Told(c)) = Len(Found(c)) /\ Len(Noted(c)) = Len(Found(c))
    BY FoundIs
  <2>2. DOMAIN Told(c) = 1 .. Len(Told(c)) /\ DOMAIN Noted(c) = 1 .. Len(Noted(c))
        /\ Len(Told(c)) \in Nat
    BY FoundIs, LenProperties
  <2> QED
    BY <2>1, <2>2
<1>3. ASSUME NEW i \in 1 .. n
      PROVE  Promised([named |-> FALSE, data |-> Noted(c)[i]]).data = Told(c)[i].data
  <2>1. PICK e \in Events : e.data = Noted(c)[i] /\ Told(c)[i] = Promised(e)
    BY <1>2, ToldIs
  <2>2. PICK f : f = [named |-> FALSE, data |-> e.data]
    OBVIOUS
  <2>3. f \in Events /\ f.data = e.data
    BY <2>2 DEF Events
  <2>4. Promised(f).data = Promised(e).data
    BY <2>3, PromisedData
  <2> QED
    BY <2>1, <2>2, <2>4
<1>4. [i \in DOMAIN Noted(c) |-> Promised([named |-> FALSE, data |-> Noted(c)[i]]).data]
        = [i \in DOMAIN Told(c) |-> Told(c)[i].data]
  BY <1>2, <1>3
<1> QED
  BY <1>1, <1>4 DEF MeterAgrees

\* An event of one payload is read after what has been read up to a blank line.
LEMMA ReadOneMore ==
  ASSUME NEW o \in Bytes, NEW p \in Tokens \ {CR, LF}, AtRest(ReadOn(Reading, o))
  PROVE  /\ o \o <<"data", p, LF, LF>> \in Bytes /\ Read(o) \in Seq(Events)
         /\ ReadOn(Reading, o \o <<"data", p, LF, LF>>) = After(Append(Read(o), Event(p)), Reading)
         /\ Read(o \o <<"data", p, LF, LF>>) = Append(Read(o), Event(p))
         /\ AtRest(ReadOn(Reading, o \o <<"data", p, LF, LF>>))
<1>1. PICK r, d : r = ReadOn(Reading, o) /\ d = <<"data", p, LF, LF>>
  OBVIOUS
<1>2. AtRest(r) /\ r.events \in Seq(Events)
  BY <1>1 DEF AtRest, Readers
<1>3. d \in Bytes /\ ReadOn(r, d) = After(Append(r.events, Event(p)), Reading)
  BY <1>1, <1>2, ReadDataEvent
<1>4. o \o d \in Bytes /\ ReadOn(Reading, o \o d) = ReadOn(ReadOn(Reading, o), d)
  BY <1>3, ConcatProperties, ReadConcat, ReadingType DEF Bytes
<1>5. PICK es \in Seq(Events) : es = Append(r.events, Event(p))
  BY <1>2, EventIs, AppendProperties
<1>6. AtRest(After(es, Reading)) /\ After(es, Reading).events = es
  BY AfterReading
<1>7. r.events = Read(o)
  BY <1>1 DEF Read
<1>8. ReadOn(Reading, o \o d) = After(es, Reading)
  BY <1>1, <1>3, <1>4, <1>5
<1>9. Read(o \o d) = es
  BY <1>6, <1>8 DEF Read
<1> QED
  BY <1>1, <1>2, <1>4, <1>5, <1>6, <1>7, <1>8, <1>9

\* A client of the chat path is between two events.
LEMMA ChatAtRest ==
  ASSUME eol \in Eols, path = "chat", NEW c \in Clean, Come(c)
  PROVE  out \in Bytes /\ AtRest(ReadOn(Reading, out))
<1>1. PICK t \in Seq(Events) : t = Told(c)
  BY FoundIs
<1>2. out \in Bytes /\ ReadOn(Reading, out) = After(t, Reading)
  BY <1>1 DEF Come
<1>3. AtRest(After(t, Reading))
  BY AfterReading
<1> QED
  BY <1>2, <1>3

\* The sentinel the chat path adds.
LEMMA ReadSentinel ==
  ASSUME eol \in Eols, path = "chat", NEW c \in Clean, Come(c)
  PROVE  Read(out \o Sentinel) = Append(Told(c), Event(Done))
<1>1. PICK o \in Bytes : o = out /\ AtRest(ReadOn(Reading, o)) /\ Read(o) = Told(c)
  BY ChatAtRest, ReadSoFar
<1>2. PICK d \in Tokens \ {CR, LF} : d = Done
  BY TokensAre
<1>3. Read(o \o <<"data", d, LF, LF>>) = Append(Read(o), Event(d))
  BY <1>1, ReadOneMore
<1> QED
  BY <1>1, <1>2, <1>3 DEF Sentinel

\* Single elements, joined.
LEMMA OnesJoin ==
  ASSUME NEW S, NEW x \in S, NEW y \in S
  PROVE  <<x>> \in Seq(S) /\ <<y>> \in Seq(S) /\ <<x>> \o <<y>> = <<x, y>>
<1>1. PICK a, b, c : a = <<x>> /\ b = <<y>> /\ c = <<x, y>>
  OBVIOUS
<1>2. a \in Seq(S) /\ b \in Seq(S) /\ Len(a) = 1 /\ Len(b) = 1 /\ a[1] = x /\ b[1] = y
  BY <1>1
<1>3. c \in Seq(S) /\ Len(c) = 2 /\ c[1] = x /\ c[2] = y
  BY <1>1
<1>4. a \o b \in Seq(S) /\ Len(a \o b) = 2 /\ (a \o b)[1] = x /\ (a \o b)[2] = y
  BY <1>2, ConcatProperties
<1>5. PICK d \in Seq(S) : d = a \o b
  BY <1>4
<1>6. Len(d) = Len(c) /\ \A i \in 1 .. Len(d) : d[i] = c[i]
  BY <1>3, <1>4, <1>5
<1>7. d = c
  BY <1>3, <1>6, SeqEqual
<1> QED
  BY <1>1, <1>2, <1>5, <1>7

\* Pairs, joined.
LEMMA PairsJoin ==
  ASSUME NEW S, NEW x \in S, NEW y \in S, NEW z \in S, NEW w \in S
  PROVE  <<x, y>> \in Seq(S) /\ <<z, w>> \in Seq(S) /\ <<x, y>> \o <<z, w>> = <<x, y, z, w>>
<1>1. PICK a, b, c : a = <<x, y>> /\ b = <<z, w>> /\ c = <<x, y, z, w>>
  OBVIOUS
<1>2. /\ a \in Seq(S) /\ b \in Seq(S) /\ Len(a) = 2 /\ Len(b) = 2
      /\ a[1] = x /\ a[2] = y /\ b[1] = z /\ b[2] = w
  BY <1>1
<1>3. c \in Seq(S) /\ Len(c) = 4 /\ c[1] = x /\ c[2] = y /\ c[3] = z /\ c[4] = w
  BY <1>1
<1>4. /\ a \o b \in Seq(S) /\ Len(a \o b) = 4
      /\ (a \o b)[1] = x /\ (a \o b)[2] = y /\ (a \o b)[3] = z /\ (a \o b)[4] = w
  BY <1>2, ConcatProperties
<1>5. PICK d \in Seq(S) : d = a \o b
  BY <1>4
<1>6. Len(d) = Len(c) /\ \A i \in 1 .. Len(d) : d[i] = c[i]
  BY <1>3, <1>4, <1>5
<1>7. d = c
  BY <1>3, <1>6, SeqEqual
<1> QED
  BY <1>1, <1>2, <1>5, <1>7

\* The error event, after a blank line.
LEMMA ReadFailure ==
  ASSUME NEW o \in Bytes, AtRest(ReadOn(Reading, o))
  PROVE  /\ Read((o \o Data(Failure)) \o <<LF, LF>>) = Append(Read(o), Event(Failure))
         /\ (o \o Data(Failure)) \o <<LF, LF>> \in Bytes
         /\ AtRest(ReadOn(Reading, (o \o Data(Failure)) \o <<LF, LF>>))
<1>1. PICK p \in Tokens \ {CR, LF} : p = Failure
  BY TokensAre
<1>2. PICK a, b : a = <<"data", p>> /\ b = <<LF, LF>>
  OBVIOUS
<1>3. a \in Bytes /\ b \in Bytes
  BY <1>2, TokensAre DEF Bytes
<1>4. a \o b = <<"data", p, LF, LF>>
  <2>1. PICK d \in Tokens, l \in Tokens, k \in Tokens : d = "data" /\ l = LF /\ k = p
    BY TokensAre
  <2>2. <<d, k>> \o <<l, l>> = <<d, k, l, l>>
    BY PairsJoin
  <2> QED
    BY <1>2, <2>1, <2>2
<1>5. (o \o a) \o b = o \o (a \o b)
  BY <1>3, ConcatAssociative DEF Bytes
<1>6. (o \o Data(Failure)) \o <<LF, LF>> = o \o <<"data", p, LF, LF>>
  BY <1>1, <1>2, <1>4, <1>5 DEF Data
<1>7. /\ o \o <<"data", p, LF, LF>> \in Bytes
      /\ Read(o \o <<"data", p, LF, LF>>) = Append(Read(o), Event(p))
      /\ AtRest(ReadOn(Reading, o \o <<"data", p, LF, LF>>))
  BY ReadOneMore
<1> QED
  BY <1>1, <1>6, <1>7

\* The error event and the sentinel of the chat path.
LEMMA ReadBroken ==
  ASSUME eol \in Eols, path = "chat", NEW c \in Clean, Come(c)
  PROVE  Read(((out \o Data(Failure)) \o <<LF, LF>>) \o Sentinel)
           = Told(c) \o <<Event(Failure), Event(Done)>>
<1>1. PICK o \in Bytes : o = out /\ AtRest(ReadOn(Reading, o)) /\ Read(o) = Told(c)
  BY ChatAtRest, ReadSoFar
<1>2. PICK q : q = (o \o Data(Failure)) \o <<LF, LF>>
  OBVIOUS
<1>3. q \in Bytes /\ AtRest(ReadOn(Reading, q)) /\ Read(q) = Append(Read(o), Event(Failure))
  BY <1>1, <1>2, ReadFailure
<1>4. PICK d \in Tokens \ {CR, LF} : d = Done
  BY TokensAre
<1>5. Read(q \o <<"data", d, LF, LF>>) = Append(Read(q), Event(d))
  BY <1>3, ReadOneMore
<1>6. PICK t \in Seq(Events), e \in Events, f \in Events :
        t = Told(c) /\ e = Event(Failure) /\ f = Event(Done)
  BY FoundIs, EventIs, TokensAre
<1>7. Append(Append(t, e), f) = t \o <<e, f>>
  <2>1. PICK a, b : a = <<e>> /\ b = <<f>>
    OBVIOUS
  <2>2. a \in Seq(Events) /\ b \in Seq(Events) /\ a \o b = <<e, f>>
    <3>1. <<e>> \in Seq(Events) /\ <<f>> \in Seq(Events) /\ <<e>> \o <<f>> = <<e, f>>
      BY OnesJoin
    <3> QED
      BY <2>1, <3>1
  <2>6. a \in Seq(Events) /\ b \in Seq(Events)
    BY <2>2
  <2>3. Append(t, e) \in Seq(Events) /\ Append(t, e) = t \o a
    BY <2>1, AppendIsConcat, AppendProperties
  <2>4. Append(Append(t, e), f) = Append(t, e) \o b
    BY <2>1, <2>3, AppendIsConcat
  <2>5. (t \o a) \o b = t \o (a \o b)
    BY <2>6, ConcatAssociative
  <2> QED
    BY <2>2, <2>3, <2>4, <2>5
<1> QED
  BY <1>1, <1>2, <1>3, <1>4, <1>5, <1>6, <1>7 DEF Sentinel

-----------------------------------------------------------------------------
(* The invariant.                                                          *)

\* While the stream is open, some of it has come; when it has ended, the client
\* has the events it was promised.
RelayIInv ==
  /\ path \in {"chat", "raw"} /\ eol \in Eols /\ shift \in BOOLEAN /\ sent \in Histories
  /\ phase \in {"open", "complete", "broken"}
  /\ phase = "open" => \E c \in Clean : Come(c)
  /\ phase # "open" => EventsArriveAsSent

\* What the client has read of what has come begins what it was promised.
LEMMA ToldBegins ==
  ASSUME eol \in Eols, sent \in Histories, NEW c \in Clean, Come(c)
  PROVE  /\ IsPrefix(Told(c), Original)
         /\ \E n \in 0 .. Len(Original) : Told(c) = SubSeq(Original, 1, n)
<1>1. PICK u \in Clean : u = upstream /\ Stream = c \o u
  BY DEF Come
<1>2. Original = Told(c \o u)
  BY <1>1, OriginalIs
<1>3. /\ IsPrefix(Told(c), Told(c \o u)) /\ Len(Told(c)) \in 0 .. Len(Told(c \o u))
      /\ Told(c) = SubSeq(Told(c \o u), 1, Len(Told(c)))
  BY ToldFirst
<1> QED
  BY <1>2, <1>3

\* The events have arrived as sent, in the middle of the stream and after it.
LEMMA InvArrives == RelayIInv => EventsArriveAsSent /\ MeterAgrees
<1> SUFFICES ASSUME RelayIInv
             PROVE  EventsArriveAsSent /\ MeterAgrees
  OBVIOUS
<1>1. eol \in Eols /\ path \in {"chat", "raw"} /\ sent \in Histories
  BY DEF RelayIInv
<1>2. CASE phase = "open"
  <2>1. PICK c \in Clean : Come(c)
    BY <1>2 DEF RelayIInv
  <2>2. IsPrefix(Told(c), Original) /\ Read(out) = Told(c)
    BY <1>1, <2>1, ToldBegins, ReadSoFar
  <2>3. EventsArriveAsSent
    BY <1>2, <2>2 DEF EventsArriveAsSent
  <2> QED
    BY <1>1, <2>1, <2>3, MeterIs
<1>3. CASE phase # "open"
  BY <1>3 DEF RelayIInv, MeterAgrees
<1> QED
  BY <1>2, <1>3

\* Nothing has come of the stream when it begins, and all of it will.
LEMMA RelayInitInv ==
  ASSUME LineEnds \subseteq Eols, Tails = {0}, RelayInit
  PROVE  RelayIInv
<1>1. path \in {"chat", "raw"} /\ eol \in Eols /\ shift \in BOOLEAN /\ sent \in Histories
  BY RelayAssumption DEF RelayInit
<1>2. Stream \in Clean
  BY <1>1, OriginalIs
<1>3. upstream = Stream
  <2>1. PICK s \in Clean : s = Stream
    BY <1>2
  <2>2. s \in Seq(Alphabet)
    BY DEF Clean
  <2>3. PICK m \in Nat : m = Len(s) /\ m - 0 * Len(eol) = m
    <3>1. Len(eol) \in Nat
      BY <1>1 DEF Eols
    <3> QED
      BY <2>2, <3>1, LenProperties
  <2>4. SubSeq(s, 1, Len(s)) = s
    BY <2>2, SubSeqFull
  <2>5. upstream = SubSeq(s, 1, Len(s) - 0 * Len(eol))
    BY <2>1 DEF RelayInit
  <2> QED
    BY <2>1, <2>3, <2>4, <2>5
<1>4. <<>> \o Stream = Stream
  BY <1>2, ConcatEmptySeq DEF Clean
<1>5. ReadOn(Reading, <<>>) = After(<<>>, Reading)
  <2>1. ReadOn(Reading, <<>>) = Reading
    BY ReadOnUnfold, ReadingType
  <2>2. PICK none \in Seq(Events) : none = <<>>
    BY EmptySeq
  <2>3. /\ After(none, Reading) \in Readers /\ AtRest(After(none, Reading))
        /\ ~After(none, Reading).cr /\ After(none, Reading).events = none
    BY AfterReading
  <2>4. After(none, Reading) = Reading
    BY <2>2, <2>3, SameReaders, ReadingType DEF AtRest
  <2> QED
    BY <2>1, <2>2, <2>4
<1>6. Come(<<>>)
  <2>1. <<>> \in Bytes
    BY EmptySeq DEF Bytes
  <2> QED
    BY <1>2, <1>3, <1>4, <1>5, <2>1, NothingIs DEF Come, RelayInit
<1>7. phase = "open"
  BY DEF RelayInit
<1> QED
  BY <1>1, <1>6, <1>7, NothingIs DEF RelayIInv



\* What is fixed when the request begins stays, and what depends on it alone.
LEMMA Unmoved ==
  ASSUME path' = path, eol' = eol, shift' = shift, sent' = sent
  PROVE  /\ Stream' = Stream /\ Original' = Original /\ Clean' = Clean /\ Eols' = Eols
         /\ \A s : Told(s)' = Told(s)
<1>1. Stream' = Stream
  BY DEF Stream, Wire
<1>2. Original' = Original
  BY <1>1 DEF Original, Promised
<1>3. Clean' = Clean /\ Eols' = Eols
  BY DEF Clean, Alphabet, Eols
<1>4. \A s : Told(s)' = Told(s)
  BY DEF Told, Promises, Promised
<1> QED
  BY <1>1, <1>2, <1>3, <1>4

\* A chunk.
LEMMA ReceiveInv ==
  ASSUME RelayIInv, Receive
  PROVE  RelayIInv'
<1>1. eol \in Eols /\ path \in {"chat", "raw"} /\ phase = "open"
  BY DEF RelayIInv, Receive
<1>2. PICK c \in Clean : Come(c)
  BY <1>1 DEF RelayIInv
<1>3. PICK n \in 1 .. Len(upstream) :
        LET chunk == SubSeq(upstream, 1, n)
            after == Passed(chunk)
        IN  /\ upstream' = SubSeq(upstream, n + 1, Len(upstream))
            /\ meter' = Metered(chunk)
            /\ rewriter' = after.buf /\ out' = after.out
  BY DEF Receive
<1>4. PICK chunk \in Clean, rest \in Clean, u \in Clean :
        /\ chunk = SubSeq(upstream, 1, n) /\ rest = SubSeq(upstream, n + 1, Len(upstream))
        /\ u = upstream /\ u = chunk \o rest
  <2>1. PICK A : A = Alphabet
    OBVIOUS
  <2>2. PICK u \in Seq(A) : u = upstream
    BY <1>2, <2>1 DEF Come, Clean
  <2>3. n \in 1 .. Len(u)
    BY <2>2
  <2>4. SubSeq(u, 1, n) \in Seq(A) /\ SubSeq(u, n + 1, Len(u)) \in Seq(A)
    BY <2>3, SubSeqProperties
  <2>5. SubSeq(u, 1, n) \o SubSeq(u, n + 1, Len(u)) = SubSeq(u, 1, Len(u))
    BY <2>3, ConcatAdjacentSubSeq
  <2>6. SubSeq(u, 1, Len(u)) = u
    BY SubSeqFull
  <2> QED
    BY <2>1, <2>2, <2>4, <2>5, <2>6 DEF Clean
<1>5. /\ c \o chunk \in Clean
      /\ Metered(chunk) = [buf |-> Kept(c \o chunk), seen |-> Noted(c \o chunk)]
      /\ path = "chat" =>
           /\ Passed(chunk).buf = Kept(c \o chunk) /\ Passed(chunk).out \in Bytes
           /\ ReadOn(Reading, Passed(chunk).out) = After(Told(c \o chunk), Reading)
      /\ path = "raw" => Passed(chunk).out = c \o chunk
  BY <1>1, <1>2, NextChunk
<1>6. PICK d \in Clean : d = c \o chunk
  BY <1>5
<1>7. Stream = d \o rest
  <2>1. c \o (chunk \o rest) = (c \o chunk) \o rest
    <3>1. PICK A : A = Alphabet
      OBVIOUS
    <3>2. c \in Seq(A) /\ chunk \in Seq(A) /\ rest \in Seq(A)
      BY <3>1 DEF Clean
    <3> QED
      BY <3>2, ConcatAssociative
  <2> QED
    BY <1>2, <1>4, <1>6, <2>1 DEF Come
<1>8. path' = path /\ eol' = eol /\ shift' = shift /\ sent' = sent /\ phase' = phase
  BY DEF Receive
<1>9. Stream' = Stream /\ Clean' = Clean /\ Eols' = Eols /\ \A s : Told(s)' = Told(s)
  BY <1>8, Unmoved
<1>10. upstream' = rest /\ meter' = [buf |-> Kept(d), seen |-> Noted(d)]
  BY <1>3, <1>4, <1>5, <1>6
<1>11. path = "chat" => /\ rewriter' = Kept(d) /\ out' \in Bytes
                        /\ ReadOn(Reading, out') = After(Told(d), Reading)
  BY <1>3, <1>4, <1>5, <1>6
<1>12. path = "raw" => out' = d
  BY <1>3, <1>4, <1>5, <1>6
<1>13. Come(d)'
  <2>1. Told(d)' = Told(d)
    BY <1>9
  <2> QED
    BY <1>4, <1>7, <1>8, <1>9, <1>10, <1>11, <1>12, <2>1 DEF Come
<1>14. (\E k \in Clean : Come(k))'
  BY <1>9, <1>13
<1> QED
  BY <1>1, <1>8, <1>9, <1>14 DEF RelayIInv, Histories

\* The stream ends: all of it has come, and no event is left in a parser.
LEMMA FinishInv ==
  ASSUME RelayIInv, Finish
  PROVE  RelayIInv'
<1>1. /\ eol \in Eols /\ path \in {"chat", "raw"} /\ shift \in BOOLEAN /\ sent \in Histories
      /\ phase = "open" /\ upstream = <<>>
  BY DEF RelayIInv, Finish
<1>2. PICK c \in Clean : Come(c)
  BY <1>1 DEF RelayIInv
<1>3. Stream = c
  <2>1. c \o <<>> = c
    BY ConcatEmptySeq DEF Clean
  <2> QED
    BY <1>1, <1>2, <2>1 DEF Come
<1>4. Flush(Kept(c)) = <<>>
  BY <1>1, <1>3, StreamIs, NothingLeft
<1>5. Original = Told(c) /\ Read(out) = Told(c)
  BY <1>1, <1>2, <1>3, OriginalIs, ReadSoFar
<1>6. Flush(meter.buf) = <<>> /\ meter.seen = Noted(c)
  BY <1>2, <1>4 DEF Come
<1>7. Observed(<<>>) = <<>> /\ Noted(c) \o <<>> = Noted(c)
  <2>1. PICK T : T = Seq(Bytes)
    OBVIOUS
  <2>2. PICK s \in Seq(T) : s = Noted(c)
    BY <1>1, <2>1, FoundIs
  <2>3. s \o <<>> = s
    BY ConcatEmptySeq
  <2> QED
    BY <2>2, <2>3 DEF Observed
<1>8. path = "raw" => out' = out
  BY <1>6 DEF Finish
<1>9. path = "chat" => out' = out \o (IF SawDone(Noted(c)) THEN <<>> ELSE Sentinel)
  <2> SUFFICES ASSUME path = "chat"
               PROVE  out' = out \o (IF SawDone(Noted(c)) THEN <<>> ELSE Sentinel)
    OBVIOUS
  <2>1. PICK o \in Bytes : o = out /\ o \o <<>> = o
    BY <1>1, <1>2, ChatAtRest, ConcatEmptySeq DEF Bytes
  <2>2. Flush(rewriter) = <<>>
    BY <1>2, <1>4 DEF Come
  <2>3. FlattenSeq([i \in DOMAIN <<>> |-> Rewritten(<<>>[i])]) = <<>>
    BY DEF FlattenSeq
  <2>4. out' = (out \o FlattenSeq([i \in DOMAIN <<>> |-> Rewritten(<<>>[i])]))
                 \o (IF SawDone(Noted(c)) THEN <<>> ELSE Sentinel)
    BY <1>6, <1>7, <2>2 DEF Finish
  <2> QED
    BY <2>1, <2>3, <2>4
<1>10. SawDone(Noted(c)) <=> \E i \in DOMAIN Told(c) : IsDone(Told(c)[i])
  BY <1>1, SawDoneIs
<1>11. path = "chat" => Read(out') = Sealed(Original)
  <2> SUFFICES ASSUME path = "chat"
               PROVE  Read(out') = Sealed(Original)
    OBVIOUS
  <2>1. CASE SawDone(Noted(c))
    <3>1. PICK o \in Bytes : o = out /\ o \o <<>> = o
      BY <1>1, <1>2, ChatAtRest, ConcatEmptySeq DEF Bytes
    <3>2. out' = out
      BY <1>9, <2>1, <3>1
    <3> QED
      BY <1>5, <1>10, <2>1, <3>2 DEF Sealed
  <2>2. CASE ~SawDone(Noted(c))
    <3>1. out' = out \o Sentinel
      BY <1>9, <2>2
    <3>2. Read(out \o Sentinel) = Append(Told(c), Event(Done))
      BY <1>1, <1>2, ReadSentinel
    <3> QED
      BY <1>5, <1>10, <2>2, <3>1, <3>2 DEF Sealed
  <2> QED
    BY <2>1, <2>2
<1>12. path = "raw" => Read(out') = Original
  BY <1>5, <1>8
<1>13. path' = path /\ eol' = eol /\ shift' = shift /\ sent' = sent /\ phase' = "complete"
  BY DEF Finish
<1>14. Original' = Original /\ Eols' = Eols
  BY <1>13, Unmoved
<1>15. EventsArriveAsSent'
  BY <1>1, <1>11, <1>12, <1>13, <1>14 DEF EventsArriveAsSent
<1> QED
  BY <1>1, <1>13, <1>14, <1>15 DEF RelayIInv, Histories

\* The stream breaks off: the error event comes after whole events.
LEMMA BreakInv ==
  ASSUME RelayIInv, Break
  PROVE  RelayIInv'
<1>1. /\ eol \in Eols /\ path \in {"chat", "raw"} /\ shift \in BOOLEAN /\ sent \in Histories
      /\ phase = "open"
  BY DEF RelayIInv, Break
<1>2. PICK c \in Clean : Come(c)
  BY <1>1 DEF RelayIInv
<1>3. PICK n \in 0 .. Len(Original) : Told(c) = SubSeq(Original, 1, n)
  BY <1>1, <1>2, ToldBegins
<1>4. path = "chat" => Read(out') = SubSeq(Original, 1, n) \o <<Event(Failure), Event(Done)>>
  <2> SUFFICES ASSUME path = "chat"
               PROVE  Read(out') = SubSeq(Original, 1, n) \o <<Event(Failure), Event(Done)>>
    OBVIOUS
  <2>1. out' = ((out \o Data(Failure)) \o <<LF, LF>>) \o Sentinel
    BY DEF Break
  <2>2. Read(((out \o Data(Failure)) \o <<LF, LF>>) \o Sentinel)
          = Told(c) \o <<Event(Failure), Event(Done)>>
    BY <1>1, <1>2, ReadBroken
  <2> QED
    BY <1>3, <2>1, <2>2
<1>5. path = "raw" /\ meter.buf = <<>> => Read(out') = SubSeq(Original, 1, n) \o <<Event(Failure)>>
  <2> SUFFICES ASSUME path = "raw", meter.buf = <<>>
               PROVE  Read(out') = SubSeq(Original, 1, n) \o <<Event(Failure)>>
    OBVIOUS
  <2>1. out = c /\ Kept(c) = <<>> /\ c \in Bytes
    BY <1>1, <1>2, EolIs DEF Come
  <2>2. AtRest(ReadOn(Reading, c))
    BY <1>1, <2>1, FoundIs
  <2>3. PICK q : q = (c \o Data(Failure)) \o <<LF, LF>>
    OBVIOUS
  <2>4. q \in Bytes /\ Read(q) = Append(Read(c), Event(Failure))
    BY <2>1, <2>2, <2>3, ReadFailure
  <2>5. q \o <<>> = q
    BY <2>4, ConcatEmptySeq DEF Bytes
  <2>6. out' = q
    BY <2>1, <2>3, <2>5 DEF Break
  <2>7. Read(c) = Told(c)
    BY <1>1, <1>2, <2>1, ReadSoFar
  <2>8. PICK t \in Seq(Events), e \in Events : t = Told(c) /\ e = Event(Failure)
    BY <1>1, FoundIs, EventIs, TokensAre
  <2>9. Append(t, e) = t \o <<e>>
    BY AppendIsConcat
  <2> QED
    BY <1>3, <2>4, <2>6, <2>7, <2>8, <2>9
<1>6. path' = path /\ eol' = eol /\ shift' = shift /\ sent' = sent /\ phase' = "broken" /\ meter' = meter
  BY DEF Break
<1>7. Original' = Original /\ Eols' = Eols
  BY <1>6, Unmoved
<1>8. EventsArriveAsSent'
  BY <1>1, <1>3, <1>4, <1>5, <1>6, <1>7 DEF EventsArriveAsSent
<1> QED
  BY <1>1, <1>6, <1>7, <1>8 DEF RelayIInv, Histories

\* Nothing that is looked at changes in a step that is none of the stream's.
LEMMA IdleInv ==
  ASSUME RelayIInv, UNCHANGED relayVars
  PROVE  RelayIInv'
<1>1. /\ path' = path /\ eol' = eol /\ shift' = shift /\ sent' = sent /\ phase' = phase
      /\ upstream' = upstream /\ meter' = meter /\ rewriter' = rewriter /\ out' = out
      /\ halved' = halved
  BY DEF relayVars
<1>2. /\ Stream' = Stream /\ Original' = Original /\ Clean' = Clean /\ Eols' = Eols
      /\ \A s : Told(s)' = Told(s)
  BY <1>1, Unmoved
<1>3. EventsArriveAsSent => EventsArriveAsSent'
  <2>1. CASE halved
    BY <1>1, <2>1 DEF EventsArriveAsSent
  <2>2. CASE ~halved
    BY <1>1, <1>2, <2>2 DEF EventsArriveAsSent
  <2> QED
    BY <2>1, <2>2
<1>4. (\E c \in Clean : Come(c)) => (\E c \in Clean : Come(c))'
  BY <1>1, <1>2 DEF Come
<1> QED
  BY <1>1, <1>2, <1>3, <1>4 DEF RelayIInv, Histories

\* Every step keeps the invariant.
LEMMA RelayIndInv ==
  ASSUME LineEnds \subseteq Eols, Tails = {0}
  PROVE  RelaySpec => []RelayIInv
<1>1. RelayInit => RelayIInv
  BY RelayInitInv
<1>2. RelayIInv /\ [RelayNext]_relayVars => RelayIInv'
  <2> SUFFICES ASSUME RelayIInv, [RelayNext]_relayVars
               PROVE  RelayIInv'
    OBVIOUS
  <2>1. CASE Receive
    BY <2>1, ReceiveInv
  <2>2. CASE Finish
    BY <2>2, FinishInv
  <2>3. CASE Break
    BY <2>3, BreakInv
  <2>4. CASE UNCHANGED relayVars
    BY <2>4, IdleInv
  <2> QED
    BY <2>1, <2>2, <2>3, <2>4 DEF RelayNext
<1> QED
  BY <1>1, <1>2, PTL DEF RelaySpec

\* However the network cuts a stream whose lines all end in LF or all in CR, and
\* whose last line endings come, the client of either path reads the events
\* upstream sent, whole, in order and rewritten once, with [DONE] or an error
\* event at the end (sse.py SSEParser.feed, streaming.py handle_request_stream).
THEOREM EventsArrive ==
  ASSUME LineEnds \subseteq {<<LF>>, <<CR>>}, Tails = {0}
  PROVE  RelaySpec => []EventsArriveAsSent
<1>1. RelaySpec => []RelayIInv
  BY RelayIndInv DEF Eols
<1>2. RelayIInv => EventsArriveAsSent
  BY InvArrives
<1> QED
  BY <1>1, <1>2, PTL

\* At every moment of such a stream the accumulator has observed exactly the
\* events the client can read (provider.py call_provider_stream).
THEOREM MeterAgreesWithClient ==
  ASSUME LineEnds \subseteq {<<LF>>, <<CR>>}, Tails = {0}
  PROVE  RelaySpec => []MeterAgrees
<1>1. RelaySpec => []RelayIInv
  BY RelayIndInv DEF Eols
<1>2. RelayIInv => MeterAgrees
  BY InvArrives
<1> QED
  BY <1>1, <1>2, PTL











=============================================================================
