--------------------------- MODULE TableReadsProofs ---------------------------
(***************************************************************************)
(* Proofs about the scans of a table: that a geometry scan or              *)
(* parse_records which returns something has delivered every row it was    *)
(* asked for, once, and that reading ahead keeps the order, for every      *)
(* table, however its offsets lie, and every way in which reads, threads   *)
(* and callbacks fail; that a scan delivers what a single read finds,      *)
(* whatever the bytes; and that a row which was written is read back.      *)
(*                                                                         *)
(* A row a scan still has to deliver is on a line: behind those delivered  *)
(* come the batches read ahead, the one handed over, the one being put     *)
(* together and the rows to visit. Along the line the order of the scan    *)
(* holds; once a thread could not be started, only that no row is on it    *)
(* twice.                                                                  *)
(*                                                                         *)
(* How a row is read is defined by functions that call themselves. That    *)
(* they exist is StepByStep; what holds of their first value and passes    *)
(* from each to the next holds of all by Upwards.                          *)
(***************************************************************************)
EXTENDS TableReads, SequenceTheorems, FiniteSetTheorems, WellFoundedInduction, TLAPS

----------------------------------------------------------------------------
(* Sequences that are in an order, given as a set of pairs.                *)

Ordered(rel, s) == \A i, j \in DOMAIN s : i < j => <<s[i], s[j]>> \in rel
Apart(rel, A, B) == \A f \in A, g \in B : <<f, g>> \in rel

LEMMA RangeIs ==
  ASSUME NEW S, NEW s \in Seq(S)
  PROVE  /\ DOMAIN s = 1 .. Len(s) /\ Len(s) \in Nat
         /\ Range(s) \subseteq S
         /\ \A i \in 1 .. Len(s) : s[i] \in Range(s)
         /\ \A f \in Range(s) : \E i \in 1 .. Len(s) : s[i] = f
  BY DEF Range

LEMMA EmptyIs == Range(<<>>) = {} /\ \A rel : Ordered(rel, <<>>)
  <1>1. DOMAIN <<>> = {}
    OBVIOUS
  <1> QED BY <1>1 DEF Range, Ordered

\* One more at the end.
LEMMA AppendIs ==
  ASSUME NEW S, NEW s \in Seq(S), NEW x \in S
  PROVE  /\ Append(s, x) \in Seq(S)
         /\ Range(Append(s, x)) = Range(s) \cup {x}
         /\ \A rel : Ordered(rel, s) /\ (\A f \in Range(s) : <<f, x>> \in rel)
              => Ordered(rel, Append(s, x))
  <1> DEFINE t == Append(s, x)
  <1>1. /\ t \in Seq(S) /\ Len(t) = Len(s) + 1 /\ t[Len(s) + 1] = x
        /\ \A i \in 1 .. Len(s) : t[i] = s[i]
    BY AppendProperties
  <1> HIDE DEF t
  <1>2. /\ DOMAIN t = 1 .. Len(s) + 1 /\ DOMAIN s = 1 .. Len(s) /\ Len(s) \in Nat
    BY <1>1
  <1>3. Range(t) = Range(s) \cup {x}
    <2>1. ASSUME NEW f \in Range(t) PROVE f \in Range(s) \cup {x}
      BY <1>1, <1>2, <2>1 DEF Range
    <2>2. ASSUME NEW f \in Range(s) \cup {x} PROVE f \in Range(t)
      <3>1. CASE f = x
        BY <1>1, <1>2, <3>1 DEF Range
      <3>2. CASE f \in Range(s)
        <4>1. PICK i \in 1 .. Len(s) : f = s[i]
          BY <1>2, <3>2 DEF Range
        <4>2. i \in DOMAIN t /\ t[i] = f
          BY <1>1, <1>2, <4>1
        <4> QED BY <4>2 DEF Range
      <3> QED BY <3>1, <3>2
    <2> QED BY <2>1, <2>2
  <1>4. ASSUME NEW rel, Ordered(rel, s), \A f \in Range(s) : <<f, x>> \in rel
        PROVE  Ordered(rel, t)
    <2> SUFFICES ASSUME NEW i \in 1 .. Len(s) + 1, NEW j \in 1 .. Len(s) + 1, i < j
                 PROVE  <<t[i], t[j]>> \in rel
      BY <1>2 DEF Ordered
    <2>1. i \in 1 .. Len(s) /\ t[i] = s[i] /\ s[i] \in Range(s)
      BY <1>1, <1>2 DEF Range
    <2>2. CASE j = Len(s) + 1
      BY <1>1, <1>4, <2>1, <2>2
    <2>3. CASE j \in 1 .. Len(s)
      BY <1>1, <1>2, <1>4, <2>1, <2>3 DEF Ordered
    <2> QED BY <1>2, <2>2, <2>3
  <1> QED BY <1>1, <1>3, <1>4 DEF t

\* The first taken off.
LEMMA TailIs ==
  ASSUME NEW S, NEW s \in Seq(S), s # <<>>
  PROVE  /\ Head(s) \in S /\ Tail(s) \in Seq(S)
         /\ Range(s) = {Head(s)} \cup Range(Tail(s))
         /\ \A rel : Ordered(rel, s) =>
              /\ Ordered(rel, Tail(s))
              /\ \A g \in Range(Tail(s)) : <<Head(s), g>> \in rel
  <1> DEFINE t == Tail(s)
  <1>1. /\ Head(s) \in S /\ t \in Seq(S) /\ Len(t) = Len(s) - 1 /\ Head(s) = s[1]
        /\ \A i \in 1 .. Len(t) : t[i] = s[i + 1]
    BY HeadTailProperties
  <1>2. DOMAIN t = 1 .. Len(s) - 1 /\ DOMAIN s = 1 .. Len(s) /\ Len(s) \in Nat \ {0}
    BY <1>1, EmptySeq
  <1>5. \A i \in 1 .. Len(s) : i = 1 \/ (i - 1 \in 1 .. Len(s) - 1 /\ t[i - 1] = s[i])
    <2> TAKE i \in 1 .. Len(s)
    <2> SUFFICES ASSUME i # 1 PROVE i - 1 \in 1 .. Len(s) - 1 /\ t[i - 1] = s[i]
      OBVIOUS
    <2>1. i - 1 \in 1 .. Len(t) /\ i - 1 + 1 = i
      BY <1>1, <1>2
    <2> QED BY <1>1, <2>1
  <1> HIDE DEF t
  <1>3. Range(s) = {Head(s)} \cup Range(t)
    <2>1. ASSUME NEW f \in Range(s) PROVE f \in {Head(s)} \cup Range(t)
      <3>1. PICK i \in 1 .. Len(s) : f = s[i]
        BY <1>2 DEF Range
      <3> QED BY <1>1, <1>2, <1>5, <3>1 DEF Range
    <2>2. ASSUME NEW f \in {Head(s)} \cup Range(t) PROVE f \in Range(s)
      <3>1. CASE f = Head(s)
        BY <1>1, <1>2, <3>1 DEF Range
      <3>2. CASE f \in Range(t)
        <4>1. PICK i \in 1 .. Len(t) : f = t[i]
          BY <1>1, <1>2, <3>2 DEF Range
        <4>2. i + 1 \in DOMAIN s /\ s[i + 1] = f
          BY <1>1, <1>2, <4>1
        <4> QED BY <4>2 DEF Range
      <3> QED BY <3>1, <3>2
    <2> QED BY <2>1, <2>2
  <1>4. ASSUME NEW rel, Ordered(rel, s)
        PROVE  Ordered(rel, t) /\ \A g \in Range(t) : <<Head(s), g>> \in rel
    <2>1. ASSUME NEW i \in 1 .. Len(t), NEW j \in 1 .. Len(t), i < j
          PROVE  <<t[i], t[j]>> \in rel
      <3>1. i + 1 \in DOMAIN s /\ j + 1 \in DOMAIN s /\ i + 1 < j + 1
        BY <1>1, <1>2, <2>1
      <3> QED BY <1>1, <1>4, <3>1 DEF Ordered
    <2>2. ASSUME NEW i \in 1 .. Len(t) PROVE <<Head(s), t[i]>> \in rel
      <3>1. 1 \in DOMAIN s /\ i + 1 \in DOMAIN s /\ 1 < i + 1
        BY <1>1, <1>2
      <3> QED BY <1>1, <1>4, <3>1 DEF Ordered
    <2>3. DOMAIN t = 1 .. Len(t)
      BY <1>1, <1>2
    <2>4. Ordered(rel, t)
      BY <2>1, <2>3 DEF Ordered
    <2>5. \A g \in Range(t) : <<Head(s), g>> \in rel
      BY <2>2, <2>3 DEF Range
    <2> QED BY <2>4, <2>5
  <1> QED BY <1>1, <1>3, <1>4 DEF t

\* The beginning of a sequence behind another.
LEMMA ConcatIs ==
  ASSUME NEW S, NEW s \in Seq(S), NEW t \in Seq(S)
  PROVE  /\ s \o t \in Seq(S)
         /\ Range(s \o t) = Range(s) \cup Range(t)
         /\ \A rel : Ordered(rel, s) /\ Ordered(rel, t) /\ Apart(rel, Range(s), Range(t))
              => Ordered(rel, s \o t)
  <1> DEFINE u == s \o t
  <1>1. /\ u \in Seq(S) /\ Len(u) = Len(s) + Len(t)
        /\ \A i \in 1 .. Len(s) + Len(t) : u[i] = IF i <= Len(s) THEN s[i] ELSE t[i - Len(s)]
    BY ConcatProperties
  <1>2. /\ DOMAIN u = 1 .. Len(s) + Len(t) /\ DOMAIN s = 1 .. Len(s) /\ DOMAIN t = 1 .. Len(t)
        /\ Len(s) \in Nat /\ Len(t) \in Nat
    BY <1>1
  <1> HIDE DEF u
  <1>3. Range(u) = Range(s) \cup Range(t)
    <2>1. ASSUME NEW i \in DOMAIN u PROVE u[i] \in Range(s) \cup Range(t)
      <3>1. CASE i <= Len(s)
        BY <1>1, <1>2, <3>1 DEF Range
      <3>2. CASE ~(i <= Len(s))
        <4>1. i - Len(s) \in DOMAIN t /\ u[i] = t[i - Len(s)]
          BY <1>1, <1>2, <3>2
        <4> QED BY <4>1 DEF Range
      <3> QED BY <3>1, <3>2
    <2>2. ASSUME NEW i \in DOMAIN s PROVE s[i] \in Range(u)
      <3>1. i \in DOMAIN u /\ u[i] = s[i]
        BY <1>1, <1>2
      <3> QED BY <3>1 DEF Range
    <2>3. ASSUME NEW i \in DOMAIN t PROVE t[i] \in Range(u)
      <3>1. i + Len(s) \in DOMAIN u /\ ~(i + Len(s) <= Len(s)) /\ i + Len(s) - Len(s) = i
        BY <1>2
      <3>2. u[i + Len(s)] = t[i]
        BY <1>1, <1>2, <3>1
      <3> QED BY <3>1, <3>2 DEF Range
    <2>4. Range(u) \subseteq Range(s) \cup Range(t)
      BY <2>1 DEF Range
    <2>5. Range(s) \subseteq Range(u) /\ Range(t) \subseteq Range(u)
      BY <2>2, <2>3 DEF Range
    <2> QED BY <2>4, <2>5
  <1>4. ASSUME NEW rel, Ordered(rel, s), Ordered(rel, t), Apart(rel, Range(s), Range(t))
        PROVE  Ordered(rel, u)
    <2> SUFFICES ASSUME NEW i \in 1 .. Len(s) + Len(t), NEW j \in 1 .. Len(s) + Len(t), i < j
                 PROVE  <<u[i], u[j]>> \in rel
      BY <1>2 DEF Ordered
    <2>1. CASE j <= Len(s)
      <3>1. /\ i \in DOMAIN s /\ j \in DOMAIN s
            /\ u[i] = s[i] /\ u[j] = s[j]
        BY <1>1, <1>2, <2>1
      <3> QED BY <1>4, <3>1 DEF Ordered
    <2>2. CASE i <= Len(s) /\ ~(j <= Len(s))
      <3>1. i \in DOMAIN s /\ j - Len(s) \in DOMAIN t
        BY <1>2, <2>2
      <3>2. s[i] \in Range(s) /\ t[j - Len(s)] \in Range(t)
        BY <3>1 DEF Range
      <3>3. u[i] = s[i] /\ u[j] = t[j - Len(s)]
        BY <1>1, <2>2
      <3>4. <<s[i], t[j - Len(s)]>> \in rel
        BY <1>4, <3>2 DEF Apart
      <3> QED BY <3>3, <3>4
    <2>3. CASE ~(i <= Len(s))
      <3>1. /\ i - Len(s) \in DOMAIN t /\ j - Len(s) \in DOMAIN t
            /\ i - Len(s) < j - Len(s)
        BY <1>2, <2>3
      <3>2. u[i] = t[i - Len(s)] /\ u[j] = t[j - Len(s)]
        BY <1>1, <1>2, <2>3
      <3> QED BY <1>4, <3>1, <3>2 DEF Ordered
    <2> QED BY <1>2, <2>1, <2>2, <2>3
  <1> QED BY <1>1, <1>3, <1>4 DEF u

\* The first n of a sequence.
FirstOf(s, n) == [k \in 1 .. n |-> s[k]]

LEMMA FirstIs ==
  ASSUME NEW S, NEW s \in Seq(S), NEW n \in 0 .. Len(s)
  PROVE  /\ FirstOf(s, n) \in Seq(S)
         /\ Range(FirstOf(s, n)) \subseteq Range(s)
         /\ \A rel : Ordered(rel, s) => Ordered(rel, FirstOf(s, n))
         /\ FirstOf(s, Len(s)) = s
  <1>1. Len(s) \in Nat /\ n \in Nat /\ DOMAIN s = 1 .. Len(s)
    OBVIOUS
  <1>2. DOMAIN FirstOf(s, n) = 1 .. n /\ \A i \in 1 .. n : FirstOf(s, n)[i] = s[i] /\ i \in DOMAIN s
    BY <1>1 DEF FirstOf
  <1>3. FirstOf(s, n) \in Seq(S)
    <2>1. \A i \in 1 .. n : s[i] \in S
      BY <1>1
    <2> QED BY <1>1, <2>1, IsASeq DEF FirstOf
  <1>4. Range(FirstOf(s, n)) \subseteq Range(s)
    BY <1>2 DEF Range
  <1>5. ASSUME NEW rel, Ordered(rel, s) PROVE Ordered(rel, FirstOf(s, n))
    BY <1>2, <1>5 DEF Ordered
  <1>6. FirstOf(s, Len(s)) = s
    BY <1>1 DEF FirstOf
  <1> QED BY <1>3, <1>4, <1>5, <1>6

----------------------------------------------------------------------------
(* The line of rows.                                                       *)

\* e: delivered; ps: the batches read ahead; r: the batch handed over; c: the
\* one being put together; t: the rows to visit.
LineOrdered(rel, e, ps, r, c, t) ==
    /\ Ordered(rel, e) /\ Ordered(rel, r) /\ Ordered(rel, c) /\ Ordered(rel, t)
    /\ Apart(rel, Range(e), Range(r) \cup Range(c) \cup Range(t))
    /\ Apart(rel, Range(r), Range(c) \cup Range(t))
    /\ Apart(rel, Range(c), Range(t))

BatchesOrdered(rel, e, ps, r, c, t) ==
    /\ \A k \in DOMAIN ps :
          /\ Ordered(rel, ps[k].rows)
          /\ Apart(rel, Range(e), Range(ps[k].rows))
          /\ Apart(rel, Range(ps[k].rows), Range(r) \cup Range(c) \cup Range(t))
    /\ \A j, k \in DOMAIN ps : j < k => Apart(rel, Range(ps[j].rows), Range(ps[k].rows))

\* Every row of live is on the line, and what has been gathered is of live.
LineCovers(live, want, e, ps, r, c, t) ==
    /\ Range(e) \cup Range(r) \cup Range(c) \subseteq live /\ Range(t) \subseteq want
    /\ \A k \in DOMAIN ps : Range(ps[k].rows) \subseteq live
    /\ \A f \in live : \/ f \in Range(e) \cup Range(r) \cup Range(c) \cup Range(t)
                       \/ \E k \in DOMAIN ps : f \in Range(ps[k].rows)

LineOK(rel, live, want, e, ps, r, c, t) ==
    /\ LineOrdered(rel, e, ps, r, c, t)
    /\ BatchesOrdered(rel, e, ps, r, c, t)
    /\ LineCovers(live, want, e, ps, r, c, t)

IsLine(S, e, ps, r, c, t) ==
    /\ e \in Seq(S) /\ r \in Seq(S) /\ c \in Seq(S) /\ t \in Seq(S)
    /\ \A k \in DOMAIN ps : ps[k].rows \in Seq(S)

\* A weaker order.
LEMMA LineWeakens ==
  ASSUME NEW rel, NEW weaker, rel \subseteq weaker,
         NEW live, NEW want, NEW e, NEW ps, NEW r, NEW c, NEW t,
         LineOK(rel, live, want, e, ps, r, c, t)
  PROVE  LineOK(weaker, live, want, e, ps, r, c, t)
  <1>1. \A s : Ordered(rel, s) => Ordered(weaker, s)
    BY DEF Ordered
  <1>2. \A A, B : Apart(rel, A, B) => Apart(weaker, A, B)
    BY DEF Apart
  <1> QED BY <1>1, <1>2 DEF LineOK, LineOrdered, BatchesOrdered

\* A row that is not live is passed over.
LEMMA LineSkips ==
  ASSUME NEW S, NEW rel, NEW live, NEW want, NEW e, NEW ps, NEW r, NEW c, NEW t,
         IsLine(S, e, ps, r, c, t), LineOK(rel, live, want, e, ps, r, c, t),
         t # <<>>, Head(t) \notin live
  PROVE  LineOK(rel, live, want, e, ps, r, c, Tail(t)) /\ IsLine(S, e, ps, r, c, Tail(t))
  <1>1. /\ Tail(t) \in Seq(S) /\ Range(t) = {Head(t)} \cup Range(Tail(t))
        /\ Ordered(rel, t) => Ordered(rel, Tail(t))
    BY TailIs DEF IsLine
  <1>2. LineOrdered(rel, e, ps, r, c, Tail(t))
    BY <1>1 DEF LineOK, LineOrdered, Apart
  <1>3. BatchesOrdered(rel, e, ps, r, c, Tail(t))
    BY <1>1 DEF LineOK, BatchesOrdered, Apart
  <1>4. LineCovers(live, want, e, ps, r, c, Tail(t))
    BY <1>1 DEF LineOK, LineCovers
  <1> QED BY <1>1, <1>2, <1>3, <1>4 DEF LineOK, IsLine

\* A row joins the batch that is being put together.
LEMMA LineGathers ==
  ASSUME NEW S, NEW rel, NEW live, NEW want, NEW e, NEW ps, NEW r, NEW c, NEW t,
         IsLine(S, e, ps, r, c, t), LineOK(rel, live, want, e, ps, r, c, t),
         t # <<>>, Head(t) \in live
  PROVE  /\ LineOK(rel, live, want, e, ps, r, Append(c, Head(t)), Tail(t))
         /\ IsLine(S, e, ps, r, Append(c, Head(t)), Tail(t))
  <1>1. /\ Head(t) \in S /\ Tail(t) \in Seq(S) /\ Range(t) = {Head(t)} \cup Range(Tail(t))
        /\ Ordered(rel, t) =>
              /\ Ordered(rel, Tail(t))
              /\ \A g \in Range(Tail(t)) : <<Head(t), g>> \in rel
    BY TailIs DEF IsLine
  <1>2. /\ Append(c, Head(t)) \in Seq(S)
        /\ Range(Append(c, Head(t))) = Range(c) \cup {Head(t)}
        /\ Ordered(rel, c) /\ (\A f \in Range(c) : <<f, Head(t)>> \in rel)
             => Ordered(rel, Append(c, Head(t)))
    BY <1>1, AppendIs DEF IsLine
  <1> DEFINE x == Head(t)
             u == Tail(t)
             d == Append(c, x)
  <1>3. /\ u \in Seq(S) /\ Range(t) = {x} \cup Range(u) /\ d \in Seq(S)
        /\ Range(d) = Range(c) \cup {x} /\ x \in live
        /\ Ordered(rel, t) =>
              Ordered(rel, u) /\ \A g \in Range(u) : <<x, g>> \in rel
        /\ Ordered(rel, c) /\ (\A f \in Range(c) : <<f, x>> \in rel) => Ordered(rel, d)
    BY <1>1, <1>2
  <1> HIDE DEF x, u, d
  <1>4. LineOrdered(rel, e, ps, r, d, u)
    BY <1>3 DEF LineOK, LineOrdered, Apart
  <1>5. BatchesOrdered(rel, e, ps, r, d, u)
    BY <1>3 DEF LineOK, BatchesOrdered, Apart
  <1>6. LineCovers(live, want, e, ps, r, d, u)
    BY <1>3 DEF LineOK, LineCovers
  <1>7. IsLine(S, e, ps, r, d, u)
    BY <1>3 DEF IsLine
  <1> QED BY <1>4, <1>5, <1>6, <1>7 DEF LineOK, x, u, d

\* The batch being put together is handed over.
LEMMA LineHandsOver ==
  ASSUME NEW S, NEW rel, NEW live, NEW want, NEW e, NEW ps, NEW r, NEW c, NEW t,
         IsLine(S, e, ps, r, c, t), LineOK(rel, live, want, e, ps, r, c, t), r = <<>>
  PROVE  /\ LineOK(rel, live, want, e, ps, c, <<>>, t)
         /\ IsLine(S, e, ps, c, <<>>, t)
  <1>1. Range(r) = {} /\ Range(<<>>) = {} /\ Ordered(rel, <<>>) /\ <<>> \in Seq(S)
    BY EmptyIs, EmptySeq
  <1>2. LineOrdered(rel, e, ps, c, <<>>, t)
    BY <1>1 DEF LineOK, LineOrdered, Apart
  <1>3. BatchesOrdered(rel, e, ps, c, <<>>, t)
    BY <1>1 DEF LineOK, BatchesOrdered, Apart
  <1>4. LineCovers(live, want, e, ps, c, <<>>, t)
    BY <1>1 DEF LineOK, LineCovers
  <1> QED BY <1>1, <1>2, <1>3, <1>4 DEF LineOK, IsLine

\* The batch handed over is read ahead.
LEMMA LineReadsAhead ==
  ASSUME NEW S, NEW rel, NEW live, NEW want, NEW e, NEW B, NEW ps \in Seq(B), NEW b \in B,
         NEW c, NEW t,
         IsLine(S, e, ps, b.rows, c, t), LineOK(rel, live, want, e, ps, b.rows, c, t)
  PROVE  /\ LineOK(rel, live, want, e, Append(ps, b), <<>>, c, t)
         /\ IsLine(S, e, Append(ps, b), <<>>, c, t)
  <1> DEFINE qs == Append(ps, b)
             z == <<>>
             r == b.rows
  <1>1. Range(z) = {} /\ Ordered(rel, z) /\ z \in Seq(S)
    BY EmptyIs, EmptySeq
  <1>2. /\ Len(qs) = Len(ps) + 1 /\ qs \in Seq(B) /\ ps \in Seq(B)
        /\ \A k \in 1 .. Len(ps) : qs[k] = ps[k]
        /\ qs[Len(ps) + 1].rows = r
    BY AppendProperties
  <1> HIDE DEF qs, z
  <1>3. /\ DOMAIN qs = 1 .. Len(ps) + 1 /\ DOMAIN ps = 1 .. Len(ps) /\ Len(ps) \in Nat
    BY <1>2
  <1>4. \A k \in DOMAIN qs : \/ k \in DOMAIN ps /\ qs[k] = ps[k]
                             \/ k = Len(ps) + 1 /\ qs[k].rows = r
    BY <1>2, <1>3
  <1>5. \A j, k \in DOMAIN qs : j < k => j \in DOMAIN ps /\ qs[j] = ps[j]
    BY <1>2, <1>3
  <1> USE DEF r
  <1>6. IsLine(S, e, ps, r, c, t) /\ LineOK(rel, live, want, e, ps, r, c, t)
    OBVIOUS
  <1> HIDE DEF r
  <1>7. LineOrdered(rel, e, qs, z, c, t)
    BY <1>1, <1>6 DEF LineOK, LineOrdered, Apart
  <1>8. BatchesOrdered(rel, e, qs, z, c, t)
    <2>1. ASSUME NEW k \in DOMAIN qs
          PROVE  /\ Ordered(rel, qs[k].rows)
                 /\ Apart(rel, Range(e), Range(qs[k].rows))
                 /\ Apart(rel, Range(qs[k].rows), Range(z) \cup Range(c) \cup Range(t))
      <3>1. CASE k \in DOMAIN ps /\ qs[k] = ps[k]
        BY <1>1, <1>6, <3>1 DEF LineOK, BatchesOrdered, Apart
      <3>2. CASE qs[k].rows = r
        BY <1>1, <1>6, <3>2 DEF LineOK, LineOrdered, Apart
      <3> QED BY <1>4, <3>1, <3>2
    <2>2. ASSUME NEW j \in DOMAIN qs, NEW k \in DOMAIN qs, j < k
          PROVE  Apart(rel, Range(qs[j].rows), Range(qs[k].rows))
      <3>1. CASE k \in DOMAIN ps /\ qs[k] = ps[k]
        BY <1>5, <1>6, <2>2, <3>1 DEF LineOK, BatchesOrdered
      <3>2. CASE qs[k].rows = r
        BY <1>5, <1>6, <2>2, <3>2 DEF LineOK, BatchesOrdered, Apart
      <3> QED BY <1>4, <3>1, <3>2
    <2> QED BY <2>1, <2>2 DEF BatchesOrdered
  <1>9. LineCovers(live, want, e, qs, z, c, t)
    <2>1. \A f \in live : f \in Range(r) => \E k \in DOMAIN qs : f \in Range(qs[k].rows)
      <3>1. Len(ps) + 1 \in DOMAIN qs
        BY <1>3
      <3> QED BY <1>2, <3>1
    <2>2. \A k \in DOMAIN ps : k \in DOMAIN qs /\ qs[k] = ps[k]
      BY <1>2, <1>3
    <2>3. \A f \in live : (\E k \in DOMAIN ps : f \in Range(ps[k].rows))
            => \E k \in DOMAIN qs : f \in Range(qs[k].rows)
      BY <2>2
    <2>4. \A k \in DOMAIN qs : Range(qs[k].rows) \subseteq live
      BY <1>4, <1>6 DEF LineOK, LineCovers
    <2>5. /\ Range(e) \cup Range(r) \cup Range(c) \subseteq live /\ Range(t) \subseteq want
          /\ \A f \in live : \/ f \in Range(e) \cup Range(r) \cup Range(c) \cup Range(t)
                             \/ \E k \in DOMAIN ps : f \in Range(ps[k].rows)
      BY <1>6 DEF LineOK, LineCovers
    <2> QED BY <1>1, <2>1, <2>3, <2>4, <2>5 DEF LineCovers
  <1>10. IsLine(S, e, qs, z, c, t)
    BY <1>1, <1>4, <1>6 DEF IsLine
  <1> QED BY <1>7, <1>8, <1>9, <1>10 DEF LineOK, qs, z
\* A row is delivered at once.
LEMMA LineDelivers ==
  ASSUME NEW S, NEW rel, NEW live, NEW want, NEW e, NEW t,
         IsLine(S, e, <<>>, <<>>, <<>>, t), LineOK(rel, live, want, e, <<>>, <<>>, <<>>, t),
         t # <<>>, Head(t) \in live
  PROVE  /\ LineOK(rel, live, want, Append(e, Head(t)), <<>>, <<>>, <<>>, Tail(t))
         /\ IsLine(S, Append(e, Head(t)), <<>>, <<>>, <<>>, Tail(t))
  <1> DEFINE x == Head(t)
             u == Tail(t)
             d == Append(e, x)
             z == <<>>
  <1>1. /\ x \in S /\ u \in Seq(S) /\ Range(t) = {x} \cup Range(u)
        /\ Ordered(rel, t) =>
              Ordered(rel, u) /\ \A g \in Range(u) : <<x, g>> \in rel
    BY TailIs DEF IsLine
  <1>2. /\ d \in Seq(S) /\ Range(d) = Range(e) \cup {x}
        /\ Ordered(rel, e) /\ (\A f \in Range(e) : <<f, x>> \in rel) => Ordered(rel, d)
    BY <1>1, AppendIs DEF IsLine
  <1>3. Range(z) = {} /\ DOMAIN z = {} /\ Ordered(rel, z) /\ z \in Seq(S)
    BY EmptyIs, EmptySeq
  <1>4. x \in live /\ LineOK(rel, live, want, e, z, z, z, t)
    OBVIOUS
  <1> HIDE DEF x, u, d, z
  <1>5. LineOrdered(rel, d, z, z, z, u)
    BY <1>1, <1>2, <1>3, <1>4 DEF LineOK, LineOrdered, Apart
  <1>6. BatchesOrdered(rel, d, z, z, z, u)
    BY <1>3 DEF BatchesOrdered
  <1>7. LineCovers(live, want, d, z, z, z, u)
    BY <1>1, <1>2, <1>3, <1>4 DEF LineOK, LineCovers
  <1>8. IsLine(S, d, z, z, z, u)
    BY <1>1, <1>2, <1>3 DEF IsLine
  <1> QED BY <1>5, <1>6, <1>7, <1>8 DEF LineOK, x, u, d, z

\* The batch that was read ahead first is delivered.
LEMMA LineTakesFront ==
  ASSUME NEW S, NEW rel, NEW live, NEW want, NEW e, NEW B, NEW ps \in Seq(B), ps # <<>>,
         NEW c, NEW t,
         IsLine(S, e, ps, <<>>, c, t), LineOK(rel, live, want, e, ps, <<>>, c, t)
  PROVE  /\ LineOK(rel, live, want, e \o Head(ps).rows, Tail(ps), <<>>, c, t)
         /\ IsLine(S, e \o Head(ps).rows, Tail(ps), <<>>, c, t)
         /\ Ordered(rel, Head(ps).rows)
         /\ Apart(rel, Range(e), Range(Head(ps).rows))
         /\ Head(ps).rows \in Seq(S)
  <1> DEFINE r == Head(ps).rows
             d == e \o r
             qs == Tail(ps)
             z == <<>>
  <1>1. Range(z) = {} /\ Ordered(rel, z) /\ z \in Seq(S)
    BY EmptyIs, EmptySeq
  <1>2. /\ qs \in Seq(B) /\ Len(qs) = Len(ps) - 1 /\ Head(ps) = ps[1]
        /\ \A k \in 1 .. Len(qs) : qs[k] = ps[k + 1]
    BY HeadTailProperties
  <1>3. /\ DOMAIN qs = 1 .. Len(ps) - 1 /\ DOMAIN ps = 1 .. Len(ps) /\ Len(ps) \in Nat \ {0}
    BY <1>2, EmptySeq
  <1>4. r = ps[1].rows /\ 1 \in DOMAIN ps
    BY <1>2, <1>3
  <1>5. \A k \in DOMAIN qs : k + 1 \in DOMAIN ps /\ qs[k] = ps[k + 1] /\ 1 < k + 1
    BY <1>2, <1>3
  <1>6. \A k \in DOMAIN ps : k = 1 \/ (k - 1 \in DOMAIN qs /\ qs[k - 1] = ps[k])
    <2> TAKE k \in DOMAIN ps
    <2> SUFFICES ASSUME k # 1 PROVE k - 1 \in DOMAIN qs /\ qs[k - 1] = ps[k]
      OBVIOUS
    <2>1. k - 1 \in 1 .. Len(qs) /\ k - 1 + 1 = k
      BY <1>2, <1>3
    <2> QED BY <1>2, <1>3, <2>1
  <1>7. IsLine(S, e, ps, z, c, t) /\ LineOK(rel, live, want, e, ps, z, c, t)
    OBVIOUS
  <1> HIDE DEF r, qs, z
  <1>8. Ordered(rel, r) /\ Apart(rel, Range(e), Range(r)) /\ r \in Seq(S)
    BY <1>4, <1>7 DEF LineOK, BatchesOrdered, IsLine
  <1>9. /\ d \in Seq(S) /\ Range(d) = Range(e) \cup Range(r)
        /\ Ordered(rel, d)
    BY <1>7, <1>8, ConcatIs DEF IsLine, LineOK, LineOrdered
  <1> HIDE DEF d
  <1>10. /\ Apart(rel, Range(e), Range(z) \cup Range(c) \cup Range(t))
         /\ Apart(rel, Range(r), Range(z) \cup Range(c) \cup Range(t))
    BY <1>4, <1>7 DEF LineOK, LineOrdered, BatchesOrdered
  <1>11. LineOrdered(rel, d, qs, z, c, t)
    BY <1>7, <1>9, <1>10 DEF LineOK, LineOrdered, Apart
  <1>12. BatchesOrdered(rel, d, qs, z, c, t)
    <2>1. ASSUME NEW k \in DOMAIN qs
          PROVE  /\ Ordered(rel, qs[k].rows)
                 /\ Apart(rel, Range(d), Range(qs[k].rows))
                 /\ Apart(rel, Range(qs[k].rows), Range(z) \cup Range(c) \cup Range(t))
      <3>1. /\ Ordered(rel, qs[k].rows)
            /\ Apart(rel, Range(e), Range(qs[k].rows))
            /\ Apart(rel, Range(qs[k].rows), Range(z) \cup Range(c) \cup Range(t))
            /\ Apart(rel, Range(r), Range(qs[k].rows))
        BY <1>4, <1>5, <1>7 DEF LineOK, BatchesOrdered
      <3> QED BY <1>9, <3>1 DEF Apart
    <2>2. ASSUME NEW j \in DOMAIN qs, NEW k \in DOMAIN qs, j < k
          PROVE  Apart(rel, Range(qs[j].rows), Range(qs[k].rows))
      <3>1. j + 1 \in DOMAIN ps /\ k + 1 \in DOMAIN ps /\ j + 1 < k + 1
        BY <1>3, <1>5, <2>2
      <3> QED BY <1>5, <1>7, <3>1 DEF LineOK, BatchesOrdered
    <2> QED BY <2>1, <2>2 DEF BatchesOrdered
  <1>13. LineCovers(live, want, d, qs, z, c, t)
    <2>1. /\ Range(e) \cup Range(z) \cup Range(c) \subseteq live /\ Range(t) \subseteq want
          /\ \A k \in DOMAIN ps : Range(ps[k].rows) \subseteq live
          /\ \A f \in live : \/ f \in Range(e) \cup Range(z) \cup Range(c) \cup Range(t)
                             \/ \E k \in DOMAIN ps : f \in Range(ps[k].rows)
      BY <1>7 DEF LineOK, LineCovers
    <2>2. \A k \in DOMAIN qs : Range(qs[k].rows) \subseteq live
      BY <1>5, <2>1
    <2>3. \A f \in live : (\E k \in DOMAIN ps : f \in Range(ps[k].rows))
            => f \in Range(r) \/ \E k \in DOMAIN qs : f \in Range(qs[k].rows)
      BY <1>4, <1>6
    <2>4. Range(r) \subseteq live
      BY <1>4, <2>1
    <2> QED BY <1>9, <2>1, <2>2, <2>3, <2>4 DEF LineCovers
  <1>14. IsLine(S, d, qs, z, c, t)
    BY <1>5, <1>7, <1>9 DEF IsLine
  <1> QED BY <1>8, <1>11, <1>12, <1>13, <1>14 DEF LineOK, r, d, qs, z

\* The batch handed over is delivered before those read ahead: there are none,
\* or the order is one that does not tell.
LEMMA LineTakesReady ==
  ASSUME NEW S, NEW rel, NEW live, NEW want, NEW e, NEW ps, NEW r, NEW c, NEW t,
         IsLine(S, e, ps, r, c, t), LineOK(rel, live, want, e, ps, r, c, t),
         \/ DOMAIN ps = {}
         \/ \A f, g : <<f, g>> \in rel => <<g, f>> \in rel
  PROVE  /\ LineOK(rel, live, want, e \o r, ps, <<>>, c, t)
         /\ IsLine(S, e \o r, ps, <<>>, c, t)
         /\ Ordered(rel, r) /\ Apart(rel, Range(e), Range(r)) /\ r \in Seq(S)
  <1> DEFINE d == e \o r
             z == <<>>
  <1>1. Range(z) = {} /\ Ordered(rel, z) /\ z \in Seq(S)
    BY EmptyIs, EmptySeq
  <1>2. Ordered(rel, r) /\ Apart(rel, Range(e), Range(r)) /\ r \in Seq(S)
    BY DEF LineOK, LineOrdered, IsLine, Apart
  <1>3. /\ d \in Seq(S) /\ Range(d) = Range(e) \cup Range(r)
        /\ Ordered(rel, d)
    BY <1>2, ConcatIs DEF IsLine, LineOK, LineOrdered
  <1> HIDE DEF d, z
  <1>4. LineOrdered(rel, d, ps, z, c, t)
    BY <1>1, <1>3 DEF LineOK, LineOrdered, Apart
  <1>5. BatchesOrdered(rel, d, ps, z, c, t)
    <2>1. ASSUME NEW k \in DOMAIN ps
          PROVE  /\ Ordered(rel, ps[k].rows)
                 /\ Apart(rel, Range(d), Range(ps[k].rows))
                 /\ Apart(rel, Range(ps[k].rows), Range(z) \cup Range(c) \cup Range(t))
      <3>1. /\ Ordered(rel, ps[k].rows)
            /\ Apart(rel, Range(e), Range(ps[k].rows))
            /\ Apart(rel, Range(ps[k].rows), Range(r) \cup Range(c) \cup Range(t))
        BY DEF LineOK, BatchesOrdered
      <3>2. Apart(rel, Range(r), Range(ps[k].rows))
        BY <3>1 DEF Apart
      <3> QED BY <1>1, <1>3, <3>1, <3>2 DEF Apart
    <2> QED BY <2>1 DEF BatchesOrdered, LineOK
  <1>6. LineCovers(live, want, d, ps, z, c, t)
    BY <1>1, <1>3 DEF LineOK, LineCovers
  <1>7. IsLine(S, d, ps, z, c, t)
    BY <1>1, <1>3 DEF IsLine
  <1> QED BY <1>2, <1>4, <1>5, <1>6, <1>7 DEF LineOK, d, z

\* Nothing is on the line any more.
LEMMA LineEnds ==
  ASSUME NEW rel, NEW live, NEW want, NEW e,
         LineOK(rel, live, want, e, <<>>, <<>>, <<>>, <<>>)
  PROVE  Range(e) = live /\ Ordered(rel, e)
  <1> DEFINE z == <<>>
  <1>1. Range(z) = {} /\ DOMAIN z = {}
    BY EmptyIs
  <1>2. LineOK(rel, live, want, e, z, z, z, z)
    OBVIOUS
  <1> HIDE DEF z
  <1> QED BY <1>1, <1>2 DEF LineOK, LineOrdered, LineCovers

\* At the beginning all rows are to be visited.
LEMMA LineStarts ==
  ASSUME NEW S, NEW rel, NEW want, NEW live \in SUBSET want, NEW t \in Seq(S),
         Ordered(rel, t), Range(t) = want
  PROVE  /\ LineOK(rel, live, want, <<>>, <<>>, <<>>, <<>>, t)
         /\ IsLine(S, <<>>, <<>>, <<>>, <<>>, t)
  <1> DEFINE z == <<>>
  <1>1. Range(z) = {} /\ DOMAIN z = {} /\ Ordered(rel, z) /\ z \in Seq(S)
    BY EmptyIs, EmptySeq
  <1> HIDE DEF z
  <1>2. LineOK(rel, live, want, z, z, z, z, t) /\ IsLine(S, z, z, z, z, t)
    BY <1>1 DEF LineOK, LineOrdered, BatchesOrdered, LineCovers, IsLine, Apart
  <1> QED BY <1>2 DEF z
----------------------------------------------------------------------------
(* The order of a scan.                                                    *)

LEMMA LeastNumber ==
  ASSUME NEW T, T \subseteq Nat, T # {}
  PROVE  \E x \in T : \A y \in T : x <= y
  <1> DEFINE R == OpToRel(<, Nat)
  <1>1. IsWellFoundedOn(R, Nat)
    BY NatLessThanWellFounded
  <1>2. \A a, b \in Nat : a < b => <<a, b>> \in R
    BY DEF OpToRel
  <1> HIDE DEF R
  <1>3. PICK x \in T : \A y \in T : ~(<<y, x>> \in R)
    BY <1>1, WFMin
  <1>4. ASSUME NEW y \in T PROVE x <= y
    <2>1. x \in Nat /\ y \in Nat /\ ~(<<y, x>> \in R)
      BY <1>3
    <2>2. ~(y < x)
      BY <1>2, <2>1
    <2> QED BY <2>1, <2>2
  <1> QED BY <1>4

\* By offset, ties by FID.
Lower(off, f, g) == off[f] < off[g] \/ (off[f] = off[g] /\ f < g)
Sorts(off, s) == \A i, j \in DOMAIN s : i < j => Lower(off, s[i], s[j])

LEMMA LowestExists ==
  ASSUME NEW n \in Nat, NEW off \in [1 .. n -> Nat], NEW A \in SUBSET (1 .. n), A # {}
  PROVE  \E x \in A : \A y \in A \ {x} : Lower(off, x, y)
  <1>1. PICK o \in {off[f] : f \in A} : \A p \in {off[f] : f \in A} : o <= p
    <2> DEFINE O == {off[f] : f \in A}
    <2>1. O \subseteq Nat /\ O # {}
      OBVIOUS
    <2>2. \E o \in O : \A p \in O : o <= p
      <3> HIDE DEF O
      <3> QED BY <2>1, LeastNumber
    <2> QED BY <2>2
  <1>2. PICK x \in {f \in A : off[f] = o} : \A y \in {f \in A : off[f] = o} : x <= y
    <2> DEFINE O == {f \in A : off[f] = o}
    <2>1. O \subseteq Nat /\ O # {}
      <3>1. PICK f \in A : off[f] = o
        BY <1>1
      <3>2. O \subseteq A /\ A \subseteq Nat
        OBVIOUS
      <3>3. f \in O
        BY <3>1
      <3> HIDE DEF O
      <3> QED BY <3>2, <3>3
    <2>2. \E x \in O : \A y \in O : x <= y
      <3> HIDE DEF O
      <3> QED BY <2>1, LeastNumber
    <2> QED BY <2>2
  <1>3. ASSUME NEW y \in A \ {x} PROVE Lower(off, x, y)
    <2>1. off[y] \in Nat /\ o \in Nat /\ o <= off[y] /\ off[x] = o /\ x \in Nat /\ y \in Nat
      BY <1>1, <1>2
    <2>2. CASE off[y] = o
      BY <1>2, <2>1, <2>2 DEF Lower
    <2>3. CASE off[y] # o
      BY <2>1, <2>3 DEF Lower
    <2> QED BY <2>2, <2>3
  <1> QED BY <1>2, <1>3

\* Every set of rows can be sorted.
LEMMA SortExists ==
  ASSUME NEW n \in Nat, NEW off \in [1 .. n -> Nat], NEW A \in SUBSET (1 .. n)
  PROVE  \E s \in [1 .. Cardinality(A) -> A] : Sorts(off, s)
  <1> DEFINE Sortable(B) == \E s \in [1 .. Cardinality(B) -> B] : Sorts(off, s)
             Bad == {Cardinality(B) : B \in {C \in SUBSET (1 .. n) : ~Sortable(C)}}
  <1>1. \A B \in SUBSET (1 .. n) : IsFiniteSet(B) /\ Cardinality(B) \in Nat
    <2> TAKE B \in SUBSET (1 .. n)
    <2>1. IsFiniteSet(1 .. n)
      BY FS_Interval
    <2>2. IsFiniteSet(B)
      BY <2>1, FS_Subset
    <2> QED BY <2>2, FS_CardinalityType
  <1>2. SUFFICES ASSUME ~Sortable(A) PROVE FALSE
    OBVIOUS
  <1> HIDE DEF Sortable
  <1>3. Bad \subseteq Nat /\ Cardinality(A) \in Bad
    BY <1>1, <1>2
  <1>4. PICK c \in Bad : \A b \in Bad : c <= b
    BY <1>3, LeastNumber
  <1>5. PICK B \in SUBSET (1 .. n) : ~Sortable(B) /\ c = Cardinality(B)
    BY <1>4
  <1>6. c \in Nat /\ IsFiniteSet(B)
    BY <1>1, <1>5
  <1>7. B # {}
    <2> SUFFICES ASSUME B = {} PROVE FALSE
      OBVIOUS
    <2>1. Cardinality(B) = 0
      BY FS_EmptySet
    <2> DEFINE s == [i \in 1 .. Cardinality(B) |-> 1]
    <2>2. DOMAIN s = {}
      BY <2>1
    <2>3. s \in [1 .. Cardinality(B) -> B] /\ Sorts(off, s)
      BY <2>1, <2>2 DEF Sorts
    <2> QED BY <1>5, <2>3 DEF Sortable
  <1>8. PICK x \in B : \A y \in B \ {x} : Lower(off, x, y)
    BY <1>7, LowestExists
  <1> DEFINE D == B \ {x}
  <1>9. Cardinality(D) = c - 1 /\ c - 1 \in Nat
    <2>1. Cardinality(D) = c - 1
      BY <1>5, <1>6, FS_RemoveElement
    <2>2. D \in SUBSET (1 .. n)
      OBVIOUS
    <2> HIDE DEF D
    <2>3. Cardinality(D) \in Nat
      BY <1>1, <2>2
    <2> QED BY <2>1, <2>3
  <1>10. Sortable(D)
    <2> SUFFICES ASSUME ~Sortable(D) PROVE FALSE
      OBVIOUS
    <2>1. Cardinality(D) \in Bad
      OBVIOUS
    <2>2. c <= c - 1
      BY <1>4, <1>9, <2>1
    <2> QED BY <1>6, <2>2
  <1>11. PICK t \in [1 .. c - 1 -> D] : Sorts(off, t)
    BY <1>9, <1>10 DEF Sortable
  <1> DEFINE s == [i \in 1 .. c |-> IF i = 1 THEN x ELSE t[i - 1]]
  <1>12. \A i \in 1 .. c : i = 1 \/ (i - 1 \in 1 .. c - 1)
    BY <1>6
  <1>13. s \in [1 .. c -> B]
    <2>1. ASSUME NEW i \in 1 .. c PROVE s[i] \in B
      <3>1. CASE i = 1
        BY <1>8, <3>1
      <3>2. CASE i # 1
        <4>1. t[i - 1] \in D
          BY <1>11, <1>12, <3>2
        <4> QED BY <3>2, <4>1
      <3> QED BY <3>1, <3>2
    <2> QED BY <2>1
  <1>14. ASSUME NEW i \in 1 .. c, NEW j \in 1 .. c, i < j PROVE Lower(off, s[i], s[j])
    <2>1. j # 1 /\ j - 1 \in 1 .. c - 1
      BY <1>6, <1>14
    <2>2. s[j] = t[j - 1] /\ t[j - 1] \in D
      BY <1>11, <2>1
    <2>3. CASE i = 1
      <3>1. s[i] = x
        BY <2>3
      <3> QED BY <1>8, <2>2, <3>1
    <2>4. CASE i # 1
      <3>1. i - 1 \in 1 .. c - 1 /\ i - 1 < j - 1 /\ s[i] = t[i - 1]
        BY <1>12, <1>14, <2>4
      <3>2. Lower(off, t[i - 1], t[j - 1])
        BY <1>11, <2>1, <3>1 DEF Sorts
      <3> QED BY <2>2, <3>1, <3>2
    <2> QED BY <2>3, <2>4
  <1>15. Sorts(off, s) /\ s \in [1 .. Cardinality(B) -> B]
    <2>1. DOMAIN s = 1 .. c
      OBVIOUS
    <2> HIDE DEF s
    <2> QED BY <1>5, <1>13, <1>14, <2>1 DEF Sorts
  <1> HIDE DEF s
  <1> QED BY <1>5, <1>15 DEF Sortable

\* A list in a strict order holds as many rows as it is long.
LEMMA OrderedCounts ==
  ASSUME NEW S, NEW s \in Seq(S), NEW rel, Ordered(rel, s), \A f : <<f, f>> \notin rel
  PROVE  Cardinality(Range(s)) = Len(s)
  <1>1. Len(s) \in Nat /\ DOMAIN s = 1 .. Len(s)
    OBVIOUS
  <1>2. s \in [1 .. Len(s) -> Range(s)]
    BY <1>1 DEF Range
  <1>3. \A i, j \in 1 .. Len(s) : s[i] = s[j] => i = j
    <2> SUFFICES ASSUME NEW i \in 1 .. Len(s), NEW j \in 1 .. Len(s), s[i] = s[j], i # j
                 PROVE  FALSE
      OBVIOUS
    <2>1. i < j \/ j < i
      BY <1>1
    <2>2. <<s[i], s[j]>> \in rel \/ <<s[j], s[i]>> \in rel
      BY <1>1, <2>1 DEF Ordered
    <2> QED BY <2>2
  <1>4. s \in Bijection(1 .. Len(s), Range(s))
    <2>1. \A f \in Range(s) : \E i \in 1 .. Len(s) : s[i] = f
      BY <1>1 DEF Range
    <2> QED BY <1>2, <1>3, <2>1 DEF Bijection, Injection, Surjection, IsInjective
  <1>5. ExistsBijection(1 .. Len(s), Range(s))
    BY <1>4 DEF ExistsBijection
  <1> QED BY <1>1, <1>5, FS_CountingElements
----------------------------------------------------------------------------
(* The inductive invariant.                                                *)

FidsOf(rows) == [i \in DOMAIN rows |-> rows[i].fid]

\* The scans that deliver every row, and those of them that use batches.
Delivering == op \in {"dense", "sparse", "records"}
Batching == op \in {"dense", "sparse"} /\ access = "batched"

Live == {f \in asked : ~Skipped(f)}

\* The order of the scan; that a row comes once, if a thread was not started.
Offsets == [f \in Fids |-> feature_offset(f)]
Order == {p \in Fids \X Fids :
             IF unlaunched THEN p[1] # p[2]
             ELSE IF op = "sparse" THEN Lower(Offsets, p[1], p[2]) ELSE p[1] < p[2]}

QuietInv ==
    /\ outcome = "idle" =>
          op = "none" /\ emitted = <<>> /\ seen = <<>> /\ unlaunched = FALSE
    /\ ~Batching => current = NoBatch /\ ready = NoBatch /\ pending = <<>>
    /\ depth = 1 => pending = <<>>
    /\ op = "sparse" /\ outcome = "running" => Live = asked

RunningInv ==
    Delivering /\ outcome = "running" =>
        /\ seen = emitted
        /\ LineOK(Order, Live, asked, FidsOf(emitted), pending, ready.rows, current.rows, todo)

CompleteInv ==
    Delivering /\ outcome = "complete" =>
        /\ Range(FidsOf(emitted)) = Live /\ Ordered(Order, FidsOf(emitted))
        /\ result = Len(emitted)

SeenInv == op \in {"dense", "sparse"} => Ordered(Order, FidsOf(seen))

ScanInv == Types /\ QuietInv /\ RunningInv /\ CompleteInv /\ SeenInv

\* What the open table is.
LEMMA TableIs ==
  ASSUME table \in Tables
  PROVE  /\ file_size \in Nat /\ Len(table.slots) \in Nat
         /\ Fids = 1 .. Len(table.slots)
         /\ \A f \in Fids : feature_offset(f) \in Nat /\ row_size(f) \in Nat
         /\ Offsets \in [1 .. Len(table.slots) -> Nat]
  BY ReadsAssumption DEF Fids, file_size, feature_offset, row_size, Offsets

LEMMA OrderIsStrict ==
  ASSUME table \in Tables
  PROVE  \A f : <<f, f>> \notin Order
  <1>1. /\ Fids = 1 .. Len(table.slots) /\ Offsets \in [1 .. Len(table.slots) -> Nat]
        /\ Len(table.slots) \in Nat
    BY TableIs
  <1>2. ASSUME NEW f, <<f, f>> \in Order PROVE FALSE
    <2>1. f \in 1 .. Len(table.slots) /\ Offsets[f] \in Nat /\ f \in Nat
      BY <1>1, <1>2 DEF Order
    <2>2. ~(f < f) /\ ~Lower(Offsets, f, f)
      BY <2>1 DEF Lower
    <2> QED BY <1>2, <2>2 DEF Order
  <1> QED BY <1>2

LEMMA SameScan ==
  ASSUME UNCHANGED <<table, op, asked, unlaunched>>
  PROVE  /\ Order' = Order /\ Live' = Live /\ Fids' = Fids /\ Batch' = Batch
         /\ Delivering' = Delivering
  BY DEF Order, Live, Fids, Batch, Offsets, feature_offset, Skipped, file_size, Delivering

LEMMA DeliveryIs ==
  ASSUME NEW S, NEW s, Delivery(S, s)
  PROVE  FidsOf(s) \in Seq(S) /\ Len(FidsOf(s)) = Len(s)
         /\ DOMAIN s = 1 .. Len(s) /\ Len(s) \in Nat
         /\ \A i \in 1 .. Len(s) : FidsOf(s)[i] = s[i].fid
  <1>1. Len(s) \in Nat /\ DOMAIN s = 1 .. Len(s)
    BY DEF Delivery
  <1>2. \A i \in 1 .. Len(s) : s[i].fid \in S
    BY <1>1 DEF Delivery, Range
  <1>3. FidsOf(s) = [i \in 1 .. Len(s) |-> s[i].fid]
    BY <1>1 DEF FidsOf
  <1> QED BY <1>1, <1>2, <1>3, IsASeq

LEMMA NothingDelivered ==
  ASSUME NEW S PROVE Delivery(S, <<>>) /\ FidsOf(<<>>) = <<>>
  <1>1. Delivery(S, <<>>)
    BY EmptyIs, EmptySeq DEF Delivery
  <1>2. Len(FidsOf(<<>>)) = 0 /\ FidsOf(<<>>) \in Seq(S)
    BY <1>1, DeliveryIs, EmptySeq
  <1> QED BY <1>1, <1>2, EmptySeq

LEMMA DeliveryAppends ==
  ASSUME NEW S, NEW s, Delivery(S, s), NEW x, x.fid \in S
  PROVE  /\ Delivery(S, Append(s, x))
         /\ FidsOf(Append(s, x)) = Append(FidsOf(s), x.fid)
  <1> DEFINE R == Range(s) \cup {x}
             t == Append(s, x)
  <1>1. s \in Seq(R) /\ x \in R
    BY SeqMonotonic DEF Delivery
  <1>2. t \in Seq(R) /\ Range(t) = R
    <2> HIDE DEF R
    <2>1. t \in Seq(R) /\ Range(t) = Range(s) \cup {x}
      BY <1>1, AppendIs
    <2> QED BY <2>1 DEF R
  <1>3. Delivery(S, t)
    <2>1. \A row \in R : row.fid \in S
      BY DEF Delivery
    <2> HIDE DEF R, t
    <2> QED BY <1>2, <2>1 DEF Delivery
  <1>4. /\ Len(t) = Len(s) + 1 /\ t[Len(s) + 1] = x
        /\ \A i \in 1 .. Len(s) : t[i] = s[i]
    <2> HIDE DEF R
    <2> QED BY <1>1, AppendProperties
  <1> DEFINE u == FidsOf(s)
             v == FidsOf(t)
             w == Append(u, x.fid)
  <1>5. /\ u \in Seq(S) /\ Len(u) = Len(s) /\ Len(s) \in Nat
        /\ \A i \in 1 .. Len(s) : u[i] = s[i].fid
    BY DeliveryIs
  <1> HIDE DEF t, R
  <1>6. /\ v \in Seq(S) /\ Len(v) = Len(s) + 1
        /\ \A i \in 1 .. Len(s) + 1 : v[i] = t[i].fid
    BY <1>3, <1>4, DeliveryIs
  <1> HIDE DEF u, v
  <1>7. /\ w \in Seq(S) /\ Len(w) = Len(u) + 1 /\ w[Len(u) + 1] = x.fid
        /\ \A i \in 1 .. Len(u) : w[i] = u[i]
    BY <1>5, AppendProperties
  <1> HIDE DEF w
  <1>8. \A i \in 1 .. Len(s) + 1 : v[i] = w[i]
    <2> TAKE i \in 1 .. Len(s) + 1
    <2>1. CASE i = Len(s) + 1
      BY <1>4, <1>5, <1>6, <1>7, <2>1
    <2>2. CASE i \in 1 .. Len(s)
      BY <1>4, <1>5, <1>6, <1>7, <2>2
    <2> QED BY <1>5, <2>1, <2>2
  <1>9. v = w
    BY <1>5, <1>6, <1>7, <1>8, SeqEqual
  <1> QED BY <1>3, <1>9 DEF t, u, v, w

\* Rows of a batch are delivered behind the others.
LEMMA DeliveryConcats ==
  ASSUME NEW S, NEW s, Delivery(S, s), NEW ids \in Seq(S), NEW n \in 0 .. Len(ids),
         NEW t, t \in Seq(Range(t)), Len(t) = n, \A k \in 1 .. n : t[k].fid = ids[k]
  PROVE  /\ Delivery(S, s \o t)
         /\ FidsOf(s \o t) = FidsOf(s) \o FirstOf(ids, n)
  <1> DEFINE R == Range(s) \cup Range(t)
             u == s \o t
             a == FidsOf(s)
             b == FirstOf(ids, n)
             v == FidsOf(u)
             w == a \o b
  <1>1. n \in Nat /\ Len(ids) \in Nat /\ \A k \in 1 .. n : ids[k] \in S
    OBVIOUS
  <1>2. t \in Seq(Range(t)) /\ Len(t) = n /\ DOMAIN t = 1 .. n
    OBVIOUS
  <1>3. s \in Seq(R) /\ t \in Seq(R)
    BY <1>2, SeqMonotonic DEF Delivery
  <1>4. /\ u \in Seq(R) /\ Range(u) = Range(s) \cup Range(t)
    <2> HIDE DEF R
    <2> QED BY <1>3, ConcatIs
  <1>5. Delivery(S, u)
    <2>1. \A row \in Range(s) : row.fid \in S
      BY DEF Delivery
    <2>2. \A row \in Range(t) : row.fid \in S
      BY <1>1, <1>2 DEF Range
    <2> HIDE DEF u
    <2> QED BY <1>4, <2>1, <2>2 DEF Delivery
  <1>6. /\ Len(u) = Len(s) + n
        /\ \A i \in 1 .. Len(s) + n : u[i] = IF i <= Len(s) THEN s[i] ELSE t[i - Len(s)]
    <2> HIDE DEF R
    <2>1. /\ Len(u) = Len(s) + Len(t)
          /\ \A i \in 1 .. Len(s) + Len(t) :
                u[i] = IF i <= Len(s) THEN s[i] ELSE t[i - Len(s)]
      BY <1>3, ConcatProperties
    <2> QED BY <1>2, <2>1
  <1>7. /\ a \in Seq(S) /\ Len(a) = Len(s) /\ Len(s) \in Nat
        /\ \A i \in 1 .. Len(s) : a[i] = s[i].fid
    BY DeliveryIs
  <1> HIDE DEF u
  <1>8. /\ v \in Seq(S) /\ Len(v) = Len(s) + n
        /\ \A i \in 1 .. Len(s) + n : v[i] = u[i].fid
    BY <1>5, <1>6, DeliveryIs
  <1>9. b \in Seq(S) /\ Len(b) = n /\ \A k \in 1 .. n : b[k] = ids[k]
    <2>1. b \in Seq(S)
      BY FirstIs
    <2> QED BY <1>1, <2>1 DEF FirstOf
  <1> HIDE DEF a, b, v
  <1>10. /\ w \in Seq(S) /\ Len(w) = Len(a) + Len(b)
         /\ \A i \in 1 .. Len(a) + Len(b) : w[i] = IF i <= Len(a) THEN a[i] ELSE b[i - Len(a)]
    <2>1. a \in Seq(S) /\ b \in Seq(S)
      BY <1>7, <1>9
    <2> QED BY <2>1, ConcatProperties
  <1> HIDE DEF w
  <1>11. \A i \in 1 .. Len(s) + n : v[i] = w[i]
    <2> TAKE i \in 1 .. Len(s) + n
    <2>1. CASE i <= Len(s)
      <3>1. i \in 1 .. Len(a) + Len(b) /\ i <= Len(a) /\ i \in 1 .. Len(s)
        BY <1>1, <1>7, <1>9, <2>1
      <3>2. w[i] = a[i]
        BY <1>10, <3>1
      <3>3. u[i] = s[i]
        BY <1>6, <2>1
      <3> QED BY <1>7, <1>8, <3>1, <3>2, <3>3
    <2>2. CASE ~(i <= Len(s))
      <3>1. i \in 1 .. Len(a) + Len(b) /\ ~(i <= Len(a)) /\ i - Len(s) \in 1 .. n
        BY <1>1, <1>7, <1>9, <2>2
      <3>2. w[i] = b[i - Len(s)]
        BY <1>7, <1>10, <3>1
      <3>3. u[i] = t[i - Len(s)]
        BY <1>6, <2>2
      <3>4. t[i - Len(s)].fid = ids[i - Len(s)] /\ b[i - Len(s)] = ids[i - Len(s)]
        BY <1>9, <3>1
      <3> QED BY <1>8, <3>2, <3>3, <3>4
    <2> QED BY <2>1, <2>2
  <1>12. v = w
    BY <1>1, <1>7, <1>8, <1>9, <1>10, <1>11, SeqEqual
  <1> QED BY <1>5, <1>12 DEF u, v, w, a, b
----------------------------------------------------------------------------
(* What kinds of steps do to it.                                           *)

LEMMA BatchIs ==
  /\ NoBatch \in Batch /\ NoBatch.rows = <<>>
  /\ \A b \in Batch : b.rows \in Seq(Fids)
  <1>1. <<>> \in Seq(Fids)
    BY EmptySeq
  <1> QED BY <1>1 DEF NoBatch, Batch

LEMMA ScanInvInit == Init => ScanInv
  <1> SUFFICES ASSUME Init PROVE ScanInv
    OBVIOUS
  <1>1. /\ Delivery(Fids, <<>>) /\ <<>> \in Seq(Fids) /\ <<>> \in Seq(Batch)
    BY NothingDelivered, EmptySeq
  <1>2. Types
    BY <1>1, BatchIs DEF Init, Types
  <1>3. QuietInv /\ RunningInv /\ CompleteInv /\ SeenInv
    BY DEF Init, QuietInv, RunningInv, CompleteInv, SeenInv, Delivering
  <1> QED BY <1>2, <1>3 DEF ScanInv

\* What holds while a scan that delivers is running.
LEMMA RunningIs ==
  ASSUME ScanInv, outcome = "running", Delivering
  PROVE  /\ IsLine(Fids, FidsOf(emitted), pending, ready.rows, current.rows, todo)
         /\ LineOK(Order, Live, asked, FidsOf(emitted), pending, ready.rows, current.rows, todo)
         /\ seen = emitted /\ Ordered(Order, FidsOf(emitted))
         /\ ~Batching => ready.rows = <<>> /\ current.rows = <<>> /\ pending = <<>>
         /\ todo # <<>> => Head(todo) \in Fids /\ Head(todo) \in asked
  <1>1. /\ current \in Batch /\ ready \in Batch /\ pending \in Seq(Batch)
        /\ todo \in Seq(Fids) /\ Delivery(Fids, emitted)
    BY DEF ScanInv, Types
  <1>2. FidsOf(emitted) \in Seq(Fids)
    BY <1>1, DeliveryIs
  <1>3. \A k \in DOMAIN pending : pending[k] \in Batch
    BY <1>1
  <1>4. IsLine(Fids, FidsOf(emitted), pending, ready.rows, current.rows, todo)
    BY <1>1, <1>2, <1>3, BatchIs DEF IsLine
  <1>5. /\ LineOK(Order, Live, asked, FidsOf(emitted), pending, ready.rows, current.rows, todo)
        /\ seen = emitted
    BY DEF ScanInv, RunningInv
  <1>6. ~Batching => ready.rows = <<>> /\ current.rows = <<>> /\ pending = <<>>
    BY BatchIs DEF ScanInv, QuietInv
  <1>7. todo # <<>> => Head(todo) \in Fids /\ Head(todo) \in asked
    <2> SUFFICES ASSUME todo # <<>> PROVE Head(todo) \in Fids /\ Head(todo) \in asked
      OBVIOUS
    <2>1. Head(todo) \in Fids /\ Range(todo) = {Head(todo)} \cup Range(Tail(todo))
      BY <1>1, TailIs
    <2> QED BY <1>5, <2>1 DEF LineOK, LineCovers
  <1> QED BY <1>4, <1>5, <1>6, <1>7 DEF LineOK, LineOrdered

\* A scan starts.
LEMMA StartKeeps ==
  ASSUME ScanInv, NEW name, NEW rows \in Seq(Fids), Start(name, rows), name # "none",
         name \in {"dense", "sparse", "records"} => Ordered(Order', rows),
         name = "sparse" => \A f \in Range(rows) : ~Skipped(f)
  PROVE  ScanInv'
  <1>1. /\ op = "none" /\ emitted = <<>> /\ seen = <<>> /\ unlaunched = FALSE
        /\ current = NoBatch /\ ready = NoBatch /\ pending = <<>>
    BY DEF ScanInv, QuietInv, Start, Batching
  <1>2. /\ op' = name /\ todo' = rows /\ outcome' = "running" /\ asked' = Range(rows)
        /\ table' = table /\ unlaunched' = unlaunched /\ emitted' = <<>> /\ seen' = <<>>
        /\ current' = NoBatch /\ ready' = NoBatch /\ pending' = <<>>
    BY <1>1 DEF Start, Range
  <1>3. Fids' = Fids /\ Batch' = Batch /\ \A f : Skipped(f)' <=> Skipped(f)
    BY <1>2 DEF Fids, Batch, Skipped, feature_offset, file_size
  <1>4. Types'
    <2>1. depth' \in Nat
      <3>1. depth' \in async_depth(name)
        BY DEF Start
      <3>2. async_depth(name) \subseteq Depths \cup {1}
        BY DEF async_depth
      <3>3. Depths \cup {1} \subseteq Nat
        BY ReadsAssumption
      <3> QED BY <3>1, <3>2, <3>3
    <2>2. asked' \subseteq Fids
      BY <1>2, RangeIs
    <2>3. /\ Delivery(Fids, <<>>) /\ <<>> \in Seq(Batch)
      BY NothingDelivered, EmptySeq
    <2> QED BY <1>1, <1>2, <1>3, <2>1, <2>2, <2>3, BatchIs DEF Types, ScanInv
  <1>5. QuietInv'
    <2>1. op' = "sparse" => Live' = asked'
      BY <1>2, <1>3 DEF Live
    <2> QED BY <1>2, <2>1 DEF QuietInv
  <1>6. FidsOf(emitted)' = <<>> /\ FidsOf(seen)' = <<>>
    BY <1>2, NothingDelivered DEF FidsOf
  <1>7. RunningInv'
    <2> SUFFICES ASSUME Delivering' PROVE
            /\ seen' = emitted'
            /\ LineOK(Order', Live', asked', FidsOf(emitted)', pending', ready.rows',
                      current.rows', todo')
      BY DEF RunningInv
    <2>1. Ordered(Order', rows)
      BY <1>2 DEF Delivering
    <2>2. Live' \in SUBSET Range(rows)
      BY <1>2 DEF Live
    <2>3. LineOK(Order', Live', Range(rows), <<>>, <<>>, <<>>, <<>>, rows)
      BY <2>1, <2>2, LineStarts
    <2> QED BY <1>2, <1>6, <2>3, BatchIs
  <1>8. CompleteInv'
    BY <1>2 DEF CompleteInv
  <1>9. SeenInv'
    BY <1>6, EmptyIs DEF SeenInv
  <1> QED BY <1>4, <1>5, <1>7, <1>8, <1>9 DEF ScanInv

LEMMA RefuseKeeps == ASSUME ScanInv, NEW name, Refuse(name) PROVE ScanInv'
  <1>1. /\ op = "none" /\ emitted = <<>> /\ seen = <<>>
        /\ current = NoBatch /\ ready = NoBatch /\ pending = <<>>
    BY DEF ScanInv, QuietInv, Refuse, Batching
  <1>2. UNCHANGED <<table, asked, depth, todo, current, ready, pending, unlaunched, emitted, seen>>
        /\ outcome' = "failed"
    BY DEF Refuse
  <1>3. Fids' = Fids /\ Batch' = Batch
    BY <1>2 DEF Fids, Batch
  <1>4. Types'
    BY <1>2, <1>3 DEF Types, ScanInv
  <1>5. QuietInv' /\ RunningInv' /\ CompleteInv'
    BY <1>1, <1>2 DEF QuietInv, RunningInv, CompleteInv
  <1>6. SeenInv'
    <2>1. FidsOf(seen)' = <<>>
      BY <1>1, <1>2, NothingDelivered DEF FidsOf
    <2> QED BY <2>1, EmptyIs DEF SeenInv
  <1> QED BY <1>4, <1>5, <1>6 DEF ScanInv

\* sequential_scan and scan_field_candidates go on or end.
LEMMA OthersKeep ==
  ASSUME ScanInv, outcome = "running", ~Delivering,
         UNCHANGED <<table, access, op, asked, depth, current, ready, pending, unlaunched>>,
         todo' \in Seq(Fids), Delivery(Fids, emitted'), Delivery(Fids, seen'),
         outcome' # "idle"
  PROVE  ScanInv'
  <1>1. Fids' = Fids /\ Batch' = Batch /\ ~Delivering'
    BY SameScan
  <1>2. Types'
    BY <1>1 DEF Types, ScanInv
  <1>3. QuietInv'
    BY <1>1 DEF QuietInv, ScanInv, Delivering, Batching
  <1>4. RunningInv' /\ CompleteInv' /\ SeenInv'
    BY <1>1 DEF RunningInv, CompleteInv, SeenInv, Delivering
  <1> QED BY <1>2, <1>3, <1>4 DEF ScanInv

\* A scan ends early.
LEMMA StopKeeps ==
  ASSUME ScanInv, outcome = "running", outcome' \in {"stopped", "failed"}, todo' = <<>>,
         UNCHANGED <<table, access, op, asked, depth>>, unlaunched' \in BOOLEAN,
         \/ UNCHANGED <<current, ready, pending>>
         \/ current' = NoBatch /\ ready' = NoBatch /\ pending' = <<>>,
         Delivery(Fids, emitted'), Delivery(Fids, seen'),
         op \in {"dense", "sparse"} => Ordered(Order', FidsOf(seen'))
  PROVE  ScanInv'
  <1>1. Fids' = Fids /\ Batch' = Batch
    BY DEF Fids, Batch
  <1>2. Types'
    <2>1. <<>> \in Seq(Fids) /\ <<>> \in Seq(Batch) /\ NoBatch \in Batch
      BY BatchIs, EmptySeq
    <2>2. current' \in Batch /\ ready' \in Batch /\ pending' \in Seq(Batch)
      BY <2>1 DEF Types, ScanInv
    <2> QED BY <1>1, <2>1, <2>2 DEF Types, ScanInv
  <1>3. QuietInv'
    BY DEF QuietInv, ScanInv, Batching
  <1>4. RunningInv' /\ CompleteInv'
    BY DEF RunningInv, CompleteInv
  <1>5. SeenInv'
    BY DEF SeenInv, FidsOf
  <1> QED BY <1>2, <1>3, <1>4, <1>5 DEF ScanInv

\* Rows move along the line.
LEMMA MoveKeeps ==
  ASSUME ScanInv, outcome = "running", Delivering, outcome' = outcome,
         UNCHANGED <<table, access, op, asked, depth>>, unlaunched' \in BOOLEAN,
         Delivery(Fids, emitted'), seen' = emitted', todo' \in Seq(Fids),
         current' \in Batch, ready' \in Batch, pending' \in Seq(Batch),
         ~Batching => UNCHANGED <<current, ready, pending>>,
         depth = 1 => pending' = <<>>,
         LineOK(Order', Live, asked, FidsOf(emitted'), pending', ready'.rows, current'.rows, todo')
  PROVE  ScanInv'
  <1>1. /\ Fids' = Fids /\ Batch' = Batch /\ Live' = Live
        /\ Delivering' = Delivering /\ Batching' = Batching
    BY DEF Fids, Batch, Live, Skipped, feature_offset, file_size, Delivering, Batching
  <1>2. Types'
    BY <1>1 DEF Types, ScanInv
  <1>3. QuietInv'
    BY <1>1 DEF QuietInv, ScanInv
  <1>4. RunningInv'
    BY <1>1 DEF RunningInv, FidsOf
  <1>5. CompleteInv'
    BY DEF CompleteInv
  <1>6. SeenInv'
    BY DEF SeenInv, LineOK, LineOrdered, FidsOf
  <1> QED BY <1>2, <1>3, <1>4, <1>5, <1>6 DEF ScanInv

\* Everything has been delivered.
LEMMA CompleteKeeps ==
  ASSUME ScanInv, outcome = "running", Delivering, outcome' = "complete",
         UNCHANGED <<table, access, op, asked, depth, unlaunched, emitted, seen>>,
         result' = Len(emitted), todo = <<>>, todo' = <<>>,
         current = NoBatch, ready = NoBatch, pending = <<>>,
         UNCHANGED <<current, ready, pending>>
  PROVE  ScanInv'
  <1>1. Order' = Order /\ Live' = Live /\ Fids' = Fids /\ Batch' = Batch
    BY SameScan
  <1>2. Types'
    BY <1>1 DEF Types, ScanInv
  <1>3. QuietInv' /\ RunningInv'
    BY DEF QuietInv, RunningInv, ScanInv
  <1>4. Range(FidsOf(emitted)) = Live /\ Ordered(Order, FidsOf(emitted))
    <2>1. LineOK(Order, Live, asked, FidsOf(emitted), <<>>, <<>>, <<>>, <<>>)
      BY RunningIs, BatchIs
    <2> QED BY <2>1, LineEnds
  <1>5. CompleteInv'
    BY <1>1, <1>4 DEF CompleteInv, FidsOf
  <1>6. SeenInv'
    BY <1>1, <1>4, RunningIs DEF SeenInv, FidsOf
  <1> QED BY <1>2, <1>3, <1>5, <1>6 DEF ScanInv
----------------------------------------------------------------------------
(* The actions.                                                            *)

LEMMA AllFidsAre ==
  ASSUME table \in Tables
  PROVE  /\ AllFids \in Seq(Fids) /\ Range(AllFids) = Fids
         /\ \A i, j \in DOMAIN AllFids : i < j => AllFids[i] < AllFids[j]
  <1>1. Len(table.slots) \in Nat /\ Fids = 1 .. Len(table.slots)
    BY TableIs
  <1>2. DOMAIN AllFids = Fids /\ \A i \in Fids : AllFids[i] = i
    BY <1>1 DEF AllFids
  <1>3. AllFids \in Seq(Fids)
    BY <1>1, IsASeq DEF AllFids
  <1> QED BY <1>1, <1>2, <1>3 DEF Range

\* The candidates, each once, by offset.
LEMMA PhysicalIs ==
  ASSUME table \in Tables, NEW c \in SUBSET Fids
  PROVE  /\ Physical(c) \in Seq(Fids) /\ Range(Physical(c)) = c
         /\ Sorts(Offsets, Physical(c))
  <1>1. /\ Len(table.slots) \in Nat /\ Fids = 1 .. Len(table.slots)
        /\ Offsets \in [1 .. Len(table.slots) -> Nat]
        /\ \A f \in Fids : Offsets[f] = feature_offset(f)
    BY TableIs DEF Offsets
  <1>2. IsFiniteSet(c) /\ Cardinality(c) \in Nat
    <2>1. IsFiniteSet(1 .. Len(table.slots))
      BY <1>1, FS_Interval
    <2>2. IsFiniteSet(c)
      BY <1>1, <2>1, FS_Subset
    <2> QED BY <2>2, FS_CardinalityType
  <1> DEFINE n == Cardinality(c)
             Goes(s) == \A i, j \in DOMAIN s : i < j =>
                \/ feature_offset(s[i]) < feature_offset(s[j])
                \/ feature_offset(s[i]) = feature_offset(s[j]) /\ s[i] < s[j]
             p == Physical(c)
  <1>3. p = CHOOSE s \in [1 .. n -> c] : Goes(s)
    BY DEF Physical
  <1>4. ASSUME NEW s \in [1 .. n -> c] PROVE Goes(s) <=> Sorts(Offsets, s)
    <2>1. \A i \in DOMAIN s : s[i] \in Fids
      OBVIOUS
    <2> HIDE DEF n
    <2>2. \A i, j \in DOMAIN s : Lower(Offsets, s[i], s[j]) <=>
             \/ feature_offset(s[i]) < feature_offset(s[j])
             \/ feature_offset(s[i]) = feature_offset(s[j]) /\ s[i] < s[j]
      BY <1>1, <2>1 DEF Lower
    <2> QED BY <2>2 DEF Sorts
  <1>5. \E s \in [1 .. n -> c] : Goes(s)
    <2> HIDE DEF Goes
    <2>1. \E s \in [1 .. n -> c] : Sorts(Offsets, s)
      BY <1>1, SortExists
    <2> QED BY <1>4, <2>1
  <1>6. p \in [1 .. n -> c] /\ Goes(p)
    <2> HIDE DEF p, Goes
    <2> QED BY <1>3, <1>5
  <1>7. Sorts(Offsets, p)
    <2> HIDE DEF p, Goes
    <2> QED BY <1>4, <1>6
  <1>8. p \in Seq(c) /\ p \in Seq(Fids) /\ Len(p) = n
    <2> HIDE DEF p, Goes, n
    <2>1. p \in Seq(c) /\ Len(p) = n
      BY <1>2, <1>6 DEF n
    <2> QED BY <2>1, SeqMonotonic
  <1>9. Range(p) = c
    <2> DEFINE rel == {q \in Fids \X Fids : Lower(Offsets, q[1], q[2])}
    <2>1. \A f : <<f, f>> \notin rel
      <3> SUFFICES ASSUME NEW f, <<f, f>> \in rel PROVE FALSE
        OBVIOUS
      <3>1. f \in 1 .. Len(table.slots) /\ Offsets[f] \in Nat /\ f \in Nat
        BY <1>1
      <3> QED BY <3>1 DEF Lower
    <2>2. Ordered(rel, p)
      <3> HIDE DEF p, Goes
      <3>1. \A i \in DOMAIN p : p[i] \in Fids
        BY <1>6
      <3> QED BY <1>7, <3>1 DEF Ordered, Sorts
    <2> HIDE DEF rel, p, Goes
    <2>3. Cardinality(Range(p)) = n
      BY <1>8, <2>1, <2>2, OrderedCounts
    <2>4. Range(p) \in SUBSET c
      BY <1>8, RangeIs
    <2>5. Cardinality(c) = Cardinality(Range(p)) => c = Range(p)
      BY <1>2, <2>4, FS_Subset
    <2> QED BY <2>3, <2>5
  <1> QED BY <1>7, <1>8, <1>9

LEMMA StartSequentialKeeps == ScanInv /\ StartSequential => ScanInv'
  <1> SUFFICES ASSUME ScanInv, Start("sequential", AllFids) PROVE ScanInv'
    BY DEF StartSequential
  <1>1. AllFids \in Seq(Fids)
    BY AllFidsAre DEF ScanInv, Types
  <1> QED BY <1>1, StartKeeps

LEMMA StartFieldsKeeps == ScanInv /\ StartFields => ScanInv'
  <1> SUFFICES ASSUME ScanInv, StartFields PROVE ScanInv'
    OBVIOUS
  <1>1. PICK c \in Candidates : Start("fields", Physical(c)) \/ Refuse("fields")
    BY DEF StartFields
  <1>2. Physical(c) \in Seq(Fids)
    BY PhysicalIs DEF ScanInv, Types, Candidates
  <1> QED BY <1>1, <1>2, StartKeeps, RefuseKeeps

\* A scan of all rows is in their order.
LEMMA StartAllKeeps ==
  ASSUME ScanInv, NEW name \in {"dense", "records"}, Start(name, AllFids)
  PROVE  ScanInv'
  <1>1. /\ AllFids \in Seq(Fids) /\ Range(AllFids) = Fids
        /\ \A i, j \in DOMAIN AllFids : i < j => AllFids[i] < AllFids[j]
    BY AllFidsAre DEF ScanInv, Types
  <1>2. unlaunched' = FALSE /\ op' # "sparse" /\ Fids' = Fids
    BY DEF Start, ScanInv, QuietInv, Fids
  <1>3. Order' = {p \in Fids \X Fids : p[1] < p[2]}
    BY <1>2 DEF Order
  <1>4. \A i \in DOMAIN AllFids : AllFids[i] \in Fids
    BY <1>1
  <1>5. Ordered(Order', AllFids)
    BY <1>1, <1>3, <1>4 DEF Ordered
  <1> QED BY <1>1, <1>5, StartKeeps

LEMMA StartDenseKeeps == ScanInv /\ StartDense => ScanInv'
  BY StartAllKeeps DEF StartDense

LEMMA StartRecordsKeeps == ScanInv /\ StartRecords => ScanInv'
  BY StartAllKeeps DEF StartRecords

LEMMA FetchableIsLive ==
  ASSUME table \in Tables, NEW f \in Fids,
         feature_offset(f) # 0, has_record_prefix(feature_offset(f))
  PROVE  ~Skipped(f)
  <1>1. feature_offset(f) \in Nat /\ file_size \in Nat /\ PrefixBytes \in Nat \ {0}
    BY TableIs, ReadsAssumption
  <1>2. feature_offset(f) # file_size
    BY <1>1 DEF has_record_prefix
  <1> QED BY <1>1, <1>2 DEF Skipped, has_record_prefix

LEMMA StartSparseKeeps == ScanInv /\ StartSparse => ScanInv'
  <1> SUFFICES ASSUME ScanInv, StartSparse PROVE ScanInv'
    OBVIOUS
  <1>1. PICK c \in Candidates :
           \/ (\A f \in c : Fetchable(f)) /\ Start("sparse", Physical(c))
           \/ Refuse("sparse")
    BY DEF StartSparse
  <1>2. CASE Refuse("sparse")
    BY <1>2, RefuseKeeps
  <1>3. CASE (\A f \in c : Fetchable(f)) /\ Start("sparse", Physical(c))
    <2>1. table \in Tables /\ c \in SUBSET Fids
      BY DEF ScanInv, Types, Candidates
    <2>2. /\ Physical(c) \in Seq(Fids) /\ Range(Physical(c)) = c
          /\ Sorts(Offsets, Physical(c))
      BY <2>1, PhysicalIs
    <2>3. \A f \in c : ~Skipped(f)
      BY <1>3, <2>1, FetchableIsLive DEF Fetchable
    <2>4. unlaunched' = FALSE /\ op' = "sparse" /\ Fids' = Fids /\ Offsets' = Offsets
      BY <1>3 DEF Start, ScanInv, QuietInv, Fids, Offsets, feature_offset
    <2>5. Order' = {p \in Fids \X Fids : Lower(Offsets, p[1], p[2])}
      BY <2>4 DEF Order
    <2> DEFINE s == Physical(c)
    <2>6. \A i \in DOMAIN s : s[i] \in Fids
      BY <2>2
    <2> HIDE DEF s
    <2>7. Ordered(Order', s)
      BY <2>2, <2>5, <2>6 DEF Ordered, Sorts, s
    <2> QED BY <1>3, <2>2, <2>3, <2>7, StartKeeps DEF s
  <1> QED BY <1>1, <1>2, <1>3
\* A row is given to the callback.
LEMMA GivenIs ==
  ASSUME ScanInv, NEW f \in Fids, NEW view
  PROVE  /\ Delivery(Fids, Append(emitted, Row(f, view)))
         /\ FidsOf(Append(emitted, Row(f, view))) = Append(FidsOf(emitted), f)
         /\ Delivery(Fids, Append(seen, Row(f, view)))
         /\ FidsOf(Append(seen, Row(f, view))) = Append(FidsOf(seen), f)
  <1>1. Delivery(Fids, emitted) /\ Delivery(Fids, seen)
    BY DEF ScanInv, Types
  <1>2. Row(f, view).fid = f
    BY DEF Row
  <1> DEFINE row == Row(f, view)
  <1> HIDE DEF row
  <1>3. row.fid = f
    BY <1>2 DEF row
  <1>4. /\ Delivery(Fids, Append(emitted, row)) /\ Delivery(Fids, Append(seen, row))
        /\ FidsOf(Append(emitted, row)) = Append(FidsOf(emitted), f)
        /\ FidsOf(Append(seen, row)) = Append(FidsOf(seen), f)
    BY <1>1, <1>3, DeliveryAppends
  <1> QED BY <1>4 DEF row

LEMMA TodoIs ==
  ASSUME ScanInv
  PROVE  /\ todo \in Seq(Fids) /\ <<>> \in Seq(Fids)
         /\ Delivery(Fids, emitted) /\ Delivery(Fids, seen)
         /\ todo # <<>> => Head(todo) \in Fids /\ Tail(todo) \in Seq(Fids)
  <1>1. todo \in Seq(Fids) /\ Delivery(Fids, emitted) /\ Delivery(Fids, seen)
    BY DEF ScanInv, Types
  <1>2. todo # <<>> => Head(todo) \in Fids /\ Tail(todo) \in Seq(Fids)
    BY <1>1, TailIs
  <1> QED BY <1>1, <1>2, EmptySeq

LEMMA SequentialKeeps ==
  ScanInv /\ (SequentialSkip \/ SequentialBreak \/ SequentialRow \/ SequentialReadFails
                \/ SequentialEnds) => ScanInv'
  <1> SUFFICES ASSUME ScanInv, Sequential, Unbatched,
                      \/ SequentialSkip \/ SequentialBreak \/ SequentialRow
                      \/ SequentialReadFails \/ SequentialEnds
               PROVE  ScanInv'
    BY DEF SequentialSkip, SequentialBreak, SequentialRow, SequentialReadFails, SequentialEnds
  <1>1. outcome = "running" /\ ~Delivering
    BY DEF Sequential, Delivering
  <1>2. ASSUME SequentialRow
        PROVE  /\ todo' \in Seq(Fids) /\ outcome' # "idle"
               /\ Delivery(Fids, emitted') /\ Delivery(Fids, seen')
    <2> DEFINE view == SequentialRefs(table.fields, Bytes(Head(todo)), Implicit(Head(todo)), refs)
               row == Row(Head(todo), view)
    <2>1. /\ todo # <<>>
          /\ \/ Accept(row) /\ todo' = Tail(todo) /\ outcome' = outcome
             \/ Stop(row) /\ Ends("stopped", Len(emitted))
      BY <1>2 DEF SequentialRow
    <2>2. /\ Delivery(Fids, Append(emitted, row)) /\ Delivery(Fids, Append(seen, row))
      BY <2>1, TodoIs, GivenIs
    <2> HIDE DEF row
    <2> QED BY <1>1, <2>1, <2>2, TodoIs DEF Accept, Stop, Ends
  <1>3. /\ todo' \in Seq(Fids) /\ outcome' # "idle"
        /\ Delivery(Fids, emitted') /\ Delivery(Fids, seen')
    BY <1>1, <1>2, TodoIs
    DEF SequentialSkip, SequentialBreak, SequentialReadFails, SequentialEnds, Ends
  <1> QED BY <1>1, <1>3, OthersKeep DEF Unbatched

LEMMA FieldScanKeeps ==
  ScanInv /\ (FieldScanFails \/ FieldScanRow \/ FieldScanEnds) => ScanInv'
  <1> SUFFICES ASSUME ScanInv, FieldScan, Unbatched,
                      FieldScanFails \/ FieldScanRow \/ FieldScanEnds
               PROVE  ScanInv'
    BY DEF FieldScanFails, FieldScanRow, FieldScanEnds
  <1>1. outcome = "running" /\ ~Delivering
    BY DEF FieldScan, Delivering
  <1>2. ASSUME FieldScanRow
        PROVE  /\ todo' \in Seq(Fids) /\ outcome' # "idle"
               /\ Delivery(Fids, emitted') /\ Delivery(Fids, seen')
    <2> DEFINE view == parse_row_refs(table.fields, Bytes(Head(todo)), Implicit(Head(todo))).refs
               row == Row(Head(todo), view)
    <2>1. /\ todo # <<>>
          /\ \/ Accept(row) /\ todo' = Tail(todo) /\ outcome' = outcome
             \/ Stop(row) /\ Ends("stopped", Len(emitted))
             \/ Ends("complete", Len(emitted)) /\ UNCHANGED <<emitted, seen>>
      BY <1>2 DEF FieldScanRow
    <2>2. /\ Delivery(Fids, Append(emitted, row)) /\ Delivery(Fids, Append(seen, row))
      BY <2>1, TodoIs, GivenIs
    <2> HIDE DEF row
    <2> QED BY <1>1, <2>1, <2>2, TodoIs DEF Accept, Stop, Ends
  <1>3. /\ todo' \in Seq(Fids) /\ outcome' # "idle"
        /\ Delivery(Fids, emitted') /\ Delivery(Fids, seen')
    BY <1>1, <1>2, TodoIs DEF FieldScanFails, FieldScanEnds, Ends
  <1> QED BY <1>1, <1>3, OthersKeep DEF Unbatched

\* A row that is not live is passed over.
LEMMA SkipKeeps ==
  ASSUME ScanInv, outcome = "running", Delivering, todo # <<>>, Skipped(Head(todo)),
         todo' = Tail(todo),
         UNCHANGED <<table, access, op, asked, depth, current, ready, pending, unlaunched,
                     emitted, seen, outcome>>
  PROVE  ScanInv'
  <1>1. Order' = Order
    BY SameScan
  <1>2. Head(todo) \notin Live
    BY DEF Live
  <1>3. LineOK(Order, Live, asked, FidsOf(emitted), pending, ready.rows, current.rows, Tail(todo))
    BY <1>2, RunningIs, LineSkips
  <1>4. LineOK(Order', Live, asked, FidsOf(emitted'), pending', ready'.rows, current'.rows, todo')
    BY <1>1, <1>3
  <1>5. /\ Delivery(Fids, emitted) /\ current \in Batch /\ ready \in Batch
        /\ pending \in Seq(Batch) /\ unlaunched \in BOOLEAN /\ (depth = 1 => pending = <<>>)
    BY DEF ScanInv, Types, QuietInv
  <1> QED BY <1>4, <1>5, TodoIs, RunningIs, MoveKeeps

\* A row is delivered at once.
LEMMA DeliverKeeps ==
  ASSUME ScanInv, outcome = "running", Delivering, ~Batching,
         todo # <<>>, Head(todo) \in Live, NEW view, Accept(Row(Head(todo), view)),
         todo' = Tail(todo),
         UNCHANGED <<table, access, op, asked, depth, current, ready, pending, unlaunched,
                     outcome>>
  PROVE  ScanInv'
  <1>1. Order' = Order
    BY SameScan
  <1>2. /\ IsLine(Fids, FidsOf(emitted), <<>>, <<>>, <<>>, todo)
        /\ LineOK(Order, Live, asked, FidsOf(emitted), <<>>, <<>>, <<>>, todo)
        /\ seen = emitted /\ ready.rows = <<>> /\ current.rows = <<>> /\ pending = <<>>
    BY RunningIs
  <1>3. LineOK(Order, Live, asked, Append(FidsOf(emitted), Head(todo)), <<>>, <<>>, <<>>, Tail(todo))
    BY <1>2, LineDelivers
  <1>4. /\ Delivery(Fids, emitted') /\ seen' = emitted'
        /\ FidsOf(emitted') = Append(FidsOf(emitted), Head(todo))
    BY <1>2, TodoIs, GivenIs DEF Accept
  <1>5. LineOK(Order', Live, asked, FidsOf(emitted'), pending', ready'.rows, current'.rows, todo')
    BY <1>1, <1>2, <1>3, <1>4
  <1>6. /\ current \in Batch /\ ready \in Batch
        /\ pending \in Seq(Batch) /\ unlaunched \in BOOLEAN /\ (depth = 1 => pending = <<>>)
    BY DEF ScanInv, Types, QuietInv
  <1> QED BY <1>4, <1>5, <1>6, TodoIs, MoveKeeps

\* The callback stops the scan at a row it was given at once.
LEMMA StoppedKeeps ==
  ASSUME ScanInv, outcome = "running", Delivering, todo # <<>>, NEW view,
         Stop(Row(Head(todo), view)), outcome' = "stopped", todo' = <<>>,
         UNCHANGED <<table, access, op, asked, depth, current, ready, pending, unlaunched>>
  PROVE  ScanInv'
  <1>1. Order' = Order
    BY SameScan
  <1>2. /\ LineOK(Order, Live, asked, FidsOf(emitted), pending, ready.rows, current.rows, todo)
        /\ seen = emitted /\ Ordered(Order, FidsOf(emitted)) /\ Head(todo) \in Fids
    BY RunningIs
  <1>3. /\ Delivery(Fids, seen') /\ FidsOf(seen') = Append(FidsOf(seen), Head(todo))
    BY <1>2, GivenIs DEF Stop
  <1>4. Head(todo) \in Range(todo) /\ FidsOf(emitted) \in Seq(Fids)
    BY TodoIs, TailIs, DeliveryIs
  <1>5. \A f \in Range(FidsOf(emitted)) : <<f, Head(todo)>> \in Order
    BY <1>2, <1>4 DEF LineOK, LineOrdered, Apart
  <1>6. Ordered(Order', FidsOf(seen'))
    BY <1>1, <1>2, <1>3, <1>4, <1>5, AppendIs
  <1>7. Delivery(Fids, emitted') /\ unlaunched' \in BOOLEAN
    BY TodoIs DEF Stop, ScanInv, Types
  <1> QED BY <1>3, <1>6, <1>7, StopKeeps

\* The order is the same, or says only that rows differ.
LEMMA OrderWeakens ==
  ASSUME ScanInv, UNCHANGED <<table, op>>, unlaunched' \in BOOLEAN, unlaunched => unlaunched'
  PROVE  Order \subseteq Order'
  <1>1. Fids' = Fids /\ Offsets' = Offsets
    BY DEF Fids, Offsets, feature_offset
  <1>2. ASSUME NEW p \in Order PROVE p \in Order'
    <2>1. /\ Fids = 1 .. Len(table.slots) /\ Offsets \in [Fids -> Nat]
          /\ Len(table.slots) \in Nat /\ p \in Fids \X Fids
      BY TableIs DEF ScanInv, Types, Order
    <2>2. p[1] \in Fids /\ p[2] \in Fids /\ p[1] # p[2]
      <3>1. p = <<p[1], p[2]>>
        BY <2>1
      <3> QED BY <2>1, <3>1, OrderIsStrict DEF ScanInv, Types
    <2>3. CASE unlaunched' = unlaunched
      BY <1>1, <1>2, <2>3 DEF Order
    <2>4. CASE unlaunched' # unlaunched
      <3>1. unlaunched'
        BY <2>4 DEF ScanInv, Types
      <3> QED BY <1>1, <2>1, <2>2, <3>1 DEF Order
    <2> QED BY <2>3, <2>4
  <1> QED BY <1>2

\* A scan gives up between two rows.
LEMMA FailKeeps ==
  ASSUME ScanInv, outcome = "running", Delivering, outcome' = "failed", todo' = <<>>,
         UNCHANGED <<table, access, op, asked, depth, emitted, seen>>,
         unlaunched' \in BOOLEAN, unlaunched => unlaunched',
         \/ UNCHANGED <<current, ready, pending>>
         \/ current' = NoBatch /\ ready' = NoBatch /\ pending' = <<>>
  PROVE  ScanInv'
  <1>1. Order \subseteq Order'
    BY OrderWeakens
  <1>2. Delivery(Fids, emitted') /\ Delivery(Fids, seen')
    BY TodoIs
  <1>3. Ordered(Order', FidsOf(seen'))
    BY <1>1, RunningIs DEF Ordered
  <1> QED BY <1>2, <1>3, StopKeeps
\* The scans of geometries through a mapping or a window.
LEMMA ViewKeeps == ScanInv /\ (ViewSkip \/ ViewRow \/ ViewFails \/ ViewEnds) => ScanInv'
  <1>1. ASSUME ScanInv, ViewSkip PROVE ScanInv'
    <2>1. /\ outcome = "running" /\ Delivering /\ todo # <<>> /\ Skipped(Head(todo))
          /\ todo' = Tail(todo)
          /\ UNCHANGED <<table, access, op, asked, depth, current, ready, pending,
                         unlaunched, emitted, seen, outcome>>
      BY <1>1 DEF ViewSkip, Viewed, GeometryScan, Passed, Delivering, Unbatched
    <2> QED BY <1>1, <2>1, SkipKeeps
  <1>2. ASSUME ScanInv, ViewRow PROVE ScanInv'
    <2> DEFINE view == GeometryView(Head(todo))
    <2>1. /\ outcome = "running" /\ Delivering /\ ~Batching /\ todo # <<>>
          /\ UNCHANGED <<table, access, op, asked, depth, current, ready, pending, unlaunched>>
          /\ \/ Accept(Row(Head(todo), view)) /\ todo' = Tail(todo) /\ outcome' = outcome
             \/ Stop(Row(Head(todo), view)) /\ Ends("stopped", Len(emitted))
      BY <1>2 DEF ViewRow, Viewed, GeometryScan, Delivering, Batching
    <2>2. Head(todo) \in Live
      <3>1. Head(todo) \in asked
        BY <1>2, <2>1, RunningIs
      <3>2. CASE op = "sparse"
        BY <1>2, <2>1, <3>1, <3>2 DEF ScanInv, QuietInv
      <3>3. CASE op = "dense"
        BY <1>2, <3>1, <3>3 DEF ViewRow, Passed, Live
      <3> QED BY <1>2, <3>2, <3>3 DEF ViewRow, Viewed, GeometryScan
    <2> HIDE DEF view
    <2> QED BY <1>2, <2>1, <2>2, DeliverKeeps, StoppedKeeps DEF Ends
  <1>3. ASSUME ScanInv, ViewFails PROVE ScanInv'
    <2>1. /\ outcome = "running" /\ Delivering /\ outcome' = "failed" /\ todo' = <<>>
          /\ UNCHANGED <<table, access, op, asked, depth, emitted, seen>>
          /\ UNCHANGED unlaunched /\ UNCHANGED <<current, ready, pending>>
      BY <1>3 DEF ViewFails, Viewed, GeometryScan, Delivering, Unbatched, Ends
    <2> QED BY <1>3, <2>1, FailKeeps DEF ScanInv, Types
  <1>4. ASSUME ScanInv, ViewEnds PROVE ScanInv'
    <2>1. /\ outcome = "running" /\ Delivering /\ outcome' = "complete" /\ ~Batching
          /\ UNCHANGED <<table, access, op, asked, depth, unlaunched, emitted, seen>>
          /\ UNCHANGED <<current, ready, pending>>
          /\ result' = Len(emitted) /\ todo = <<>> /\ todo' = <<>>
      BY <1>4 DEF ViewEnds, GeometryScan, Delivering, Batching, Unbatched, Ends
    <2>2. current = NoBatch /\ ready = NoBatch /\ pending = <<>>
      BY <1>4, <2>1 DEF ScanInv, QuietInv
    <2> QED BY <1>4, <2>1, <2>2, CompleteKeeps
  <1> QED BY <1>1, <1>2, <1>3, <1>4

LEMMA RecordsKeep == ScanInv /\ (RecordsRow \/ RecordsEnd) => ScanInv'
  <1>1. ASSUME ScanInv, RecordsRow PROVE ScanInv'
    <2> DEFINE f == Head(todo)
    <2>1. /\ outcome = "running" /\ Delivering /\ ~Batching /\ todo # <<>>
          /\ UNCHANGED <<table, access, op, asked, depth, current, ready, pending, unlaunched>>
      BY <1>1 DEF RecordsRow, Records, Delivering, Batching, Unbatched
    <2>2. f \in Fids /\ f \in asked /\ table \in Tables
      BY <1>1, <2>1, RunningIs DEF ScanInv, Types
    <2>3. CASE feature_offset(f) = 0 /\ todo' = Tail(todo) /\ UNCHANGED <<emitted, seen, outcome>>
      BY <1>1, <2>1, <2>3, SkipKeeps DEF Skipped
    <2>4. CASE /\ feature_offset(f) # 0 /\ Record(f).ok /\ Accept(Row(f, Record(f).slots))
               /\ todo' = Tail(todo) /\ UNCHANGED outcome
      <3>1. Fetchable(f)
        BY <2>4 DEF Record, NoRecord
      <3>2. f \in Live
        BY <2>2, <3>1, FetchableIsLive DEF Fetchable, Live
      <3> QED BY <1>1, <2>1, <2>4, <3>2, DeliverKeeps
    <2>5. CASE Ends("failed", 0) /\ UNCHANGED <<emitted, seen>>
      BY <1>1, <2>1, <2>5, FailKeeps DEF Ends, ScanInv, Types
    <2> QED BY <1>1, <2>3, <2>4, <2>5 DEF RecordsRow
  <1>2. ASSUME ScanInv, RecordsEnd PROVE ScanInv'
    <2>1. /\ outcome = "running" /\ Delivering /\ outcome' = "complete" /\ ~Batching
          /\ UNCHANGED <<table, access, op, asked, depth, unlaunched, emitted, seen>>
          /\ UNCHANGED <<current, ready, pending>>
          /\ result' = Len(emitted) /\ todo = <<>> /\ todo' = <<>>
      BY <1>2 DEF RecordsEnd, Records, Delivering, Batching, Unbatched, Ends
    <2>2. current = NoBatch /\ ready = NoBatch /\ pending = <<>>
      BY <1>2, <2>1 DEF ScanInv, QuietInv
    <2> QED BY <1>2, <2>1, <2>2, CompleteKeeps
  <1> QED BY <1>1, <1>2

LEMMA BatchesAre ==
  ASSUME table \in Tables, NEW f \in Fids
  PROVE  /\ \A b \in Batch : AddRow(b, f) \in Batch /\ AddRow(b, f).rows = Append(b.rows, f)
         /\ has_record_prefix(feature_offset(f)) =>
               start_batch(feature_offset(f)) \in Batch /\ start_batch(feature_offset(f)).rows = <<>>
  <1>1. ASSUME NEW b \in Batch
        PROVE  AddRow(b, f) \in Batch /\ AddRow(b, f).rows = Append(b.rows, f)
    <2>1. b.rows \in Seq(Fids)
      BY BatchIs
    <2>2. Append(b.rows, f) \in Seq(Fids)
      BY <2>1, AppendProperties
    <2> QED BY <2>2 DEF AddRow, Batch
  <1>2. ASSUME has_record_prefix(feature_offset(f))
        PROVE  /\ start_batch(feature_offset(f)) \in Batch
               /\ start_batch(feature_offset(f)).rows = <<>>
    <2> DEFINE room == file_size - feature_offset(f)
    <2>1. feature_offset(f) \in Nat /\ room \in Nat /\ BatchBytes \in Nat
      BY <1>2, TableIs, ReadsAssumption DEF has_record_prefix
    <2> HIDE DEF room
    <2>2. Min({BatchBytes, room}) \in {BatchBytes, room}
      <3>1. \E x \in {BatchBytes, room} : \A y \in {BatchBytes, room} : x <= y
        <4>1. CASE BatchBytes <= room
          BY <2>1, <4>1
        <4>2. CASE room <= BatchBytes
          BY <2>1, <4>2
        <4> QED BY <2>1, <4>1, <4>2
      <3> QED BY <3>1 DEF Min
    <2>3. Min({BatchBytes, room}) \in Nat /\ <<>> \in Seq(Fids)
      BY <2>1, <2>2, EmptySeq
    <2> QED BY <2>1, <2>3 DEF start_batch, Batch, room
  <1> QED BY <1>1, <1>2

LEMMA GatherRowKeeps == ScanInv /\ GatherRow => ScanInv'
  <1> SUFFICES ASSUME ScanInv, GatherRow PROVE ScanInv'
    OBVIOUS
  <1> DEFINE f == Head(todo)
             e == FidsOf(emitted)
  <1>1. /\ outcome = "running" /\ Delivering /\ Batching /\ todo # <<>> /\ ready = NoBatch
        /\ UNCHANGED <<table, access, op, asked, depth, pending, unlaunched, emitted, seen,
                       outcome>>
        /\ todo' = Tail(todo) /\ has_record_prefix(feature_offset(f))
    BY DEF GatherRow, Batched, GeometryScan, Delivering, Batching, Same
  <1>2. f \in Fids /\ f \in Live
    <2>1. f \in Fids /\ f \in asked
      BY <1>1, RunningIs
    <2>2. CASE op = "sparse"
      BY <1>1, <2>1, <2>2 DEF ScanInv, QuietInv
    <2>3. CASE op = "dense"
      BY <2>1, <2>3 DEF GatherRow, Passed, Live
    <2> QED BY <1>1, <2>1, <2>2, <2>3 DEF Batching
  <1>3. /\ IsLine(Fids, e, pending, <<>>, current.rows, todo)
        /\ LineOK(Order, Live, asked, e, pending, <<>>, current.rows, todo)
        /\ seen = emitted
    BY <1>1, RunningIs, BatchIs
  <1>4. Order' = Order
    BY <1>1, SameScan
  <1>5. /\ current \in Batch /\ ready \in Batch /\ pending \in Seq(Batch)
        /\ unlaunched \in BOOLEAN /\ (depth = 1 => pending = <<>>) /\ table \in Tables
    BY DEF ScanInv, Types, QuietInv
  <1>6. CASE current' = AddRow(current, f) /\ UNCHANGED ready
    <2>1. /\ current' \in Batch /\ current'.rows = Append(current.rows, f)
      BY <1>2, <1>5, <1>6, BatchesAre
    <2>2. LineOK(Order, Live, asked, e, pending, <<>>, Append(current.rows, f), Tail(todo))
      BY <1>1, <1>2, <1>3, LineGathers
    <2>3. LineOK(Order', Live, asked, FidsOf(emitted'), pending', ready'.rows, current'.rows, todo')
      BY <1>1, <1>4, <1>6, <2>1, <2>2, BatchIs
    <2> QED BY <1>1, <1>3, <1>5, <1>6, <2>1, <2>3, TodoIs, MoveKeeps
  <1>7. CASE ready' = current /\ current' = AddRow(start_batch(feature_offset(f)), f)
    <2>1. current' \in Batch /\ current'.rows = Append(<<>>, f)
      BY <1>1, <1>2, <1>5, <1>7, BatchesAre
    <2>2. /\ IsLine(Fids, e, pending, current.rows, <<>>, todo)
          /\ LineOK(Order, Live, asked, e, pending, current.rows, <<>>, todo)
      BY <1>3, LineHandsOver
    <2>3. LineOK(Order, Live, asked, e, pending, current.rows, Append(<<>>, f), Tail(todo))
      BY <1>1, <1>2, <2>2, LineGathers
    <2>4. LineOK(Order', Live, asked, FidsOf(emitted'), pending', ready'.rows, current'.rows, todo')
      BY <1>1, <1>4, <1>7, <2>1, <2>3
    <2> QED BY <1>1, <1>3, <1>5, <1>7, <2>1, <2>4, TodoIs, MoveKeeps
  <1> QED BY <1>6, <1>7 DEF GatherRow

LEMMA GatherKeeps == ScanInv /\ (GatherSkip \/ GatherFails \/ GatherEnds) => ScanInv'
  <1>1. ASSUME ScanInv, GatherSkip PROVE ScanInv'
    <2>1. /\ outcome = "running" /\ Delivering /\ todo # <<>> /\ Skipped(Head(todo))
          /\ todo' = Tail(todo)
          /\ UNCHANGED <<table, access, op, asked, depth, current, ready, pending,
                         unlaunched, emitted, seen, outcome>>
      BY <1>1 DEF GatherSkip, Batched, GeometryScan, Passed, Delivering, Same
    <2> QED BY <1>1, <2>1, SkipKeeps
  <1>2. ASSUME ScanInv, GatherFails PROVE ScanInv'
    <2>1. /\ outcome = "running" /\ Delivering /\ outcome' = "failed" /\ todo' = <<>>
          /\ UNCHANGED <<table, access, op, asked, depth, emitted, seen>> /\ UNCHANGED unlaunched
          /\ current' = NoBatch /\ ready' = NoBatch /\ pending' = <<>>
      BY <1>2 DEF GatherFails, Batched, GeometryScan, Delivering, Same, EndBatches, Ends
    <2> QED BY <1>2, <2>1, FailKeeps DEF ScanInv, Types
  <1>3. ASSUME ScanInv, GatherEnds PROVE ScanInv'
    <2>1. /\ outcome = "running" /\ Delivering /\ Batching /\ outcome' = outcome
          /\ UNCHANGED <<table, access, op, asked, depth, unlaunched, todo, pending, emitted, seen>>
          /\ ready = NoBatch /\ ready' = current /\ current' = NoBatch
      BY <1>3 DEF GatherEnds, Batched, GeometryScan, Delivering, Batching, Same
    <2>2. /\ IsLine(Fids, FidsOf(emitted), pending, <<>>, current.rows, todo)
          /\ LineOK(Order, Live, asked, FidsOf(emitted), pending, <<>>, current.rows, todo)
          /\ seen = emitted
      BY <1>3, <2>1, RunningIs, BatchIs
    <2>3. LineOK(Order, Live, asked, FidsOf(emitted), pending, current.rows, <<>>, todo)
      BY <2>2, LineHandsOver
    <2>4. LineOK(Order', Live, asked, FidsOf(emitted'), pending', ready'.rows, current'.rows, todo')
      BY <2>1, <2>3, BatchIs, SameScan
    <2>5. /\ current \in Batch /\ pending \in Seq(Batch)
          /\ unlaunched \in BOOLEAN /\ (depth = 1 => pending = <<>>)
      BY <1>3 DEF ScanInv, Types, QuietInv
    <2> QED BY <1>3, <2>1, <2>2, <2>4, <2>5, TodoIs, BatchIs, MoveKeeps
  <1> QED BY <1>1, <1>2, <1>3

\* A batch that could not be read.
LEMMA ReadFailKeeps ==
  ASSUME ScanInv, outcome = "running", Delivering, BatchReadFails,
         UNCHANGED <<table, access, op, asked, depth>>,
         unlaunched' \in BOOLEAN, unlaunched => unlaunched'
  PROVE  ScanInv'
  BY FailKeeps DEF BatchReadFails, EndBatches, Ends

\* A batch is processed, whole or up to a row.
LEMMA ProcessKeeps ==
  ASSUME ScanInv, outcome = "running", Batching, NEW batch \in Batch, NEW left \in Seq(Batch),
         ProcessBatch(batch, left), UNCHANGED <<table, access, op, asked, depth>>,
         unlaunched' \in BOOLEAN, unlaunched => unlaunched', depth = 1 => left = <<>>,
         LineOK(Order', Live, asked, FidsOf(emitted) \o batch.rows, left, <<>>,
                current.rows, todo),
         Ordered(Order', batch.rows), Apart(Order', Range(FidsOf(emitted)), Range(batch.rows))
  PROVE  ScanInv'
  <1> DEFINE Given(n) == [k \in 1 .. n |-> Row(batch.rows[k], GeometryView(batch.rows[k]))]
             last == Len(batch.rows)
             e == FidsOf(emitted)
  <1>1. PICK n \in 0 .. last :
          /\ emitted' = emitted \o Given(n)
          /\ \/ /\ n = last
                /\ seen' = seen \o Given(n)
                /\ ready' = NoBatch /\ pending' = left
                /\ UNCHANGED <<todo, current, outcome, result>>
             \/ /\ seen' = seen \o Given(n)
                /\ EndBatches("failed", 0)
             \/ /\ n < last
                /\ seen' = seen \o Given(n + 1)
                /\ EndBatches("stopped", ReturnedOnStop(Len(emitted) + n))
    BY DEF ProcessBatch
  <1>2. /\ batch.rows \in Seq(Fids) /\ last \in Nat
    BY BatchIs
  <1>3. /\ Delivering /\ seen = emitted /\ Ordered(Order, e)
        /\ Delivery(Fids, emitted) /\ e \in Seq(Fids)
    BY RunningIs, TodoIs, DeliveryIs DEF Batching, Delivering
  <1>4. Ordered(Order', e)
    BY <1>3, OrderWeakens DEF Ordered
  <1>5. ASSUME NEW m \in 0 .. last
        PROVE  /\ Delivery(Fids, emitted \o Given(m))
               /\ FidsOf(emitted \o Given(m)) = e \o FirstOf(batch.rows, m)
               /\ Ordered(Order', e \o FirstOf(batch.rows, m))
    <2> DEFINE t == Given(m)
    <2>1. /\ t \in Seq(Range(t)) /\ Len(t) = m
          /\ \A k \in 1 .. m : t[k].fid = batch.rows[k]
      <3>1. DOMAIN t = 1 .. m /\ m \in Nat /\ \A k \in 1 .. m : t[k] \in Range(t)
        BY <1>2 DEF Range
      <3>2. t \in Seq(Range(t)) /\ Len(t) = m
        <4> DEFINE R == Range(t)
        <4> HIDE DEF R
        <4>1. \A k \in 1 .. m : t[k] \in R
          BY <3>1 DEF R
        <4>2. [k \in 1 .. m |-> t[k]] \in Seq(R)
          BY <3>1, <4>1, IsASeq
        <4>3. [k \in 1 .. m |-> t[k]] = t
          OBVIOUS
        <4> QED BY <3>1, <4>2, <4>3 DEF R
      <3> QED BY <3>2 DEF Row
    <2> HIDE DEF t
    <2>2. /\ Delivery(Fids, emitted \o t)
          /\ FidsOf(emitted \o t) = e \o FirstOf(batch.rows, m)
      <3> DEFINE ids == batch.rows
      <3>1. /\ ids \in Seq(Fids) /\ m \in 0 .. Len(ids) /\ Delivery(Fids, emitted)
            /\ t \in Seq(Range(t)) /\ Len(t) = m /\ \A k \in 1 .. m : t[k].fid = ids[k]
        BY <1>2, <1>3, <2>1
      <3> HIDE DEF ids
      <3>2. /\ Delivery(Fids, emitted \o t)
            /\ FidsOf(emitted \o t) = FidsOf(emitted) \o FirstOf(ids, m)
        BY <3>1, DeliveryConcats
      <3> QED BY <3>2 DEF ids
    <2>3. /\ FirstOf(batch.rows, m) \in Seq(Fids)
          /\ Range(FirstOf(batch.rows, m)) \subseteq Range(batch.rows)
          /\ Ordered(Order', FirstOf(batch.rows, m))
      BY <1>2, FirstIs
    <2>4. Apart(Order', Range(e), Range(FirstOf(batch.rows, m)))
      BY <2>3 DEF Apart
    <2>5. Ordered(Order', e \o FirstOf(batch.rows, m))
      BY <1>3, <1>4, <2>3, <2>4, ConcatIs
    <2> QED BY <2>2, <2>5 DEF t
  <1> HIDE DEF Given, e
  <1>6. CASE /\ n = last /\ seen' = seen \o Given(n)
             /\ ready' = NoBatch /\ pending' = left
             /\ UNCHANGED <<todo, current, outcome, result>>
    <2>1. FidsOf(emitted') = e \o batch.rows /\ Delivery(Fids, emitted')
      BY <1>1, <1>2, <1>5, <1>6, FirstIs
    <2>2. LineOK(Order', Live, asked, FidsOf(emitted'), pending', ready'.rows, current'.rows, todo')
      BY <1>6, <2>1, BatchIs DEF e
    <2>3. current \in Batch
      BY DEF ScanInv, Types
    <2> QED BY <1>1, <1>3, <1>6, <2>1, <2>2, <2>3, TodoIs, BatchIs, MoveKeeps
  <1>7. CASE seen' = seen \o Given(n) /\ EndBatches("failed", 0)
    BY <1>1, <1>3, <1>5, <1>7, StopKeeps DEF EndBatches, Ends
  <1>8. CASE /\ n < last /\ seen' = seen \o Given(n + 1)
             /\ EndBatches("stopped", ReturnedOnStop(Len(emitted) + n))
    <2>1. n + 1 \in 0 .. last
      BY <1>2, <1>8
    <2> QED BY <1>1, <1>3, <1>5, <1>8, <2>1, StopKeeps DEF EndBatches, Ends
  <1> QED BY <1>1, <1>6, <1>7, <1>8

\* What is handed over and read ahead when a batch is processed.
LEMMA BatchedIs ==
  ASSUME ScanInv, Batched
  PROVE  /\ outcome = "running" /\ Delivering /\ Batching
         /\ current \in Batch /\ ready \in Batch /\ pending \in Seq(Batch)
         /\ unlaunched \in BOOLEAN /\ (depth = 1 => pending = <<>>)
         /\ IsLine(Fids, FidsOf(emitted), pending, ready.rows, current.rows, todo)
         /\ LineOK(Order, Live, asked, FidsOf(emitted), pending, ready.rows, current.rows, todo)
         /\ seen = emitted
  <1>1. outcome = "running" /\ Delivering /\ Batching
    BY DEF Batched, GeometryScan, Delivering, Batching
  <1>2. /\ current \in Batch /\ ready \in Batch /\ pending \in Seq(Batch)
        /\ unlaunched \in BOOLEAN /\ (depth = 1 => pending = <<>>)
    BY DEF ScanInv, Types, QuietInv
  <1> QED BY <1>1, <1>2, RunningIs

LEMMA ReadNowKeeps == ScanInv /\ ReadNow => ScanInv'
  <1> SUFFICES ASSUME ScanInv, ReadNow PROVE ScanInv'
    OBVIOUS
  <1>1. /\ Batched /\ depth = 1 /\ UNCHANGED unlaunched
        /\ UNCHANGED <<table, access, op, asked, depth>>
        /\ ProcessBatch(ready, pending) \/ BatchReadFails
    BY DEF ReadNow, Same
  <1>2. pending = <<>> /\ DOMAIN pending = {} /\ Order' = Order /\ unlaunched' \in BOOLEAN
    <2>1. pending = <<>> /\ unlaunched \in BOOLEAN /\ Order' = Order
      BY <1>1, BatchedIs, SameScan
    <2>2. DOMAIN <<>> = {}
      OBVIOUS
    <2> QED BY <1>1, <2>1, <2>2
  <1>3. /\ LineOK(Order', Live, asked, FidsOf(emitted) \o ready.rows, pending, <<>>,
                  current.rows, todo)
        /\ Ordered(Order', ready.rows)
        /\ Apart(Order', Range(FidsOf(emitted)), Range(ready.rows))
    BY <1>1, <1>2, BatchedIs, LineTakesReady
  <1>4. CASE ProcessBatch(ready, pending)
    BY <1>1, <1>2, <1>3, <1>4, BatchedIs, ProcessKeeps
  <1>5. CASE BatchReadFails
    BY <1>1, <1>2, <1>5, BatchedIs, ReadFailKeeps
  <1> QED BY <1>1, <1>4, <1>5

LEMMA ReadAheadKeeps == ScanInv /\ ReadAhead => ScanInv'
  <1> SUFFICES ASSUME ScanInv, ReadAhead PROVE ScanInv'
    OBVIOUS
  <1>1. /\ Batched /\ depth > 1 /\ UNCHANGED <<table, access, op, asked, depth, unlaunched>>
        /\ pending' = Append(pending, ready) /\ ready' = NoBatch
        /\ UNCHANGED <<todo, current, emitted, seen, outcome>>
    BY DEF ReadAhead, Same
  <1>2. LineOK(Order, Live, asked, FidsOf(emitted), Append(pending, ready), <<>>,
               current.rows, todo)
    BY <1>1, BatchedIs, LineReadsAhead
  <1>3. LineOK(Order', Live, asked, FidsOf(emitted'), pending', ready'.rows, current'.rows, todo')
    BY <1>1, <1>2, BatchIs, SameScan
  <1>4. depth # 1 /\ pending' \in Seq(Batch)
    <2>1. depth # 1
      BY <1>1 DEF ScanInv, Types
    <2>2. Append(pending, ready) \in Seq(Batch)
      BY <1>1, BatchedIs, AppendProperties
    <2> QED BY <1>1, <2>1, <2>2
  <1> QED BY <1>1, <1>3, <1>4, BatchedIs, BatchIs, TodoIs, MoveKeeps

LEMMA LaunchFailsKeeps == ScanInv /\ LaunchFails => ScanInv'
  <1> SUFFICES ASSUME ScanInv, LaunchFails PROVE ScanInv'
    OBVIOUS
  <1>1. /\ Batched /\ depth > 1 /\ unlaunched' = TRUE
        /\ UNCHANGED <<table, access, op, asked, depth>>
        /\ ProcessBatch(ready, pending) \/ BatchReadFails
    BY DEF LaunchFails, Same
  <1>2. \A f, g : <<f, g>> \in Order' => <<g, f>> \in Order'
    BY <1>1 DEF Order
  <1>3. Order \subseteq Order'
    BY <1>1, OrderWeakens
  <1>4. /\ IsLine(Fids, FidsOf(emitted), pending, ready.rows, current.rows, todo)
        /\ LineOK(Order', Live, asked, FidsOf(emitted), pending, ready.rows, current.rows, todo)
    BY <1>1, <1>3, BatchedIs, LineWeakens
  <1>5. /\ LineOK(Order', Live, asked, FidsOf(emitted) \o ready.rows, pending, <<>>,
                  current.rows, todo)
        /\ Ordered(Order', ready.rows)
        /\ Apart(Order', Range(FidsOf(emitted)), Range(ready.rows))
    BY <1>2, <1>4, LineTakesReady
  <1>6. CASE ProcessBatch(ready, pending)
    BY <1>1, <1>5, <1>6, BatchedIs, ProcessKeeps
  <1>7. CASE BatchReadFails
    BY <1>1, <1>7, BatchedIs, ReadFailKeeps
  <1> QED BY <1>1, <1>6, <1>7

LEMMA ConsumeFrontKeeps == ScanInv /\ ConsumeFront => ScanInv'
  <1> SUFFICES ASSUME ScanInv, ConsumeFront PROVE ScanInv'
    OBVIOUS
  <1>1. /\ Batched /\ ready = NoBatch /\ pending # <<>> /\ UNCHANGED unlaunched
        /\ UNCHANGED <<table, access, op, asked, depth>>
        /\ ProcessBatch(Head(pending), Tail(pending)) \/ BatchReadFails
    BY DEF ConsumeFront, Same
  <1>2. Order' = Order /\ unlaunched' \in BOOLEAN /\ depth # 1
    BY <1>1, BatchedIs, SameScan
  <1>3. Head(pending) \in Batch /\ Tail(pending) \in Seq(Batch)
    BY <1>1, BatchedIs, TailIs
  <1>4. /\ IsLine(Fids, FidsOf(emitted), pending, <<>>, current.rows, todo)
        /\ LineOK(Order, Live, asked, FidsOf(emitted), pending, <<>>, current.rows, todo)
    BY <1>1, BatchedIs, BatchIs
  <1>5. /\ LineOK(Order', Live, asked, FidsOf(emitted) \o Head(pending).rows, Tail(pending),
                  <<>>, current.rows, todo)
        /\ Ordered(Order', Head(pending).rows)
        /\ Apart(Order', Range(FidsOf(emitted)), Range(Head(pending).rows))
    BY <1>1, <1>2, <1>4, BatchedIs, LineTakesFront
  <1>6. CASE ProcessBatch(Head(pending), Tail(pending))
    BY <1>1, <1>2, <1>3, <1>5, <1>6, BatchedIs, ProcessKeeps
  <1>7. CASE BatchReadFails
    BY <1>1, <1>2, <1>7, BatchedIs, ReadFailKeeps
  <1> QED BY <1>1, <1>6, <1>7

LEMMA BatchesEndKeeps == ScanInv /\ BatchesEnd => ScanInv'
  <1> SUFFICES ASSUME ScanInv, BatchesEnd PROVE ScanInv'
    OBVIOUS
  <1>1. /\ Batched /\ outcome' = "complete" /\ result' = Len(emitted)
        /\ UNCHANGED <<table, access, op, asked, depth, unlaunched, emitted, seen>>
        /\ todo = <<>> /\ todo' = <<>> /\ current = NoBatch /\ ready = NoBatch /\ pending = <<>>
        /\ UNCHANGED <<current, ready, pending>>
    BY DEF BatchesEnd, Same, Draining, EndBatches, Ends
  <1> QED BY <1>1, BatchedIs, CompleteKeeps

LEMMA ScanInvStays == ScanInv /\ UNCHANGED vars => ScanInv'
  <1> SUFFICES ASSUME ScanInv, UNCHANGED vars PROVE ScanInv'
    OBVIOUS
  <1>1. /\ Order' = Order /\ Live' = Live /\ Fids' = Fids /\ Batch' = Batch
        /\ Delivering' = Delivering /\ Batching' = Batching
        /\ FidsOf(seen)' = FidsOf(seen) /\ FidsOf(emitted)' = FidsOf(emitted)
    BY SameScan DEF vars, Batching, FidsOf
  <1>2. Types' /\ QuietInv'
    BY <1>1 DEF vars, ScanInv, Types, QuietInv
  <1>3. RunningInv' /\ CompleteInv' /\ SeenInv'
    BY <1>1 DEF vars, ScanInv, RunningInv, CompleteInv, SeenInv
  <1> QED BY <1>2, <1>3 DEF ScanInv

LEMMA ScanInvNext == ScanInv /\ [Next]_vars => ScanInv'
  <1> SUFFICES ASSUME ScanInv, [Next]_vars PROVE ScanInv'
    OBVIOUS
  <1>1. CASE SequentialSkip \/ SequentialBreak \/ SequentialRow \/ SequentialReadFails
               \/ SequentialEnds
    BY <1>1, SequentialKeeps
  <1>2. CASE FieldScanFails \/ FieldScanRow \/ FieldScanEnds
    BY <1>2, FieldScanKeeps
  <1>3. CASE StartSequential \/ StartFields \/ StartDense \/ StartSparse \/ StartRecords
    BY <1>3, StartSequentialKeeps, StartFieldsKeeps, StartDenseKeeps, StartSparseKeeps,
       StartRecordsKeeps
  <1>4. CASE ViewSkip \/ ViewRow \/ ViewFails \/ ViewEnds
    BY <1>4, ViewKeeps
  <1>5. CASE GatherRow \/ GatherSkip \/ GatherFails \/ GatherEnds
    BY <1>5, GatherRowKeeps, GatherKeeps
  <1>6. CASE ReadNow \/ ReadAhead \/ LaunchFails \/ ConsumeFront \/ BatchesEnd
    BY <1>6, ReadNowKeeps, ReadAheadKeeps, LaunchFailsKeeps, ConsumeFrontKeeps, BatchesEndKeeps
  <1>7. CASE RecordsRow \/ RecordsEnd
    BY <1>7, RecordsKeep
  <1>8. CASE Done \/ UNCHANGED vars
    BY <1>8, ScanInvStays DEF Done
  <1> QED BY <1>1, <1>2, <1>3, <1>4, <1>5, <1>6, <1>7, <1>8 DEF Next

LEMMA ScanInvariant == Spec => []ScanInv
  BY ScanInvInit, ScanInvNext, PTL DEF Spec

----------------------------------------------------------------------------
(* What a row is read as.                                                  *)

LEMMA GreatestNumber ==
  ASSUME NEW n \in Nat, NEW T, T \subseteq 0 .. n, T # {}
  PROVE  \E x \in T : \A y \in T : x >= y
  <1> DEFINE D == {n - x : x \in T}
  <1>1. D \subseteq Nat /\ D # {}
    <2>1. \A x \in T : n - x \in Nat /\ n - x \in D
      OBVIOUS
    <2> QED BY <2>1
  <1>2. PICK d \in D : \A e \in D : d <= e
    <2> HIDE DEF D
    <2> QED BY <1>1, LeastNumber
  <1>3. PICK x \in T : d = n - x
    OBVIOUS
  <1>4. ASSUME NEW y \in T PROVE x >= y
    <2>1. n - x <= n - y
      BY <1>2, <1>3
    <2>2. x \in Int /\ y \in Int
      OBVIOUS
    <2> QED BY <2>1, <2>2
  <1> QED BY <1>4

LEMMA MinIs ==
  ASSUME NEW T, T \subseteq Nat, T # {}
  PROVE  Min(T) \in T /\ \A y \in T : Min(T) <= y
  BY LeastNumber DEF Min

LEMMA MaxIs ==
  ASSUME NEW n \in Nat, NEW T, T \subseteq 0 .. n, T # {}
  PROVE  Max(T) \in T /\ \A y \in T : Max(T) >= y
  BY GreatestNumber DEF Max

LEMMA Upwards ==
  ASSUME NEW n \in Nat, NEW S, 0 \in S, \A i \in 1 .. n : i - 1 \in S => i \in S
  PROVE  \A i \in 0 .. n : i \in S
  <1> DEFINE T == {i \in 0 .. n : i \notin S}
  <1> SUFFICES ASSUME T # {} PROVE FALSE
    OBVIOUS
  <1>1. T \subseteq Nat
    OBVIOUS
  <1>2. PICK x \in T : \A y \in T : x <= y
    <2> HIDE DEF T
    <2> QED BY <1>1, LeastNumber
  <1>3. x \in 1 .. n /\ x - 1 \in 0 .. n /\ ~(x <= x - 1)
    OBVIOUS
  <1> QED BY <1>2, <1>3

\* A function can be defined step by step.
Steps(T, n, V, v, step) ==
    T \in [0 .. n -> V] /\ T[0] = v /\ \A i \in 1 .. n : T[i] = step[i][T[i - 1]]

LEMMA StepByStep ==
  ASSUME NEW n \in Nat, NEW V, NEW v \in V, NEW step \in [1 .. n -> [V -> V]]
  PROVE  \E T : Steps(T, n, V, v, step)
  <1> DEFINE Upto(m, T) == T[0] = v /\ \A i \in 1 .. m : T[i] = step[i][T[i - 1]]
             S == {m \in 0 .. n : \E T \in [0 .. m -> V] : Upto(m, T)}
  <1>1. 0 \in S
    <2> DEFINE T == [i \in 0 .. 0 |-> v]
    <2>1. T \in [0 .. 0 -> V] /\ Upto(0, T) /\ 0 \in 0 .. n
      OBVIOUS
    <2> HIDE DEF T, Upto
    <2> QED BY <2>1
  <1>2. ASSUME NEW m \in 1 .. n, m - 1 \in S PROVE m \in S
    <2>1. PICK T \in [0 .. m - 1 -> V] : Upto(m - 1, T)
      BY <1>2
    <2> DEFINE U == [i \in 0 .. m |-> IF i = m THEN step[m][T[m - 1]] ELSE T[i]]
    <2>2. step[m][T[m - 1]] \in V
      OBVIOUS
    <2>3. U \in [0 .. m -> V]
      <3>1. \A i \in 0 .. m : i # m => i \in 0 .. m - 1
        OBVIOUS
      <3> QED BY <2>2, <3>1
    <2>4. U[0] = v
      BY <2>1
    <2>5. ASSUME NEW i \in 1 .. m PROVE U[i] = step[i][U[i - 1]]
      <3>1. i - 1 \in 0 .. m /\ i - 1 # m /\ U[i - 1] = T[i - 1]
        OBVIOUS
      <3>2. CASE i = m
        BY <3>1, <3>2
      <3>3. CASE i # m
        <4>1. i \in 1 .. m - 1 /\ U[i] = T[i]
          BY <3>3
        <4> QED BY <2>1, <3>1, <4>1
      <3> QED BY <3>2, <3>3
    <2> HIDE DEF U
    <2>6. Upto(m, U) /\ m \in 0 .. n
      BY <2>4, <2>5
    <2> HIDE DEF Upto
    <2> QED BY <2>3, <2>6
  <1>3. n \in S
    <2> HIDE DEF S
    <2>1. \A m \in 1 .. n : m - 1 \in S => m \in S
      BY <1>2
    <2>2. \A m \in 0 .. n : m \in S
      BY <1>1, <2>1, Upwards
    <2> QED BY <2>2
  <1>4. PICK T \in [0 .. n -> V] : Upto(n, T)
    BY <1>3
  <1>5. Steps(T, n, V, v, step)
    BY <1>4 DEF Steps
  <1> QED BY <1>5
\* The references a row's fields have, and what a layout leaves behind.
Ref(implicit) ==
    {r \in [is_null : BOOLEAN, data : BOOLEAN, bytes : Seq(Byte), implicit : {implicit}] :
        r.is_null => r.bytes = <<>>}
FieldSet == [type : FieldTypes, nullable : BOOLEAN]
SizeSet(row) == [cut : BOOLEAN, next : 0 .. Len(row), value : Nat]

VaruintFrom(F, row, pos) ==
    F = [i \in pos + 1 .. Len(row) + 1 |->
            CASE i > Len(row) -> [cut |-> TRUE, next |-> Len(row), value |-> 0]
              [] i <= Len(row) /\ row[i] < 2^(BitsPerByte - 1) ->
                    [cut |-> FALSE, next |-> i, value |-> row[i]]
              [] OTHER -> [F[i + 1] EXCEPT
                    !.value = (row[i] % 2^(BitsPerByte - 1)) + 2^(BitsPerByte - 1) * @]]

LEMMA BytesAre ==
  /\ 2^(BitsPerByte - 1) \in Nat \ {0} /\ Byte \subseteq Nat
  <1>1. BitsPerByte - 1 \in 0 .. BitsPerByte
    BY BitsPerByteAssumption
  <1> QED BY <1>1, PowersAssumption DEF Byte

LEMMA SizeContinues ==
  ASSUME NEW row \in Seq(Byte), NEW byte \in Byte, NEW size \in SizeSet(row)
  PROVE  [size EXCEPT !.value = (byte % 2^(BitsPerByte - 1)) + 2^(BitsPerByte - 1) * @]
            \in SizeSet(row)
  <1>1. /\ 2^(BitsPerByte - 1) \in Nat \ {0} /\ byte \in Nat /\ size.value \in Nat
    BY BytesAre DEF SizeSet
  <1>2. ASSUME NEW p \in Nat \ {0}, NEW v \in Nat PROVE (byte % p) + p * v \in Nat
    <2>1. byte % p \in Nat
      BY <1>1
    <2>2. p * v \in Nat
      OBVIOUS
    <2> QED BY <2>1, <2>2
  <1>3. (byte % 2^(BitsPerByte - 1)) + 2^(BitsPerByte - 1) * size.value \in Nat
    BY <1>1, <1>2
  <1> QED BY <1>3 DEF SizeSet

LEMMA VaruintExists ==
  ASSUME NEW row \in Seq(Byte), NEW pos \in 0 .. Len(row)
  PROVE  \E F : VaruintFrom(F, row, pos)
  <1> DEFINE n == Len(row) - pos
             at(j) == Len(row) + 1 - j
             v == [cut |-> TRUE, next |-> Len(row), value |-> 0]
             Step(i, s) == IF row[i] < 2^(BitsPerByte - 1)
                           THEN [cut |-> FALSE, next |-> i, value |-> row[i]]
                           ELSE [s EXCEPT !.value =
                             (row[i] % 2^(BitsPerByte - 1)) + 2^(BitsPerByte - 1) * @]
             step == [j \in 1 .. n |-> [s \in SizeSet(row) |-> Step(at(j), s)]]
  <1>1. n \in Nat /\ Len(row) \in Nat /\ pos \in Nat
    OBVIOUS
  <1>2. v \in SizeSet(row)
    BY <1>1 DEF SizeSet
  <1>3. ASSUME NEW j \in 1 .. n, NEW s \in SizeSet(row) PROVE Step(at(j), s) \in SizeSet(row)
    <2>1. at(j) \in 1 .. Len(row)
      BY <1>1
    <2>2. row[at(j)] \in Byte /\ row[at(j)] \in Nat
      <3> HIDE DEF at
      <3>1. row[at(j)] \in Byte
        BY <2>1
      <3> QED BY <3>1, BytesAre
    <2>3. [cut |-> FALSE, next |-> at(j), value |-> row[at(j)]] \in SizeSet(row)
      BY <2>1, <2>2 DEF SizeSet
    <2>4. [s EXCEPT !.value = (row[at(j)] % 2^(BitsPerByte - 1)) + 2^(BitsPerByte - 1) * @]
            \in SizeSet(row)
      BY <2>2, SizeContinues
    <2> HIDE DEF at
    <2> QED BY <2>3, <2>4
  <1>4. step \in [1 .. n -> [SizeSet(row) -> SizeSet(row)]]
    <2> HIDE DEF Step, at
    <2> QED BY <1>3
  <1>5. PICK T : Steps(T, n, SizeSet(row), v, step)
    <2> HIDE DEF step, v, n
    <2> QED BY <1>1, <1>2, <1>4, StepByStep
  <1> DEFINE F == [i \in pos + 1 .. Len(row) + 1 |-> T[at(i)]]
  <1>6. ASSUME NEW i \in pos + 1 .. Len(row) + 1
        PROVE  F[i] = CASE i > Len(row) -> v
                        [] i <= Len(row) /\ row[i] < 2^(BitsPerByte - 1) ->
                            [cut |-> FALSE, next |-> i, value |-> row[i]]
                        [] OTHER -> [F[i + 1] EXCEPT !.value =
                            (row[i] % 2^(BitsPerByte - 1)) + 2^(BitsPerByte - 1) * @]
    <2>1. F[i] = T[at(i)]
      OBVIOUS
    <2>2. CASE i > Len(row)
      <3>1. at(i) = 0
        BY <1>1, <2>2
      <3> QED BY <1>5, <2>1, <2>2, <3>1 DEF Steps
    <2>3. CASE i <= Len(row)
      <3>1. /\ at(i) \in 1 .. n /\ at(at(i)) = i /\ at(i) - 1 = at(i + 1)
            /\ i + 1 \in pos + 1 .. Len(row) + 1
        BY <1>1, <2>3
      <3>2. F[i + 1] = T[at(i) - 1] /\ T[at(i) - 1] \in SizeSet(row)
        <4>1. at(i) - 1 \in 0 .. n
          BY <3>1
        <4>2. F[i + 1] = T[at(i + 1)]
          BY <3>1
        <4> HIDE DEF F, at
        <4> QED BY <1>5, <3>1, <4>1, <4>2 DEF Steps
      <3>3. T[at(i)] = step[at(i)][T[at(i) - 1]]
        BY <1>5, <3>1 DEF Steps
      <3>4. step[at(i)][T[at(i) - 1]] = Step(at(at(i)), T[at(i) - 1])
        <4> HIDE DEF at, Step
        <4> QED BY <3>1, <3>2
      <3>5. F[i] = Step(i, F[i + 1])
        <4> HIDE DEF at, Step, step, F
        <4> QED BY <2>1, <3>1, <3>2, <3>3, <3>4
      <3> HIDE DEF at, step, F
      <3> QED BY <1>1, <2>3, <3>5
    <2> QED BY <1>1, <2>2, <2>3
  <1>7. VaruintFrom(F, row, pos)
    <2>1. F = [i \in pos + 1 .. Len(row) + 1 |-> F[i]]
      OBVIOUS
    <2> HIDE DEF F
    <2> QED BY <1>6, <2>1 DEF VaruintFrom
  <1> QED BY <1>7

LEMMA VaruintIs ==
  ASSUME NEW row \in Seq(Byte), NEW pos \in 0 .. Len(row)
  PROVE  /\ read_varuint(row, pos) \in SizeSet(row)
         /\ pos = Len(row) => read_varuint(row, pos).cut
         /\ (pos < Len(row) /\ row[pos + 1] < 2^(BitsPerByte - 1)) =>
               read_varuint(row, pos) = [cut |-> FALSE, next |-> pos + 1, value |-> row[pos + 1]]
  <1> DEFINE F == CHOOSE G : VaruintFrom(G, row, pos)
  <1>1. VaruintFrom(F, row, pos)
    BY VaruintExists
  <1>2. read_varuint(row, pos) = F[pos + 1]
    BY DEF read_varuint, VaruintFrom
  <1> HIDE DEF F
  <1> DEFINE n == Len(row) - pos
             at(j) == Len(row) + 1 - j
             S == {j \in 0 .. n : F[at(j)] \in SizeSet(row)}
  <1>3. n \in Nat /\ Len(row) \in Nat /\ pos \in Nat
    OBVIOUS
  <1>4. \A i \in pos + 1 .. Len(row) + 1 :
            /\ i > Len(row) => F[i] = [cut |-> TRUE, next |-> Len(row), value |-> 0]
            /\ i <= Len(row) /\ row[i] < 2^(BitsPerByte - 1) =>
                 F[i] = [cut |-> FALSE, next |-> i, value |-> row[i]]
            /\ i <= Len(row) /\ ~(row[i] < 2^(BitsPerByte - 1)) =>
                 F[i] = [F[i + 1] EXCEPT
                   !.value = (row[i] % 2^(BitsPerByte - 1)) + 2^(BitsPerByte - 1) * @]
    <2> TAKE i \in pos + 1 .. Len(row) + 1
    <2>1. F[i] = CASE i > Len(row) -> [cut |-> TRUE, next |-> Len(row), value |-> 0]
                   [] i <= Len(row) /\ row[i] < 2^(BitsPerByte - 1) ->
                        [cut |-> FALSE, next |-> i, value |-> row[i]]
                   [] OTHER -> [F[i + 1] EXCEPT !.value =
                        (row[i] % 2^(BitsPerByte - 1)) + 2^(BitsPerByte - 1) * @]
      BY <1>1, Zenon DEF VaruintFrom
    <2>2. i \in Int /\ ~(i > Len(row) /\ i <= Len(row))
      BY <1>3
    <2> QED BY <1>3, <2>1, <2>2
  <1>5. 0 \in S
    <2>1. at(0) \in pos + 1 .. Len(row) + 1 /\ at(0) > Len(row)
      BY <1>3
    <2>2. F[at(0)] \in SizeSet(row)
      <3> HIDE DEF at
      <3>1. F[at(0)] = [cut |-> TRUE, next |-> Len(row), value |-> 0]
        BY <1>4, <2>1
      <3> QED BY <1>3, <3>1 DEF SizeSet
    <2> QED BY <1>3, <2>2
  <1>6. ASSUME NEW j \in 1 .. n, j - 1 \in S PROVE j \in S
    <2>1. /\ at(j) \in 1 .. Len(row) /\ at(j) \in pos + 1 .. Len(row) + 1
          /\ at(j) + 1 = at(j - 1) /\ at(j) <= Len(row)
      BY <1>3
    <2>2. F[at(j) + 1] \in SizeSet(row)
      BY <1>6, <2>1
    <2>3. row[at(j)] \in Byte /\ row[at(j)] \in Nat
      <3> HIDE DEF at
      <3>1. row[at(j)] \in Byte
        BY <2>1
      <3> QED BY <3>1, BytesAre
    <2>4. CASE row[at(j)] < 2^(BitsPerByte - 1)
      <3>1. [cut |-> FALSE, next |-> at(j), value |-> row[at(j)]] \in SizeSet(row)
        BY <2>1, <2>3 DEF SizeSet
      <3>2. F[at(j)] = [cut |-> FALSE, next |-> at(j), value |-> row[at(j)]]
        <4> HIDE DEF at
        <4> QED BY <1>4, <2>1, <2>4
      <3> QED BY <3>1, <3>2
    <2>5. CASE ~(row[at(j)] < 2^(BitsPerByte - 1))
      <3>1. [F[at(j) + 1] EXCEPT !.value =
               (row[at(j)] % 2^(BitsPerByte - 1)) + 2^(BitsPerByte - 1) * @] \in SizeSet(row)
        <4> HIDE DEF at
        <4> QED BY <2>2, <2>3, SizeContinues
      <3>2. F[at(j)] = [F[at(j) + 1] EXCEPT !.value =
               (row[at(j)] % 2^(BitsPerByte - 1)) + 2^(BitsPerByte - 1) * @]
        <4> HIDE DEF at
        <4> QED BY <1>4, <2>1, <2>5
      <3> HIDE DEF at
      <3> QED BY <3>1, <3>2
    <2> HIDE DEF at
    <2> QED BY <2>4, <2>5
  <1>7. n \in S
    <2> HIDE DEF S, n
    <2>1. \A j \in 1 .. n : j - 1 \in S => j \in S
      BY <1>6
    <2>2. \A j \in 0 .. n : j \in S
      BY <1>3, <1>5, <2>1, Upwards
    <2> QED BY <1>3, <2>2
  <1>8. at(n) = pos + 1 /\ pos + 1 \in pos + 1 .. Len(row) + 1
    BY <1>3
  <1>9. read_varuint(row, pos) \in SizeSet(row)
    BY <1>2, <1>7, <1>8
  <1>10. pos = Len(row) => read_varuint(row, pos).cut
    BY <1>2, <1>3, <1>4, <1>8
  <1>11. (pos < Len(row) /\ row[pos + 1] < 2^(BitsPerByte - 1)) =>
            read_varuint(row, pos) = [cut |-> FALSE, next |-> pos + 1, value |-> row[pos + 1]]
    <2> HIDE DEF n, at, S
    <2>1. pos < Len(row) => pos + 1 <= Len(row)
      BY <1>3
    <2> QED BY <1>2, <1>4, <1>8, <2>1
  <1> QED BY <1>9, <1>10, <1>11

----------------------------------------------------------------------------
(* Layouts.                                                                *)

ReadSet(row, implicit) ==
    [ok : BOOLEAN, cut : BOOLEAN, next : 0 .. Len(row), ref : Ref(implicit)]
LayoutSet(row, implicit) ==
    [ok : BOOLEAN, cut : BOOLEAN, pos : 0 .. Len(row), bit : Nat, refs : Seq(Ref(implicit))]

\* References, and what layouts read, that differ in the row they were made for.
SameRef(r, s) == r.is_null = s.is_null /\ r.data = s.data /\ r.bytes = s.bytes
SameLayout(a, b) ==
    /\ a.ok = b.ok /\ a.cut = b.cut /\ a.pos = b.pos /\ a.bit = b.bit
    /\ Len(a.refs) = Len(b.refs)
    /\ \A i \in 1 .. Len(a.refs) : SameRef(a.refs[i], b.refs[i])

LEMMA PieceIs ==
  ASSUME NEW S, NEW s \in Seq(S), NEW from \in 0 .. Len(s), NEW n \in Nat, n <= Len(s) - from
  PROVE  /\ SubSeq(s, from + 1, from + n) \in Seq(S)
         /\ Len(SubSeq(s, from + 1, from + n)) = n
         /\ \A i \in 1 .. n : SubSeq(s, from + 1, from + n)[i] = s[from + i]
  <1>1. Len(s) \in Nat /\ from \in Nat
    OBVIOUS
  <1>2. from + 1 \in 1 .. Len(s) + 1 /\ from + n \in from + 1 - 1 .. Len(s)
    BY <1>1
  <1> DEFINE t == SubSeq(s, from + 1, from + n)
  <1>3. /\ t \in Seq(S) /\ Len(t) = from + n - (from + 1) + 1
        /\ \A i \in 1 .. (from + n - (from + 1)) + 1 : t[i] = s[from + 1 + i - 1]
    BY <1>2, SubSeqProperties
  <1>4. from + n - (from + 1) + 1 = n /\ \A i \in 1 .. n : from + 1 + i - 1 = from + i
    BY <1>1
  <1> HIDE DEF t
  <1>5. Len(t) = n /\ \A i \in 1 .. n : t[i] = s[from + i]
    BY <1>3, <1>4
  <1> QED BY <1>3, <1>5 DEF t

LEMMA RefsAre ==
  ASSUME NEW implicit
  PROVE  /\ NullRef(implicit) \in Ref(implicit) /\ BlankRef(implicit) \in Ref(implicit)
         /\ \A bytes \in Seq(Byte) : ValueRef(bytes, implicit) \in Ref(implicit)
  <1>1. <<>> \in Seq(Byte)
    BY EmptySeq
  <1> QED BY <1>1 DEF NullRef, BlankRef, ValueRef, FieldRef, Ref

LEMMA ReadValueIs ==
  ASSUME NEW row \in Seq(Byte), NEW pos \in 0 .. Len(row), NEW type, NEW implicit
  PROVE  ReadValue(row, pos, type, implicit) \in ReadSet(row, implicit)
  <1>1. Len(row) \in Nat /\ pos \in Nat
    OBVIOUS
  <1>2. \A next \in 0 .. Len(row), ref \in Ref(implicit) : Read(next, ref) \in ReadSet(row, implicit)
    BY DEF Read, ReadSet
  <1>3. \A cut \in BOOLEAN : Unread(pos, cut, implicit) \in ReadSet(row, implicit)
    BY RefsAre DEF Unread, ReadSet
  <1>4. CASE type = "ObjectId"
    BY <1>2, <1>4, RefsAre DEF ReadValue
  <1>5. CASE type = "Fixed"
    <2>1. CASE pos < Len(row)
      <3>1. SubSeq(row, pos + 1, pos + 1) \in Seq(Byte) /\ pos + 1 \in 0 .. Len(row)
        BY <1>1, <2>1, PieceIs
      <3>2. Read(pos + 1, ValueRef(SubSeq(row, pos + 1, pos + 1), implicit)) \in ReadSet(row, implicit)
        BY <1>2, <3>1, RefsAre
      <3> QED BY <1>5, <2>1, <3>2 DEF ReadValue
    <2>2. CASE ~(pos < Len(row))
      BY <1>3, <1>5, <2>2 DEF ReadValue
    <2> QED BY <2>1, <2>2
  <1>6. CASE type \notin {"ObjectId", "Fixed"}
    <2> DEFINE size == read_varuint(row, pos)
    <2>1. size \in SizeSet(row)
      BY VaruintIs
    <2> HIDE DEF size
    <2>2. size.cut \in BOOLEAN /\ size.next \in 0 .. Len(row) /\ size.value \in Nat
      BY <2>1 DEF SizeSet
    <2>3. TakeSized(row, pos, type, implicit, size) \in ReadSet(row, implicit)
      <3>1. CASE size.cut \/ size.value > Len(row) - size.next
        BY <1>3, <2>2, <3>1 DEF TakeSized
      <3>2. CASE ~(size.cut \/ size.value > Len(row) - size.next)
        <4>1. size.next + size.value \in 0 .. Len(row) /\ size.value <= Len(row) - size.next
          BY <1>1, <2>2, <3>2
        <4>2. SubSeq(row, size.next + 1, size.next + size.value) \in Seq(Byte)
          BY <2>2, <4>1, PieceIs
        <4>3. /\ Read(size.next + size.value, NullRef(implicit)) \in ReadSet(row, implicit)
              /\ Read(size.next + size.value,
                   ValueRef(SubSeq(row, size.next + 1, size.next + size.value), implicit))
                   \in ReadSet(row, implicit)
          BY <1>2, <4>1, <4>2, RefsAre
        <4>4. CASE type = "Raster"
          BY <3>2, <4>3, <4>4 DEF TakeSized
        <4>5. CASE type # "Raster"
          BY <3>2, <4>3, <4>5 DEF TakeSized
        <4> QED BY <4>4, <4>5
      <3> QED BY <3>1, <3>2
    <2> QED BY <1>6, <2>3 DEF ReadValue, size
  <1> QED BY <1>4, <1>5, <1>6

LEMMA ReadValueSame ==
  ASSUME NEW row, NEW pos, NEW type, NEW implicit, NEW other
  PROVE  /\ ReadValue(row, pos, type, implicit).ok = ReadValue(row, pos, type, other).ok
         /\ ReadValue(row, pos, type, implicit).cut = ReadValue(row, pos, type, other).cut
         /\ ReadValue(row, pos, type, implicit).next = ReadValue(row, pos, type, other).next
         /\ SameRef(ReadValue(row, pos, type, implicit).ref, ReadValue(row, pos, type, other).ref)
  <1> DEFINE size == read_varuint(row, pos)
  <1> HIDE DEF size
  <1>1. CASE type = "ObjectId"
    BY <1>1 DEF ReadValue, Read, BlankRef, FieldRef, SameRef
  <1>2. CASE type = "Fixed"
    BY <1>2 DEF ReadValue, Read, Unread, BlankRef, ValueRef, FieldRef, SameRef
  <1>3. CASE type \notin {"ObjectId", "Fixed"}
    <2>1. \A imp : ReadValue(row, pos, type, imp) = TakeSized(row, pos, type, imp, size)
      BY <1>3 DEF ReadValue, size
    <2>2. CASE size.cut \/ size.value > Len(row) - size.next
      <3>1. \A imp : TakeSized(row, pos, type, imp, size) = Unread(pos, size.cut, imp)
        BY <2>2 DEF TakeSized
      <3>2. ASSUME NEW imp
            PROVE  /\ ReadValue(row, pos, type, imp).ok = FALSE
                   /\ ReadValue(row, pos, type, imp).cut = size.cut
                   /\ ReadValue(row, pos, type, imp).next = pos
                   /\ ReadValue(row, pos, type, imp).ref = BlankRef(imp)
        <4>1. ReadValue(row, pos, type, imp) = Unread(pos, size.cut, imp)
          BY <2>1, <3>1
        <4> QED BY <4>1 DEF Unread
      <3>3. SameRef(BlankRef(implicit), BlankRef(other))
        BY DEF BlankRef, FieldRef, SameRef
      <3> QED BY <3>2, <3>3
    <2>3. CASE ~(size.cut \/ size.value > Len(row) - size.next)
      <3> DEFINE next == size.next + size.value
                 bytes == SubSeq(row, size.next + 1, size.next + size.value)
      <3> HIDE DEF next, bytes
      <3>1. \A imp : TakeSized(row, pos, type, imp, size) =
              Read(next, IF type = "Raster" THEN NullRef(imp) ELSE ValueRef(bytes, imp))
        BY <2>3 DEF TakeSized, next, bytes
      <3> DEFINE ref(imp) == IF type = "Raster" THEN NullRef(imp) ELSE ValueRef(bytes, imp)
      <3>2. ASSUME NEW imp
            PROVE  /\ ReadValue(row, pos, type, imp).ok = TRUE
                   /\ ReadValue(row, pos, type, imp).cut = FALSE
                   /\ ReadValue(row, pos, type, imp).next = next
                   /\ ReadValue(row, pos, type, imp).ref = ref(imp)
        <4>1. ReadValue(row, pos, type, imp) = Read(next, ref(imp))
          BY <2>1, <3>1
        <4> HIDE DEF ref
        <4> QED BY <4>1 DEF Read
      <3>3. SameRef(ref(implicit), ref(other))
        BY DEF NullRef, ValueRef, FieldRef, SameRef
      <3> HIDE DEF ref
      <3> QED BY <3>2, <3>3
    <2> QED BY <2>2, <2>3
  <1> QED BY <1>1, <1>2, <1>3

LEMMA FieldKeeps ==
  ASSUME NEW row \in Seq(Byte), NEW present_bits, NEW implicit,
         NEW a \in LayoutSet(row, implicit), NEW field
  PROVE  /\ TakeField(row, present_bits, implicit, a, field) \in LayoutSet(row, implicit)
         /\ TakeField(row, present_bits, implicit, a, field).ok =>
               /\ a.ok
               /\ Len(TakeField(row, present_bits, implicit, a, field).refs) = Len(a.refs) + 1
  <1> DEFINE b == TakeField(row, present_bits, implicit, a, field)
             is_null == /\ field.nullable
                        /\ a.bit >= present_bits \/ BitIsSet(row, a.bit)
             bit == IF field.nullable THEN a.bit + 1 ELSE a.bit
             v == ReadValue(row, a.pos, field.type, implicit)
  <1>1. /\ a.ok \in BOOLEAN /\ a.cut \in BOOLEAN /\ a.pos \in 0 .. Len(row) /\ a.bit \in Nat
        /\ a.refs \in Seq(Ref(implicit)) /\ bit \in Nat
    BY DEF LayoutSet
  <1>2. v \in ReadSet(row, implicit)
    BY <1>1, ReadValueIs
  <1>3. ASSUME NEW r \in Ref(implicit)
        PROVE  /\ Append(a.refs, r) \in Seq(Ref(implicit))
               /\ Len(Append(a.refs, r)) = Len(a.refs) + 1
    BY <1>1, AppendProperties
  <1>4. CASE ~a.ok
    <2>1. b = a
      BY <1>4 DEF TakeField
    <2> QED BY <1>4, <2>1
  <1>5. CASE a.ok /\ is_null
    <2>1. b = [a EXCEPT !.bit = bit, !.refs = Append(@, NullRef(implicit))]
      BY <1>5 DEF TakeField
    <2> HIDE DEF bit
    <2>2. b \in LayoutSet(row, implicit) /\ b.refs = Append(a.refs, NullRef(implicit))
      BY <1>1, <1>3, <2>1, RefsAre DEF LayoutSet
    <2> HIDE DEF b
    <2> QED BY <1>3, <1>5, <2>2, RefsAre DEF b
  <1>6. CASE a.ok /\ ~is_null
    <2>1. b = After(a, bit, v)
      BY <1>6 DEF TakeField
    <2> HIDE DEF bit, v
    <2>2. v.ref \in Ref(implicit)
      BY <1>2 DEF ReadSet
    <2>3. b \in LayoutSet(row, implicit) /\ b.refs = Append(a.refs, v.ref)
      BY <1>1, <1>2, <1>3, <2>1, <2>2 DEF LayoutSet, ReadSet, After
    <2> HIDE DEF b
    <2> QED BY <1>3, <1>6, <2>2, <2>3 DEF b
  <1> QED BY <1>4, <1>5, <1>6

LEMMA AppendsSame ==
  ASSUME NEW S, NEW s \in Seq(S), NEW r \in S, NEW T, NEW t \in Seq(T), NEW q \in T,
         Len(s) = Len(t), \A i \in 1 .. Len(s) : SameRef(s[i], t[i]), SameRef(r, q)
  PROVE  /\ Len(Append(s, r)) = Len(Append(t, q))
         /\ \A i \in 1 .. Len(Append(s, r)) : SameRef(Append(s, r)[i], Append(t, q)[i])
  <1> DEFINE u == Append(s, r)
             w == Append(t, q)
  <1>1. /\ Len(u) = Len(s) + 1 /\ u[Len(s) + 1] = r /\ Len(s) \in Nat
        /\ \A i \in 1 .. Len(s) : u[i] = s[i]
    BY AppendProperties
  <1>2. /\ Len(w) = Len(s) + 1 /\ w[Len(s) + 1] = q
        /\ \A i \in 1 .. Len(s) : w[i] = t[i]
    BY AppendProperties
  <1> HIDE DEF u, w
  <1>3. ASSUME NEW i \in 1 .. Len(s) + 1 PROVE SameRef(u[i], w[i])
    <2>1. CASE i = Len(s) + 1
      BY <1>1, <1>2, <2>1
    <2>2. CASE i # Len(s) + 1
      <3>1. i \in 1 .. Len(s)
        BY <1>1, <2>2
      <3> QED BY <1>1, <1>2, <3>1
    <2> QED BY <2>1, <2>2
  <1> QED BY <1>1, <1>2, <1>3 DEF u, w

LEMMA FieldSame ==
  ASSUME NEW row \in Seq(Byte), NEW present_bits, NEW implicit, NEW other, NEW field,
         NEW a \in LayoutSet(row, implicit), NEW b \in LayoutSet(row, other), SameLayout(a, b)
  PROVE  SameLayout(TakeField(row, present_bits, implicit, a, field),
                    TakeField(row, present_bits, other, b, field))
  <1> DEFINE is_null == /\ field.nullable
                        /\ a.bit >= present_bits \/ BitIsSet(row, a.bit)
             bit == IF field.nullable THEN a.bit + 1 ELSE a.bit
             v == ReadValue(row, a.pos, field.type, implicit)
             w == ReadValue(row, a.pos, field.type, other)
             c == TakeField(row, present_bits, implicit, a, field)
             d == TakeField(row, present_bits, other, b, field)
  <1>1. /\ a.ok = b.ok /\ a.cut = b.cut /\ a.pos = b.pos /\ a.bit = b.bit
        /\ Len(a.refs) = Len(b.refs)
        /\ \A i \in 1 .. Len(a.refs) : SameRef(a.refs[i], b.refs[i])
        /\ a.refs \in Seq(Ref(implicit)) /\ b.refs \in Seq(Ref(other))
        /\ a.pos \in 0 .. Len(row) /\ a.ok \in BOOLEAN
    BY DEF SameLayout, LayoutSet
  <1>2. CASE ~a.ok
    <2>1. c = a /\ d = b
      BY <1>1, <1>2 DEF TakeField
    <2> QED BY <2>1
  <1>3. CASE a.ok /\ is_null
    <2>1. c = [a EXCEPT !.bit = bit, !.refs = Append(@, NullRef(implicit))]
      BY <1>3 DEF TakeField
    <2>2. d = [b EXCEPT !.bit = bit, !.refs = Append(@, NullRef(other))]
      BY <1>1, <1>3 DEF TakeField
    <2>3. SameRef(NullRef(implicit), NullRef(other))
      BY DEF NullRef, FieldRef, SameRef
    <2> HIDE DEF bit, is_null
    <2>4. /\ c.ok = a.ok /\ c.cut = a.cut /\ c.pos = a.pos /\ c.bit = bit
          /\ c.refs = Append(a.refs, NullRef(implicit))
      BY <2>1 DEF LayoutSet
    <2>5. /\ d.ok = b.ok /\ d.cut = b.cut /\ d.pos = b.pos /\ d.bit = bit
          /\ d.refs = Append(b.refs, NullRef(other))
      BY <2>2 DEF LayoutSet
    <2> HIDE DEF c, d
    <2>6. /\ Len(c.refs) = Len(d.refs)
          /\ \A i \in 1 .. Len(c.refs) : SameRef(c.refs[i], d.refs[i])
      BY <1>1, <2>3, <2>4, <2>5, AppendsSame, RefsAre
    <2>7. SameLayout(c, d)
      BY <1>1, <2>4, <2>5, <2>6 DEF SameLayout
    <2> QED BY <2>7 DEF c, d
  <1>4. CASE a.ok /\ ~is_null
    <2>1. c = After(a, bit, v)
      BY <1>4 DEF TakeField
    <2>2. d = After(b, bit, w)
      BY <1>1, <1>4 DEF TakeField
    <2>3. v.ok = w.ok /\ v.cut = w.cut /\ v.next = w.next /\ SameRef(v.ref, w.ref)
      BY ReadValueSame
    <2>4. v.ref \in Ref(implicit) /\ w.ref \in Ref(other)
      BY <1>1, ReadValueIs DEF ReadSet
    <2> HIDE DEF bit, is_null, v, w
    <2>5. /\ c.ok = v.ok /\ c.cut = v.cut /\ c.pos = v.next /\ c.bit = bit
          /\ c.refs = Append(a.refs, v.ref)
      BY <2>1 DEF After
    <2>6. /\ d.ok = w.ok /\ d.cut = w.cut /\ d.pos = w.next /\ d.bit = bit
          /\ d.refs = Append(b.refs, w.ref)
      BY <2>2 DEF After
    <2> HIDE DEF c, d
    <2>7. /\ Len(c.refs) = Len(d.refs)
          /\ \A i \in 1 .. Len(c.refs) : SameRef(c.refs[i], d.refs[i])
      BY <1>1, <2>3, <2>4, <2>5, <2>6, AppendsSame
    <2>8. SameLayout(c, d)
      BY <2>3, <2>5, <2>6, <2>7 DEF SameLayout
    <2> QED BY <2>8 DEF c, d
  <1> QED BY <1>2, <1>3, <1>4

Unread0(bitmap_bytes) ==
    [ok |-> TRUE, cut |-> FALSE, pos |-> bitmap_bytes, bit |-> 0, refs |-> <<>>]

LayoutFrom(T, fields, row, bitmap_bytes, present_bits, implicit) ==
    T = [i \in 0 .. Len(fields) |->
            IF i = 0
            THEN [ok |-> TRUE, cut |-> FALSE, pos |-> bitmap_bytes, bit |-> 0,
                  refs |-> <<>>]
            ELSE TakeField(row, present_bits, implicit, T[i - 1], fields[i])]

LEMMA StartIs ==
  ASSUME NEW row \in Seq(Byte), NEW bytes \in 0 .. Len(row), NEW implicit
  PROVE  Unread0(bytes) \in LayoutSet(row, implicit) /\ Len(Unread0(bytes).refs) = 0
  <1>1. <<>> \in Seq(Ref(implicit)) /\ Len(<<>>) = 0
    BY EmptySeq
  <1> QED BY <1>1 DEF Unread0, LayoutSet

LEMMA LayoutExists ==
  ASSUME NEW fields, Len(fields) \in Nat, NEW row \in Seq(Byte),
         NEW bytes \in 0 .. Len(row), NEW present_bits, NEW implicit
  PROVE  \E T : LayoutFrom(T, fields, row, bytes, present_bits, implicit)
  <1> DEFINE n == Len(fields)
             V == LayoutSet(row, implicit)
             Step(i, a) == TakeField(row, present_bits, implicit, a, fields[i])
             step == [i \in 1 .. n |-> [a \in V |-> Step(i, a)]]
  <1>1. Unread0(bytes) \in V
    BY StartIs
  <1>2. \A i \in 1 .. n : \A a \in V : Step(i, a) \in V
    BY FieldKeeps
  <1>3. step \in [1 .. n -> [V -> V]]
    <2> HIDE DEF Step, V
    <2> QED BY <1>2
  <1>4. PICK T : Steps(T, n, V, Unread0(bytes), step)
    <2> HIDE DEF step, V, n
    <2>1. n \in Nat
      BY DEF n
    <2> QED BY <1>1, <1>3, <2>1, StepByStep
  <1>5. ASSUME NEW i \in 0 .. n
        PROVE  T[i] = IF i = 0
                      THEN [ok |-> TRUE, cut |-> FALSE, pos |-> bytes, bit |-> 0, refs |-> <<>>]
                      ELSE TakeField(row, present_bits, implicit, T[i - 1], fields[i])
    <2>1. CASE i = 0
      BY <1>4, <2>1 DEF Steps, Unread0
    <2>2. CASE i # 0
      <3>1. i \in 1 .. n /\ i - 1 \in 0 .. n
        BY <2>2
      <3>2. T[i] = step[i][T[i - 1]] /\ T[i - 1] \in V
        <4> HIDE DEF step, V, n
        <4> QED BY <1>4, <3>1 DEF Steps
      <3>3. step[i][T[i - 1]] = Step(i, T[i - 1])
        <4> HIDE DEF Step, V, n
        <4> QED BY <3>1, <3>2
      <3> HIDE DEF step
      <3> QED BY <2>2, <3>2, <3>3
    <2> QED BY <2>1, <2>2
  <1>6. T = [i \in 0 .. n |-> T[i]]
    <2> HIDE DEF step, V, n
    <2> QED BY <1>4 DEF Steps
  <1>7. LayoutFrom(T, fields, row, bytes, present_bits, implicit)
    <2> HIDE DEF step, V
    <2> QED BY <1>5, <1>6 DEF LayoutFrom
  <1> QED BY <1>7

\* The readings a layout goes through, one field after the other.
IsReading(T, fields, row, bytes, present_bits, implicit) ==
    /\ Layout(fields, row, bytes, present_bits, implicit) = T[Len(fields)]
    /\ T[0] = Unread0(bytes)
    /\ \A i \in 1 .. Len(fields) :
          T[i] = TakeField(row, present_bits, implicit, T[i - 1], fields[i])
    /\ \A i \in 0 .. Len(fields) :
          T[i] \in LayoutSet(row, implicit) /\ (T[i].ok => Len(T[i].refs) = i)

LEMMA LayoutIs ==
  ASSUME NEW fields, Len(fields) \in Nat, NEW row \in Seq(Byte),
         NEW bytes \in 0 .. Len(row), NEW present_bits, NEW implicit
  PROVE  \E T : IsReading(T, fields, row, bytes, present_bits, implicit)
  <1> DEFINE T == CHOOSE F : LayoutFrom(F, fields, row, bytes, present_bits, implicit)
             n == Len(fields)
             S == {i \in 0 .. n : T[i] \in LayoutSet(row, implicit) /\ (T[i].ok => Len(T[i].refs) = i)}
  <1>1. LayoutFrom(T, fields, row, bytes, present_bits, implicit)
    BY LayoutExists
  <1>2. Layout(fields, row, bytes, present_bits, implicit) = T[Len(fields)]
    BY Zenon DEF Layout, LayoutFrom
  <1> HIDE DEF T
  <1>3. T[0] = Unread0(bytes)
    BY <1>1 DEF LayoutFrom, Unread0
  <1>4. \A i \in 1 .. n : T[i] = TakeField(row, present_bits, implicit, T[i - 1], fields[i])
    <2> TAKE i \in 1 .. n
    <2>1. i \in 0 .. n /\ i # 0
      OBVIOUS
    <2> QED BY <1>1, <2>1 DEF LayoutFrom
  <1>5. 0 \in S
    BY <1>3, StartIs
  <1>6. ASSUME NEW i \in 1 .. n, i - 1 \in S PROVE i \in S
    <2>1. T[i - 1] \in LayoutSet(row, implicit) /\ (T[i - 1].ok => Len(T[i - 1].refs) = i - 1)
      BY <1>6
    <2> QED BY <1>4, <2>1, FieldKeeps
  <1>7. \A i \in 0 .. n : i \in S
    <2> HIDE DEF S
    <2>1. \A i \in 1 .. n : i - 1 \in S => i \in S
      BY <1>6
    <2> QED BY <1>5, <2>1, Upwards
  <1>8. IsReading(T, fields, row, bytes, present_bits, implicit)
    BY <1>2, <1>3, <1>4, <1>7 DEF IsReading
  <1> QED BY <1>8

LEMMA LayoutSame ==
  ASSUME NEW fields, Len(fields) \in Nat, NEW row \in Seq(Byte),
         NEW bytes \in 0 .. Len(row), NEW present_bits, NEW implicit, NEW other
  PROVE  SameLayout(Layout(fields, row, bytes, present_bits, implicit),
                    Layout(fields, row, bytes, present_bits, other))
  <1>1. PICK T :
           /\ Layout(fields, row, bytes, present_bits, implicit) = T[Len(fields)]
           /\ T[0] = Unread0(bytes)
           /\ \A i \in 1 .. Len(fields) :
                 T[i] = TakeField(row, present_bits, implicit, T[i - 1], fields[i])
           /\ \A i \in 0 .. Len(fields) : T[i] \in LayoutSet(row, implicit)
    <2>1. PICK T : IsReading(T, fields, row, bytes, present_bits, implicit)
      BY LayoutIs
    <2> QED BY <2>1 DEF IsReading
  <1>2. PICK U :
           /\ Layout(fields, row, bytes, present_bits, other) = U[Len(fields)]
           /\ U[0] = Unread0(bytes)
           /\ \A i \in 1 .. Len(fields) :
                 U[i] = TakeField(row, present_bits, other, U[i - 1], fields[i])
           /\ \A i \in 0 .. Len(fields) : U[i] \in LayoutSet(row, other)
    <2>1. PICK U : IsReading(U, fields, row, bytes, present_bits, other)
      BY LayoutIs
    <2> QED BY <2>1 DEF IsReading
  <1> DEFINE n == Len(fields)
             S == {i \in 0 .. n : SameLayout(T[i], U[i])}
  <1>3. 0 \in S
    BY <1>1, <1>2, StartIs DEF SameLayout, SameRef
  <1>4. ASSUME NEW i \in 1 .. n, i - 1 \in S PROVE i \in S
    <2>1. /\ SameLayout(T[i - 1], U[i - 1]) /\ i - 1 \in 0 .. n
          /\ T[i - 1] \in LayoutSet(row, implicit) /\ U[i - 1] \in LayoutSet(row, other)
      BY <1>1, <1>2, <1>4
    <2> QED BY <1>1, <1>2, <2>1, FieldSame
  <1>5. \A i \in 0 .. n : i \in S
    <2> HIDE DEF S
    <2>1. \A i \in 1 .. n : i - 1 \in S => i \in S
      BY <1>4
    <2> QED BY <1>3, <2>1, Upwards
  <1> QED BY <1>1, <1>2, <1>5

\* The layouts with a bitmap of that many bytes.
MostBits(fields, bytes) == Min({NullableCount(fields), bytes * BitsPerByte})
LayoutsWith(fields, row, implicit, bytes) ==
    IF bytes > Len(row) THEN <<>>
    ELSE [i \in 1 .. MostBits(fields, bytes) + 1 |->
             Layout(fields, row, bytes, MostBits(fields, bytes) + 1 - i, implicit)]

LayoutsFrom(D, fields, row, implicit) ==
    D = [bytes \in 0 .. bitmap_bytes_for(NullableCount(fields)) |->
            (IF bytes > Len(row) THEN <<>>
             ELSE [i \in 1 .. Min({NullableCount(fields), bytes * BitsPerByte}) + 1 |->
                     Layout(fields, row, bytes,
                       Min({NullableCount(fields), bytes * BitsPerByte}) + 1 - i, implicit)])
              \o (IF bytes = 0 THEN <<>> ELSE D[bytes - 1])]

WholeSet(fields, row, implicit) ==
    {a \in LayoutSet(row, implicit) : a.ok => Len(a.refs) = Len(fields)}

LEMMA LayoutsDefinition ==
  ASSUME NEW fields, NEW row, NEW implicit
  PROVE  Layouts(fields, row, implicit) =
           (CHOOSE D : LayoutsFrom(D, fields, row, implicit))[bitmap_bytes_for(NullableCount(fields))]
  BY Zenon DEF Layouts, LayoutsFrom

LEMMA CountsAre ==
  ASSUME NEW fields, Len(fields) \in Nat, DOMAIN fields = 1 .. Len(fields)
  PROVE  /\ NullableCount(fields) \in Nat /\ bitmap_bytes_for(NullableCount(fields)) \in Nat
         /\ \A bytes \in Nat :
               /\ MostBits(fields, bytes) \in Nat
               /\ MostBits(fields, bytes) <= NullableCount(fields)
               /\ MostBits(fields, bytes) <= bytes * BitsPerByte
               /\ NullableCount(fields) <= bytes * BitsPerByte =>
                     MostBits(fields, bytes) = NullableCount(fields)
  <1> DEFINE N == {i \in DOMAIN fields : fields[i].nullable}
             n == NullableCount(fields)
  <1>1. n \in Nat
    <2>1. IsFiniteSet(1 .. Len(fields))
      BY FS_Interval
    <2>2. IsFiniteSet(N)
      BY <2>1, FS_Subset
    <2> QED BY <2>2, FS_CardinalityType DEF NullableCount
  <1> HIDE DEF n
  <1>2. bitmap_bytes_for(n) \in Nat
    BY <1>1, BitsPerByteAssumption DEF bitmap_bytes_for
  <1>3. ASSUME NEW bytes \in Nat
        PROVE  /\ Min({n, bytes * BitsPerByte}) \in Nat
               /\ Min({n, bytes * BitsPerByte}) <= n
               /\ Min({n, bytes * BitsPerByte}) <= bytes * BitsPerByte
               /\ n <= bytes * BitsPerByte => Min({n, bytes * BitsPerByte}) = n
    <2>1. bytes * BitsPerByte \in Nat
      BY BitsPerByteAssumption
    <2> DEFINE m == bytes * BitsPerByte
    <2> HIDE DEF m
    <2>2. m \in Nat /\ {n, m} \subseteq Nat /\ {n, m} # {}
      BY <1>1, <2>1 DEF m
    <2>3. Min({n, m}) \in {n, m} /\ \A y \in {n, m} : Min({n, m}) <= y
      BY <2>2, MinIs
    <2>4. Min({n, m}) \in Nat /\ Min({n, m}) <= n /\ Min({n, m}) <= m
          /\ (n <= m => Min({n, m}) = n)
      BY <1>1, <2>2, <2>3
    <2> QED BY <2>4 DEF m
  <1> QED BY <1>1, <1>2, <1>3 DEF n, MostBits

LEMMA LayoutWhole ==
  ASSUME NEW fields, Len(fields) \in Nat, NEW row \in Seq(Byte),
         NEW bytes \in 0 .. Len(row), NEW present_bits, NEW implicit
  PROVE  Layout(fields, row, bytes, present_bits, implicit) \in WholeSet(fields, row, implicit)
  <1>1. PICK T : IsReading(T, fields, row, bytes, present_bits, implicit)
    BY LayoutIs
  <1>2. Len(fields) \in 0 .. Len(fields)
    OBVIOUS
  <1> QED BY <1>1, <1>2 DEF WholeSet, IsReading

LEMMA LayoutsWithAre ==
  ASSUME NEW fields, Len(fields) \in Nat, DOMAIN fields = 1 .. Len(fields),
         NEW row \in Seq(Byte), NEW bytes \in Nat, NEW implicit
  PROVE  /\ LayoutsWith(fields, row, implicit, bytes) \in Seq(WholeSet(fields, row, implicit))
         /\ bytes <= Len(row) =>
              /\ Len(LayoutsWith(fields, row, implicit, bytes)) = MostBits(fields, bytes) + 1
              /\ \A i \in 1 .. MostBits(fields, bytes) + 1 :
                    LayoutsWith(fields, row, implicit, bytes)[i] =
                      Layout(fields, row, bytes, MostBits(fields, bytes) + 1 - i, implicit)
         /\ bytes > Len(row) => LayoutsWith(fields, row, implicit, bytes) = <<>>
  <1>1. MostBits(fields, bytes) \in Nat
    BY CountsAre
  <1>2. CASE bytes > Len(row)
    <2>1. LayoutsWith(fields, row, implicit, bytes) = <<>> /\ ~(bytes <= Len(row))
      BY <1>2 DEF LayoutsWith
    <2> QED BY <1>2, <2>1, EmptySeq
  <1>3. CASE ~(bytes > Len(row))
    <2> DEFINE m == MostBits(fields, bytes)
               f(i) == Layout(fields, row, bytes, m + 1 - i, implicit)
               s == [i \in 1 .. m + 1 |-> f(i)]
    <2>1. LayoutsWith(fields, row, implicit, bytes) = s
      BY <1>3 DEF LayoutsWith
    <2>2. bytes \in 0 .. Len(row) /\ m + 1 \in Nat /\ Len(row) \in Nat
      BY <1>1, <1>3
    <2>3. \A i \in 1 .. m + 1 : f(i) \in WholeSet(fields, row, implicit)
      BY <2>2, LayoutWhole
    <2> HIDE DEF m, f
    <2>4. /\ s \in Seq(WholeSet(fields, row, implicit)) /\ Len(s) = m + 1
          /\ \A i \in 1 .. m + 1 : s[i] = f(i)
      BY <2>2, <2>3, IsASeq
    <2> HIDE DEF s
    <2>5. /\ m = MostBits(fields, bytes)
          /\ \A i : f(i) = Layout(fields, row, bytes, MostBits(fields, bytes) + 1 - i, implicit)
      BY DEF m, f
    <2> QED BY <1>3, <2>1, <2>2, <2>4, <2>5
  <1> QED BY <1>2, <1>3

LEMMA LayoutsExist ==
  ASSUME NEW fields, Len(fields) \in Nat, DOMAIN fields = 1 .. Len(fields),
         NEW row \in Seq(Byte), NEW implicit
  PROVE  \E D : LayoutsFrom(D, fields, row, implicit)
  <1> DEFINE n == bitmap_bytes_for(NullableCount(fields))
             V == Seq(WholeSet(fields, row, implicit))
             with(b) == LayoutsWith(fields, row, implicit, b)
             Step(b, s) == with(b) \o s
             step == [b \in 1 .. n |-> [s \in V |-> Step(b, s)]]
             v == with(0) \o <<>>
  <1>1. n \in Nat
    BY CountsAre
  <1>2. \A b \in 0 .. n : with(b) \in V
    BY <1>1, LayoutsWithAre
  <1>3. v \in V /\ \A b \in 1 .. n : \A s \in V : Step(b, s) \in V
    <2>1. <<>> \in V
      BY EmptySeq
    <2>2. \A s, t \in V : s \o t \in V
      BY ConcatProperties
    <2> HIDE DEF with, V
    <2> QED BY <1>1, <1>2, <2>1, <2>2
  <1>4. step \in [1 .. n -> [V -> V]]
    <2> HIDE DEF Step, V
    <2> QED BY <1>3
  <1>5. PICK D : Steps(D, n, V, v, step)
    <2> HIDE DEF step, V, n, v
    <2> QED BY <1>1, <1>3, <1>4, StepByStep
  <1>6. ASSUME NEW b \in 0 .. n
        PROVE  D[b] = with(b) \o (IF b = 0 THEN <<>> ELSE D[b - 1])
    <2>1. CASE b = 0
      BY <1>5, <2>1 DEF Steps
    <2>2. CASE b # 0
      <3>1. b \in 1 .. n /\ b - 1 \in 0 .. n
        BY <1>1, <2>2
      <3>2. D[b] = step[b][D[b - 1]] /\ D[b - 1] \in V
        <4> HIDE DEF step, V, n, v
        <4> QED BY <1>5, <3>1 DEF Steps
      <3>3. step[b][D[b - 1]] = Step(b, D[b - 1])
        <4> HIDE DEF Step, V, n
        <4> QED BY <3>1, <3>2
      <3> HIDE DEF step, with
      <3> QED BY <2>2, <3>2, <3>3
    <2> QED BY <2>1, <2>2
  <1>7. D = [b \in 0 .. n |-> D[b]]
    <2> HIDE DEF step, V, n, v
    <2> QED BY <1>5 DEF Steps
  <1>8. LayoutsFrom(D, fields, row, implicit)
    <2> HIDE DEF step, V, v
    <2>1. D = [b \in 0 .. n |-> with(b) \o (IF b = 0 THEN <<>> ELSE D[b - 1])]
      <3> HIDE DEF n, with
      <3> QED BY <1>6, <1>7
    <2> QED BY <2>1, Zenon DEF LayoutsFrom, LayoutsWith, MostBits
  <1> QED BY <1>8

\* The list of layouts, put together from the longest bitmap down.
IsList(D, fields, row, implicit) ==
    /\ Layouts(fields, row, implicit) = D[bitmap_bytes_for(NullableCount(fields))]
    /\ D[0] = LayoutsWith(fields, row, implicit, 0) \o <<>>
    /\ \A b \in 1 .. bitmap_bytes_for(NullableCount(fields)) :
          D[b] = LayoutsWith(fields, row, implicit, b) \o D[b - 1]
    /\ \A b \in 0 .. bitmap_bytes_for(NullableCount(fields)) :
          D[b] \in Seq(WholeSet(fields, row, implicit))

LEMMA LayoutsAre ==
  ASSUME NEW fields, Len(fields) \in Nat, DOMAIN fields = 1 .. Len(fields),
         NEW row \in Seq(Byte), NEW implicit
  PROVE  \E D : IsList(D, fields, row, implicit)
  <1> DEFINE n == bitmap_bytes_for(NullableCount(fields))
             with(b) == LayoutsWith(fields, row, implicit, b)
             D == CHOOSE F : LayoutsFrom(F, fields, row, implicit)
             V == Seq(WholeSet(fields, row, implicit))
             S == {b \in 0 .. n : D[b] \in V}
  <1>1. LayoutsFrom(D, fields, row, implicit)
    BY LayoutsExist
  <1>2. Layouts(fields, row, implicit) = D[n]
    BY LayoutsDefinition
  <1> HIDE DEF D
  <1>3. n \in Nat
    BY CountsAre
  <1>4. D = [b \in 0 .. n |-> with(b) \o (IF b = 0 THEN <<>> ELSE D[b - 1])]
    BY <1>1, Zenon DEF LayoutsFrom, LayoutsWith, MostBits
  <1> HIDE DEF n, with
  <1>5. D[0] = with(0) \o <<>>
    BY <1>3, <1>4
  <1>6. \A b \in 1 .. n : D[b] = with(b) \o D[b - 1]
    <2> TAKE b \in 1 .. n
    <2>1. b \in 0 .. n /\ b # 0
      OBVIOUS
    <2> QED BY <1>4, <2>1
  <1>7. \A b \in Nat : with(b) \in V
    BY LayoutsWithAre DEF with
  <1>8. <<>> \in V /\ \A s, t \in V : s \o t \in V
    <2>1. <<>> \in V
      BY EmptySeq
    <2>2. \A s, t \in V : s \o t \in V
      BY ConcatProperties
    <2> QED BY <2>1, <2>2
  <1> HIDE DEF V
  <1>9. 0 \in S
    BY <1>3, <1>5, <1>7, <1>8
  <1>10. ASSUME NEW b \in 1 .. n, b - 1 \in S PROVE b \in S
    <2>1. D[b - 1] \in V /\ b \in 0 .. n /\ b \in Nat
      BY <1>10
    <2> QED BY <1>6, <1>7, <1>8, <2>1
  <1>11. \A b \in 0 .. n : b \in S
    <2> HIDE DEF S
    <2>1. \A b \in 1 .. n : b - 1 \in S => b \in S
      BY <1>10
    <2> QED BY <1>3, <1>9, <2>1, Upwards
  <1>12. IsList(D, fields, row, implicit)
    BY <1>2, <1>5, <1>6, <1>11 DEF n, with, V, IsList
  <1> QED BY <1>12

LEMMA LayoutsAreSame ==
  ASSUME NEW fields, Len(fields) \in Nat, DOMAIN fields = 1 .. Len(fields),
         NEW row \in Seq(Byte), NEW implicit, NEW other
  PROVE  /\ Layouts(fields, row, implicit) \in Seq(WholeSet(fields, row, implicit))
         /\ Layouts(fields, row, other) \in Seq(WholeSet(fields, row, other))
         /\ Len(Layouts(fields, row, implicit)) = Len(Layouts(fields, row, other))
         /\ \A k \in 1 .. Len(Layouts(fields, row, implicit)) :
               SameLayout(Layouts(fields, row, implicit)[k], Layouts(fields, row, other)[k])
  <1> DEFINE n == bitmap_bytes_for(NullableCount(fields))
             V == WholeSet(fields, row, implicit)
             W == WholeSet(fields, row, other)
             with(b) == LayoutsWith(fields, row, implicit, b)
             others(b) == LayoutsWith(fields, row, other, b)
             Twin(s, t) == /\ s \in Seq(V) /\ t \in Seq(W) /\ Len(s) = Len(t)
                           /\ \A k \in 1 .. Len(s) : SameLayout(s[k], t[k])
  <1>1. PICK D : /\ Layouts(fields, row, implicit) = D[n]
                 /\ D[0] = with(0) \o <<>>
                 /\ \A b \in 1 .. n : D[b] = with(b) \o D[b - 1]
    <2>1. PICK D : IsList(D, fields, row, implicit)
      BY LayoutsAre
    <2> QED BY <2>1 DEF IsList
  <1>2. PICK E : /\ Layouts(fields, row, other) = E[n]
                 /\ E[0] = others(0) \o <<>>
                 /\ \A b \in 1 .. n : E[b] = others(b) \o E[b - 1]
    <2>1. PICK E : IsList(E, fields, row, other)
      BY LayoutsAre
    <2> QED BY <2>1 DEF IsList
  <1>3. n \in Nat
    BY CountsAre
  <1>4. ASSUME NEW b \in Nat PROVE Twin(with(b), others(b))
    <2>1. with(b) \in Seq(V) /\ others(b) \in Seq(W)
      BY LayoutsWithAre
    <2>2. CASE b > Len(row)
      <3>1. with(b) = <<>> /\ others(b) = <<>>
        BY <2>2, LayoutsWithAre
      <3>2. Len(<<>>) = 0
        BY EmptySeq
      <3> HIDE DEF with, others, V, W
      <3> QED BY <2>1, <3>1, <3>2
    <2>3. CASE ~(b > Len(row))
      <3> DEFINE m == MostBits(fields, b)
      <3>1. b <= Len(row) /\ b \in 0 .. Len(row) /\ m + 1 \in Nat
        <4>1. m \in Nat
          BY CountsAre
        <4>2. Len(row) \in Nat
          OBVIOUS
        <4> HIDE DEF m
        <4> QED BY <2>3, <4>1, <4>2
      <3>2. /\ Len(with(b)) = m + 1
            /\ \A i \in 1 .. m + 1 : with(b)[i] = Layout(fields, row, b, m + 1 - i, implicit)
        BY <3>1, LayoutsWithAre
      <3>3. /\ Len(others(b)) = m + 1
            /\ \A i \in 1 .. m + 1 : others(b)[i] = Layout(fields, row, b, m + 1 - i, other)
        BY <3>1, LayoutsWithAre
      <3>4. \A i \in 1 .. m + 1 : SameLayout(Layout(fields, row, b, m + 1 - i, implicit),
                                            Layout(fields, row, b, m + 1 - i, other))
        BY <3>1, LayoutSame
      <3> HIDE DEF with, others, V, W, m
      <3> QED BY <2>1, <3>1, <3>2, <3>3, <3>4
    <2> QED BY <2>2, <2>3
  <1>5. ASSUME NEW s, NEW t, NEW u, NEW v, Twin(s, t), Twin(u, v)
        PROVE  Twin(s \o u, t \o v)
    <2> HIDE DEF V, W
    <2>0. s \in Seq(V) /\ u \in Seq(V) /\ t \in Seq(W) /\ v \in Seq(W)
          /\ Len(s) = Len(t) /\ Len(u) = Len(v)
      BY <1>5
    <2>4. Len(s) \in Nat /\ Len(u) \in Nat
      BY <2>0
    <2>1. /\ s \o u \in Seq(V) /\ Len(s \o u) = Len(s) + Len(u)
          /\ \A i \in 1 .. Len(s) + Len(u) :
                (s \o u)[i] = IF i <= Len(s) THEN s[i] ELSE u[i - Len(s)]
      BY <2>0, ConcatProperties
    <2>2. /\ t \o v \in Seq(W) /\ Len(t \o v) = Len(s) + Len(u)
          /\ \A i \in 1 .. Len(s) + Len(u) :
                (t \o v)[i] = IF i <= Len(s) THEN t[i] ELSE v[i - Len(s)]
      <3>1. /\ t \o v \in Seq(W) /\ Len(t \o v) = Len(t) + Len(v)
            /\ \A i \in 1 .. Len(t) + Len(v) :
                  (t \o v)[i] = IF i <= Len(t) THEN t[i] ELSE v[i - Len(t)]
        BY <2>0, ConcatProperties
      <3> QED BY <2>0, <3>1
    <2> DEFINE x == s \o u
               y == t \o v
    <2> HIDE DEF x, y
    <2>3. ASSUME NEW i \in 1 .. Len(s) + Len(u) PROVE SameLayout(x[i], y[i])
      <3>1. CASE i <= Len(s)
        <4>1. i \in 1 .. Len(s) /\ x[i] = s[i] /\ y[i] = t[i]
          BY <2>1, <2>2, <2>4, <3>1 DEF x, y
        <4> QED BY <1>5, <4>1
      <3>2. CASE ~(i <= Len(s))
        <4>1. i - Len(s) \in 1 .. Len(u) /\ x[i] = u[i - Len(s)] /\ y[i] = v[i - Len(s)]
          BY <2>1, <2>2, <2>4, <3>2 DEF x, y
        <4> QED BY <1>5, <4>1
      <3> QED BY <3>1, <3>2
    <2> QED BY <2>1, <2>2, <2>3 DEF x, y
  <1>6. Twin(<<>>, <<>>)
    <2>1. <<>> \in Seq(V) /\ <<>> \in Seq(W) /\ Len(<<>>) = 0
      BY EmptySeq
    <2> HIDE DEF V, W
    <2> QED BY <2>1
  <1> HIDE DEF Twin, with, others, V, W
  <1> DEFINE S == {b \in 0 .. n : Twin(D[b], E[b])}
  <1> HIDE DEF n
  <1>7. 0 \in S
    BY <1>1, <1>2, <1>3, <1>4, <1>5, <1>6
  <1>8. ASSUME NEW b \in 1 .. n, b - 1 \in S PROVE b \in S
    <2>1. Twin(D[b - 1], E[b - 1]) /\ Twin(with(b), others(b)) /\ b \in 0 .. n
      BY <1>4, <1>8
    <2>2. D[b] = with(b) \o D[b - 1] /\ E[b] = others(b) \o E[b - 1]
      BY <1>1, <1>2
    <2>3. Twin(D[b], E[b])
      BY <1>5, <2>1, <2>2
    <2> QED BY <2>1, <2>3
  <1>9. \A b \in 0 .. n : b \in S
    <2> HIDE DEF S
    <2>1. \A b \in 1 .. n : b - 1 \in S => b \in S
      BY <1>8
    <2> QED BY <1>3, <1>7, <2>1, Upwards
  <1>10. Twin(Layouts(fields, row, implicit), Layouts(fields, row, other))
    BY <1>1, <1>2, <1>3, <1>9
  <1> QED BY <1>10 DEF Twin, V, W

----------------------------------------------------------------------------
(* The layout that is taken.                                               *)

LEMMA AcceptedIs ==
  ASSUME NEW fields, Len(fields) \in Nat, NEW row, NEW implicit,
         NEW layouts \in Seq(WholeSet(fields, row, implicit))
  PROVE  /\ Accepted(row, layouts) \subseteq 1 .. Len(layouts)
         /\ \A k \in Accepted(row, layouts) :
               /\ layouts[k].ok /\ layouts[k].pos \in 0 .. Len(row)
               /\ layouts[k].refs \in Seq(Ref(implicit))
               /\ Len(layouts[k].refs) = Len(fields)
  <1>1. Accepted(row, layouts) \subseteq 1 .. Len(layouts)
    BY DEF Accepted
  <1>2. \A k \in Accepted(row, layouts) : layouts[k] \in WholeSet(fields, row, implicit) /\ layouts[k].ok
    BY DEF Accepted
  <1> QED BY <1>1, <1>2 DEF WholeSet, LayoutSet

IsWinner(layouts, among, w) ==
    /\ w \in among /\ Winner(layouts, among) = layouts[w]
    /\ w = Min({k \in among : layouts[k].pos = Max({layouts[j].pos : j \in among})})
    /\ layouts[w].pos = Max({layouts[j].pos : j \in among})
    /\ \A k \in among : layouts[k].pos <= layouts[w].pos
    /\ \A k \in among : layouts[k].pos = layouts[w].pos => w <= k

LEMMA WinnerIs ==
  ASSUME NEW n \in Nat, NEW layouts, NEW among, among # {}, among \subseteq Nat,
         \A k \in among : layouts[k].pos \in 0 .. n
  PROVE  \E w : IsWinner(layouts, among, w)
  <1> DEFINE P == {layouts[k].pos : k \in among}
             furthest == Max(P)
             B == {k \in among : layouts[k].pos = furthest}
             w == Min(B)
  <1>1. P \subseteq 0 .. n /\ P # {}
    OBVIOUS
  <1>2. Max(P) \in P /\ \A y \in P : Max(P) >= y
    <2> HIDE DEF P
    <2> QED BY <1>1, MaxIs
  <1>3. B # {} /\ B \subseteq Nat
    BY <1>2
  <1>4. Min(B) \in B /\ \A y \in B : Min(B) <= y
    <2> HIDE DEF B
    <2> QED BY <1>3, MinIs
  <1>5. w \in among /\ layouts[w].pos = furthest
    BY <1>4
  <1>6. Winner(layouts, among) = layouts[w]
    BY DEF Winner
  <1>7. \A k \in among : layouts[k].pos <= layouts[w].pos
    <2> TAKE k \in among
    <2>1. layouts[k].pos \in P /\ layouts[k].pos \in 0 .. n
      OBVIOUS
    <2> HIDE DEF P
    <2>2. furthest >= layouts[k].pos /\ furthest \in Int
      BY <1>1, <1>2, <2>1 DEF P
    <2>3. furthest >= layouts[k].pos
      BY <1>2, <2>1 DEF P
    <2> QED BY <1>5, <2>1, <2>2
  <1>8. \A k \in among : layouts[k].pos = layouts[w].pos => w <= k
    <2> TAKE k \in among
    <2>1. layouts[k].pos = layouts[w].pos => k \in B
      BY <1>5
    <2> QED BY <1>4, <2>1
  <1> QED BY <1>5, <1>6, <1>7, <1>8 DEF IsWinner

----------------------------------------------------------------------------
(* The readers of one row.                                                 *)

LEMMA GeometryFieldIs ==
  ASSUME NEW fields, DOMAIN fields = 1 .. Len(fields), Len(fields) \in Nat,
         GeometryField(fields) # 0
  PROVE  GeometryField(fields) \in DOMAIN fields /\ fields[GeometryField(fields)].type = "Geometry"
  BY DEF GeometryField

\* Where a single read finds a record in a row, the scans deliver its fields.
LEMMA FieldsAgree ==
  ASSUME NEW fields, NEW row, NEW implicit, row # <<>>,
         parse_record_without_geometry(fields, row, implicit).ok,
         NEW i \in DOMAIN fields
  PROVE  LET kept == Winner(Layouts(fields, row, implicit),
                            Accepted(row, Layouts(fields, row, implicit))).refs
         IN  /\ parse_record_without_geometry(fields, row, implicit).slots[i]
                  = SlotOf(fields[i].type, kept[i])
             /\ \A before : SequentialRefs(fields, row, implicit, before) = kept
             /\ parse_row_refs(fields, row, implicit).refs = kept
  <1> DEFINE layouts == Layouts(fields, row, implicit)
             among == Accepted(row, layouts)
             kept == Winner(layouts, among).refs
             record == parse_record_without_geometry(fields, row, implicit)
  <1> HIDE DEF layouts
  <1>1. among # {}
    <2> SUFFICES ASSUME among = {} PROVE FALSE
      OBVIOUS
    <2>1. record = NoRecord
      BY DEF parse_record_without_geometry, layouts
    <2> QED BY <2>1 DEF NoRecord
  <1>2. record.slots[i] = SlotOf(fields[i].type, kept[i])
    <2> HIDE DEF kept, among
    <2>1. record = [NoRecord EXCEPT !.ok = TRUE,
                      !.slots = [j \in DOMAIN fields |-> SlotOf(fields[j].type, kept[j])]]
      BY <1>1 DEF parse_record_without_geometry, layouts, among, kept
    <2> HIDE DEF record
    <2>2. record.slots = [j \in DOMAIN fields |-> SlotOf(fields[j].type, kept[j])]
      BY <2>1 DEF NoRecord
    <2> QED BY <2>2
  <1>3. \A before : SequentialRefs(fields, row, implicit, before) = kept
    BY <1>1 DEF SequentialRefs, layouts
  <1>4. parse_row_refs(fields, row, implicit).refs = kept
    <2>1. parse_row_refs(fields, row, implicit) = [ok |-> TRUE, refs |-> kept]
      BY <1>1 DEF parse_row_refs, layouts
    <2> HIDE DEF kept
    <2> QED BY <2>1
  <1> QED BY <1>2, <1>3, <1>4 DEF layouts

\* What the layouts of a row say of its geometry, for whichever row they were
\* made: the same layouts are accepted and the same one wins.
LEMMA WinnersAgree ==
  ASSUME NEW fields, Len(fields) \in Nat, DOMAIN fields = 1 .. Len(fields),
         NEW row \in Seq(Byte), NEW implicit, NEW other
  PROVE  LET layouts == Layouts(fields, row, implicit)
             others == Layouts(fields, row, other)
         IN  /\ Accepted(row, layouts) = Accepted(row, others)
             /\ Accepted(row, layouts) # {} =>
                  \A i \in 1 .. Len(fields) :
                     SameRef(Winner(layouts, Accepted(row, layouts)).refs[i],
                             Winner(others, Accepted(row, others)).refs[i])
  <1> DEFINE layouts == Layouts(fields, row, implicit)
             others == Layouts(fields, row, other)
             among == Accepted(row, layouts)
  <1>1. /\ layouts \in Seq(WholeSet(fields, row, implicit))
        /\ others \in Seq(WholeSet(fields, row, other))
        /\ Len(layouts) = Len(others)
        /\ \A k \in 1 .. Len(layouts) : SameLayout(layouts[k], others[k])
    BY LayoutsAreSame
  <1> HIDE DEF layouts, others
  <1>2. /\ DOMAIN layouts = 1 .. Len(layouts) /\ DOMAIN others = 1 .. Len(layouts)
        /\ \A k \in 1 .. Len(layouts) :
              /\ layouts[k].ok = others[k].ok /\ layouts[k].pos = others[k].pos
              /\ Len(layouts[k].refs) = Len(others[k].refs)
              /\ \A i \in 1 .. Len(layouts[k].refs) : SameRef(layouts[k].refs[i], others[k].refs[i])
    BY <1>1 DEF SameLayout
  <1>3. Accepted(row, others) = among
    BY <1>2 DEF Accepted
  <1>4. /\ among \subseteq 1 .. Len(layouts)
        /\ \A k \in among : layouts[k].pos \in 0 .. Len(row) /\ Len(layouts[k].refs) = Len(fields)
    BY <1>1, AcceptedIs
  <1>5. ASSUME among # {}, NEW i \in 1 .. Len(fields)
        PROVE  SameRef(Winner(layouts, among).refs[i], Winner(others, among).refs[i])
    <2>1. among \subseteq Nat /\ Len(row) \in Nat
      BY <1>4
    <2>2. \A k \in among : others[k].pos \in 0 .. Len(row) /\ others[k].pos = layouts[k].pos
      BY <1>2, <1>4
    <2> DEFINE P == {layouts[j].pos : j \in among}
    <2>3. {others[j].pos : j \in among} = P
      BY <2>2
    <2> HIDE DEF among
    <2>4. PICK w \in among : /\ Winner(layouts, among) = layouts[w]
                             /\ w = Min({k \in among : layouts[k].pos = Max(P)})
      <3>1. PICK w : IsWinner(layouts, among, w)
        BY <1>4, <1>5, <2>1, WinnerIs
      <3> QED BY <3>1 DEF IsWinner
    <2>5. PICK v \in among : /\ Winner(others, among) = others[v]
                             /\ v = Min({k \in among : others[k].pos = Max(P)})
      <3>1. PICK v : IsWinner(others, among, v)
        BY <1>5, <2>1, <2>2, WinnerIs
      <3> QED BY <2>3, <3>1 DEF IsWinner
    <2>6. {k \in among : layouts[k].pos = Max(P)} = {k \in among : others[k].pos = Max(P)}
      BY <2>2
    <2>7. w = v
      BY <2>4, <2>5, <2>6
    <2>8. w \in 1 .. Len(layouts) /\ i \in 1 .. Len(layouts[w].refs)
      BY <1>4, <1>5
    <2> QED BY <1>2, <2>4, <2>5, <2>7, <2>8
  <1> QED BY <1>3, <1>5 DEF layouts, others

LEMMA WinnerRefs ==
  ASSUME NEW fields, Len(fields) \in Nat, DOMAIN fields = 1 .. Len(fields),
         NEW row \in Seq(Byte), NEW implicit,
         Accepted(row, Layouts(fields, row, implicit)) # {},
         NEW i \in 1 .. Len(fields)
  PROVE  Winner(Layouts(fields, row, implicit),
                Accepted(row, Layouts(fields, row, implicit))).refs[i] \in Ref(implicit)
  <1> DEFINE layouts == Layouts(fields, row, implicit)
             among == Accepted(row, layouts)
  <1>1. layouts \in Seq(WholeSet(fields, row, implicit))
    BY LayoutsAreSame
  <1> HIDE DEF layouts
  <1>2. /\ among \subseteq 1 .. Len(layouts)
        /\ \A k \in among : /\ layouts[k].pos \in 0 .. Len(row)
                            /\ layouts[k].refs \in Seq(Ref(implicit))
                            /\ Len(layouts[k].refs) = Len(fields)
    BY <1>1, AcceptedIs
  <1>3. among # {} /\ among \subseteq Nat /\ Len(row) \in Nat
    BY <1>2 DEF layouts
  <1> HIDE DEF among
  <1>4. PICK w \in among : Winner(layouts, among) = layouts[w]
    <2>1. PICK w : IsWinner(layouts, among, w)
      BY <1>2, <1>3, WinnerIs
    <2> QED BY <2>1 DEF IsWinner
  <1>5. layouts[w].refs[i] \in Ref(implicit)
    BY <1>2
  <1> QED BY <1>4, <1>5 DEF layouts, among

\* Where a single read finds a feature, the geometry scans deliver its geometry.
LEMMA GeometryAgrees ==
  ASSUME NEW fields, Len(fields) \in Nat, DOMAIN fields = 1 .. Len(fields),
         NEW row \in Seq(Byte), NEW implicit, row # <<>>, GeometryField(fields) # 0,
         read_feature_by_fid(fields, row, implicit, DOMAIN fields).ok
  PROVE  /\ locate_geometry(fields, row).is_null =
              (read_feature_by_fid(fields, row, implicit, DOMAIN fields).geometry = "Null")
         /\ locate_geometry(fields, row).bytes =
              read_feature_by_fid(fields, row, implicit, DOMAIN fields).blob
  <1> DEFINE g == GeometryField(fields)
             layouts == Layouts(fields, row, implicit)
             among == Accepted(row, layouts)
             kept == Winner(layouts, among).refs
             others == Layouts(fields, row, 0)
             located == Winner(others, Accepted(row, others)).refs[g]
             slots == [i \in DOMAIN fields |-> SlotOf(fields[i].type, kept[i])]
             record == [NoRecord EXCEPT !.ok = TRUE, !.slots = slots]
             internal == read_feature_internal(fields, row, implicit)
             feature == read_feature_by_fid(fields, row, implicit, DOMAIN fields)
  <1>1. g \in 1 .. Len(fields)
    BY GeometryFieldIs
  <1>2. feature = [internal EXCEPT !.slots =
                     [i \in DOMAIN fields |->
                         IF i \in DOMAIN fields THEN @[i] ELSE NullSlot]] /\ internal.ok
    <2> HIDE DEF internal
    <2>1. internal.ok
      <3> SUFFICES ASSUME ~internal.ok PROVE FALSE
        OBVIOUS
      <3>1. feature = NoRecord
        BY DEF read_feature_by_fid, internal
      <3> QED BY <3>1 DEF NoRecord
    <2> QED BY <2>1 DEF read_feature_by_fid, internal
  <1> HIDE DEF layouts, slots
  <1>3. among # {} /\ internal = GeometryResult(fields, kept, record)
    <2>1. among # {}
      <3> SUFFICES ASSUME among = {} PROVE FALSE
        OBVIOUS
      <3>1. internal = NoRecord
        BY DEF read_feature_internal, layouts
      <3> QED BY <1>2, <3>1 DEF NoRecord
    <2> QED BY <2>1 DEF read_feature_internal, layouts, slots
  <1> HIDE DEF internal, feature, kept, record
  <1>4. /\ record.geometry = "Failed" /\ record.blob = <<>> /\ record.ok
        /\ DOMAIN record = {"ok", "slots", "geometry", "blob"}
    BY DEF record, NoRecord
  <1>5. kept[g] \in Ref(implicit)
    BY <1>1, <1>3, WinnerRefs DEF kept, layouts
  <1>6. Accepted(row, others) = among /\ SameRef(kept[g], located)
    BY <1>1, <1>3, WinnersAgree DEF kept, layouts
  <1> HIDE DEF among, others
  <1>7. locate_geometry(fields, row) = [is_null |-> located.is_null, bytes |-> located.bytes]
    BY <1>3, <1>6 DEF locate_geometry, others
  <1> HIDE DEF located
  <1>8. /\ locate_geometry(fields, row).is_null = kept[g].is_null
        /\ locate_geometry(fields, row).bytes = kept[g].bytes
    BY <1>6, <1>7 DEF SameRef
  <1>9. CASE kept[g].is_null
    <2>1. internal = [record EXCEPT !.geometry = "Null"]
      BY <1>3, <1>9 DEF GeometryResult
    <2>2. internal.geometry = "Null" /\ internal.blob = <<>>
          /\ DOMAIN internal = {"ok", "slots", "geometry", "blob"}
      BY <1>4, <2>1
    <2>3. feature.geometry = "Null" /\ feature.blob = <<>>
      BY <1>2, <2>2
    <2>4. kept[g].bytes = <<>> /\ kept[g].is_null = TRUE
      BY <1>5, <1>9 DEF Ref
    <2> QED BY <1>8, <2>3, <2>4 DEF feature
  <1>10. CASE ~kept[g].is_null
    <2>1. internal = IF ~Decodes(kept[g].bytes) THEN NoRecord
                     ELSE [record EXCEPT !.geometry = "Present", !.blob = kept[g].bytes]
      BY <1>3, <1>10 DEF GeometryResult
    <2>2. internal # NoRecord
      BY <1>2 DEF NoRecord
    <2>3. internal = [record EXCEPT !.geometry = "Present", !.blob = kept[g].bytes]
      BY <2>1, <2>2
    <2>4. internal.geometry = "Present" /\ internal.blob = kept[g].bytes
          /\ DOMAIN internal = {"ok", "slots", "geometry", "blob"}
      BY <1>4, <2>3
    <2>5. feature.geometry = "Present" /\ feature.blob = kept[g].bytes
      BY <1>2, <2>4
    <2>6. kept[g].is_null = FALSE
      BY <1>5, <1>10 DEF Ref
    <2> QED BY <1>8, <2>5, <2>6 DEF feature
  <1> QED BY <1>9, <1>10

\* Of a row that can be read in one way only, a peek sees the geometry that a
\* scan delivers.
LEMMA PeekAgrees ==
  ASSUME NEW fields, Len(fields) \in Nat, DOMAIN fields = 1 .. Len(fields),
         NEW row \in Seq(Byte), ~locate_geometry(fields, row).is_null,
         peek_geometry_blob(fields, row).ok,
         Cardinality({Layouts(fields, row, 0)[k].refs :
            k \in {m \in Accepted(row, Layouts(fields, row, 0)) :
                     Layouts(fields, row, 0)[m].pos =
                        Max({Layouts(fields, row, 0)[j].pos :
                               j \in Accepted(row, Layouts(fields, row, 0))})}}) = 1
  PROVE  peek_geometry_blob(fields, row).bytes = locate_geometry(fields, row).bytes
  <1> DEFINE g == GeometryField(fields)
             layouts == Layouts(fields, row, 0)
             all == Accepted(row, layouts)
             P == {layouts[j].pos : j \in all}
             best == {m \in all : layouts[m].pos = Max(P)}
             Blob(k) == layouts[k].refs[g]
             among == {k \in all : ~Blob(k).is_null}
             Q == {layouts[k].pos : k \in among}
             closest == {k \in among : layouts[k].pos = Max(Q)}
             L == {Len(Blob(k).bytes) : k \in closest}
             largest == {k \in closest : Len(Blob(k).bytes) = Max(L)}
             chosen == Min(largest)
             failed == row = <<>> \/ g = 0 \/ \E k \in DOMAIN layouts : layouts[k].cut
  <1>1. layouts \in Seq(WholeSet(fields, row, 0))
    BY LayoutsAreSame
  <1>2. Cardinality({layouts[k].refs : k \in best}) = 1
    OBVIOUS
  <1>3. peek_geometry_blob(fields, row) =
          IF failed \/ among = {} THEN [ok |-> FALSE, bytes |-> <<>>]
          ELSE [ok |-> TRUE, bytes |-> Blob(chosen).bytes]
    BY DEF peek_geometry_blob
  <1>4. locate_geometry(fields, row) =
          IF row = <<>> \/ all = {} THEN NoGeometry
          ELSE [is_null |-> Winner(layouts, all).refs[g].is_null,
                bytes |-> Winner(layouts, all).refs[g].bytes]
    BY DEF locate_geometry
  <1> HIDE DEF layouts, g
  <1>5. /\ all \subseteq 1 .. Len(layouts)
        /\ \A k \in all : /\ layouts[k].pos \in 0 .. Len(row)
                          /\ layouts[k].refs \in Seq(Ref(0))
                          /\ Len(layouts[k].refs) = Len(fields)
    BY <1>1, AcceptedIs
  <1> HIDE DEF all
  <1>6. among # {} /\ ~failed
    <2> HIDE DEF among, chosen, failed, Blob
    <2> QED BY <1>3
  <1>7. peek_geometry_blob(fields, row).bytes = Blob(chosen).bytes
    <2> HIDE DEF among, chosen, failed, Blob
    <2> QED BY <1>3, <1>6
  <1>8. /\ all # {} /\ ~Winner(layouts, all).refs[g].is_null
        /\ locate_geometry(fields, row).bytes = Winner(layouts, all).refs[g].bytes
    <2>1. all # {} /\ row # <<>>
      BY <1>6
    <2> QED BY <1>4, <2>1
  <1>9. g \in 1 .. Len(fields)
    <2>1. g # 0
      BY <1>6
    <2> QED BY <2>1, GeometryFieldIs DEF g
  <1>10. all \subseteq Nat /\ Len(row) \in Nat
    BY <1>5
  <1>11. PICK w \in all : /\ Winner(layouts, all) = layouts[w]
                          /\ layouts[w].pos = Max(P)
                          /\ \A k \in all : layouts[k].pos <= layouts[w].pos
    <2>1. PICK w : IsWinner(layouts, all, w)
      BY <1>5, <1>8, <1>10, WinnerIs
    <2> QED BY <2>1 DEF IsWinner
  <1>12. w \in among
    BY <1>8, <1>11
  <1>13. Q \subseteq 0 .. Len(row) /\ Q # {}
    BY <1>5, <1>6
  <1>14. Max(Q) \in Q /\ \A y \in Q : Max(Q) >= y
    <2> HIDE DEF Q
    <2> QED BY <1>10, <1>13, MaxIs
  <1>15. Max(Q) = layouts[w].pos
    <2>1. PICK q \in among : Max(Q) = layouts[q].pos
      BY <1>14
    <2>2. layouts[w].pos \in Q
      BY <1>12
    <2>3. layouts[q].pos <= layouts[w].pos /\ layouts[q].pos >= layouts[w].pos
      BY <1>11, <1>14, <2>1, <2>2
    <2>4. layouts[q].pos \in Int /\ layouts[w].pos \in Int
      BY <1>5, <1>11
    <2> QED BY <2>1, <2>3, <2>4
  <1>16. w \in closest /\ closest \subseteq best
    BY <1>11, <1>12, <1>15
  <1>17. ASSUME NEW k \in closest PROVE Blob(k) = Blob(w)
    <2> DEFINE R == {layouts[m].refs : m \in best}
    <2>1. IsFiniteSet(R)
      <3>1. IsFiniteSet(1 .. Len(layouts))
        BY <1>1, FS_Interval
      <3>2. IsFiniteSet(best) /\ best \subseteq all
        BY <1>5, <3>1, FS_Subset
      <3> HIDE DEF best
      <3>3. DOMAIN [m \in best |-> layouts[m].refs] = best
        OBVIOUS
      <3>4. [m \in best |-> layouts[m].refs] \in [best -> R]
        OBVIOUS
      <3>5. \A r \in R : \E m \in best : [b \in best |-> layouts[b].refs][m] = r
        OBVIOUS
      <3> HIDE DEF R
      <3>6. [m \in best |-> layouts[m].refs] \in Surjection(best, R)
        BY <3>4, <3>5 DEF Surjection
      <3> QED BY <3>2, <3>6, FS_Surjection
    <2>2. \E r : R = {r}
      <3> HIDE DEF R
      <3> QED BY <1>2, <2>1, FS_Singleton DEF R
    <2>3. layouts[k].refs \in R /\ layouts[w].refs \in R
      BY <1>16
    <2>4. layouts[k].refs = layouts[w].refs
      <3> HIDE DEF R
      <3> QED BY <2>2, <2>3
    <2> QED BY <2>4
  <1>18. chosen \in closest
    <2>1. Blob(w).bytes \in Seq(Byte)
      <3>1. layouts[w].refs[g] \in Ref(0)
        BY <1>5, <1>9, <1>11
      <3> QED BY <3>1 DEF Ref
    <2> DEFINE l == Len(Blob(w).bytes)
    <2>2. l \in Nat
      BY <2>1
    <2>3. L = {l}
      <3> HIDE DEF Blob, closest
      <3> QED BY <1>16, <1>17
    <2>4. Max(L) = l
      <3> HIDE DEF l, L
      <3>1. L \subseteq 0 .. l /\ L # {}
        BY <2>2, <2>3
      <3>2. Max(L) \in L
        BY <2>2, <3>1, MaxIs
      <3> QED BY <2>3, <3>2
    <2>5. w \in largest /\ largest \subseteq Nat
      BY <1>10, <1>16, <2>4
    <2>6. Min(largest) \in largest
      <3> HIDE DEF largest
      <3> QED BY <2>5, MinIs
    <2> QED BY <2>6
  <1>19. Blob(chosen) = Blob(w)
    <2> HIDE DEF Blob, closest, chosen
    <2> QED BY <1>17, <1>18
  <1>20. Blob(w).bytes = locate_geometry(fields, row).bytes
    BY <1>8, <1>11
  <1> HIDE DEF chosen, Blob
  <1> QED BY <1>7, <1>19, <1>20

----------------------------------------------------------------------------
(* What a callback has been given is what the reader of that scan makes of *)
(* the row.                                                                *)

ViewOf(fid, view) ==
    /\ op = "sequential" =>
          \E before :
             view = SequentialRefs(table.fields, Bytes(fid), Implicit(fid), before)
    /\ op = "fields" => view = parse_row_refs(table.fields, Bytes(fid), Implicit(fid)).refs
    /\ op \in {"dense", "sparse"} => view = GeometryView(fid)

ViewInv ==
    /\ op \in {"dense", "sparse"} => GeometryField(table.fields) # 0
    /\ \A k \in 1 .. Len(seen) : ViewOf(seen[k].fid, seen[k].view)

LEMMA ViewsStay ==
  ASSUME ViewInv, UNCHANGED <<table, op, seen>>
  PROVE  ViewInv'
  BY DEF ViewInv, ViewOf, Bytes, Implicit, GeometryView

LEMMA ViewsAppend ==
  ASSUME ScanInv, ViewInv, UNCHANGED <<table, op>>,
         NEW fid, NEW view, seen' = Append(seen, Row(fid, view)), ViewOf(fid, view)
  PROVE  ViewInv'
  <1> DEFINE R == Range(seen) \cup {Row(fid, view)}
  <1>1. seen \in Seq(R) /\ Row(fid, view) \in R
    BY SeqMonotonic DEF ScanInv, Types, Delivery
  <1> HIDE DEF R
  <1>2. /\ Len(seen') = Len(seen) + 1 /\ Len(seen) \in Nat
        /\ seen'[Len(seen) + 1] = Row(fid, view)
        /\ \A k \in 1 .. Len(seen) : seen'[k] = seen[k]
    BY <1>1, AppendProperties
  <1>3. \A k \in 1 .. Len(seen') : ViewOf(seen'[k].fid, seen'[k].view)
    <2> TAKE k \in 1 .. Len(seen')
    <2>1. CASE k = Len(seen) + 1
      BY <1>2, <2>1 DEF Row
    <2>2. CASE k # Len(seen) + 1
      <3>1. k \in 1 .. Len(seen)
        BY <1>2, <2>2
      <3> QED BY <1>2, <3>1 DEF ViewInv
    <2> QED BY <2>1, <2>2
  <1>4. \A f, v : ViewOf(f, v) => ViewOf(f, v)'
    BY DEF ViewOf, Bytes, Implicit, GeometryView
  <1> QED BY <1>3, <1>4 DEF ViewInv

\* The rows of a batch.
LEMMA ViewsConcat ==
  ASSUME ScanInv, ViewInv, UNCHANGED <<table, op>>, op \in {"dense", "sparse"},
         NEW rows, NEW n \in Nat,
         seen' = seen \o [k \in 1 .. n |-> Row(rows[k], GeometryView(rows[k]))]
  PROVE  ViewInv'
  <1> DEFINE t == [k \in 1 .. n |-> Row(rows[k], GeometryView(rows[k]))]
             R == Range(seen) \cup {t[k] : k \in 1 .. n}
  <1>1. seen \in Seq(R)
    BY SeqMonotonic DEF ScanInv, Types, Delivery
  <1>2. t \in Seq(R) /\ Len(t) = n /\ \A k \in 1 .. n : t[k] = Row(rows[k], GeometryView(rows[k]))
    <2> DEFINE f(k) == Row(rows[k], GeometryView(rows[k]))
    <2>1. \A k \in 1 .. n : f(k) \in R
      OBVIOUS
    <2> HIDE DEF f, R
    <2>2. [k \in 1 .. n |-> f(k)] \in Seq(R) /\ Len([k \in 1 .. n |-> f(k)]) = n
      BY <2>1, IsASeq
    <2> QED BY <2>2 DEF f
  <1> HIDE DEF t, R
  <1>3. /\ Len(seen') = Len(seen) + n /\ Len(seen) \in Nat
        /\ \A k \in 1 .. Len(seen) + n :
              seen'[k] = IF k <= Len(seen) THEN seen[k] ELSE t[k - Len(seen)]
    <2>1. Len(seen) \in Nat
      BY <1>1
    <2>2. seen' = seen \o t
      BY DEF t
    <2>3. /\ Len(seen \o t) = Len(seen) + Len(t)
          /\ \A k \in 1 .. Len(seen) + Len(t) :
                (seen \o t)[k] = IF k <= Len(seen) THEN seen[k] ELSE t[k - Len(seen)]
      BY <1>1, <1>2, ConcatProperties
    <2> QED BY <1>2, <2>1, <2>2, <2>3
  <1>4. \A k \in 1 .. Len(seen') : ViewOf(seen'[k].fid, seen'[k].view)
    <2> TAKE k \in 1 .. Len(seen')
    <2>1. CASE k <= Len(seen)
      <3>1. k \in 1 .. Len(seen) /\ seen'[k] = seen[k]
        BY <1>3, <2>1
      <3> QED BY <3>1 DEF ViewInv
    <2>2. CASE ~(k <= Len(seen))
      <3>1. k - Len(seen) \in 1 .. n /\ seen'[k] = t[k - Len(seen)]
        BY <1>3, <2>2
      <3>2. seen'[k] = Row(rows[k - Len(seen)], GeometryView(rows[k - Len(seen)]))
        BY <1>2, <3>1
      <3>3. ViewOf(rows[k - Len(seen)], GeometryView(rows[k - Len(seen)]))
        BY DEF ViewOf
      <3> HIDE DEF ViewOf, Row
      <3> QED BY <3>2, <3>3 DEF Row
    <2> QED BY <2>1, <2>2
  <1>5. \A f, v : ViewOf(f, v) => ViewOf(f, v)'
    BY DEF ViewOf, Bytes, Implicit, GeometryView
  <1> QED BY <1>4, <1>5 DEF ViewInv

LEMMA ViewsOfBatch ==
  ASSUME ScanInv, ViewInv, UNCHANGED <<table, op>>, op \in {"dense", "sparse"},
         NEW batch \in Batch, NEW left, ProcessBatch(batch, left) \/ BatchReadFails
  PROVE  ViewInv'
  <1>1. CASE BatchReadFails
    BY <1>1, ViewsStay DEF BatchReadFails
  <1>2. CASE ProcessBatch(batch, left)
    <2>1. Len(batch.rows) \in Nat
      BY BatchIs
    <2>2. \E n \in 0 .. Len(batch.rows) + 1 :
             seen' = seen \o [k \in 1 .. n |-> Row(batch.rows[k], GeometryView(batch.rows[k]))]
      <3>1. PICK n \in 0 .. Len(batch.rows) :
               \/ seen' = seen \o [k \in 1 .. n |-> Row(batch.rows[k], GeometryView(batch.rows[k]))]
               \/ seen' = seen \o [k \in 1 .. n + 1 |-> Row(batch.rows[k], GeometryView(batch.rows[k]))]
        BY <1>2 DEF ProcessBatch
      <3>2. n \in 0 .. Len(batch.rows) + 1 /\ n + 1 \in 0 .. Len(batch.rows) + 1
        BY <2>1
      <3> QED BY <3>1, <3>2
    <2>3. PICK n \in Nat :
             seen' = seen \o [k \in 1 .. n |-> Row(batch.rows[k], GeometryView(batch.rows[k]))]
      <3>1. 0 .. Len(batch.rows) + 1 \subseteq Nat
        BY <2>1
      <3> QED BY <2>2, <3>1, Zenon
    <2> QED BY <2>3, ViewsConcat
  <1> QED BY <1>1, <1>2

LEMMA ViewInvInit == Init => ViewInv
  <1>1. Len(<<>>) = 0
    BY EmptySeq
  <1> QED BY <1>1 DEF Init, ViewInv

LEMMA ViewsStart ==
  ASSUME ScanInv, outcome = "idle", UNCHANGED <<table, seen>>,
         op' \in {"dense", "sparse"} => GeometryField(table.fields) # 0
  PROVE  ViewInv'
  <1>1. seen' = <<>> /\ Len(<<>>) = 0
    BY EmptySeq DEF ScanInv, QuietInv
  <1> QED BY <1>1 DEF ViewInv

LEMMA ViewInvNext == ScanInv /\ ViewInv /\ [Next]_vars => ViewInv'
  <1> SUFFICES ASSUME ScanInv, ViewInv, [Next]_vars PROVE ViewInv'
    OBVIOUS
  <1>1. CASE StartSequential \/ StartFields \/ StartDense \/ StartSparse \/ StartRecords
    BY <1>1, ViewsStart DEF StartSequential, StartFields, StartDense, StartSparse, StartRecords,
       Start, Refuse
  <1>2. CASE \/ SequentialSkip \/ SequentialBreak \/ SequentialReadFails \/ SequentialEnds
             \/ FieldScanFails \/ FieldScanEnds \/ ViewSkip \/ ViewFails \/ ViewEnds
             \/ RecordsEnd
    BY <1>2, ViewsStay DEF SequentialSkip, SequentialBreak, SequentialReadFails, SequentialEnds,
       FieldScanFails, FieldScanEnds, ViewSkip, ViewFails, ViewEnds, RecordsEnd, Unbatched
  <1>3. CASE GatherRow \/ GatherSkip \/ GatherFails \/ GatherEnds \/ ReadAhead \/ BatchesEnd
    BY <1>3, ViewsStay DEF GatherRow, GatherSkip, GatherFails, GatherEnds, ReadAhead, BatchesEnd, Same
  <1>4. CASE SequentialRow
    <2> DEFINE fid == Head(todo)
               filled == SequentialRefs(table.fields, Bytes(fid), Implicit(fid), refs)
    <2>1. seen' = Append(seen, Row(fid, filled)) /\ UNCHANGED <<table, op>> /\ op = "sequential"
      BY <1>4 DEF SequentialRow, Sequential, Accept, Stop, Unbatched
    <2>2. ViewOf(fid, filled)
      BY <2>1 DEF ViewOf
    <2> HIDE DEF fid, filled
    <2> QED BY <2>1, <2>2, ViewsAppend
  <1>5. CASE FieldScanRow
    <2> DEFINE fid == Head(todo)
               parsed == parse_row_refs(table.fields, Bytes(fid), Implicit(fid))
    <2>1. /\ UNCHANGED <<table, op>> /\ op = "fields"
          /\ seen' = Append(seen, Row(fid, parsed.refs)) \/ UNCHANGED seen
      BY <1>5 DEF FieldScanRow, FieldScan, Accept, Stop, Unbatched
    <2>2. ViewOf(fid, parsed.refs)
      BY <2>1 DEF ViewOf
    <2> HIDE DEF fid, parsed
    <2> QED BY <2>1, <2>2, ViewsAppend, ViewsStay
  <1>6. CASE ViewRow
    <2> DEFINE fid == Head(todo)
    <2>1. /\ UNCHANGED <<table, op>> /\ op \in {"dense", "sparse"}
          /\ seen' = Append(seen, Row(fid, GeometryView(fid)))
      BY <1>6 DEF ViewRow, Viewed, GeometryScan, Accept, Stop
    <2>2. ViewOf(fid, GeometryView(fid))
      BY <2>1 DEF ViewOf
    <2> HIDE DEF fid
    <2> QED BY <2>1, <2>2, ViewsAppend
  <1>7. CASE RecordsRow
    <2>1. /\ UNCHANGED <<table, op>> /\ op = "records"
          /\ \/ \E view : seen' = Append(seen, Row(Head(todo), view))
             \/ UNCHANGED seen
      BY <1>7 DEF RecordsRow, Records, Accept, Unbatched
    <2>2. \A view : ViewOf(Head(todo), view)
      BY <2>1 DEF ViewOf
    <2> QED BY <2>1, <2>2, ViewsAppend, ViewsStay
  <1>8. CASE ReadNow \/ LaunchFails \/ ConsumeFront
    <2>1. UNCHANGED <<table, op>> /\ op \in {"dense", "sparse"}
      BY <1>8 DEF ReadNow, LaunchFails, ConsumeFront, Batched, GeometryScan, Same
    <2>2. ready \in Batch /\ pending \in Seq(Batch)
      BY DEF ScanInv, Types
    <2>3. \/ ProcessBatch(ready, pending) \/ BatchReadFails
          \/ pending # <<>> /\ ProcessBatch(Head(pending), Tail(pending))
      BY <1>8 DEF ReadNow, LaunchFails, ConsumeFront
    <2>4. pending # <<>> => Head(pending) \in Batch
      BY <2>2
    <2> QED BY <2>1, <2>2, <2>3, <2>4, ViewsOfBatch
  <1>9. CASE Done \/ UNCHANGED vars
    BY <1>9, ViewsStay DEF Done, vars
  <1> QED BY <1>1, <1>2, <1>3, <1>4, <1>5, <1>6, <1>7, <1>8, <1>9 DEF Next

LEMMA ViewInvariant == Spec => []ViewInv
  BY ScanInvariant, ViewInvInit, ViewInvNext, PTL DEF Spec

----------------------------------------------------------------------------
(* A row that was written is read back.                                    *)

\* Nullable fields have a bit each, in the order of the fields.
LEMMA CountUp ==
  ASSUME NEW fields
  PROVE  /\ NullableAmong(fields, 0) = 0
         /\ \A i \in Nat : NullableAmong(fields, i) \in Nat
         /\ \A i \in Nat \ {0} : NullableAmong(fields, i) =
              NullableAmong(fields, i - 1) + (IF fields[i].nullable THEN 1 ELSE 0)
         /\ \A i, j \in Nat : i <= j => NullableAmong(fields, i) <= NullableAmong(fields, j)
         /\ DOMAIN fields = 1 .. Len(fields) => NullableCount(fields) = NullableAmong(fields, Len(fields))
  <1> DEFINE S(i) == {j \in 1 .. i : fields[j].nullable}
  <1>1. \A i \in Nat : IsFiniteSet(S(i)) /\ Cardinality(S(i)) \in Nat
    <2> TAKE i \in Nat
    <2>1. IsFiniteSet(1 .. i)
      BY FS_Interval
    <2>2. IsFiniteSet(S(i))
      BY <2>1, FS_Subset
    <2> QED BY <2>2, FS_CardinalityType
  <1>2. Cardinality(S(0)) = 0
    <2>1. S(0) = {}
      OBVIOUS
    <2> QED BY <2>1, FS_EmptySet
  <1>3. ASSUME NEW i \in Nat \ {0}
        PROVE  Cardinality(S(i)) = Cardinality(S(i - 1)) + (IF fields[i].nullable THEN 1 ELSE 0)
    <2>1. i - 1 \in Nat
      OBVIOUS
    <2>2. CASE fields[i].nullable
      <3>1. S(i) = S(i - 1) \cup {i} /\ i \notin S(i - 1)
        BY <2>2
      <3> QED BY <1>1, <2>1, <2>2, <3>1, FS_AddElement
    <2>3. CASE ~fields[i].nullable
      <3>1. S(i) = S(i - 1)
        BY <2>3
      <3> HIDE DEF S
      <3> QED BY <1>1, <2>1, <2>3, <3>1
    <2> QED BY <2>2, <2>3
  <1>4. ASSUME NEW i \in Nat, NEW j \in Nat, i <= j
        PROVE  Cardinality(S(i)) <= Cardinality(S(j))
    <2>1. S(i) \subseteq S(j)
      BY <1>4
    <2> QED BY <1>1, <2>1, FS_Subset
  <1> HIDE DEF S
  <1>5. \A i : NullableAmong(fields, i) = Cardinality(S(i))
    BY DEF NullableAmong, S
  <1>6. DOMAIN fields = 1 .. Len(fields) => NullableCount(fields) = NullableAmong(fields, Len(fields))
    BY DEF NullableAmong, NullableCount
  <1> QED BY <1>1, <1>2, <1>3, <1>4, <1>5, <1>6

LEMMA BitmapHolds ==
  ASSUME NEW n \in Nat
  PROVE  /\ bitmap_bytes_for(n) \in Nat
         /\ n <= bitmap_bytes_for(n) * BitsPerByte
         /\ bitmap_bytes_for(n) = 0 => n = 0
  <1> DEFINE q == (n + BitsPerByte - 1) \div BitsPerByte
             r == (n + BitsPerByte - 1) % BitsPerByte
  <1>1. BitsPerByte \in Nat /\ BitsPerByte > 1
    BY BitsPerByteAssumption
  <1>2. q \in Nat /\ r \in 0 .. BitsPerByte - 1
    BY <1>1
  <1>3. n + BitsPerByte - 1 = BitsPerByte * q + r
    BY <1>1
  <1>4. bitmap_bytes_for(n) = q
    BY DEF bitmap_bytes_for
  <1> HIDE DEF q, r
  <1>5. BitsPerByte * q = q * BitsPerByte /\ q * BitsPerByte \in Nat
    BY <1>1, <1>2
  <1>6. q = 0 => q * BitsPerByte = 0
    BY <1>1
  <1> QED BY <1>1, <1>2, <1>3, <1>4, <1>5, <1>6

\* The places where the values of a written row end.
IsEnds(at, fields, values, row) ==
    /\ ValueEnds(fields, values) = at
    /\ at[0] = bitmap_bytes_for(NullableAmong(fields, Len(values)))
    /\ \A i \in 1 .. Len(values) : at[i] = at[i - 1] + Width(fields[i], values[i])
    /\ \A i \in 0 .. Len(values) : at[i] \in 0 .. Len(row)

EndsFrom(F, fields, values) ==
    F = [i \in 0 .. Len(values) |->
            IF i = 0 THEN bitmap_bytes_for(NullableAmong(fields, Len(values)))
            ELSE F[i - 1] + Width(fields[i], values[i])]

LEMMA WidthIs ==
  ASSUME NEW row, NEW at, NEW field, NEW slot, HoldsValue(row, at, field, slot)
  PROVE  /\ Width(field, slot) \in Nat
         /\ slot.null \in BOOLEAN
         /\ slot.null => slot = NullSlot /\ field.nullable /\ field.type # "ObjectId"
                         /\ Width(field, slot) = 0
         /\ ~slot.null => slot = Slot(slot.value) /\ slot.value \in Seq(Byte)
         /\ field.type = "ObjectId" => Width(field, slot) = 0
         /\ (~slot.null /\ field.type = "Fixed") =>
               Width(field, slot) = 1 /\ slot.value = SubSeq(row, at + 1, at + 1)
         /\ (~slot.null /\ field.type \notin {"ObjectId", "Fixed"}) =>
               /\ Width(field, slot) = 1 + Len(slot.value)
               /\ row[at + 1] = Len(slot.value) /\ row[at + 1] < 2^(BitsPerByte - 1)
               /\ slot.value = SubSeq(row, at + 2, at + 1 + Len(slot.value))
  <1>1. CASE slot = NullSlot /\ field.nullable /\ field.type # "ObjectId"
    BY <1>1 DEF NullSlot, Width
  <1>2. CASE ~(slot = NullSlot /\ field.nullable /\ field.type # "ObjectId")
    <2>1. slot = Slot(slot.value) /\ slot.value \in Seq(Byte)
      BY <1>2 DEF HoldsValue
    <2>2. slot.null \in BOOLEAN /\ ~slot.null
      <3>1. \A v : Slot(v).null = FALSE
        BY DEF Slot
      <3>2. slot.null = FALSE
        BY <2>1, <3>1
      <3> QED BY <3>2
    <2>3. Len(slot.value) \in Nat
      BY <2>1
    <2>4. CASE field.type = "ObjectId"
      BY <2>1, <2>2, <2>4 DEF Width
    <2>5. CASE field.type = "Fixed"
      <3>1. Width(field, slot) = 1
        BY <2>2, <2>5 DEF Width
      <3>2. slot.value = SubSeq(row, at + 1, at + 1)
        BY <1>2, <2>5 DEF HoldsValue
      <3> QED BY <2>1, <2>2, <2>5, <3>1, <3>2
    <2>6. CASE field.type \notin {"ObjectId", "Fixed"}
      <3>1. Width(field, slot) = 1 + Len(slot.value)
        BY <2>2, <2>6 DEF Width
      <3>2. /\ row[at + 1] = Len(slot.value) /\ row[at + 1] < 2^(BitsPerByte - 1)
            /\ slot.value = SubSeq(row, at + 2, at + 1 + Len(slot.value))
        BY <1>2, <2>6 DEF HoldsValue
      <3> QED BY <2>1, <2>2, <2>3, <2>6, <3>1, <3>2
    <2> QED BY <2>4, <2>5, <2>6
  <1> QED BY <1>1, <1>2

LEMMA EndsExist ==
  ASSUME NEW fields, NEW values, Len(values) \in Nat,
         \A i \in 1 .. Len(values) : Width(fields[i], values[i]) \in Nat
  PROVE  \E F : EndsFrom(F, fields, values) /\ F \in [0 .. Len(values) -> Nat]
  <1> DEFINE n == Len(values)
             v == bitmap_bytes_for(NullableAmong(fields, n))
             width(i) == Width(fields[i], values[i])
             step == [i \in 1 .. n |-> [a \in Nat |-> a + width(i)]]
  <1>1. v \in Nat
    BY CountUp, BitmapHolds
  <1>2. step \in [1 .. n -> [Nat -> Nat]]
    <2>1. \A i \in 1 .. n : \A a \in Nat : a + width(i) \in Nat
      OBVIOUS
    <2> HIDE DEF width
    <2> QED BY <2>1
  <1>3. PICK T : Steps(T, n, Nat, v, step)
    <2> HIDE DEF step, n, v
    <2>1. n \in Nat
      BY DEF n
    <2> QED BY <1>1, <1>2, <2>1, StepByStep
  <1>4. T \in [0 .. n -> Nat]
    BY <1>3 DEF Steps
  <1>5. ASSUME NEW i \in 0 .. n
        PROVE  T[i] = IF i = 0 THEN v ELSE T[i - 1] + width(i)
    <2>1. CASE i = 0
      BY <1>3, <2>1 DEF Steps
    <2>2. CASE i # 0
      <3>1. i \in 1 .. n /\ i - 1 \in 0 .. n
        BY <2>2
      <3>2. T[i] = step[i][T[i - 1]] /\ T[i - 1] \in Nat
        <4> HIDE DEF step, n
        <4> QED BY <1>3, <1>4, <3>1 DEF Steps
      <3>3. step[i][T[i - 1]] = T[i - 1] + width(i)
        <4> HIDE DEF width, n
        <4> QED BY <3>1, <3>2
      <3> HIDE DEF step
      <3> QED BY <2>2, <3>2, <3>3
    <2> QED BY <2>1, <2>2
  <1>6. EndsFrom(T, fields, values)
    <2> HIDE DEF step
    <2>1. T = [i \in 0 .. n |-> T[i]]
      BY <1>4
    <2>2. T = [i \in 0 .. n |-> IF i = 0 THEN v ELSE T[i - 1] + width(i)]
      <3> HIDE DEF v, width, n
      <3> QED BY <1>5, <2>1
    <2> QED BY <2>2 DEF EndsFrom
  <1> QED BY <1>4, <1>6

LEMMA EndsAre ==
  ASSUME NEW fields, NEW values, NEW row \in Seq(Byte), Len(values) \in Nat,
         \A i \in 1 .. Len(values) :
            HoldsValue(row, ValueEnds(fields, values)[i - 1], fields[i], values[i]),
         ValueEnds(fields, values)[Len(values)] = Len(row)
  PROVE  \E at : IsEnds(at, fields, values, row)
  <1> DEFINE n == Len(values)
             at == ValueEnds(fields, values)
             width(i) == Width(fields[i], values[i])
             F == CHOOSE G : EndsFrom(G, fields, values)
  <1>1. \A i \in 1 .. n : width(i) \in Nat
    BY WidthIs
  <1>2. \E G : EndsFrom(G, fields, values)
    BY <1>1, EndsExist
  <1>3. EndsFrom(F, fields, values)
    BY <1>2
  <1>4. at = F
    BY Zenon DEF ValueEnds, EndsFrom
  <1> HIDE DEF at, F
  <1>5. at = [i \in 0 .. n |-> IF i = 0 THEN bitmap_bytes_for(NullableAmong(fields, n))
                               ELSE at[i - 1] + width(i)]
    BY <1>3, <1>4 DEF EndsFrom
  <1>6. at[0] = bitmap_bytes_for(NullableAmong(fields, n)) /\ at[0] \in Nat
    <2>1. bitmap_bytes_for(NullableAmong(fields, n)) \in Nat
      BY CountUp, BitmapHolds
    <2> QED BY <1>5, <2>1
  <1> HIDE DEF width
  <1>7. \A i \in 1 .. n : at[i] = at[i - 1] + width(i)
    <2> TAKE i \in 1 .. n
    <2>1. i \in 0 .. n /\ i # 0
      OBVIOUS
    <2> QED BY <1>5, <2>1
  <1> HIDE DEF n
  <1> DEFINE S == {i \in 0 .. n : at[i] \in Nat /\ \A j \in 0 .. i : at[j] \in Nat /\ at[j] <= at[i]}
  <1>8. n \in Nat
    BY DEF n
  <1>9. 0 \in S
    BY <1>6, <1>8
  <1>10. ASSUME NEW i \in 1 .. n, i - 1 \in S PROVE i \in S
    <2>1. at[i - 1] \in Nat /\ \A j \in 0 .. i - 1 : at[j] \in Nat /\ at[j] <= at[i - 1]
      BY <1>10
    <2>2. at[i] \in Nat /\ at[i - 1] <= at[i]
      BY <1>1, <1>7, <2>1
    <2>3. ASSUME NEW j \in 0 .. i PROVE at[j] \in Nat /\ at[j] <= at[i]
      <3>1. CASE j = i
        BY <2>2, <3>1
      <3>2. CASE j # i
        <4>1. j \in 0 .. i - 1
          BY <3>2
        <4> QED BY <2>1, <2>2, <4>1
      <3> QED BY <3>1, <3>2
    <2> QED BY <2>2, <2>3
  <1>11. \A i \in 0 .. n : i \in S
    <2> HIDE DEF S
    <2>1. \A i \in 1 .. n : i - 1 \in S => i \in S
      BY <1>10
    <2> QED BY <1>8, <1>9, <2>1, Upwards
  <1>12. at[n] = Len(row)
    BY DEF n, at
  <1>13. \A i \in 0 .. n : at[i] \in 0 .. Len(row)
    <2> TAKE i \in 0 .. n
    <2>1. n \in S
      BY <1>8, <1>11
    <2>2. at[i] \in Nat /\ at[i] <= at[n]
      BY <2>1
    <2> QED BY <1>12, <2>2
  <1>14. IsEnds(at, fields, values, row)
    BY <1>6, <1>7, <1>13 DEF IsEnds, n, at, width
  <1> QED BY <1>14

\* The reference to a value that was written.
GoodRef(type, slot, implicit) ==
    CASE type = "ObjectId" -> BlankRef(implicit)
      [] type # "ObjectId" /\ (slot.null \/ type = "Raster") -> NullRef(implicit)
      [] OTHER -> ValueRef(slot.value, implicit)

LEMMA SizedIs ==
  ASSUME NEW row, NEW at, NEW field, NEW slot, HoldsValue(row, at, field, slot), ~slot.null,
         field.type \notin {"ObjectId", "Fixed"}
  PROVE  /\ Width(field, slot) = 1 + Len(slot.value)
         /\ row[at + 1] = Len(slot.value) /\ row[at + 1] < 2^(BitsPerByte - 1)
         /\ slot.value = SubSeq(row, at + 2, at + 1 + Len(slot.value))
  <1>1. Width(field, slot) = 1 + Len(slot.value)
    BY DEF Width
  <1>2. slot # NullSlot
    BY DEF NullSlot
  <1>3. /\ row[at + 1] = Len(slot.value) /\ row[at + 1] < 2^(BitsPerByte - 1)
        /\ slot.value = SubSeq(row, at + 2, at + 1 + Len(slot.value))
    BY <1>2 DEF HoldsValue
  <1> QED BY <1>1, <1>3

LEMMA ValueIsRead ==
  ASSUME NEW row \in Seq(Byte), NEW at \in 0 .. Len(row), NEW field, NEW slot, NEW implicit,
         HoldsValue(row, at, field, slot), ~slot.null, at + Width(field, slot) <= Len(row)
  PROVE  ReadValue(row, at, field.type, implicit) =
            Read(at + Width(field, slot), GoodRef(field.type, slot, implicit))
  <1> DEFINE type == field.type
             n == Len(slot.value)
  <1>1. Len(row) \in Nat /\ at \in Nat
    OBVIOUS
  <1>2. CASE type = "ObjectId"
    <2>1. Width(field, slot) = 0
      BY <1>2, WidthIs
    <2> QED BY <1>1, <1>2, <2>1 DEF ReadValue, GoodRef
  <1>3. CASE type = "Fixed"
    <2>1. Width(field, slot) = 1 /\ slot.value = SubSeq(row, at + 1, at + 1)
      BY <1>3, WidthIs
    <2>2. at < Len(row)
      BY <1>1, <2>1
    <2>3. GoodRef(type, slot, implicit) = ValueRef(slot.value, implicit)
      BY <1>3 DEF GoodRef
    <2> QED BY <1>3, <2>1, <2>2, <2>3 DEF ReadValue
  <1>4. CASE type \notin {"ObjectId", "Fixed"}
    <2>1. /\ Width(field, slot) = 1 + n /\ n \in Nat
          /\ row[at + 1] = n /\ row[at + 1] < 2^(BitsPerByte - 1)
          /\ slot.value = SubSeq(row, at + 2, at + 1 + n)
      <3>1. slot.value \in Seq(Byte)
        BY WidthIs
      <3>2. n \in Nat
        BY <3>1
      <3> HIDE DEF n
      <3>3. n = Len(slot.value)
        BY DEF n
      <3>4. /\ Width(field, slot) = 1 + Len(slot.value)
            /\ row[at + 1] = Len(slot.value) /\ row[at + 1] < 2^(BitsPerByte - 1)
            /\ slot.value = SubSeq(row, at + 2, at + 1 + Len(slot.value))
        BY <1>4, SizedIs
      <3> QED BY <3>2, <3>3, <3>4
    <2> DEFINE size == read_varuint(row, at)
    <2>2. at < Len(row)
      BY <1>1, <2>1
    <2>3. size = [cut |-> FALSE, next |-> at + 1, value |-> n]
      BY <2>1, <2>2, VaruintIs
    <2> HIDE DEF size
    <2>4. ~size.cut /\ size.next = at + 1 /\ size.value = n
      BY <2>3
    <2>5. ~(size.cut \/ size.value > Len(row) - size.next)
      BY <1>1, <2>1, <2>4
    <2> HIDE DEF n
    <2>6. /\ size.next + size.value = at + Width(field, slot) /\ size.next + 1 = at + 2
          /\ size.next + size.value = at + 1 + n
      BY <1>1, <2>1, <2>4
    <2>7. TakeSized(row, at, type, implicit, size) =
            Read(size.next + size.value,
              IF type = "Raster" THEN NullRef(implicit)
              ELSE ValueRef(SubSeq(row, size.next + 1, size.next + size.value), implicit))
      BY <2>5 DEF TakeSized
    <2>8. GoodRef(type, slot, implicit) =
            IF type = "Raster" THEN NullRef(implicit) ELSE ValueRef(slot.value, implicit)
      BY <1>4 DEF GoodRef
    <2>9. TakeSized(row, at, type, implicit, size) =
            Read(at + Width(field, slot), GoodRef(type, slot, implicit))
      BY <2>1, <2>6, <2>7, <2>8
    <2>10. ReadValue(row, at, type, implicit) = TakeSized(row, at, type, implicit, size)
      BY <1>4 DEF ReadValue, size
    <2> QED BY <2>9, <2>10
  <1> QED BY <1>2, <1>3, <1>4

\* A layout steps over a field it was written with.
StepsOver(b, a, field, slot, implicit) ==
    /\ b.ok /\ b.pos = a.pos + Width(field, slot)
    /\ b.bit = a.bit + (IF field.nullable THEN 1 ELSE 0)
    /\ b.refs = Append(a.refs, GoodRef(field.type, slot, implicit))

LEMMA FieldIsRead ==
  ASSUME NEW row \in Seq(Byte), NEW present_bits \in Nat, NEW implicit, NEW field, NEW slot,
         NEW a \in LayoutSet(row, implicit), a.ok,
         HoldsValue(row, a.pos, field, slot), a.pos + Width(field, slot) <= Len(row),
         field.nullable => a.bit < present_bits /\ (BitIsSet(row, a.bit) <=> slot.null)
  PROVE  StepsOver(TakeField(row, present_bits, implicit, a, field), a, field, slot, implicit)
  <1> DEFINE b == TakeField(row, present_bits, implicit, a, field)
             is_null == field.nullable /\ (a.bit >= present_bits \/ BitIsSet(row, a.bit))
             bit == IF field.nullable THEN a.bit + 1 ELSE a.bit
             ref == GoodRef(field.type, slot, implicit)
  <1>1. a.pos \in 0 .. Len(row) /\ a.bit \in Nat /\ a.ok \in BOOLEAN
    BY DEF LayoutSet
  <1>2. is_null <=> slot.null
    <2>1. field.nullable => ~(a.bit >= present_bits)
      BY <1>1
    <2>2. slot.null => field.nullable
      BY WidthIs
    <2> QED BY <2>1, <2>2
  <1>3. bit = a.bit + (IF field.nullable THEN 1 ELSE 0)
    BY <1>1
  <1>4. CASE slot.null
    <2>1. b = [a EXCEPT !.bit = bit, !.refs = Append(@, NullRef(implicit))]
      <3>1. is_null
        BY <1>2, <1>4
      <3> QED BY <1>1, <3>1 DEF TakeField
    <2>2. field.type # "ObjectId" /\ Width(field, slot) = 0
      BY <1>4, WidthIs
    <2>3. ref = NullRef(implicit)
      BY <1>4, <2>2 DEF GoodRef
    <2> HIDE DEF bit, is_null, ref
    <2>4. b.ok = a.ok /\ b.pos = a.pos /\ b.bit = bit /\ b.refs = Append(a.refs, NullRef(implicit))
      BY <2>1 DEF LayoutSet
    <2> HIDE DEF b
    <2>5. a.pos + Width(field, slot) = a.pos
      BY <1>1, <2>2
    <2> QED BY <1>3, <2>3, <2>4, <2>5 DEF b, ref, StepsOver
  <1>5. CASE ~slot.null
    <2> DEFINE v == ReadValue(row, a.pos, field.type, implicit)
    <2>1. b = After(a, bit, v)
      <3>1. ~is_null
        BY <1>2, <1>5
      <3> QED BY <1>1, <3>1 DEF TakeField
    <2>2. v = Read(a.pos + Width(field, slot), ref)
      <3> DEFINE p == a.pos
      <3>1. /\ p \in 0 .. Len(row) /\ HoldsValue(row, p, field, slot)
            /\ p + Width(field, slot) <= Len(row)
        BY <1>1
      <3> HIDE DEF p
      <3>2. ReadValue(row, p, field.type, implicit) = Read(p + Width(field, slot), ref)
        BY <1>5, <3>1, ValueIsRead
      <3> QED BY <3>2 DEF p
    <2> HIDE DEF v, bit, is_null, ref
    <2>3. v.ok /\ v.next = a.pos + Width(field, slot) /\ v.ref = ref
      BY <2>2 DEF Read
    <2>4. b.ok = v.ok /\ b.pos = v.next /\ b.bit = bit /\ b.refs = Append(a.refs, v.ref)
      BY <2>1 DEF After
    <2> HIDE DEF b
    <2> QED BY <1>3, <2>3, <2>4 DEF b, ref, StepsOver
  <1> QED BY <1>4, <1>5

\* A field that was added later is null, or the layout does not fit.
LEMMA LaterFieldIsRead ==
  ASSUME NEW row \in Seq(Byte), NEW present_bits \in Nat, NEW implicit, NEW field,
         NEW a \in LayoutSet(row, implicit), a.ok, a.pos = Len(row),
         field.nullable, field.type # "ObjectId"
  PROVE  LET b == TakeField(row, present_bits, implicit, a, field)
         IN  /\ b.ok => /\ b.pos = Len(row) /\ b.bit = a.bit + 1
                        /\ b.refs = Append(a.refs, NullRef(implicit))
             /\ a.bit >= present_bits => b.ok
  <1> DEFINE b == TakeField(row, present_bits, implicit, a, field)
             is_null == field.nullable /\ (a.bit >= present_bits \/ BitIsSet(row, a.bit))
             bit == IF field.nullable THEN a.bit + 1 ELSE a.bit
             v == ReadValue(row, a.pos, field.type, implicit)
  <1>1. a.pos \in 0 .. Len(row) /\ a.bit \in Nat /\ a.ok \in BOOLEAN /\ Len(row) \in Nat
    BY DEF LayoutSet
  <1>2. bit = a.bit + 1
    OBVIOUS
  <1>3. CASE is_null
    <2>1. b = [a EXCEPT !.bit = bit, !.refs = Append(@, NullRef(implicit))]
      BY <1>1, <1>3 DEF TakeField
    <2> HIDE DEF bit
    <2>2. b.ok = a.ok /\ b.pos = a.pos /\ b.bit = bit /\ b.refs = Append(a.refs, NullRef(implicit))
      BY <2>1 DEF LayoutSet
    <2> HIDE DEF b
    <2> QED BY <1>2, <2>2 DEF b
  <1>4. CASE ~is_null
    <2>1. b = After(a, bit, v)
      BY <1>1, <1>4 DEF TakeField
    <2>2. v.ok = FALSE
      <3>1. CASE field.type = "Fixed"
        BY <1>1, <3>1 DEF ReadValue, Unread
      <3>2. CASE field.type # "Fixed"
        <4> DEFINE size == read_varuint(row, a.pos)
        <4>1. size.cut
          BY <1>1, VaruintIs
        <4>2. v = TakeSized(row, a.pos, field.type, implicit, size)
          BY <3>2 DEF ReadValue
        <4> HIDE DEF v, size
        <4>3. v = Unread(a.pos, size.cut, implicit)
          BY <4>1, <4>2 DEF TakeSized
        <4> QED BY <4>3 DEF Unread
      <3> QED BY <3>1, <3>2
    <2> HIDE DEF v
    <2>3. b.ok = FALSE
      BY <2>1, <2>2 DEF After
    <2>4. ~(a.bit >= present_bits)
      BY <1>4
    <2> HIDE DEF b
    <2> QED BY <2>3, <2>4 DEF b
  <1> QED BY <1>3, <1>4

\* What a field was written with: one added later is null.
ValueOf(values, i) == IF i > Len(values) THEN NullSlot ELSE values[i]

RefsAreGood(kept, fields, values, implicit) ==
    \A i \in 1 .. Len(kept) : kept[i] = GoodRef(fields[i].type, ValueOf(values, i), implicit)

\* A layout that has read the first i fields as they were written.
IsGood(a, i, fields, values, row, at, implicit) ==
    /\ a.ok /\ a.bit = NullableAmong(fields, i)
    /\ a.pos = IF i > Len(values) THEN Len(row) ELSE at[i]
    /\ RefsAreGood(a.refs, fields, values, implicit)

LEMMA RefsGrow ==
  ASSUME NEW fields, NEW values, NEW implicit, NEW kept \in Seq(Ref(implicit)),
         NEW ref \in Ref(implicit), NEW i, i = Len(kept) + 1,
         RefsAreGood(kept, fields, values, implicit),
         ref = GoodRef(fields[i].type, ValueOf(values, i), implicit)
  PROVE  RefsAreGood(Append(kept, ref), fields, values, implicit)
  <1> DEFINE s == Append(kept, ref)
  <1>1. /\ Len(s) = Len(kept) + 1 /\ s[Len(kept) + 1] = ref /\ Len(kept) \in Nat
        /\ \A k \in 1 .. Len(kept) : s[k] = kept[k]
    BY AppendProperties
  <1> HIDE DEF s
  <1>2. ASSUME NEW k \in 1 .. Len(s)
        PROVE  s[k] = GoodRef(fields[k].type, ValueOf(values, k), implicit)
    <2>1. CASE k = i
      BY <1>1, <2>1
    <2>2. CASE k # i
      <3>1. k \in 1 .. Len(kept)
        BY <1>1, <2>2
      <3> QED BY <1>1, <3>1 DEF RefsAreGood
    <2> QED BY <2>1, <2>2
  <1>3. RefsAreGood(s, fields, values, implicit)
    BY <1>2 DEF RefsAreGood
  <1> QED BY <1>3 DEF s

\* What IsRowOf says, with the places where the values end.
IsWritten(at, fields, values, row) ==
    /\ Len(values) \in 1 .. Len(fields) /\ at[Len(values)] = Len(row)
    /\ at[0] = bitmap_bytes_for(NullableCount(fields))
    /\ \A i \in 1 .. Len(values) : at[i] = at[i - 1] + Width(fields[i], values[i])
    /\ \A i \in 0 .. Len(values) : at[i] \in 0 .. Len(row)
    /\ \A i \in 1 .. Len(values) :
          /\ HoldsValue(row, at[i - 1], fields[i], values[i])
          /\ fields[i].nullable =>
                (BitIsSet(row, NullableAmong(fields, i - 1)) <=> values[i].null)
    /\ \A i \in Len(values) + 1 .. Len(fields) :
          fields[i].nullable /\ fields[i].type # "ObjectId"

LEMMA RowIs ==
  ASSUME NEW fields, Len(fields) \in Nat, NEW values, NEW row \in Seq(Byte),
         IsRowOf(fields, values, row)
  PROVE  \E at : IsWritten(at, fields, values, row)
  <1> DEFINE n == Len(values)
             ends == ValueEnds(fields, values)
  <1>1. /\ n \in 1 .. Len(fields) /\ ends[n] = Len(row)
        /\ bitmap_bytes_for(NullableAmong(fields, n)) = bitmap_bytes_for(NullableCount(fields))
        /\ \A i \in 1 .. n :
              /\ HoldsValue(row, ends[i - 1], fields[i], values[i])
              /\ fields[i].nullable =>
                    (BitIsSet(row, NullableAmong(fields, i - 1)) <=> values[i].null)
        /\ \A i \in n + 1 .. Len(fields) : fields[i].nullable /\ fields[i].type # "ObjectId"
    BY Zenon DEF IsRowOf
  <1>2. PICK at : IsEnds(at, fields, values, row)
    <2>1. n \in Nat
      BY <1>1
    <2> QED BY <1>1, <2>1, EndsAre
  <1>3. ends = at
    BY <1>2 DEF IsEnds
  <1> HIDE DEF ends
  <1>4. IsWritten(at, fields, values, row)
    BY <1>1, <1>2, <1>3 DEF IsWritten, IsEnds
  <1> QED BY <1>4

LEMMA GoodRefsAre ==
  ASSUME NEW row, NEW at, NEW field, NEW slot, NEW implicit, HoldsValue(row, at, field, slot)
  PROVE  GoodRef(field.type, slot, implicit) \in Ref(implicit)
  <1>1. slot.null \/ slot.value \in Seq(Byte)
    BY WidthIs
  <1> QED BY <1>1, RefsAre DEF GoodRef

LEMMA ReadsWritten ==
  ASSUME NEW fields, Len(fields) \in Nat, DOMAIN fields = 1 .. Len(fields),
         NEW values, NEW row \in Seq(Byte), NEW at, IsWritten(at, fields, values, row),
         NEW implicit, NEW bits \in Nat, bits >= NullableAmong(fields, Len(values))
  PROVE  LET a == Layout(fields, row, bitmap_bytes_for(NullableCount(fields)), bits, implicit)
         IN  /\ a.ok => a.pos = Len(row) /\ RefsAreGood(a.refs, fields, values, implicit)
             /\ bits = NullableAmong(fields, Len(values)) => a.ok
  <1> DEFINE n == Len(values)
             N == Len(fields)
             m == bitmap_bytes_for(NullableCount(fields))
             Among(i) == NullableAmong(fields, i)
             Good(a, i) == IsGood(a, i, fields, values, row, at, implicit)
  <1>1. n \in 1 .. N /\ at[n] = Len(row) /\ at[0] = m /\ m \in 0 .. Len(row)
    <2>1. 0 \in 0 .. n
      BY DEF IsWritten
    <2> QED BY <2>1 DEF IsWritten
  <1>2. /\ \A i \in Nat : Among(i) \in Nat
        /\ \A i \in Nat \ {0} : Among(i) = Among(i - 1) + (IF fields[i].nullable THEN 1 ELSE 0)
        /\ \A i, j \in Nat : i <= j => Among(i) <= Among(j)
        /\ Among(0) = 0
    BY CountUp
  <1>3. PICK T : IsReading(T, fields, row, m, bits, implicit)
    BY <1>1, LayoutIs
  <1>4. /\ Layout(fields, row, m, bits, implicit) = T[N]
        /\ T[0] = Unread0(m)
        /\ \A i \in 1 .. N : T[i] = TakeField(row, bits, implicit, T[i - 1], fields[i])
        /\ \A i \in 0 .. N : T[i] \in LayoutSet(row, implicit) /\ (T[i].ok => Len(T[i].refs) = i)
    BY <1>3 DEF IsReading
  <1> HIDE DEF n, N, m, Good
  <1>5. n \in Nat /\ N \in Nat /\ n >= 1
    BY <1>1 DEF N
  <1> DEFINE S == {i \in 0 .. N : /\ T[i].ok => Good(T[i], i)
                                  /\ (i <= n \/ bits = Among(n)) => T[i].ok}
  <1>6. 0 \in S
    <2>1. T[0].ok /\ T[0].bit = 0 /\ T[0].pos = m /\ T[0].refs = <<>>
      BY <1>4 DEF Unread0
    <2>2. Len(<<>>) = 0 /\ ~(0 > n)
      BY <1>5
    <2>3. RefsAreGood(T[0].refs, fields, values, implicit)
      BY <2>1, <2>2 DEF RefsAreGood
    <2>4. Good(T[0], 0)
      BY <1>1, <1>2, <2>1, <2>2, <2>3 DEF IsGood, Good, n
    <2> QED BY <1>5, <2>1, <2>4
  <1>7. ASSUME NEW i \in 1 .. N, i - 1 \in S PROVE i \in S
    <2> DEFINE a == T[i - 1]
               b == T[i]
               slot == ValueOf(values, i)
               ref == GoodRef(fields[i].type, slot, implicit)
    <2>1. /\ i - 1 \in 0 .. N /\ i \in Nat \ {0} /\ i - 1 \in Nat /\ i \in 0 .. N
          /\ a \in LayoutSet(row, implicit) /\ b = TakeField(row, bits, implicit, a, fields[i])
          /\ (a.ok => Len(a.refs) = i - 1)
      BY <1>4, <1>5
    <2>2. (a.ok => Good(a, i - 1)) /\ ((i - 1 <= n \/ bits = Among(n)) => a.ok)
      BY <1>7
    <2> HIDE DEF S, a, b
    <2>3. CASE ~a.ok
      <3>1. ~b.ok
        BY <2>1, <2>3, FieldKeeps
      <3>2. ~(i <= n \/ bits = Among(n))
        <4>1. ~(i - 1 <= n)
          BY <2>2, <2>3
        <4> QED BY <1>5, <2>1, <2>2, <2>3, <4>1
      <3> QED BY <2>1, <3>1, <3>2 DEF S, b
    <2>4. CASE a.ok
      <3>1. /\ a.ok /\ a.bit = Among(i - 1) /\ RefsAreGood(a.refs, fields, values, implicit)
            /\ a.pos = (IF i - 1 > n THEN Len(row) ELSE at[i - 1])
            /\ Len(a.refs) = i - 1 /\ a.refs \in Seq(Ref(implicit))
        <4>1. Good(a, i - 1)
          BY <2>2, <2>4
        <4>2. a.refs \in Seq(Ref(implicit))
          BY <2>1 DEF LayoutSet
        <4> QED BY <2>1, <2>4, <4>1, <4>2 DEF Good, IsGood, n
      <3>2. ASSUME ref \in Ref(implicit), b.refs = Append(a.refs, ref)
            PROVE  RefsAreGood(b.refs, fields, values, implicit)
        <4>1. i = Len(a.refs) + 1
          BY <2>1, <3>1
        <4> HIDE DEF slot
        <4>2. RefsAreGood(Append(a.refs, ref), fields, values, implicit)
          BY <3>1, <3>2, <4>1, RefsGrow DEF slot
        <4> QED BY <3>2, <4>2
      <3>3. CASE i <= n
        <4>1. /\ slot = values[i] /\ i \in 1 .. Len(values) /\ ~(i - 1 > n) /\ ~(i > n)
          BY <1>5, <2>1, <3>3 DEF ValueOf, n
        <4>2. /\ HoldsValue(row, at[i - 1], fields[i], slot)
              /\ at[i] = at[i - 1] + Width(fields[i], slot) /\ at[i] \in 0 .. Len(row)
              /\ fields[i].nullable => (BitIsSet(row, Among(i - 1)) <=> slot.null)
          <5>1. i \in 0 .. Len(values)
            BY <4>1
          <5> QED BY <4>1, <5>1 DEF IsWritten
        <4> HIDE DEF slot
        <4>3. a.pos = at[i - 1] /\ at[i - 1] + Width(fields[i], slot) <= Len(row)
          BY <3>1, <4>1, <4>2
        <4>4. fields[i].nullable => a.bit < bits /\ (BitIsSet(row, a.bit) <=> slot.null)
          <5>1. fields[i].nullable => Among(i - 1) < bits
            <6>1. Among(i) <= Among(n) /\ Among(n) <= bits /\ Among(i) \in Nat /\ Among(n) \in Nat
              BY <1>2, <1>5, <2>1, <3>3 DEF n
            <6>2. fields[i].nullable => Among(i) = Among(i - 1) + 1
              BY <1>2, <2>1
            <6>3. Among(i - 1) \in Nat
              BY <1>2, <2>1
            <6> HIDE DEF Among
            <6> QED BY <6>1, <6>2, <6>3
          <5> QED BY <3>1, <4>2, <5>1
        <4>5. /\ b.ok /\ b.pos = a.pos + Width(fields[i], slot)
              /\ b.bit = a.bit + (IF fields[i].nullable THEN 1 ELSE 0)
              /\ b.refs = Append(a.refs, ref)
          <5> DEFINE field == fields[i]
          <5>1. /\ HoldsValue(row, a.pos, field, slot) /\ a.pos + Width(field, slot) <= Len(row)
                /\ field.nullable => a.bit < bits /\ (BitIsSet(row, a.bit) <=> slot.null)
            BY <4>2, <4>3, <4>4
          <5> HIDE DEF field
          <5>2. StepsOver(TakeField(row, bits, implicit, a, field), a, field, slot, implicit)
            <6>1. a \in LayoutSet(row, implicit) /\ a.ok
              BY <2>1, <3>1
            <6> HIDE DEF slot
            <6> QED BY <5>1, <6>1, FieldIsRead
          <5> QED BY <2>1, <5>2, Zenon DEF field, StepsOver
        <4>6. ref \in Ref(implicit)
          BY <4>2, GoodRefsAre
        <4>7. b.bit = Among(i) /\ b.pos = at[i]
          BY <1>2, <2>1, <3>1, <4>2, <4>3, <4>5
        <4>8. Good(b, i)
          BY <3>2, <4>1, <4>5, <4>6, <4>7 DEF Good, IsGood, n
        <4> QED BY <2>1, <4>5, <4>8 DEF S, b
      <3>4. CASE i > n
        <4>1. /\ fields[i].nullable /\ fields[i].type # "ObjectId" /\ slot = NullSlot
          <5>1. i \in Len(values) + 1 .. Len(fields) /\ i > Len(values)
            BY <1>5, <2>1, <3>4 DEF n, N
          <5> QED BY <5>1 DEF IsWritten, ValueOf
        <4>2. a.pos = Len(row)
          <5>1. CASE i - 1 > n
            BY <3>1, <5>1
          <5>2. CASE ~(i - 1 > n)
            <6>1. i - 1 = n
              BY <1>5, <2>1, <3>4, <5>2
            <6> QED BY <1>1, <3>1, <5>2, <6>1
          <5> QED BY <5>1, <5>2
        <4>3. ref = NullRef(implicit) /\ ref \in Ref(implicit)
          BY <4>1, RefsAre DEF GoodRef, NullSlot
        <4>4. /\ b.ok => /\ b.pos = Len(row) /\ b.bit = a.bit + 1
                         /\ b.refs = Append(a.refs, NullRef(implicit))
              /\ a.bit >= bits => b.ok
          <5> DEFINE field == fields[i]
          <5>1. field.nullable /\ field.type # "ObjectId"
            BY <4>1
          <5> HIDE DEF field
          <5>2. LET c == TakeField(row, bits, implicit, a, field)
                IN  /\ c.ok => /\ c.pos = Len(row) /\ c.bit = a.bit + 1
                               /\ c.refs = Append(a.refs, NullRef(implicit))
                    /\ a.bit >= bits => c.ok
            BY <2>1, <3>1, <4>2, <5>1, LaterFieldIsRead
          <5> QED BY <2>1, <5>2, Zenon DEF field
        <4>5. a.bit + 1 = Among(i) /\ a.bit >= Among(n)
          <5>1. n <= i - 1
            BY <1>5, <2>1, <3>4
          <5>2. Among(n) <= Among(i - 1) /\ Among(i - 1) \in Nat /\ Among(n) \in Nat
            BY <1>2, <1>5, <2>1, <5>1
          <5>3. Among(i) = Among(i - 1) + 1
            BY <1>2, <2>1, <4>1
          <5> HIDE DEF Among
          <5> QED BY <3>1, <5>2, <5>3
        <4>6. b.ok => Good(b, i)
          <5> SUFFICES ASSUME b.ok PROVE Good(b, i)
            OBVIOUS
          <5> HIDE DEF ref, Among
          <5>1. RefsAreGood(b.refs, fields, values, implicit)
            BY <3>2, <4>3, <4>4
          <5> QED BY <3>4, <4>4, <4>5, <5>1 DEF Good, IsGood, n, Among
        <4>7. bits = Among(n) => b.ok
          BY <4>4, <4>5
        <4>8. ~(i <= n)
          BY <1>5, <2>1, <3>4
        <4> QED BY <2>1, <4>6, <4>7, <4>8 DEF S, b
      <3> QED BY <1>5, <2>1, <3>3, <3>4
    <2> QED BY <2>3, <2>4
  <1>8. N \in S
    <2> HIDE DEF S
    <2>1. \A i \in 1 .. N : i - 1 \in S => i \in S
      BY <1>7
    <2>2. \A i \in 0 .. N : i \in S
      BY <1>5, <1>6, <2>1, Upwards
    <2> QED BY <1>5, <2>2
  <1>9. /\ T[N].ok => T[N].pos = Len(row) /\ RefsAreGood(T[N].refs, fields, values, implicit)
        /\ bits = Among(n) => T[N].ok
    <2>1. (IF N > n THEN Len(row) ELSE at[N]) = Len(row)
      <3>1. N > n \/ N = n
        BY <1>1, <1>5
      <3> QED BY <1>1, <3>1
    <2> QED BY <1>8, <2>1 DEF Good, IsGood, n
  <1> QED BY <1>4, <1>9 DEF m, n

\* The layout the row was written in is among the first that are tried, and of
\* those that leave as little over the first wins.
LEMMA WrittenWins ==
  ASSUME NEW fields, Len(fields) \in Nat, DOMAIN fields = 1 .. Len(fields),
         NEW values, NEW row \in Seq(Byte), IsRowOf(fields, values, row), NEW implicit
  PROVE  LET layouts == Layouts(fields, row, implicit)
             among == Accepted(row, layouts)
         IN  /\ among # {}
             /\ RefsAreGood(Winner(layouts, among).refs, fields, values, implicit)
             /\ Len(Winner(layouts, among).refs) = Len(fields)
  <1> DEFINE layouts == Layouts(fields, row, implicit)
             among == Accepted(row, layouts)
             V == WholeSet(fields, row, implicit)
             N == NullableCount(fields)
             m == bitmap_bytes_for(N)
             first == LayoutsWith(fields, row, implicit, m)
             p == NullableAmong(fields, Len(values))
             At(bits) == Layout(fields, row, m, bits, implicit)
  <1>1. PICK at : IsWritten(at, fields, values, row)
    BY RowIs
  <1>2. /\ m \in 0 .. Len(row) /\ Len(values) \in 1 .. Len(fields)
    <2>1. 0 \in 0 .. Len(values)
      BY <1>1 DEF IsWritten
    <2> QED BY <1>1, <2>1 DEF IsWritten
  <1>3. p \in Nat /\ N \in Nat /\ p <= N
    <2>1. Len(values) \in Nat /\ Len(values) <= Len(fields) /\ N = NullableAmong(fields, Len(fields))
      BY <1>2, CountUp
    <2> QED BY <2>1, CountUp
  <1>4. MostBits(fields, m) = N
    <2>1. N <= m * BitsPerByte /\ m \in Nat
      BY <1>3, BitmapHolds
    <2> QED BY <2>1, CountsAre
  <1>5. \A bits \in Nat : bits >= p =>
            /\ At(bits).ok => At(bits).pos = Len(row)
                              /\ RefsAreGood(At(bits).refs, fields, values, implicit)
            /\ bits = p => At(bits).ok
    BY <1>1, ReadsWritten
  <1>6. /\ first \in Seq(V) /\ Len(first) = N + 1
        /\ \A i \in 1 .. N + 1 : first[i] = At(N + 1 - i)
    <2>1. m \in Nat /\ m <= Len(row)
      BY <1>2
    <2> QED BY <1>4, <2>1, LayoutsWithAre
  <1>7. PICK rest \in Seq(V) : layouts = first \o rest
    <2>1. PICK D : IsList(D, fields, row, implicit)
      BY LayoutsAre
    <2>2. CASE m = 0
      <3>1. layouts = first \o <<>> /\ <<>> \in Seq(V)
        BY <2>1, <2>2, EmptySeq DEF IsList
      <3> QED BY <3>1
    <2>3. CASE m # 0
      <3>1. m \in 1 .. m /\ m - 1 \in 0 .. m
        BY <1>2, <2>3
      <3>2. layouts = first \o D[m - 1] /\ D[m - 1] \in Seq(V)
        BY <2>1, <3>1 DEF IsList
      <3> QED BY <3>2
    <2> QED BY <2>2, <2>3
  <1> HIDE DEF first, At, V, N, p, m
  <1>8. /\ layouts \in Seq(V) /\ N + 1 <= Len(layouts)
        /\ \A i \in 1 .. N + 1 : layouts[i] = At(N + 1 - i)
    <2>1. /\ first \o rest \in Seq(V) /\ Len(first \o rest) = Len(first) + Len(rest)
          /\ \A i \in 1 .. Len(first) + Len(rest) :
                (first \o rest)[i] = IF i <= Len(first) THEN first[i] ELSE rest[i - Len(first)]
      BY <1>6, ConcatProperties
    <2>2. Len(rest) \in Nat
      OBVIOUS
    <2>3. \A i \in 1 .. N + 1 : (first \o rest)[i] = first[i]
      BY <1>3, <1>6, <2>1, <2>2
    <2> HIDE DEF layouts
    <2> QED BY <1>3, <1>6, <1>7, <2>1, <2>2, <2>3
  <1> HIDE DEF layouts
  <1>9. /\ among \subseteq 1 .. Len(layouts)
        /\ \A k \in among : /\ layouts[k].ok /\ layouts[k].pos \in 0 .. Len(row)
                            /\ Len(layouts[k].refs) = Len(fields)
    BY <1>8, AcceptedIs DEF V
  <1> DEFINE own == N + 1 - p
  <1>10. own \in 1 .. N + 1 /\ N + 1 - own = p
    BY <1>3
  <1>11. own \in among /\ layouts[own].pos = Len(row)
    <2>1. layouts[own] = At(p)
      <3> HIDE DEF own
      <3> QED BY <1>8, <1>10
    <2>2. At(p).ok /\ At(p).pos = Len(row)
      BY <1>3, <1>5
    <2>3. own \in 1 .. Len(layouts) /\ Len(layouts) \in Nat
      BY <1>3, <1>8, <1>10
    <2>4. all_zero(row, Len(row))
      BY DEF all_zero
    <2> HIDE DEF own
    <2>5. own \in DOMAIN layouts
      BY <1>8, <2>3
    <2> QED BY <2>1, <2>2, <2>4, <2>5 DEF Accepted
  <1> HIDE DEF own, among
  <1>12. among # {} /\ among \subseteq Nat /\ Len(row) \in Nat
    BY <1>9, <1>11
  <1>13. PICK w : IsWinner(layouts, among, w)
    BY <1>9, <1>12, WinnerIs
  <1>14. /\ w \in among /\ Winner(layouts, among) = layouts[w]
         /\ layouts[own].pos <= layouts[w].pos
         /\ layouts[own].pos = layouts[w].pos => w <= own
    BY <1>11, <1>13 DEF IsWinner
  <1>15. w <= own
    <2>1. layouts[w].pos \in 0 .. Len(row)
      BY <1>9, <1>14
    <2> QED BY <1>11, <1>12, <1>14, <2>1
  <1>16. w \in 1 .. N + 1 /\ N + 1 - w \in Nat /\ N + 1 - w >= p
    <2>1. w \in Nat /\ w >= 1
      BY <1>9, <1>14
    <2> QED BY <1>3, <1>10, <1>15, <2>1 DEF own
  <1>17. layouts[w] = At(N + 1 - w)
    BY <1>8, <1>16
  <1>18. RefsAreGood(layouts[w].refs, fields, values, implicit)
    BY <1>5, <1>9, <1>14, <1>16, <1>17
  <1> QED BY <1>9, <1>12, <1>14, <1>18 DEF layouts, among

\* What a reference to a value that was written stands for.
WrittenAs(type, slot, implicit) ==
    CASE type = "ObjectId" -> Slot(<<implicit>>)
      [] type = "Raster" -> NullSlot
      [] OTHER -> slot

LEMMA GoodContent ==
  ASSUME NEW type, NEW slot, NEW implicit, slot = NullSlot \/ slot = Slot(slot.value)
  PROVE  /\ Content(type, GoodRef(type, slot, implicit)) = WrittenAs(type, slot, implicit)
         /\ type # "Geometry" =>
              SlotOf(type, GoodRef(type, slot, implicit)) = WrittenAs(type, slot, implicit)
         /\ type = "Geometry" =>
              /\ GoodRef(type, slot, implicit).is_null = slot.null
              /\ GoodRef(type, slot, implicit).bytes = slot.value
  <1>1. CASE type = "ObjectId"
    <2>1. GoodRef(type, slot, implicit) = BlankRef(implicit)
      BY <1>1 DEF GoodRef
    <2> QED BY <1>1, <2>1 DEF BlankRef, FieldRef, Content, SlotOf, WrittenAs
  <1>2. CASE type = "Raster"
    <2>1. GoodRef(type, slot, implicit) = NullRef(implicit)
      BY <1>2 DEF GoodRef
    <2> QED BY <1>2, <2>1 DEF NullRef, FieldRef, Content, SlotOf, WrittenAs
  <1>3. CASE type \notin {"ObjectId", "Raster"}
    <2>1. WrittenAs(type, slot, implicit) = slot
      BY <1>3 DEF WrittenAs
    <2>2. CASE slot = NullSlot
      <3>1. GoodRef(type, slot, implicit) = NullRef(implicit)
        BY <1>3, <2>2 DEF GoodRef, NullSlot
      <3>2. /\ GoodRef(type, slot, implicit).is_null = TRUE
            /\ GoodRef(type, slot, implicit).bytes = <<>>
        BY <3>1 DEF NullRef, FieldRef
      <3>3. slot.null = TRUE /\ slot.value = <<>>
        BY <2>2 DEF NullSlot
      <3>4. Content(type, GoodRef(type, slot, implicit)) = NullSlot
        BY <3>2 DEF Content
      <3>5. type # "Geometry" => SlotOf(type, GoodRef(type, slot, implicit)) = NullSlot
        BY <1>3, <3>2 DEF SlotOf
      <3> QED BY <2>1, <2>2, <3>2, <3>3, <3>4, <3>5
    <2>3. CASE slot = Slot(slot.value)
      <3>1. slot.null = FALSE
        BY <2>3 DEF Slot
      <3>2. GoodRef(type, slot, implicit) = ValueRef(slot.value, implicit)
        BY <1>3, <3>1 DEF GoodRef
      <3>3. /\ GoodRef(type, slot, implicit).is_null = FALSE
            /\ GoodRef(type, slot, implicit).bytes = slot.value
        BY <3>2 DEF ValueRef, FieldRef
      <3> QED BY <1>3, <2>1, <2>3, <3>1, <3>3 DEF Content, SlotOf
    <2> QED BY <2>2, <2>3
  <1> QED BY <1>1, <1>2, <1>3

LEMMA ValuesAre ==
  ASSUME NEW fields, NEW values, NEW row, NEW at, IsWritten(at, fields, values, row),
         Len(fields) \in Nat, NEW i \in 1 .. Len(fields)
  PROVE  ValueOf(values, i) = NullSlot \/ ValueOf(values, i) = Slot(ValueOf(values, i).value)
  <1>1. CASE i > Len(values)
    BY <1>1 DEF ValueOf
  <1>2. CASE ~(i > Len(values))
    <2>1. i \in 1 .. Len(values) /\ ValueOf(values, i) = values[i]
      BY <1>2 DEF IsWritten, ValueOf
    <2>2. HoldsValue(row, at[i - 1], fields[i], values[i])
      BY <2>1 DEF IsWritten
    <2>3. values[i].null \in BOOLEAN
      BY <2>2, WidthIs
    <2>4. values[i] = NullSlot \/ values[i] = Slot(values[i].value)
      BY <2>2, <2>3, WidthIs
    <2> QED BY <2>1, <2>4
  <1> QED BY <1>1, <1>2

LEMMA FieldsReadBack ==
  ASSUME NEW fields, Len(fields) \in Nat, DOMAIN fields = 1 .. Len(fields),
         NEW values, NEW row \in Seq(Byte), row # <<>>, IsRowOf(fields, values, row),
         NEW implicit, NEW i \in DOMAIN fields
  PROVE  LET written == WrittenAs(fields[i].type, ValueOf(values, i), implicit)
         IN  /\ \A before : Content(fields[i].type,
                  SequentialRefs(fields, row, implicit, before)[i]) = written
             /\ Content(fields[i].type, parse_row_refs(fields, row, implicit).refs[i]) = written
             /\ parse_record_without_geometry(fields, row, implicit).ok
             /\ fields[i].type # "Geometry" =>
                  parse_record_without_geometry(fields, row, implicit).slots[i] = written
  <1> DEFINE layouts == Layouts(fields, row, implicit)
             among == Accepted(row, layouts)
             refs1 == Winner(layouts, among).refs
             slot == ValueOf(values, i)
             record == parse_record_without_geometry(fields, row, implicit)
             slots == [j \in DOMAIN fields |-> SlotOf(fields[j].type, refs1[j])]
  <1>1. /\ among # {} /\ RefsAreGood(refs1, fields, values, implicit)
        /\ Len(refs1) = Len(fields)
    BY WrittenWins
  <1>2. slot = NullSlot \/ slot = Slot(slot.value)
    BY RowIs, ValuesAre
  <1>3. record.ok
    <2>1. record = [NoRecord EXCEPT !.ok = TRUE, !.slots = slots]
      <3> HIDE DEF layouts
      <3>1. among # {}
        BY <1>1
      <3> HIDE DEF among
      <3> QED BY <3>1 DEF parse_record_without_geometry, layouts, among
    <2> HIDE DEF slots, record
    <2> QED BY <2>1 DEF NoRecord
  <1>4. /\ record.slots[i] = SlotOf(fields[i].type, refs1[i])
        /\ \A before : SequentialRefs(fields, row, implicit, before) = refs1
        /\ parse_row_refs(fields, row, implicit).refs = refs1
    BY <1>3, FieldsAgree
  <1>5. refs1[i] = GoodRef(fields[i].type, slot, implicit)
    <2> HIDE DEF refs1, slot
    <2> QED BY <1>1 DEF RefsAreGood, slot
  <1> HIDE DEF refs1, slot, record
  <1>6. /\ Content(fields[i].type, refs1[i]) = WrittenAs(fields[i].type, slot, implicit)
        /\ fields[i].type # "Geometry" =>
             SlotOf(fields[i].type, refs1[i]) = WrittenAs(fields[i].type, slot, implicit)
    BY <1>2, <1>5, GoodContent
  <1> QED BY <1>3, <1>4, <1>6 DEF slot, record

LEMMA GeometryReadsBack ==
  ASSUME NEW fields, Len(fields) \in Nat, DOMAIN fields = 1 .. Len(fields),
         NEW values, NEW row \in Seq(Byte), row # <<>>, IsRowOf(fields, values, row),
         GeometryField(fields) # 0
  PROVE  locate_geometry(fields, row) = GeometryOf(ValueOf(values, GeometryField(fields)))
  <1> DEFINE g == GeometryField(fields)
             layouts == Layouts(fields, row, 0)
             among == Accepted(row, layouts)
             refs1 == Winner(layouts, among).refs
             slot == ValueOf(values, g)
  <1>1. /\ among # {} /\ RefsAreGood(refs1, fields, values, 0) /\ Len(refs1) = Len(fields)
    BY WrittenWins
  <1>2. g \in 1 .. Len(fields) /\ fields[g].type = "Geometry"
    BY GeometryFieldIs
  <1>3. slot = NullSlot \/ slot = Slot(slot.value)
    BY <1>2, RowIs, ValuesAre
  <1>4. locate_geometry(fields, row) = [is_null |-> refs1[g].is_null, bytes |-> refs1[g].bytes]
    <2> HIDE DEF layouts
    <2>1. among # {}
      BY <1>1
    <2> HIDE DEF among, g
    <2> QED BY <2>1 DEF locate_geometry, layouts, among, g
  <1>5. refs1[g] = GoodRef("Geometry", slot, 0)
    <2> HIDE DEF refs1, slot, g
    <2> QED BY <1>1, <1>2 DEF RefsAreGood, slot
  <1> HIDE DEF refs1, slot, g
  <1>6. GoodRef("Geometry", slot, 0).is_null = slot.null
        /\ GoodRef("Geometry", slot, 0).bytes = slot.value
    BY <1>3, GoodContent
  <1> QED BY <1>4, <1>5, <1>6 DEF GeometryOf, slot, g

\* A row without bytes has object ids only.
LEMMA EmptyRowReadsBack ==
  ASSUME NEW fields, Len(fields) \in Nat, DOMAIN fields = 1 .. Len(fields),
         NEW values, <<>> \in Seq(Byte), IsRowOf(fields, values, <<>>), NEW implicit
  PROVE  /\ parse_record_without_geometry(fields, <<>>, implicit).ok
         /\ \A i \in DOMAIN fields :
              parse_record_without_geometry(fields, <<>>, implicit).slots[i] =
                WrittenAs(fields[i].type, ValueOf(values, i), implicit)
  <1> DEFINE n == Len(values)
             Among(i) == NullableAmong(fields, i)
  <1>1. PICK at : IsWritten(at, fields, values, <<>>)
    BY RowIs
  <1>2. /\ n \in 1 .. Len(fields)
        /\ at[0] = bitmap_bytes_for(NullableCount(fields))
        /\ \A i \in 1 .. n : at[i] = at[i - 1] + Width(fields[i], values[i])
        /\ \A i \in 0 .. n : at[i] = 0
        /\ \A i \in 1 .. n : HoldsValue(<<>>, at[i - 1], fields[i], values[i])
        /\ \A i \in n + 1 .. Len(fields) : fields[i].nullable
    <2>1. Len(<<>>) = 0
      OBVIOUS
    <2>2. \A i \in 0 .. n : at[i] \in 0 .. 0
      BY <1>1, <2>1 DEF IsWritten
    <2> QED BY <1>1, <2>2 DEF IsWritten
  <1>3. /\ \A i \in Nat : Among(i) \in Nat
        /\ \A i \in Nat \ {0} : Among(i) = Among(i - 1) + (IF fields[i].nullable THEN 1 ELSE 0)
        /\ \A i, j \in Nat : i <= j => Among(i) <= Among(j)
        /\ NullableCount(fields) = Among(Len(fields))
    BY CountUp
  <1>4. Among(Len(fields)) = 0
    <2>1. 0 \in 0 .. n /\ at[0] = 0
      BY <1>2
    <2>2. bitmap_bytes_for(Among(Len(fields))) = 0
      BY <1>2, <1>3, <2>1
    <2> QED BY <1>3, <2>2, BitmapHolds
  <1> HIDE DEF Among
  <1>5. ASSUME NEW i \in 1 .. Len(fields) PROVE ~fields[i].nullable
    <2>1. i \in Nat \ {0} /\ i - 1 \in Nat /\ i <= Len(fields)
      OBVIOUS
    <2>2. Among(i) <= 0 /\ Among(i) \in Nat /\ Among(i - 1) \in Nat
      BY <1>3, <1>4, <2>1
    <2>3. fields[i].nullable => Among(i) = Among(i - 1) + 1
      BY <1>3, <2>1
    <2> QED BY <2>2, <2>3
  <1>6. n = Len(fields)
    <2> SUFFICES ASSUME n # Len(fields) PROVE FALSE
      OBVIOUS
    <2>1. n + 1 \in n + 1 .. Len(fields) /\ n + 1 \in 1 .. Len(fields)
      BY <1>2
    <2> QED BY <1>2, <1>5, <2>1
  <1>7. ASSUME NEW i \in 1 .. Len(fields) PROVE fields[i].type = "ObjectId"
    <2>1. i \in 1 .. n /\ i - 1 \in 0 .. n /\ i \in 0 .. n
      BY <1>6
    <2> DEFINE slot == values[i]
    <2>2. HoldsValue(<<>>, at[i - 1], fields[i], slot) /\ at[i] = 0 /\ at[i - 1] = 0
          /\ at[i] = at[i - 1] + Width(fields[i], slot)
      BY <1>2, <2>1
    <2> HIDE DEF slot
    <2>3. Width(fields[i], slot) = 0
      <3>1. Width(fields[i], slot) \in Nat
        BY <2>2, WidthIs
      <3> QED BY <2>2, <3>1
    <2>4. ~slot.null
      BY <1>5, <2>2, WidthIs
    <2>5. slot.value \in Seq(Byte)
      BY <2>2, <2>4, WidthIs
    <2>6. Len(slot.value) \in Nat
      BY <2>5
    <2>7. fields[i].type \in {"ObjectId", "Fixed"}
      <3> SUFFICES ASSUME fields[i].type \notin {"ObjectId", "Fixed"} PROVE FALSE
        OBVIOUS
      <3> DEFINE field == fields[i]
      <3> HIDE DEF field
      <3>1. Width(field, slot) = 1 + Len(slot.value)
        BY <2>2, <2>4, SizedIs DEF field
      <3> QED BY <2>3, <2>6, <3>1 DEF field
    <2>8. fields[i].type # "Fixed"
      BY <2>2, <2>3, <2>4, WidthIs
    <2> QED BY <2>7, <2>8
  <1>8. /\ parse_record_without_geometry(fields, <<>>, implicit) =
             [NoRecord EXCEPT !.ok = TRUE, !.slots = ZeroLengthSlots(fields, implicit)]
    BY <1>7 DEF parse_record_without_geometry, materialize_zero_length_record
  <1>9. /\ parse_record_without_geometry(fields, <<>>, implicit).ok
        /\ parse_record_without_geometry(fields, <<>>, implicit).slots = ZeroLengthSlots(fields, implicit)
    BY <1>8 DEF NoRecord
  <1>10. \A i \in DOMAIN fields : ZeroLengthSlots(fields, implicit)[i] = Slot(<<implicit>>)
    BY <1>7 DEF ZeroLengthSlots
  <1>11. \A i \in DOMAIN fields :
            WrittenAs(fields[i].type, ValueOf(values, i), implicit) = Slot(<<implicit>>)
    BY <1>7 DEF WrittenAs
  <1> QED BY <1>9, <1>10, <1>11

----------------------------------------------------------------------------
(* The theorems.                                                           *)

\* Batches, the rows to visit and the rows delivered are of the open table.
THEOREM TypesHold == Spec => []Types
  <1>1. ScanInv => Types
    BY DEF ScanInv
  <1> QED BY <1>1, ScanInvariant, PTL

\* A scan of geometries, or parse_records, that returns something has given
\* the callback every row it was asked for, and each once: the planner reads
\* rows one by one after a 0 only.
THEOREM CompleteScans == Spec => []NonzeroMeansAll
  <1>1. ScanInv => NonzeroMeansAll
    <2> SUFFICES ASSUME ScanInv, outcome = "complete", Delivering
                 PROVE  /\ {emitted[k].fid : k \in DOMAIN emitted} = Live
                        /\ Len(emitted) = Cardinality(Live)
                        /\ result = Len(emitted)
      BY DEF NonzeroMeansAll, Delivering, Live
    <2>1. /\ Range(FidsOf(emitted)) = Live /\ Ordered(Order, FidsOf(emitted))
          /\ result = Len(emitted) /\ Delivery(Fids, emitted) /\ table \in Tables
      BY DEF ScanInv, CompleteInv, Types
    <2>2. {emitted[k].fid : k \in DOMAIN emitted} = Range(FidsOf(emitted))
      BY DEF FidsOf, Range
    <2>3. /\ FidsOf(emitted) \in Seq(Fids) /\ Len(FidsOf(emitted)) = Len(emitted)
          /\ \A f : <<f, f>> \notin Order
      BY <2>1, DeliveryIs, OrderIsStrict
    <2>4. Cardinality(Range(FidsOf(emitted))) = Len(emitted)
      BY <2>1, <2>3, OrderedCounts
    <2> QED BY <2>1, <2>2, <2>4
  <1> QED BY <1>1, ScanInvariant, PTL

\* Batches that other threads read ahead are processed in their turn: rows
\* come by FID from a dense scan, by offset from one of candidates.
THEOREM ReadAheadKeepsOrder == Spec => []RowsComeInOrder
  <1>1. ScanInv => RowsComeInOrder
    <2> SUFFICES ASSUME ScanInv, op \in {"dense", "sparse"}, ~unlaunched,
                        NEW j \in DOMAIN seen, NEW k \in DOMAIN seen, j < k
                 PROVE  IF op = "dense" THEN seen[j].fid < seen[k].fid
                        ELSE feature_offset(seen[j].fid) <= feature_offset(seen[k].fid)
      BY DEF RowsComeInOrder
    <2>1. <<seen[j].fid, seen[k].fid>> \in Order
      BY DEF ScanInv, SeenInv, Ordered, FidsOf
    <2>2. /\ Fids = 1 .. Len(table.slots)
          /\ \A f \in Fids : feature_offset(f) \in Nat /\ Offsets[f] = feature_offset(f)
      BY TableIs DEF ScanInv, Types, Offsets
    <2> DEFINE f == seen[j].fid
               g == seen[k].fid
    <2>3. /\ f \in Fids /\ g \in Fids
          /\ IF op = "sparse" THEN Lower(Offsets, f, g) ELSE f < g
      BY <2>1 DEF Order
    <2> HIDE DEF f, g
    <2>4. IF op = "dense" THEN f < g ELSE feature_offset(f) <= feature_offset(g)
      BY <2>2, <2>3 DEF Lower
    <2> QED BY <2>4 DEF f, g
  <1> QED BY <1>1, ScanInvariant, PTL

\* Whatever the bytes of a row are: where a single read finds a record in
\* them, a scan delivers the same fields and the same geometry; a peek sees
\* the geometry a scan delivers unless two readings of the row are as good.
THEOREM ScansAndReadsAgree == Spec => []ScansAgreeWithReads
  <1>1. ScanInv /\ ViewInv => ScansAgreeWithReads
    <2> SUFFICES ASSUME ScanInv, ViewInv, seen # <<>> PROVE ScansAgreeWithReads
      BY DEF ScansAgreeWithReads
    <2> DEFINE k == Len(seen)
               fid == seen[k].fid
               view == seen[k].view
               fields == table.fields
               row == Bytes(fid)
               g == GeometryField(fields)
               feature == read_feature_by_fid(fields, row, Implicit(fid), DOMAIN fields)
               peeked == peek_geometry_blob(fields, row)
    <2>1. table \in Tables /\ k \in 1 .. Len(seen) /\ fid \in Fids
      <3>1. Len(seen) \in Nat /\ Len(seen) # 0 /\ table \in Tables
        BY EmptySeq DEF ScanInv, Types, Delivery
      <3>2. k \in 1 .. Len(seen)
        BY <3>1
      <3> QED BY <3>1, <3>2 DEF ScanInv, Types, Delivery, Range
    <2>2. /\ Len(fields) \in Nat /\ DOMAIN fields = 1 .. Len(fields) /\ row \in Seq(Byte)
          /\ \A i, j \in DOMAIN fields :
                fields[i].type = "Geometry" /\ fields[j].type = "Geometry" => i = j
      BY <2>1, TablesAssumption DEF Fids, Bytes
    <2>3. ViewOf(fid, view) /\ (op \in {"dense", "sparse"} => g # 0)
      BY <2>1 DEF ViewInv
    <2> HIDE DEF fid, k
    <2>4. Feature(fid).ok => Feature(fid) = feature
      BY DEF Feature, NoRecord
    <2>5. Record(fid).ok => Record(fid) = parse_record_without_geometry(fields, row, Implicit(fid))
      BY DEF Record, NoRecord
    <2>6. ASSUME op \in {"dense", "sparse"}, ~view.is_null, peeked.ok, Unambiguous(fid)
          PROVE  peeked.bytes = view.bytes
      <3>1. view = locate_geometry(fields, row)
        BY <2>3, <2>6 DEF ViewOf, GeometryView
      <3>2. Cardinality({Layouts(fields, row, 0)[m].refs :
              m \in {n \in Accepted(row, Layouts(fields, row, 0)) :
                       Layouts(fields, row, 0)[n].pos =
                          Max({Layouts(fields, row, 0)[j].pos :
                                 j \in Accepted(row, Layouts(fields, row, 0))})}}) = 1
        BY <2>6 DEF Unambiguous
      <3> HIDE DEF view, fields, row
      <3> QED BY <2>2, <2>6, <3>1, <3>2, PeekAgrees
    <2>7. ASSUME op \in {"sequential", "fields"}, Record(fid).ok, row # <<>>,
                 NEW i \in DOMAIN fields \ {Geometry}
          PROVE  Contents(view)[i] = Record(fid).slots[i]
      <3> DEFINE layouts == Layouts(fields, row, Implicit(fid))
                 refs1 == Winner(layouts, Accepted(row, layouts)).refs
      <3>1. /\ Record(fid).slots[i] = SlotOf(fields[i].type, refs1[i])
            /\ \A before : SequentialRefs(fields, row, Implicit(fid), before) = refs1
            /\ parse_row_refs(fields, row, Implicit(fid)).refs = refs1
        BY <2>5, <2>7, FieldsAgree
      <3> HIDE DEF refs1
      <3>2. view = refs1
        BY <2>3, <2>7, <3>1 DEF ViewOf
      <3>3. fields[i].type # "Geometry"
        <4>1. Geometry = g
          BY DEF Geometry
        <4>2. fields[i].type = "Geometry" => g # 0 /\ fields[g].type = "Geometry" /\ g \in DOMAIN fields
          <5> SUFFICES ASSUME fields[i].type = "Geometry"
                       PROVE  g # 0 /\ fields[g].type = "Geometry" /\ g \in DOMAIN fields
            OBVIOUS
          <5>1. g \in DOMAIN fields /\ fields[g].type = "Geometry"
            BY DEF GeometryField
          <5>2. 0 \notin DOMAIN fields
            BY <2>2
          <5> QED BY <5>1, <5>2
        <4> QED BY <2>2, <2>7, <4>1, <4>2
      <3>4. Contents(view)[i] = Content(fields[i].type, refs1[i])
        BY <2>7, <3>2 DEF Contents
      <3>5. ASSUME NEW type, type # "Geometry", NEW r PROVE Content(type, r) = SlotOf(type, r)
        <4>1. CASE r.is_null
          BY <3>5, <4>1 DEF Content, SlotOf
        <4>2. CASE ~r.is_null /\ type = "ObjectId"
          BY <3>5, <4>2 DEF Content, SlotOf
        <4>3. CASE ~r.is_null /\ type # "ObjectId"
          BY <3>5, <4>3 DEF Content, SlotOf
        <4> QED BY <4>1, <4>2, <4>3
      <3> QED BY <3>1, <3>3, <3>4, <3>5
    <2>8. ASSUME op \in {"dense", "sparse"}, Feature(fid).ok, row # <<>>
          PROVE  /\ view.is_null = (Feature(fid).geometry = "Null")
                 /\ view.bytes = Feature(fid).blob
      <3>1. view = locate_geometry(fields, row)
        BY <2>3, <2>8 DEF ViewOf, GeometryView
      <3> HIDE DEF view, fields, row
      <3>2. /\ locate_geometry(fields, row).is_null = (feature.geometry = "Null")
            /\ locate_geometry(fields, row).bytes = feature.blob
        BY <2>2, <2>3, <2>4, <2>8, GeometryAgrees DEF g
      <3> HIDE DEF feature
      <3> QED BY <2>4, <2>8, <3>1, <3>2
    <2> QED BY <2>6, <2>7, <2>8 DEF ScansAgreeWithReads, k, fid
  <1> QED BY <1>1, ScanInvariant, ViewInvariant, PTL


\* A row written under the table's schema, or under an earlier one that had
\* fewer fields and as long a bitmap, is read back as it was written by every
\* scan and every single read: no other layout is taken for its own.
THEOREM WrittenRowsAreReadBack == Spec => []WrittenRowsReadBack
  <1>1. ScanInv /\ ViewInv => WrittenRowsReadBack
    <2> SUFFICES ASSUME ScanInv, ViewInv PROVE WrittenRowsReadBack
      OBVIOUS
    <2> DEFINE fields == table.fields
               g == GeometryField(fields)
               valuesOf(f) == table.slots[f].values
    <2>1. table \in Tables
      BY DEF ScanInv, Types
    <2>2. /\ Len(fields) \in Nat /\ DOMAIN fields = 1 .. Len(fields)
          /\ \A f \in Fids : Bytes(f) \in Seq(Byte)
          /\ \A i, j \in DOMAIN fields :
                fields[i].type = "Geometry" /\ fields[j].type = "Geometry" => i = j
      BY <2>1, TablesAssumption DEF Fids, Bytes
    <2>3. ASSUME NEW f \in Fids, Written(f)
          PROVE  /\ IsRowOf(fields, valuesOf(f), Bytes(f)) /\ Fetchable(f) /\ ValidRow(f)
      <3> DEFINE slot == table.slots[f]
      <3>1. /\ slot.offset # 0 /\ slot.offset + PrefixBytes + slot.size <= table.file_size
            /\ IsRowOf(table.fields, slot.values, slot.bytes)
        BY <2>1, <2>3, WrittenAssumption DEF Fids, Written
      <3>2. /\ slot.offset \in Nat /\ slot.size \in Nat /\ table.file_size \in Nat
            /\ PrefixBytes \in Nat
        BY <2>1, ReadsAssumption DEF Fids
      <3> HIDE DEF slot
      <3>3. /\ feature_offset(f) = slot.offset /\ row_size(f) = slot.size
            /\ file_size = table.file_size
        BY DEF feature_offset, row_size, file_size, slot
      <3>4. Fetchable(f) /\ ValidRow(f)
        BY <3>1, <3>2, <3>3 DEF Fetchable, ValidRow, valid_record_size, has_record_prefix
      <3> QED BY <3>1, <3>4 DEF slot, Bytes
    <2>4. ASSUME NEW f \in Fids, NEW i \in DOMAIN fields
          PROVE  Expected(f)[i] = WrittenAs(fields[i].type, ValueOf(valuesOf(f), i), Implicit(f))
      <3>1. Expected(f)[i] =
              CASE fields[i].type = "ObjectId" -> Slot(<<Implicit(f)>>)
                [] fields[i].type = "Raster" -> NullSlot
                [] OTHER -> IF i > Len(valuesOf(f)) THEN NullSlot ELSE valuesOf(f)[i]
        BY Zenon DEF Expected
      <3> QED BY <3>1, Zenon DEF WrittenAs, ValueOf
    <2>5. ASSUME seen # <<>>, Written(seen[Len(seen)].fid), Bytes(seen[Len(seen)].fid) # <<>>
          PROVE  LET fid == seen[Len(seen)].fid
                     view == seen[Len(seen)].view
                 IN  /\ op \in {"sequential", "fields"} => Contents(view) = Expected(fid)
                     /\ op \in {"dense", "sparse"} => view = GeometryOf(Expected(fid)[Geometry])
      <3> DEFINE k == Len(seen)
                 fid == seen[k].fid
                 view == seen[k].view
                 row == Bytes(fid)
                 values == valuesOf(fid)
      <3>1. k \in 1 .. Len(seen) /\ fid \in Fids
        <4>1. Len(seen) \in Nat /\ Len(seen) # 0
          BY <2>5, EmptySeq DEF ScanInv, Types, Delivery
        <4>2. k \in 1 .. Len(seen)
          BY <4>1
        <4> QED BY <4>1, <4>2 DEF ScanInv, Types, Delivery, Range
      <3>2. ViewOf(fid, view) /\ (op \in {"dense", "sparse"} => g # 0)
        BY <3>1 DEF ViewInv
      <3>3. IsRowOf(fields, values, row) /\ row \in Seq(Byte) /\ row # <<>>
        BY <2>2, <2>3, <2>5, <3>1
      <3>4. ASSUME op \in {"sequential", "fields"} PROVE Contents(view) = Expected(fid)
        <4>1. ASSUME NEW i \in DOMAIN fields PROVE Contents(view)[i] = Expected(fid)[i]
          <5> DEFINE written == WrittenAs(fields[i].type, ValueOf(values, i), Implicit(fid))
          <5>1. /\ \A before : Content(fields[i].type,
                      SequentialRefs(fields, row, Implicit(fid), before)[i]) = written
                /\ Content(fields[i].type,
                      parse_row_refs(fields, row, Implicit(fid)).refs[i]) = written
            BY <2>2, <3>3, FieldsReadBack
          <5> HIDE DEF written
          <5>2. Content(fields[i].type, view[i]) = written
            BY <3>2, <3>4, <5>1 DEF ViewOf
          <5>3. Contents(view)[i] = Content(fields[i].type, view[i])
            BY DEF Contents
          <5>4. Expected(fid)[i] = written
            BY <2>4, <3>1 DEF written
          <5> QED BY <5>2, <5>3, <5>4
        <4>2. /\ Contents(view) = [i \in DOMAIN fields |-> Contents(view)[i]]
              /\ Expected(fid) = [i \in DOMAIN fields |-> Expected(fid)[i]]
          BY DEF Contents, Expected
        <4> QED BY <4>1, <4>2
      <3>5. ASSUME op \in {"dense", "sparse"} PROVE view = GeometryOf(Expected(fid)[Geometry])
        <4>1. view = locate_geometry(fields, row)
          BY <3>2, <3>5 DEF ViewOf, GeometryView
        <4>2. locate_geometry(fields, row) = GeometryOf(ValueOf(values, g))
          BY <2>2, <3>2, <3>3, <3>5, GeometryReadsBack
        <4>3. g \in DOMAIN fields /\ fields[g].type = "Geometry"
          BY <2>2, <3>2, <3>5, GeometryFieldIs
        <4>4. Expected(fid)[g] = ValueOf(values, g)
          BY <2>4, <3>1, <4>3 DEF WrittenAs
        <4> QED BY <4>1, <4>2, <4>4 DEF Geometry
      <3> QED BY <3>4, <3>5
    <2>6. ASSUME NEW f \in Fids, Written(f)
          PROVE  /\ Record(f).ok
                 /\ \A i \in DOMAIN fields \ {Geometry} : Record(f).slots[i] = Expected(f)[i]
      <3> DEFINE row == Bytes(f)
                 values == valuesOf(f)
                 record == parse_record_without_geometry(fields, row, Implicit(f))
                 written(i) == WrittenAs(fields[i].type, ValueOf(values, i), Implicit(f))
      <3>1. Record(f) = record
        BY <2>3, <2>6 DEF Record
      <3>2. IsRowOf(fields, values, row) /\ row \in Seq(Byte) /\ Len(values) \in 1 .. Len(fields)
        BY <2>2, <2>3, <2>6, RowIs DEF IsWritten
      <3>3. \A i \in DOMAIN fields \ {Geometry} : fields[i].type # "Geometry"
        <4> SUFFICES ASSUME NEW i \in DOMAIN fields, fields[i].type = "Geometry"
                     PROVE  i = Geometry
          OBVIOUS
        <4>1. g \in DOMAIN fields /\ fields[g].type = "Geometry"
          BY DEF GeometryField
        <4> QED BY <2>2, <4>1 DEF Geometry
      <3>4. record.ok /\ \A i \in DOMAIN fields \ {Geometry} : record.slots[i] = written(i)
        <4>1. CASE row = <<>>
          <5> HIDE DEF fields, row, values
          <5> QED BY <2>2, <3>2, <4>1, EmptyRowReadsBack
        <4>2. CASE row # <<>>
          <5>1. 1 \in DOMAIN fields
            BY <2>2, <3>2
          <5>2. \A i \in DOMAIN fields : record.ok
                   /\ (fields[i].type # "Geometry" => record.slots[i] = written(i))
            <6> TAKE i \in DOMAIN fields
            <6> HIDE DEF fields, row, values
            <6>1. LET w == WrittenAs(fields[i].type, ValueOf(values, i), Implicit(f))
                  IN  /\ record.ok
                      /\ fields[i].type # "Geometry" => record.slots[i] = w
              BY <2>2, <3>2, <4>2, FieldsReadBack
            <6> QED BY <6>1
          <5> HIDE DEF record, written
          <5> QED BY <3>3, <5>1, <5>2
        <4> QED BY <4>1, <4>2
      <3>5. \A i \in DOMAIN fields : Expected(f)[i] = written(i)
        BY <2>4, <2>6
      <3> HIDE DEF record, written
      <3> QED BY <3>1, <3>4, <3>5
    <2> HIDE DEF fields
    <2>7. ASSUME seen # <<>>
          PROVE  LET k == Len(seen)
                     fid == seen[k].fid
                 IN  (Written(fid) /\ Bytes(fid) # <<>>) =>
                       CASE op \in {"sequential", "fields"} ->
                               Contents(seen[k].view) = Expected(fid)
                         [] op \in {"dense", "sparse"} ->
                               seen[k].view = GeometryOf(Expected(fid)[Geometry])
                         [] OTHER -> TRUE
      <3> SUFFICES ASSUME Written(seen[Len(seen)].fid), Bytes(seen[Len(seen)].fid) # <<>>
                   PROVE  CASE op \in {"sequential", "fields"} ->
                               Contents(seen[Len(seen)].view) = Expected(seen[Len(seen)].fid)
                         [] op \in {"dense", "sparse"} ->
                               seen[Len(seen)].view =
                                 GeometryOf(Expected(seen[Len(seen)].fid)[Geometry])
                         [] OTHER -> TRUE
        BY Zenon
      <3>1. /\ op \in {"sequential", "fields"} =>
                 Contents(seen[Len(seen)].view) = Expected(seen[Len(seen)].fid)
            /\ op \in {"dense", "sparse"} =>
                 seen[Len(seen)].view = GeometryOf(Expected(seen[Len(seen)].fid)[Geometry])
        BY <2>5, <2>7
      <3>2. CASE op \in {"sequential", "fields"}
        BY <3>1, <3>2
      <3>3. CASE op \in {"dense", "sparse"}
        BY <3>1, <3>3
      <3>4. CASE op \notin {"sequential", "fields", "dense", "sparse"}
        BY <3>4
      <3> QED BY <3>2, <3>3, <3>4
    <2> QED BY <2>6, <2>7 DEF WrittenRowsReadBack, fields
  <1> QED BY <1>1, ScanInvariant, ViewInvariant, PTL
===============================================================================
