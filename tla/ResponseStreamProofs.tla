------------------------ MODULE ResponseStreamProofs ------------------------
(*****************************************************************************)
(* For bodies and chunks of any length: what the client is given and how the *)
(* account is settled depend on the body alone and not on how it is cut, and *)
(* they agree with one another.                                              *)
(*                                                                           *)
(* Two of the operators compute along data.  What is needed of them is       *)
(* proved by taking the least number at which it fails (LeastNumber):        *)
(* FlattenSeq is the last of the sequences joined one by one (Joined), Drain *)
(* is as many turns of DrainOne as one likes, if they are enough (Turns,     *)
(* Drains), and more bytes behind a buffer leave the events that Drain finds *)
(* in it where they are (DrainLater).                                        *)
(*                                                                           *)
(* Reads(x, <<>>, s) then says, without chunks, that s is the parser after   *)
(* the body x.  Each chunk keeps it (ObserveReads), and for one body there   *)
(* is only one such s, but for how its output is divided (ReadsUnique).  So  *)
(* the parser is always where observe_bytes on the whole body takes it       *)
(* (ChunkStep), which is what StreamInv says of the stream as it goes on and *)
(* as it ends.                                                               *)
(*****************************************************************************)
EXTENDS ResponseStream, Integers, SequenceTheorems, WellFoundedInduction, TLAPS

-----------------------------------------------------------------------------
(* Induction: among the numbers with a property there is a least one *)

LEMMA LeastNumber ==
  ASSUME NEW S \in SUBSET Nat, S # {}
  PROVE  \E m \in S : \A n \in S : m <= n
<1> DEFINE R == OpToRel(<, Nat)
<1>1. IsWellFoundedOn(R, Nat)
  BY NatLessThanWellFounded
<1>2. \A m, n \in Nat : <<n, m>> \in R <=> n < m
  BY DEF OpToRel
<1> HIDE DEF R
<1>3. PICK m \in S : \A n \in S : <<n, m>> \notin R
  BY <1>1, WFMin
<1>4. ASSUME NEW n \in S
      PROVE  m <= n
  <2>1. m \in Nat /\ n \in Nat
    OBVIOUS
  <2>2. ~(n < m)
    BY <1>2, <1>3, <2>1
  <2> QED
    BY <2>1, <2>2
<1> QED
  BY <1>4

-----------------------------------------------------------------------------
(* FlattenSeq *)

\* f[i] is the first i of n sequences, one behind the other.
Joined(seqs, f, n) ==
  \A i \in 1..n : f[i] = IF i = 1 THEN seqs[i] ELSE f[i - 1] \o seqs[i]

LEMMA JoinedExists ==
  ASSUME NEW S, NEW len \in Nat, NEW seqs \in [1..len -> Seq(S)]
  PROVE  \E f \in [1..len -> Seq(S)] : Joined(seqs, f, len)
<1> DEFINE Good(n) == \E f \in [1..n -> Seq(S)] : Joined(seqs, f, n)
           Bad == {n \in 0..len : ~Good(n)}
<1>1. Bad \in SUBSET Nat
  OBVIOUS
<1>2. ASSUME NEW m \in Bad, \A n \in Bad : m <= n
      PROVE  FALSE
  <2>1. m # 0
    <3>1. [i \in 1..0 |-> <<>>] \in [1..0 -> Seq(S)]
      OBVIOUS
    <3>2. Joined(seqs, [i \in 1..0 |-> <<>>], 0)
      BY DEF Joined
    <3> QED
      BY <1>2, <3>1, <3>2
  <2>2. m \in 1..len /\ m - 1 \in 0..len /\ m - 1 \notin Bad
    <3>1. m \in 0..len
      OBVIOUS
    <3>2. m - 1 \in 0..len /\ ~(m <= m - 1)
      BY <2>1, <3>1
    <3> HIDE DEF Bad
    <3> QED
      BY <1>2, <2>1, <3>1, <3>2
  <2>3. PICK f \in [1..(m - 1) -> Seq(S)] : Joined(seqs, f, m - 1)
    BY <2>2
  <2> DEFINE last == IF m = 1 THEN seqs[m] ELSE f[m - 1] \o seqs[m]
             g == [i \in 1..m |-> IF i = m THEN last ELSE f[i]]
  <2>4. last \in Seq(S)
    <3>1. seqs[m] \in Seq(S) /\ (m # 1 => f[m - 1] \in Seq(S))
      BY <2>2
    <3> QED
      BY <3>1, ConcatProperties
  <2>5. g \in [1..m -> Seq(S)]
    <3> HIDE DEF last
    <3> QED
      BY <2>2, <2>4
  <2>6. ASSUME NEW i \in 1..m
        PROVE  g[i] = IF i = 1 THEN seqs[i] ELSE g[i - 1] \o seqs[i]
    <3>1. CASE i = m
      <4>1. g[i] = last /\ (m # 1 => g[m - 1] = f[m - 1])
        BY <2>2, <3>1
      <4> QED
        BY <3>1, <4>1
    <3>2. CASE i # m
      <4>1. i \in 1..(m - 1) /\ g[i] = f[i] /\ (i # 1 => g[i - 1] = f[i - 1])
        BY <2>2, <3>2
      <4> QED
        BY <2>3, <4>1 DEF Joined
    <3> QED
      BY <3>1, <3>2
  <2>7. Joined(seqs, g, m)
    BY <2>6 DEF Joined
  <2> QED
    BY <1>2, <2>5, <2>7
<1>3. Bad = {}
  <2> HIDE DEF Bad
  <2> QED
    BY <1>1, <1>2, LeastNumber
<1> QED
  BY <1>3

LEMMA JoinedType ==
  ASSUME NEW S, NEW len \in Nat, NEW seqs \in [1..len -> Seq(S)], NEW f, Joined(seqs, f, len)
  PROVE  \A n \in 1..len : f[n] \in Seq(S)
<1> DEFINE Bad == {n \in 1..len : f[n] \notin Seq(S)}
<1>1. Bad \in SUBSET Nat
  OBVIOUS
<1>2. ASSUME NEW m \in Bad, \A n \in Bad : m <= n
      PROVE  FALSE
  <2>1. m # 1
    BY <1>2 DEF Joined
  <2>2. m \in 1..len /\ m - 1 \in 1..len /\ m - 1 \notin Bad
    BY <1>2, <2>1
  <2>3. f[m - 1] \in Seq(S) /\ seqs[m] \in Seq(S)
    BY <2>2
  <2>4. f[m] = f[m - 1] \o seqs[m]
    BY <2>1, <2>2 DEF Joined
  <2>5. f[m] \in Seq(S)
    BY <2>3, <2>4, ConcatProperties
  <2> QED
    BY <2>5
<1>3. Bad = {}
  <2> HIDE DEF Bad
  <2> QED
    BY <1>1, <1>2, LeastNumber
<1> QED
  BY <1>3

LEMMA JoinedAgree ==
  ASSUME NEW len \in Nat, NEW seqs, NEW others, NEW f, NEW g,
         \A i \in 1..len : seqs[i] = others[i],
         Joined(seqs, f, len), Joined(others, g, len)
  PROVE  \A n \in 1..len : f[n] = g[n]
<1> DEFINE Bad == {n \in 1..len : f[n] # g[n]}
<1>1. Bad \in SUBSET Nat
  OBVIOUS
<1>2. ASSUME NEW m \in Bad, \A n \in Bad : m <= n
      PROVE  FALSE
  <2>1. m # 1
    BY <1>2 DEF Joined
  <2>2. m \in 1..len /\ m - 1 \in 1..len /\ m - 1 \notin Bad
    BY <1>2, <2>1
  <2>3. f[m - 1] = g[m - 1] /\ seqs[m] = others[m]
    BY <2>2
  <2>4. f[m] = f[m - 1] \o seqs[m] /\ g[m] = g[m - 1] \o others[m]
    BY <2>1, <2>2 DEF Joined
  <2> QED
    BY <1>2, <2>3, <2>4
<1>3. Bad = {}
  <2> HIDE DEF Bad
  <2> QED
    BY <1>1, <1>2, LeastNumber
<1> QED
  BY <1>3

\* One sequence more in front.
Behind(S, rest, seqs, len) ==
  /\ seqs \in [1..(len + 1) -> Seq(S)] /\ rest \in [1..len -> Seq(S)]
  /\ \A i \in 1..len : rest[i] = seqs[i + 1]

Glued(head, tail) == head \o tail

LEMMA JoinedBehind ==
  ASSUME NEW S, NEW len \in Nat, NEW more, more = len + 1, NEW seqs, NEW rest, NEW f, NEW g,
         Behind(S, rest, seqs, len), Joined(seqs, f, more), Joined(rest, g, len), len # 0
  PROVE  f[more] = Glued(seqs[1], g[len])
<1> USE DEF Behind
<1> DEFINE Good(n) == f[n + 1] = seqs[1] \o g[n]
           Bad == {n \in 1..len : ~Good(n)}
<1>1. Bad \in SUBSET Nat
  <2> HIDE DEF Good
  <2> QED
    OBVIOUS
<1>2. ASSUME NEW m \in Bad, \A n \in Bad : m <= n
      PROVE  FALSE
  <2>1. m \in 1..len /\ ~Good(m)
    <3> HIDE DEF Good
    <3> QED
      OBVIOUS
  <2>2. f[m + 1] = f[m] \o rest[m]
    <3>1. m + 1 \in 1..(len + 1) /\ m + 1 # 1 /\ (m + 1) - 1 = m
      BY <2>1
    <3> QED
      BY <2>1, <3>1 DEF Joined
  <2>3. f[1] = seqs[1]
    BY DEF Joined
  <2>4. m # 1
    BY <2>1, <2>2, <2>3 DEF Joined
  <2>5. m - 1 \in 1..len /\ (m - 1) + 1 = m
    BY <2>1, <2>4
  <2>6. f[m] = seqs[1] \o g[m - 1]
    <3>1. m - 1 \notin Bad
      <4> HIDE DEF Bad
      <4> QED
        BY <1>2, <2>1, <2>5
    <3>2. Good(m - 1)
      <4> HIDE DEF Good
      <4> QED
        BY <2>5, <3>1
    <3> QED
      BY <2>5, <3>2
  <2>7. g[m] = g[m - 1] \o rest[m]
    BY <2>1, <2>4 DEF Joined
  <2>8. rest[m] \in Seq(S) /\ seqs[1] \in Seq(S)
    BY <2>1
  <2>9. g[m - 1] \in Seq(S)
    BY <2>5, JoinedType
  <2>10. (seqs[1] \o g[m - 1]) \o rest[m] = seqs[1] \o (g[m - 1] \o rest[m])
    <3> DEFINE a == seqs[1]
               b == g[m - 1]
               c == rest[m]
    <3>1. a \in Seq(S) /\ b \in Seq(S) /\ c \in Seq(S)
      BY <2>8, <2>9
    <3> HIDE DEF a, b, c
    <3>2. (a \o b) \o c = a \o (b \o c)
      BY ONLY <3>1, ConcatAssociative
    <3> QED
      BY <3>2 DEF a, b, c
  <2> QED
    BY <2>1, <2>2, <2>6, <2>7, <2>10
<1>3. Bad = {}
  <2> HIDE DEF Bad
  <2> QED
    BY <1>1, <1>2, LeastNumber
<1>4. Good(len)
  <2>1. len \in 1..len
    OBVIOUS
  <2> HIDE DEF Good
  <2> QED
    BY <1>3, <2>1
<1> QED
  BY <1>4 DEF Glued

LEMMA FlattenIsJoined ==
  ASSUME NEW S, NEW seqs \in Seq(Seq(S)), seqs # <<>>
  PROVE  \E f : Joined(seqs, f, Len(seqs)) /\ FlattenSeq(seqs) = f[Len(seqs)]
<1> DEFINE Flattening(f) ==
             f = [i \in 1..Len(seqs) |-> IF i = 1 THEN seqs[i] ELSE f[i - 1] \o seqs[i]]
           f == CHOOSE f : Flattening(f)
<1>1. Len(seqs) \in Nat /\ Len(seqs) # 0 /\ seqs \in [1..Len(seqs) -> Seq(S)]
  BY EmptySeq, LenProperties
<1>2. PICK g \in [1..Len(seqs) -> Seq(S)] : Joined(seqs, g, Len(seqs))
  BY <1>1, JoinedExists
<1>3. Flattening(g)
  BY <1>2 DEF Joined
<1>4. Flattening(f)
  <2> HIDE DEF Flattening
  <2> QED
    BY <1>3
<1>5. FlattenSeq(seqs) = f[Len(seqs)]
  BY <1>1 DEF FlattenSeq
<1> HIDE DEF f
<1>6. Joined(seqs, f, Len(seqs))
  BY <1>4 DEF Joined
<1> QED
  BY <1>5, <1>6

LEMMA FlattenNone == FlattenSeq(<<>>) = <<>>
  BY DEF FlattenSeq

LEMMA FlattenType ==
  ASSUME NEW S, NEW seqs \in Seq(Seq(S))
  PROVE  FlattenSeq(seqs) \in Seq(S)
<1>1. CASE seqs = <<>>
  BY <1>1, EmptySeq, FlattenNone
<1>2. CASE seqs # <<>>
  <2>1. PICK f : Joined(seqs, f, Len(seqs)) /\ FlattenSeq(seqs) = f[Len(seqs)]
    BY <1>2, FlattenIsJoined
  <2>2. Len(seqs) \in Nat /\ Len(seqs) # 0 /\ seqs \in [1..Len(seqs) -> Seq(S)]
    BY <1>2, EmptySeq, LenProperties
  <2>3. Len(seqs) \in 1..Len(seqs)
    BY <2>2
  <2> QED
    BY <2>1, <2>2, <2>3, JoinedType
<1> QED
  BY <1>1, <1>2

LEMMA FlattenAppend ==
  ASSUME NEW S, NEW seqs \in Seq(Seq(S)), NEW seq \in Seq(S)
  PROVE  FlattenSeq(Append(seqs, seq)) = FlattenSeq(seqs) \o seq
<1> DEFINE all == Append(seqs, seq)
<1>1. PICK len \in Nat : len = Len(seqs)
  BY LenProperties
<1>2. /\ all \in Seq(Seq(S)) /\ all # <<>> /\ Len(all) = len + 1
      /\ \A i \in 1..len : all[i] = seqs[i]
      /\ all[len + 1] = seq
  BY <1>1, AppendProperties
<1> HIDE DEF all
<1>3. PICK g : Joined(all, g, len + 1) /\ FlattenSeq(all) = g[len + 1]
  BY <1>2, FlattenIsJoined
<1>4. CASE seqs = <<>>
  <2>1. len = 0
    BY <1>1, <1>4
  <2>2. g[1] = seq
    BY <1>2, <1>3, <2>1 DEF Joined
  <2> QED
    BY <1>3, <1>4, <2>1, <2>2, FlattenNone, ConcatEmptySeq DEF all
<1>5. CASE seqs # <<>>
  <2>1. PICK f : Joined(seqs, f, len) /\ FlattenSeq(seqs) = f[len]
    BY <1>1, <1>5, FlattenIsJoined
  <2>2. len # 0
    BY <1>1, <1>5, EmptySeq
  <2>3. Joined(all, g, len)
    BY <1>3 DEF Joined
  <2>4. f[len] = g[len]
    BY <1>2, <2>1, <2>2, <2>3, JoinedAgree
  <2>5. g[len + 1] = g[len] \o seq
    <3>1. len + 1 \in 1..(len + 1) /\ len + 1 # 1 /\ (len + 1) - 1 = len
      BY <2>2
    <3> QED
      BY <1>2, <1>3, <3>1 DEF Joined
  <2> QED
    BY <1>3, <2>1, <2>4, <2>5 DEF all
<1> QED
  BY <1>4, <1>5

LEMMA FlattenHead ==
  ASSUME NEW S, NEW seqs \in Seq(Seq(S)), seqs # <<>>
  PROVE  FlattenSeq(seqs) = Head(seqs) \o FlattenSeq(Tail(seqs))
<1> DEFINE rest == Tail(seqs)
<1>1. rest \in Seq(Seq(S)) /\ Len(rest) \in Nat
  BY HeadTailProperties, LenProperties
<1>2. PICK len \in Nat : len = Len(rest)
  BY <1>1
<1>3. /\ Len(seqs) = len + 1
      /\ \A i \in 1..len : rest[i] = seqs[i + 1]
      /\ Head(seqs) = seqs[1]
      /\ seqs \in [1..(len + 1) -> Seq(S)] /\ rest \in [1..len -> Seq(S)]
      /\ seqs[1] \in Seq(S)
  <2>1. Len(rest) = Len(seqs) - 1 /\ \A i \in 1..Len(rest) : rest[i] = seqs[i + 1]
    BY HeadTailProperties
  <2>2. Len(seqs) \in Nat /\ seqs \in [1..Len(seqs) -> Seq(S)] /\ rest \in [1..Len(rest) -> Seq(S)]
    BY <1>1, LenProperties
  <2>3. Len(seqs) = len + 1
    BY <1>2, <2>1, <2>2
  <2>4. Head(seqs) = seqs[1]
    OBVIOUS
  <2> QED
    BY <1>2, <2>1, <2>2, <2>3, <2>4
<1> HIDE DEF rest
<1>4. PICK f : Joined(seqs, f, len + 1) /\ FlattenSeq(seqs) = f[len + 1]
  BY <1>3, FlattenIsJoined
<1>5. CASE len = 0
  <2>1. rest = <<>>
    BY <1>1, <1>2, <1>5, EmptySeq
  <2>2. f[1] = seqs[1]
    BY <1>4, <1>5 DEF Joined
  <2>3. FlattenSeq(rest) = <<>> /\ seqs[1] \o <<>> = seqs[1]
    BY <1>3, <2>1, FlattenNone, ConcatEmptySeq
  <2>4. FlattenSeq(seqs) = Head(seqs) \o FlattenSeq(rest)
    BY <1>3, <1>4, <1>5, <2>2, <2>3
  <2> QED
    BY <2>4 DEF rest
<1>6. CASE len # 0
  <2>1. rest # <<>>
    BY <1>2, <1>6
  <2>2. PICK g : Joined(rest, g, len) /\ FlattenSeq(rest) = g[len]
    BY <1>1, <1>2, <2>1, FlattenIsJoined
  <2>3. f[len + 1] = Head(seqs) \o FlattenSeq(rest)
    <3>1. Behind(S, rest, seqs, len)
      BY <1>3 DEF Behind
    <3> DEFINE more == len + 1
    <3>2. Joined(seqs, f, more) /\ more = len + 1
      BY <1>4
    <3> HIDE DEF more
    <3>3. f[more] = Glued(seqs[1], g[len])
      BY <1>6, <2>2, <3>1, <3>2, JoinedBehind
    <3> QED
      BY <1>3, <2>2, <3>2, <3>3 DEF Glued
  <2> QED
    BY <1>4, <2>3 DEF rest
<1> QED
  BY <1>5, <1>6

-----------------------------------------------------------------------------
(* The parser, one event at a time *)

ParserState ==
  [ buffer : Seq(Pieces), lineStart : BOOLEAN, sseMode : BOOLEAN,
    terminal : {"none"} \cup Terminals, output : Seq(Seq(Pieces)) ]

\* All that a parser has given out.
Out(s) == FlattenSeq(s.output)

\* States that agree in everything but the output.
Alike(s, t) ==
  /\ s.buffer = t.buffer /\ s.lineStart = t.lineStart
  /\ s.sseMode = t.sseMode /\ s.terminal = t.terminal

LEMMA OutType ==
  ASSUME NEW s \in ParserState
  PROVE  Out(s) \in Seq(Pieces)
  BY FlattenType DEF ParserState, Out

LEMMA WithBuffer ==
  ASSUME NEW s \in ParserState, NEW b \in Seq(Pieces)
  PROVE  LET t == [s EXCEPT !.buffer = b]
         IN  /\ t \in ParserState /\ t.buffer = b /\ Out(t) = Out(s)
             /\ t.lineStart = s.lineStart /\ t.sseMode = s.sseMode
             /\ t.terminal = s.terminal /\ t.output = s.output
  BY DEF ParserState, Out

LEMMA EmitFacts ==
  ASSUME NEW s \in ParserState, NEW bytes \in Seq(Pieces)
  PROVE  /\ Emit(s, bytes) \in ParserState
         /\ Alike(Emit(s, bytes), s)
         /\ Out(Emit(s, bytes)) = Out(s) \o bytes
<1>1. CASE bytes = <<>>
  <2>1. Out(s) \o <<>> = Out(s)
    BY OutType, ConcatEmptySeq
  <2> QED
    BY <1>1, <2>1 DEF Emit, Alike
<1>2. CASE bytes # <<>>
  <2> DEFINE more == Append(s.output, bytes)
             t == [s EXCEPT !.output = more]
  <2>1. s.output \in Seq(Seq(Pieces))
    BY DEF ParserState
  <2>2. more \in Seq(Seq(Pieces)) /\ FlattenSeq(more) = FlattenSeq(s.output) \o bytes
    BY <2>1, AppendProperties, FlattenAppend
  <2>3. Emit(s, bytes) = t
    BY <1>2 DEF Emit
  <2> HIDE DEF more
  <2>4. t \in ParserState /\ Alike(t, s) /\ t.output = more
    BY <2>2 DEF ParserState, Alike
  <2> QED
    BY <2>2, <2>3, <2>4 DEF Out
<1> QED
  BY <1>1, <1>2

LEMMA ConsumeFacts ==
  ASSUME NEW s \in ParserState, NEW event \in Seq(Pieces)
  PROVE  LET t == Consume(s, event)
         IN  /\ t \in ParserState
             /\ t.buffer = s.buffer /\ t.lineStart = s.lineStart /\ t.sseMode = s.sseMode
             /\ Out(t) = Out(s) \o event
             /\ t.terminal = IF Kind(event) \in Terminals THEN Kind(event) ELSE s.terminal
<1> DEFINE e == Emit(s, event)
           end == IF Kind(event) \in Terminals THEN Kind(event) ELSE e.terminal
           t == [e EXCEPT !.terminal = end]
<1>1. Consume(s, event) = t
  BY DEF Consume
<1>2. e \in ParserState /\ Alike(e, s) /\ Out(e) = Out(s) \o event
  BY EmitFacts
<1> HIDE DEF e
<1>3. end \in {"none"} \cup Terminals
  BY <1>2 DEF ParserState
<1>4. end = IF Kind(event) \in Terminals THEN Kind(event) ELSE s.terminal
  BY <1>2 DEF Alike
<1> HIDE DEF end
<1>5. /\ t \in ParserState /\ t.terminal = end
      /\ t.buffer = e.buffer /\ t.lineStart = e.lineStart /\ t.sseMode = e.sseMode
      /\ Out(t) = Out(e)
  BY <1>2, <1>3 DEF ParserState, Out
<1> QED
  BY <1>1, <1>2, <1>4, <1>5 DEF Alike

\* Where the first event of a buffer ends.
EventEndAt(b, n) ==
  /\ n \in 2..Len(b) /\ EndsLine(b[n - 1]) /\ b[n] = "newline"
  /\ \A j \in 2..(n - 1) : ~(EndsLine(b[j - 1]) /\ b[j] = "newline")

LEMMA EventEndFacts ==
  ASSUME NEW b \in Seq(Pieces)
  PROVE  /\ EventEnd(b) \in 0..Len(b)
         /\ EventEnd(b) # 0 => EventEndAt(b, EventEnd(b))
         /\ \A n : EventEndAt(b, n) => EventEnd(b) = n
<1> DEFINE ends == {i \in 2..Len(b) : EndsLine(b[i - 1]) /\ b[i] = "newline"}
<1>1. Len(b) \in Nat
  BY LenProperties
<1>2. EventEnd(b) = IF ends = {} THEN 0 ELSE CHOOSE i \in ends : \A j \in ends : i <= j
  BY DEF EventEnd
<1>3. ends \in SUBSET Nat
  BY <1>1
<1>4. CASE ends = {}
  <2>1. EventEnd(b) = 0
    BY <1>2, <1>4
  <2>2. \A n : ~EventEndAt(b, n)
    BY <1>4 DEF EventEndAt
  <2> QED
    BY <1>1, <2>1, <2>2
<1>5. CASE ends # {}
  <2> DEFINE end == EventEnd(b)
  <2>1. end \in ends /\ \A j \in ends : end <= j
    <3> HIDE DEF ends
    <3> QED
      BY <1>2, <1>3, <1>5, LeastNumber
  <2> HIDE DEF end
  <2>2. end \in 2..Len(b) /\ EndsLine(b[end - 1]) /\ b[end] = "newline"
    BY <2>1
  <2>3. ASSUME NEW j \in 2..(end - 1)
        PROVE  ~(EndsLine(b[j - 1]) /\ b[j] = "newline")
    <3>1. j \in 2..Len(b) /\ ~(end <= j)
      BY <1>1, <2>2
    <3> QED
      BY <2>1, <3>1
  <2>4. EventEndAt(b, end)
    BY <2>2, <2>3 DEF EventEndAt
  <2>5. ASSUME NEW n, EventEndAt(b, n)
        PROVE  end = n
    <3>1. n \in 2..Len(b) /\ n \in ends
      BY <2>5 DEF EventEndAt
    <3>2. end <= n
      <4> HIDE DEF ends
      <4> QED
        BY <2>1, <3>1
    <3>3. ~(end \in 2..(n - 1))
      BY <2>2, <2>5 DEF EventEndAt
    <3> QED
      BY <1>1, <2>2, <3>1, <3>2, <3>3
  <2> QED
    BY <1>1, <2>2, <2>4, <2>5 DEF end
<1> QED
  BY <1>4, <1>5

\* More bytes behind a complete event do not move its end.
LEMMA EventEndStays ==
  ASSUME NEW b \in Seq(Pieces), NEW c \in Seq(Pieces), EventEnd(b) # 0
  PROVE  EventEnd(b \o c) = EventEnd(b)
<1> DEFINE n == EventEnd(b)
           d == b \o c
<1>1. EventEndAt(b, n)
  BY EventEndFacts
<1>2. d \in Seq(Pieces) /\ Len(b) \in Nat /\ Len(d) \in Nat /\ Len(b) <= Len(d)
      /\ \A i \in 1..Len(b) : d[i] = b[i]
  BY LenProperties, ConcatProperties
<1> HIDE DEF n, d
<1>3. EventEndAt(d, n)
  <2>1. n \in 2..Len(b) /\ EndsLine(b[n - 1]) /\ b[n] = "newline"
    BY <1>1 DEF EventEndAt
  <2>2. d[n - 1] = b[n - 1] /\ d[n] = b[n] /\ n \in 2..Len(d)
    BY <1>2, <2>1
  <2>3. ASSUME NEW j \in 2..(n - 1)
        PROVE  ~(EndsLine(d[j - 1]) /\ d[j] = "newline")
    <3>1. d[j - 1] = b[j - 1] /\ d[j] = b[j]
      BY <1>2, <2>1
    <3> QED
      BY <1>1, <3>1 DEF EventEndAt
  <2> QED
    BY <2>1, <2>2, <2>3 DEF EventEndAt
<1>4. EventEnd(d) = n
  BY <1>2, <1>3, EventEndFacts
<1> QED
  BY <1>4 DEF n, d

FirstEvent(s) == SubSeq(s.buffer, 1, EventEnd(s.buffer))
Remainder(s) == SubSeq(s.buffer, EventEnd(s.buffer) + 1, Len(s.buffer))

LEMMA SplitBuffer ==
  ASSUME NEW s \in ParserState, EventEnd(s.buffer) # 0
  PROVE  /\ FirstEvent(s) \in Seq(Pieces) /\ Remainder(s) \in Seq(Pieces)
         /\ FirstEvent(s) \o Remainder(s) = s.buffer
         /\ FirstEvent(s) # <<>> /\ Last(FirstEvent(s)) = "newline"
         /\ Len(Remainder(s)) + 1 <= Len(s.buffer)
<1> DEFINE b == s.buffer
           n == EventEnd(b)
<1>1. b \in Seq(Pieces) /\ Len(b) \in Nat
  BY LenProperties DEF ParserState
<1>2. EventEndAt(b, n)
  BY <1>1, EventEndFacts
<1> HIDE DEF b, n
<1>3. n \in 2..Len(b) /\ b[n] = "newline"
  BY <1>2 DEF EventEndAt
<1>4. \A i \in 1..Len(b) : b[i] \in Pieces
  BY <1>1, ElementOfSeq
<1>5. /\ SubSeq(b, 1, n) \in Seq(Pieces) /\ Len(SubSeq(b, 1, n)) = n
      /\ \A i \in 1..n : SubSeq(b, 1, n)[i] = b[i]
  <2>1. \A i \in 1..n : b[i] \in Pieces
    BY <1>1, <1>3, <1>4
  <2> QED
    BY <1>1, <1>3, <2>1, SubSeqProperties
<1>6. /\ SubSeq(b, n + 1, Len(b)) \in Seq(Pieces)
      /\ Len(SubSeq(b, n + 1, Len(b))) + 1 <= Len(b)
  <2>1. \A i \in (n + 1)..Len(b) : b[i] \in Pieces
    BY <1>1, <1>3, <1>4
  <2>2. n + 1 \in Int /\ Len(b) \in Int
    BY <1>1, <1>3
  <2>3. /\ SubSeq(b, n + 1, Len(b)) \in Seq(Pieces)
        /\ Len(SubSeq(b, n + 1, Len(b))) = IF n + 1 <= Len(b) THEN Len(b) - (n + 1) + 1 ELSE 0
    BY <2>1, <2>2, SubSeqProperties
  <2> QED
    BY <1>1, <1>3, <2>3
<1>7. SubSeq(b, 1, n) \o SubSeq(b, n + 1, Len(b)) = b
  <2>1. SubSeq(b, 1, n) \o SubSeq(b, n + 1, Len(b)) = SubSeq(b, 1, Len(b))
    <3>1. 1 \in 1..(Len(b) + 1) /\ n \in (1 - 1)..Len(b) /\ Len(b) \in n..Len(b)
      BY <1>1, <1>3
    <3> QED
      BY <1>1, <3>1, ConcatAdjacentSubSeq
  <2> QED
    BY <1>1, <2>1, SubSeqFull
<1>8. SubSeq(b, 1, n) # <<>> /\ Last(SubSeq(b, 1, n)) = "newline"
  <2>1. n \in 1..n
    BY <1>3
  <2> QED
    BY <1>3, <1>5, <2>1 DEF Last
<1> QED
  BY <1>5, <1>6, <1>7, <1>8 DEF FirstEvent, Remainder, b, n

LEMMA DrainOneFacts ==
  ASSUME NEW s \in ParserState, EventEnd(s.buffer) # 0
  PROVE  LET t == DrainOne(s)
         IN  /\ t \in ParserState /\ t.lineStart = s.lineStart /\ t.sseMode = s.sseMode
             /\ t.terminal = IF Kind(FirstEvent(s)) \in Terminals THEN Kind(FirstEvent(s))
                             ELSE s.terminal
             /\ t.buffer = IF t.terminal = "none" THEN Remainder(s) ELSE <<>>
             /\ Out(t) = Out(s) \o FirstEvent(s)
<1> DEFINE u == [s EXCEPT !.buffer = Remainder(s)]
           c == Consume(u, FirstEvent(s))
<1>1. DrainOne(s) = IF c.terminal # "none" THEN [c EXCEPT !.buffer = <<>>] ELSE c
  BY DEF DrainOne, FirstEvent, Remainder
<1>2. /\ u \in ParserState /\ u.buffer = Remainder(s) /\ Out(u) = Out(s)
      /\ u.lineStart = s.lineStart /\ u.sseMode = s.sseMode /\ u.terminal = s.terminal
  BY SplitBuffer, WithBuffer
<1> HIDE DEF u
<1>3. /\ c \in ParserState /\ c.buffer = Remainder(s) /\ Out(c) = Out(s) \o FirstEvent(s)
      /\ c.lineStart = s.lineStart /\ c.sseMode = s.sseMode
      /\ c.terminal = IF Kind(FirstEvent(s)) \in Terminals THEN Kind(FirstEvent(s))
                      ELSE s.terminal
  BY <1>2, SplitBuffer, ConsumeFacts
<1> HIDE DEF c
<1>4. <<>> \in Seq(Pieces)
  BY EmptySeq
<1>5. /\ [c EXCEPT !.buffer = <<>>] \in ParserState
      /\ [c EXCEPT !.buffer = <<>>].buffer = <<>>
      /\ Out([c EXCEPT !.buffer = <<>>]) = Out(c)
      /\ [c EXCEPT !.buffer = <<>>].lineStart = c.lineStart
      /\ [c EXCEPT !.buffer = <<>>].sseMode = c.sseMode
      /\ [c EXCEPT !.buffer = <<>>].terminal = c.terminal
  BY <1>3, <1>4, WithBuffer
<1>6. CASE c.terminal # "none"
  BY <1>1, <1>3, <1>5, <1>6
<1>7. CASE c.terminal = "none"
  BY <1>1, <1>3, <1>7
<1> QED
  BY <1>6, <1>7

LEMMA DrainOneType ==
  ASSUME NEW s \in ParserState
  PROVE  DrainOne(s) \in ParserState
<1>1. CASE EventEnd(s.buffer) = 0
  BY <1>1 DEF DrainOne
<1>2. CASE EventEnd(s.buffer) # 0
  BY <1>2, DrainOneFacts
<1> QED
  BY <1>1, <1>2

LEMMA DrainOneDone ==
  ASSUME NEW s, EventEnd(s.buffer) = 0
  PROVE  DrainOne(s) = s
  BY DEF DrainOne

LEMMA NoEventInNothing == EventEnd(<<>>) = 0
<1> DEFINE b == <<>>
<1>1. b \in Seq(Pieces) /\ Len(b) = 0
  BY EmptySeq
<1> HIDE DEF b
<1>2. EventEnd(b) \in 0..0
  BY <1>1, EventEndFacts
<1> QED
  BY <1>2 DEF b

-----------------------------------------------------------------------------
(* The parser, turn after turn *)

Turns(s, f, n) ==
  /\ f[0] = s
  /\ \A i \in 1..n : f[i] = DrainOne(f[i - 1])

LEMMA TurnsExist ==
  ASSUME NEW s \in ParserState, NEW n \in Nat
  PROVE  \E f \in [0..n -> ParserState] : Turns(s, f, n)
<1> DEFINE Good(k) == \E f \in [0..k -> ParserState] : Turns(s, f, k)
           Bad == {k \in Nat : ~Good(k)}
<1>1. Bad \in SUBSET Nat
  OBVIOUS
<1>2. ASSUME NEW m \in Bad, \A k \in Bad : m <= k
      PROVE  FALSE
  <2>1. m \in Nat
    OBVIOUS
  <2>2. m # 0
    <3>1. [i \in 0..0 |-> s] \in [0..0 -> ParserState]
      OBVIOUS
    <3>2. Turns(s, [i \in 0..0 |-> s], 0)
      BY DEF Turns
    <3> QED
      BY <1>2, <3>1, <3>2
  <2>3. m - 1 \in Nat /\ m - 1 \notin Bad
    <3>1. m - 1 \in Nat /\ ~(m <= m - 1)
      BY <2>1, <2>2
    <3> HIDE DEF Bad
    <3> QED
      BY <1>2, <3>1
  <2>4. PICK f \in [0..(m - 1) -> ParserState] : Turns(s, f, m - 1)
    BY <2>3
  <2> DEFINE last == DrainOne(f[m - 1])
             g == [i \in 0..m |-> IF i = m THEN last ELSE f[i]]
  <2>5. last \in ParserState
    <3>1. f[m - 1] \in ParserState
      BY <2>1, <2>2
    <3> QED
      BY <3>1, DrainOneType
  <2>6. g \in [0..m -> ParserState]
    <3> HIDE DEF last
    <3> QED
      BY <2>1, <2>2, <2>5
  <2>7. ASSUME NEW i \in 1..m
        PROVE  g[i] = DrainOne(g[i - 1])
    <3>1. CASE i = m
      <4>1. g[i] = last /\ g[i - 1] = f[m - 1]
        BY <2>1, <2>2, <3>1
      <4> QED
        BY <4>1
    <3>2. CASE i # m
      <4>1. i \in 1..(m - 1) /\ g[i] = f[i] /\ g[i - 1] = f[i - 1]
        BY <2>1, <2>2, <3>2
      <4> QED
        BY <2>4, <4>1 DEF Turns
    <3> QED
      BY <3>1, <3>2
  <2>8. g[0] = s
    BY <2>1, <2>2, <2>4 DEF Turns
  <2>9. Turns(s, g, m)
    BY <2>7, <2>8 DEF Turns
  <2>10. Good(m)
    <3> HIDE DEF g
    <3> QED
      BY <2>6, <2>9
  <2> HIDE DEF Good
  <2> QED
    BY <2>10
<1>3. Bad = {}
  <2> HIDE DEF Bad
  <2> QED
    BY <1>1, <1>2, LeastNumber
<1> QED
  BY <1>3

LEMMA TurnsType ==
  ASSUME NEW s \in ParserState, NEW n \in Nat, NEW f, Turns(s, f, n)
  PROVE  \A i \in 0..n : f[i] \in ParserState
<1> DEFINE Bad == {i \in 0..n : f[i] \notin ParserState}
<1>1. Bad \in SUBSET Nat
  OBVIOUS
<1>2. ASSUME NEW m \in Bad, \A k \in Bad : m <= k
      PROVE  FALSE
  <2>1. m \in 0..n /\ f[m] \notin ParserState
    OBVIOUS
  <2>2. m # 0
    BY <2>1 DEF Turns
  <2>3. m \in 1..n /\ m - 1 \in 0..n /\ ~(m <= m - 1)
    BY <2>1, <2>2
  <2>4. m - 1 \notin Bad
    <3> HIDE DEF Bad
    <3> QED
      BY <1>2, <2>3
  <2>5. f[m - 1] \in ParserState
    BY <2>3, <2>4
  <2>6. f[m] = DrainOne(f[m - 1])
    BY <2>3 DEF Turns
  <2> QED
    BY <2>1, <2>5, <2>6, DrainOneType
<1>3. Bad = {}
  <2> HIDE DEF Bad
  <2> QED
    BY <1>1, <1>2, LeastNumber
<1> QED
  BY <1>3

LEMMA DrainIsTurns ==
  ASSUME NEW s \in ParserState
  PROVE  \E f : Turns(s, f, Len(s.buffer)) /\ Drain(s) = f[Len(s.buffer)]
<1> DEFINE n == Len(s.buffer)
           Turn(f) == f = [i \in 0..n |-> IF i = 0 THEN s ELSE DrainOne(f[i - 1])]
           f == CHOOSE f : Turn(f)
<1>1. n \in Nat
  BY LenProperties DEF ParserState
<1>2. PICK g \in [0..n -> ParserState] : Turns(s, g, n)
  BY <1>1, TurnsExist
<1>3. Turn(g)
  <2> HIDE DEF n
  <2> QED
    BY <1>1, <1>2 DEF Turns
<1>4. Turn(f)
  <2> HIDE DEF Turn
  <2> QED
    BY <1>3
<1>5. Drain(s) = f[n]
  BY DEF Drain
<1> HIDE DEF f
<1>6. Turns(s, f, n)
  <2> HIDE DEF n
  <2> QED
    BY <1>1, <1>4 DEF Turns
<1> QED
  BY <1>5, <1>6

\* What some turns have done of what was there to do.
Drains(s, t) ==
  /\ t \in ParserState /\ t.lineStart = s.lineStart /\ t.sseMode = s.sseMode
  /\ t.terminal # "none" => t.buffer = <<>>
  /\ \E given, rest \in Seq(Pieces) :
       /\ Out(t) = Out(s) \o given
       /\ given \o rest = s.buffer
       /\ t.terminal = "none" => t.buffer = rest
       /\ given # <<>> => Last(given) = "newline"

LEMMA DrainsNothing ==
  ASSUME NEW s \in ParserState, s.terminal = "none"
  PROVE  Drains(s, s)
<1>1. /\ <<>> \in Seq(Pieces) /\ s.buffer \in Seq(Pieces)
      /\ Out(s) \o <<>> = Out(s) /\ <<>> \o s.buffer = s.buffer
  BY EmptySeq, OutType, ConcatEmptySeq DEF ParserState
<1> QED
  BY <1>1 DEF Drains

LEMMA Associative ==
  ASSUME NEW S, NEW a \in Seq(S), NEW b \in Seq(S), NEW c \in Seq(S)
  PROVE  (a \o b) \o c = a \o (b \o c)
  BY ConcatAssociative

LEMMA CancelLeft ==
  ASSUME NEW S, NEW a \in Seq(S), NEW b \in Seq(S), NEW c \in Seq(S), a \o b = a \o c
  PROVE  b = c
  BY ConcatSimplifications

LEMMA CancelRight ==
  ASSUME NEW S, NEW a \in Seq(S), NEW b \in Seq(S), NEW c \in Seq(S), a \o c = b \o c
  PROVE  a = b
  BY ConcatSimplifications

\* The last byte of two sequences is the second's, if it has one.
LEMMA LastOfConcat ==
  ASSUME NEW S, NEW a \in Seq(S), NEW b \in Seq(S), b # <<>>
  PROVE  a \o b # <<>> /\ Last(a \o b) = Last(b)
<1>1. Len(a) \in Nat /\ Len(b) \in Nat /\ Len(b) # 0
  BY EmptySeq, LenProperties
<1>2. Len(a \o b) = Len(a) + Len(b)
  BY ConcatProperties
<1>3. Len(a) + Len(b) \in 1..(Len(a) + Len(b)) /\ ~(Len(a) + Len(b) <= Len(a))
  BY <1>1
<1>4. (a \o b)[Len(a) + Len(b)] = b[(Len(a) + Len(b)) - Len(a)]
  BY <1>3, ConcatProperties
<1>5. (Len(a) + Len(b)) - Len(a) = Len(b)
  BY <1>1
<1>6. a \o b # <<>>
  BY <1>1, <1>2
<1> QED
  BY <1>2, <1>4, <1>5, <1>6 DEF Last

LEMMA DrainsOneMore ==
  ASSUME NEW s \in ParserState, NEW t, Drains(s, t)
  PROVE  Drains(s, DrainOne(t))
<1> DEFINE u == DrainOne(t)
           event == FirstEvent(t)
           behind == Remainder(t)
<1>1. PICK given, rest \in Seq(Pieces) :
        /\ Out(t) = Out(s) \o given
        /\ given \o rest = s.buffer
        /\ t.terminal = "none" => t.buffer = rest
        /\ given # <<>> => Last(given) = "newline"
  BY DEF Drains
<1>2. CASE EventEnd(t.buffer) = 0
  BY <1>2, DrainOneDone
<1>3. CASE EventEnd(t.buffer) # 0
  <2>1. t.terminal = "none" /\ t.buffer = rest
    BY <1>1, <1>3, NoEventInNothing DEF Drains
  <2>2. t \in ParserState /\ t.lineStart = s.lineStart /\ t.sseMode = s.sseMode
    BY DEF Drains
  <2>3. /\ event \in Seq(Pieces) /\ behind \in Seq(Pieces) /\ event \o behind = rest
        /\ event # <<>> /\ Last(event) = "newline"
    BY <1>3, <2>1, <2>2, SplitBuffer
  <2>4. /\ u \in ParserState /\ u.lineStart = t.lineStart /\ u.sseMode = t.sseMode
        /\ u.buffer = IF u.terminal = "none" THEN behind ELSE <<>>
        /\ Out(u) = Out(t) \o event
    BY <1>3, <2>2, DrainOneFacts
  <2> HIDE DEF u, event, behind
  <2>5. PICK before \in Seq(Pieces) : before = Out(s)
    BY OutType
  <2> DEFINE more == given \o event
  <2>6. /\ more \in Seq(Pieces)
        /\ Out(u) = Out(s) \o more
        /\ more \o behind = s.buffer
    <3>1. more \in Seq(Pieces)
      BY <2>3, ConcatProperties
    <3>2. /\ before \in Seq(Pieces) /\ given \in Seq(Pieces)
          /\ event \in Seq(Pieces) /\ behind \in Seq(Pieces)
      BY <2>3, <2>5
    <3>3. (before \o given) \o event = before \o (given \o event)
      BY ONLY <3>2, Associative, SMTT(60)
    <3>4. (given \o event) \o behind = given \o (event \o behind)
      BY ONLY <3>2, Associative, SMTT(60)
    <3> QED
      BY <1>1, <2>3, <2>4, <2>5, <3>1, <3>3, <3>4
  <2>7. Last(more) = "newline"
    BY <2>3, LastOfConcat
  <2> HIDE DEF more
  <2>8. Drains(s, u)
    BY <2>2, <2>3, <2>4, <2>6, <2>7 DEF Drains
  <2> QED
    BY <2>8 DEF u
<1> QED
  BY <1>2, <1>3

LEMMA DrainDrains ==
  ASSUME NEW s \in ParserState, s.terminal = "none"
  PROVE  Drains(s, Drain(s))
<1>1. PICK n \in Nat : n = Len(s.buffer)
  BY LenProperties DEF ParserState
<1>2. PICK f : Turns(s, f, n) /\ Drain(s) = f[n]
  BY <1>1, DrainIsTurns
<1> DEFINE Bad == {i \in 0..n : ~Drains(s, f[i])}
<1>3. Bad \in SUBSET Nat
  OBVIOUS
<1>4. ASSUME NEW m \in Bad, \A k \in Bad : m <= k
      PROVE  FALSE
  <2>1. m \in 0..n /\ ~Drains(s, f[m])
    OBVIOUS
  <2>2. m # 0
    BY <1>2, <2>1, DrainsNothing DEF Turns
  <2>3. m \in 1..n /\ m - 1 \in 0..n /\ ~(m <= m - 1)
    BY <2>1, <2>2
  <2>4. m - 1 \notin Bad
    <3> HIDE DEF Bad
    <3> QED
      BY <1>4, <2>3
  <2>5. Drains(s, f[m - 1])
    BY <2>3, <2>4
  <2>6. f[m] = DrainOne(f[m - 1])
    BY <1>2, <2>3 DEF Turns
  <2> QED
    BY <2>1, <2>5, <2>6, DrainsOneMore
<1>5. Bad = {}
  <2> HIDE DEF Bad
  <2> QED
    BY <1>3, <1>4, LeastNumber
<1> QED
  BY <1>2, <1>5

\* There are enough turns: in the end no event is left.
LEMMA TurnsSuffice ==
  ASSUME NEW s \in ParserState, NEW n \in Nat, n = Len(s.buffer), NEW f, Turns(s, f, n)
  PROVE  EventEnd(f[n].buffer) = 0
<1> DEFINE Good(i) == EventEnd(f[i].buffer) = 0 \/ Len(f[i].buffer) + i <= n
           Bad == {i \in 0..n : ~Good(i)}
<1>1. Bad \in SUBSET Nat
  <2> HIDE DEF Good
  <2> QED
    OBVIOUS
<1>2. ASSUME NEW m \in Bad, \A k \in Bad : m <= k
      PROVE  FALSE
  <2>1. m \in 0..n /\ ~Good(m)
    <3> HIDE DEF Good
    <3> QED
      OBVIOUS
  <2>2. m # 0
    <3>1. f[0] = s
      BY DEF Turns
    <3> QED
      BY <2>1, <3>1
  <2>3. m \in 1..n /\ m - 1 \in 0..n /\ ~(m <= m - 1)
    BY <2>1, <2>2
  <2>4. Good(m - 1)
    <3>1. m - 1 \notin Bad
      <4> HIDE DEF Bad
      <4> QED
        BY <1>2, <2>3
    <3> HIDE DEF Good
    <3> QED
      BY <2>3, <3>1
  <2>5. f[m] = DrainOne(f[m - 1])
    BY <2>3 DEF Turns
  <2>6. f[m - 1] \in ParserState
    BY <2>3, TurnsType
  <2> DEFINE t == f[m - 1]
             u == f[m]
  <2>7. CASE EventEnd(t.buffer) = 0
    BY <2>1, <2>5, <2>7, DrainOneDone
  <2>8. CASE EventEnd(t.buffer) # 0
    <3>1. Len(t.buffer) + (m - 1) <= n
      BY <2>4, <2>8
    <3>2. u.buffer \in {Remainder(t), <<>>}
      BY <2>5, <2>6, <2>8, DrainOneFacts
    <3>3. Len(Remainder(t)) + 1 <= Len(t.buffer) /\ Remainder(t) \in Seq(Pieces)
      BY <2>6, <2>8, SplitBuffer
    <3>4. CASE u.buffer = Remainder(t)
      <4>1. Len(Remainder(t)) \in Nat /\ Len(t.buffer) \in Nat
        BY <2>6, <3>3, LenProperties DEF ParserState
      <4> QED
        BY <2>1, <2>3, <3>1, <3>3, <3>4, <4>1
    <3>5. CASE u.buffer = <<>>
      BY <2>1, <3>5, NoEventInNothing
    <3> QED
      BY <3>2, <3>4, <3>5
  <2> QED
    BY <2>7, <2>8
<1>3. Bad = {}
  <2> HIDE DEF Bad
  <2> QED
    BY <1>1, <1>2, LeastNumber
<1>4. Good(n)
  <2> HIDE DEF Good
  <2> QED
    BY <1>3
<1>5. f[n] \in ParserState
  BY TurnsType
<1>6. CASE Len(f[n].buffer) + n <= n
  <2>1. f[n].buffer \in Seq(Pieces) /\ Len(f[n].buffer) \in Nat
    BY <1>5, LenProperties DEF ParserState
  <2> DEFINE len == Len(f[n].buffer)
  <2>2. len = 0
    <3>1. len \in Nat /\ len + n <= n
      BY <1>6, <2>1
    <3> HIDE DEF len
    <3> QED
      BY <3>1
  <2>3. f[n].buffer = <<>>
    BY <2>1, <2>2, EmptySeq
  <2> QED
    BY <2>3, NoEventInNothing
<1> QED
  BY <1>4, <1>6

\* Further turns change nothing then.
LEMMA TurnsStop ==
  ASSUME NEW s \in ParserState, NEW n \in Nat, NEW f, Turns(s, f, n),
         NEW m \in 0..n, EventEnd(f[m].buffer) = 0
  PROVE  f[n] = f[m]
<1> DEFINE Bad == {i \in m..n : f[i] # f[m]}
<1>1. Bad \in SUBSET Nat
  OBVIOUS
<1>2. ASSUME NEW k \in Bad, \A i \in Bad : k <= i
      PROVE  FALSE
  <2>1. k \in m..n /\ f[k] # f[m]
    OBVIOUS
  <2>2. k \in 1..n /\ k - 1 \in m..n /\ ~(k <= k - 1)
    BY <2>1
  <2>3. k - 1 \notin Bad
    <3> HIDE DEF Bad
    <3> QED
      BY <1>2, <2>2
  <2>4. f[k - 1] = f[m]
    BY <2>2, <2>3
  <2>5. f[k] = DrainOne(f[k - 1])
    BY <2>2 DEF Turns
  <2> QED
    BY <2>1, <2>4, <2>5, DrainOneDone
<1>3. Bad = {}
  <2> HIDE DEF Bad
  <2> QED
    BY <1>1, <1>2, LeastNumber
<1> QED
  BY <1>3

\* How consume_buffered_events reads as a loop.
LEMMA DrainUnfolds ==
  ASSUME NEW s \in ParserState
  PROVE  Drain(s) = IF EventEnd(s.buffer) = 0 THEN s ELSE Drain(DrainOne(s))
<1>1. PICK n \in Nat : n = Len(s.buffer)
  BY LenProperties DEF ParserState
<1>2. PICK f : Turns(s, f, n) /\ Drain(s) = f[n]
  BY <1>1, DrainIsTurns
<1>3. CASE EventEnd(s.buffer) = 0
  <2>1. f[0] = s /\ 0 \in 0..n
    BY <1>2 DEF Turns
  <2> QED
    BY <1>2, <1>3, <2>1, TurnsStop
<1>4. CASE EventEnd(s.buffer) # 0
  <2> DEFINE u == DrainOne(s)
  <2>1. u \in ParserState /\ u.buffer \in {Remainder(s), <<>>}
    BY <1>4, DrainOneFacts
  <2>2. Len(Remainder(s)) + 1 <= n /\ Remainder(s) \in Seq(Pieces)
    BY <1>1, <1>4, SplitBuffer
  <2>3. PICK m \in Nat : m = Len(u.buffer)
    BY <2>1, LenProperties DEF ParserState
  <2>4. m + 1 \in 0..n
    <3>1. CASE u.buffer = Remainder(s)
      BY <2>2, <2>3, <3>1
    <3>2. CASE u.buffer = <<>>
      <4>1. m = 0 /\ Len(Remainder(s)) \in Nat
        BY <2>2, <2>3, <3>2, EmptySeq, LenProperties
      <4> QED
        BY <2>2, <4>1
    <3> QED
      BY <2>1, <3>1, <3>2
  <2>5. PICK g : Turns(u, g, m) /\ Drain(u) = g[m]
    BY <2>1, <2>3, DrainIsTurns
  <2> HIDE DEF u
  <2> DEFINE Bad == {i \in 0..m : g[i] # f[i + 1]}
  <2>6. Bad \in SUBSET Nat
    OBVIOUS
  <2>7. ASSUME NEW k \in Bad, \A i \in Bad : k <= i
        PROVE  FALSE
    <3>1. k \in 0..m /\ g[k] # f[k + 1]
      OBVIOUS
    <3>2. k # 0
      <4>1. g[0] = u /\ f[0] = s
        BY <1>2, <2>5 DEF Turns
      <4>2. f[1] = DrainOne(f[0])
        <5>1. 1 \in 1..n /\ 1 - 1 = 0
          BY <2>4
        <5> QED
          BY <1>2, <5>1 DEF Turns
      <4> QED
        BY <3>1, <4>1, <4>2 DEF u
    <3>3. k \in 1..m /\ k - 1 \in 0..m /\ ~(k <= k - 1) /\ (k - 1) + 1 = k
      BY <3>1, <3>2
    <3>4. k - 1 \notin Bad
      <4> HIDE DEF Bad
      <4> QED
        BY <2>7, <3>3
    <3>5. g[k - 1] = f[k]
      BY <3>3, <3>4
    <3>6. g[k] = DrainOne(g[k - 1])
      BY <2>5, <3>3 DEF Turns
    <3>7. f[k + 1] = DrainOne(f[k])
      <4>1. k + 1 \in 1..n /\ (k + 1) - 1 = k
        BY <2>4, <3>3
      <4> QED
        BY <1>2, <4>1 DEF Turns
    <3> QED
      BY <3>1, <3>5, <3>6, <3>7
  <2>8. Bad = {}
    <3> HIDE DEF Bad
    <3> QED
      BY <2>6, <2>7, LeastNumber
  <2>9. g[m] = f[m + 1]
    BY <2>8
  <2>10. EventEnd(g[m].buffer) = 0
    BY <2>1, <2>3, <2>5, TurnsSuffice DEF u
  <2>11. f[n] = f[m + 1]
    BY <1>2, <2>4, <2>9, <2>10, TurnsStop
  <2> QED
    BY <1>2, <1>4, <2>5, <2>9, <2>11 DEF u
<1> QED
  BY <1>3, <1>4

-----------------------------------------------------------------------------
(* Parsers that differ in what they have given out only *)

Ahead(pre, s, t) ==
  /\ s \in ParserState /\ t \in ParserState
  /\ Alike(s, t)
  /\ Out(s) = pre \o Out(t)

LEMMA AheadDrainOne ==
  ASSUME NEW pre \in Seq(Pieces), NEW s, NEW t, Ahead(pre, s, t)
  PROVE  Ahead(pre, DrainOne(s), DrainOne(t))
<1>1. s \in ParserState /\ t \in ParserState /\ Alike(s, t) /\ Out(s) = pre \o Out(t)
  BY DEF Ahead
<1>2. s.buffer = t.buffer
  BY <1>1 DEF Alike
<1>3. CASE EventEnd(s.buffer) = 0
  BY <1>2, <1>3, DrainOneDone
<1>4. CASE EventEnd(s.buffer) # 0
  <2>1. PICK event \in Seq(Pieces) : event = FirstEvent(s) /\ event = FirstEvent(t)
    BY <1>1, <1>2, <1>4, SplitBuffer DEF FirstEvent
  <2>2. Remainder(s) = Remainder(t)
    BY <1>2 DEF Remainder
  <2>3. PICK told \in Seq(Pieces) : told = Out(t)
    BY <1>1, OutType
  <2>4. (pre \o told) \o event = pre \o (told \o event)
    <3>1. pre \in Seq(Pieces) /\ told \in Seq(Pieces) /\ event \in Seq(Pieces)
      OBVIOUS
    <3> QED
      BY ONLY <3>1, Associative, SMTT(60)
  <2> DEFINE u == DrainOne(s)
             v == DrainOne(t)
  <2>5. /\ u \in ParserState /\ u.lineStart = s.lineStart /\ u.sseMode = s.sseMode
        /\ u.terminal = IF Kind(event) \in Terminals THEN Kind(event) ELSE s.terminal
        /\ u.buffer = IF u.terminal = "none" THEN Remainder(s) ELSE <<>>
        /\ Out(u) = Out(s) \o event
    BY <1>1, <1>4, <2>1, DrainOneFacts
  <2>6. /\ v \in ParserState /\ v.lineStart = t.lineStart /\ v.sseMode = t.sseMode
        /\ v.terminal = IF Kind(event) \in Terminals THEN Kind(event) ELSE t.terminal
        /\ v.buffer = IF v.terminal = "none" THEN Remainder(t) ELSE <<>>
        /\ Out(v) = Out(t) \o event
    BY <1>1, <1>2, <1>4, <2>1, DrainOneFacts
  <2> HIDE DEF u, v
  <2>7. Alike(u, v)
    BY <1>1, <2>2, <2>5, <2>6 DEF Alike
  <2>8. Out(u) = pre \o Out(v)
    BY <1>1, <2>3, <2>4, <2>5, <2>6
  <2>9. Ahead(pre, u, v)
    BY <2>5, <2>6, <2>7, <2>8 DEF Ahead
  <2> QED
    BY <2>9 DEF u, v
<1> QED
  BY <1>3, <1>4

LEMMA AheadDrain ==
  ASSUME NEW pre \in Seq(Pieces), NEW s, NEW t, Ahead(pre, s, t)
  PROVE  Ahead(pre, Drain(s), Drain(t))
<1>1. s \in ParserState /\ t \in ParserState /\ s.buffer = t.buffer
  BY DEF Ahead, Alike
<1>2. PICK n \in Nat : n = Len(s.buffer) /\ n = Len(t.buffer)
  BY <1>1, LenProperties DEF ParserState
<1>3. PICK f : Turns(s, f, n) /\ Drain(s) = f[n]
  BY <1>1, <1>2, DrainIsTurns
<1>4. PICK g : Turns(t, g, n) /\ Drain(t) = g[n]
  BY <1>1, <1>2, DrainIsTurns
<1> DEFINE Bad == {i \in 0..n : ~Ahead(pre, f[i], g[i])}
<1>5. Bad \in SUBSET Nat
  OBVIOUS
<1>6. ASSUME NEW m \in Bad, \A k \in Bad : m <= k
      PROVE  FALSE
  <2>1. m \in 0..n /\ ~Ahead(pre, f[m], g[m])
    OBVIOUS
  <2>2. m # 0
    BY <1>3, <1>4, <2>1 DEF Turns
  <2>3. m \in 1..n /\ m - 1 \in 0..n /\ ~(m <= m - 1)
    BY <2>1, <2>2
  <2>4. m - 1 \notin Bad
    <3> HIDE DEF Bad
    <3> QED
      BY <1>6, <2>3
  <2>5. Ahead(pre, f[m - 1], g[m - 1])
    BY <2>3, <2>4
  <2>6. f[m] = DrainOne(f[m - 1]) /\ g[m] = DrainOne(g[m - 1])
    BY <1>3, <1>4, <2>3 DEF Turns
  <2> QED
    BY <2>1, <2>5, <2>6, AheadDrainOne
<1>7. Bad = {}
  <2> HIDE DEF Bad
  <2> QED
    BY <1>5, <1>6, LeastNumber
<1> QED
  BY <1>3, <1>4, <1>7

\* Bytes that arrive behind others.
Later(s, c) == [s EXCEPT !.buffer = s.buffer \o c]

LEMMA LaterFacts ==
  ASSUME NEW s \in ParserState, NEW c \in Seq(Pieces)
  PROVE  LET t == Later(s, c)
         IN  /\ t \in ParserState /\ t.buffer = s.buffer \o c /\ Out(t) = Out(s)
             /\ t.lineStart = s.lineStart /\ t.sseMode = s.sseMode
             /\ t.terminal = s.terminal
<1> DEFINE b == s.buffer \o c
<1>1. b \in Seq(Pieces)
  BY ConcatProperties DEF ParserState
<1> HIDE DEF b
<1>2. LET t == [s EXCEPT !.buffer = b]
      IN  /\ t \in ParserState /\ t.buffer = b /\ Out(t) = Out(s)
          /\ t.lineStart = s.lineStart /\ t.sseMode = s.sseMode
          /\ t.terminal = s.terminal
  BY <1>1, WithBuffer
<1> QED
  BY <1>2 DEF b, Later

LEMMA AheadLater ==
  ASSUME NEW pre \in Seq(Pieces), NEW s, NEW t, Ahead(pre, s, t), NEW c \in Seq(Pieces)
  PROVE  Ahead(pre, Later(s, c), Later(t, c))
<1>1. s \in ParserState /\ t \in ParserState /\ Alike(s, t) /\ Out(s) = pre \o Out(t)
  BY DEF Ahead
<1> DEFINE u == Later(s, c)
           v == Later(t, c)
<1>2. /\ u \in ParserState /\ u.buffer = s.buffer \o c /\ Out(u) = Out(s)
      /\ u.lineStart = s.lineStart /\ u.sseMode = s.sseMode /\ u.terminal = s.terminal
  BY <1>1, LaterFacts
<1>3. /\ v \in ParserState /\ v.buffer = t.buffer \o c /\ Out(v) = Out(t)
      /\ v.lineStart = t.lineStart /\ v.sseMode = t.sseMode /\ v.terminal = t.terminal
  BY <1>1, LaterFacts
<1> HIDE DEF u, v
<1>4. Alike(u, v)
  BY <1>1, <1>2, <1>3 DEF Alike
<1>5. Ahead(pre, u, v)
  BY <1>1, <1>2, <1>3, <1>4 DEF Ahead
<1> QED
  BY <1>5 DEF u, v

LEMMA DrainType ==
  ASSUME NEW s \in ParserState
  PROVE  Drain(s) \in ParserState
<1>1. PICK n \in Nat : n = Len(s.buffer)
  BY LenProperties DEF ParserState
<1>2. PICK f : Turns(s, f, n) /\ Drain(s) = f[n]
  BY <1>1, DrainIsTurns
<1> QED
  BY <1>2, TurnsType

\* Ahead by nothing: the same output, whatever chunks it is in.
LEMMA AheadByNothing ==
  ASSUME NEW s \in ParserState, NEW t \in ParserState
  PROVE  Ahead(<<>>, s, t) <=> Alike(s, t) /\ Out(s) = Out(t)
<1>1. <<>> \o Out(t) = Out(t)
  BY OutType, ConcatEmptySeq
<1> QED
  BY <1>1 DEF Ahead

LEMMA AheadOfSame ==
  ASSUME NEW pre, NEW s, NEW t, NEW u, Ahead(<<>>, t, u)
  PROVE  /\ Ahead(pre, s, t) <=> Ahead(pre, s, u)
         /\ Ahead(pre, t, s) <=> Ahead(pre, u, s)
<1>1. /\ t \in ParserState /\ u \in ParserState
      /\ t.buffer = u.buffer /\ t.lineStart = u.lineStart
      /\ t.sseMode = u.sseMode /\ t.terminal = u.terminal
      /\ Out(t) = Out(u)
  <2>1. t \in ParserState /\ u \in ParserState
    BY DEF Ahead
  <2> QED
    BY <2>1, AheadByNothing DEF Alike
<1> QED
  BY <1>1 DEF Ahead, Alike

LEMMA DrainOneLater ==
  ASSUME NEW s \in ParserState, NEW c \in Seq(Pieces), EventEnd(s.buffer) # 0,
         DrainOne(s).terminal = "none"
  PROVE  /\ EventEnd(Later(s, c).buffer) # 0
         /\ Ahead(<<>>, DrainOne(Later(s, c)), Later(DrainOne(s), c))
<1> DEFINE l == Later(s, c)
           b == s.buffer
           n == EventEnd(b)
           u == DrainOne(s)
           v == DrainOne(l)
<1>1. /\ l \in ParserState /\ l.buffer = b \o c /\ Out(l) = Out(s)
      /\ l.lineStart = s.lineStart /\ l.sseMode = s.sseMode
      /\ l.terminal = s.terminal
  BY LaterFacts
<1> HIDE DEF l
<1>2. b \in Seq(Pieces) /\ Len(b) \in Nat
  BY LenProperties DEF ParserState
<1>3. EventEnd(l.buffer) = n /\ n \in 1..Len(b)
  BY <1>1, <1>2, EventEndStays, EventEndFacts
<1>4. FirstEvent(l) = FirstEvent(s)
  <2> HIDE DEF b, n
  <2>1. 1 \in 1..Len(b)
    BY <1>2, <1>3
  <2>2. SubSeq(b \o c, 1, n) = SubSeq(b, 1, n)
    BY <1>2, <1>3, <2>1, SubSeqOfConcat1
  <2> QED
    BY <1>1, <1>3, <2>2 DEF FirstEvent, b, n
<1>5. PICK event \in Seq(Pieces), rest \in Seq(Pieces), more \in Seq(Pieces) :
        /\ event = FirstEvent(s) /\ rest = Remainder(s) /\ more = Remainder(l)
        /\ event \o rest = b /\ event \o more = b \o c
  BY <1>1, <1>2, <1>3, <1>4, SplitBuffer
<1>6. more = rest \o c
  <2>1. event \in Seq(Pieces) /\ rest \in Seq(Pieces) /\ c \in Seq(Pieces) /\ more \in Seq(Pieces)
    OBVIOUS
  <2>2. (event \o rest) \o c = event \o (rest \o c)
    BY ONLY <2>1, Associative, SMTT(60)
  <2> DEFINE behind == rest \o c
  <2>3. event \o more = event \o behind
    BY <1>5, <2>2
  <2>4. behind \in Seq(Pieces)
    BY ONLY <2>1, ConcatProperties
  <2> HIDE DEF behind
  <2>5. more = behind
    BY <2>3, <2>4, CancelLeft
  <2> QED
    BY <2>5 DEF behind
<1>7. /\ u \in ParserState /\ u.lineStart = s.lineStart /\ u.sseMode = s.sseMode
      /\ u.terminal = IF Kind(event) \in Terminals THEN Kind(event) ELSE s.terminal
      /\ u.buffer = rest
      /\ Out(u) = Out(s) \o event
  BY <1>5, DrainOneFacts
<1>8. /\ v \in ParserState /\ v.lineStart = l.lineStart /\ v.sseMode = l.sseMode
      /\ v.terminal = IF Kind(event) \in Terminals THEN Kind(event) ELSE l.terminal
      /\ v.buffer = IF v.terminal = "none" THEN more ELSE <<>>
      /\ Out(v) = Out(l) \o event
  BY <1>1, <1>2, <1>3, <1>4, <1>5, DrainOneFacts
<1>9. u.terminal = "none"
  OBVIOUS
<1> HIDE DEF u, v
<1> DEFINE w == Later(u, c)
<1>10. /\ w \in ParserState /\ w.buffer = u.buffer \o c /\ Out(w) = Out(u)
       /\ w.lineStart = u.lineStart /\ w.sseMode = u.sseMode
       /\ w.terminal = u.terminal
  BY <1>7, LaterFacts
<1> HIDE DEF w
<1>11. Alike(v, w) /\ Out(v) = Out(w)
  BY <1>1, <1>6, <1>7, <1>8, <1>9, <1>10 DEF Alike
<1>12. Ahead(<<>>, v, w)
  BY <1>8, <1>10, <1>11, AheadByNothing
<1> QED
  BY <1>2, <1>3, <1>12 DEF l, u, v, w

\* Draining a buffer in two parts gives what draining it at once gives.
LEMMA DrainLater ==
  ASSUME NEW s \in ParserState, NEW c \in Seq(Pieces), Drain(s).terminal = "none"
  PROVE  Ahead(<<>>, Drain(Later(s, c)), Drain(Later(Drain(s), c)))
<1> DEFINE Good(t) == Drain(t).terminal = "none" =>
                        Ahead(<<>>, Drain(Later(t, c)), Drain(Later(Drain(t), c)))
           Bad == {n \in Nat : \E t \in ParserState : Len(t.buffer) = n /\ ~Good(t)}
<1>1. Bad \in SUBSET Nat
  <2> HIDE DEF Good
  <2> QED
    OBVIOUS
<1>2. ASSUME NEW m \in Bad, \A n \in Bad : m <= n
      PROVE  FALSE
  <2>1. PICK t \in ParserState : Len(t.buffer) = m /\ ~Good(t)
    <3> HIDE DEF Good
    <3> QED
      OBVIOUS
  <2>2. Drain(t).terminal = "none" /\ ~Ahead(<<>>, Drain(Later(t, c)), Drain(Later(Drain(t), c)))
    BY <2>1
  <2>3. EventEnd(t.buffer) # 0
    <3> SUFFICES ASSUME EventEnd(t.buffer) = 0 PROVE FALSE
      OBVIOUS
    <3>1. Drain(t) = t
      BY DrainUnfolds
    <3> DEFINE d == Drain(Later(t, c))
    <3>2. d \in ParserState
      BY LaterFacts, DrainType
    <3> HIDE DEF d
    <3>3. Ahead(<<>>, d, d)
      BY <3>2, AheadByNothing DEF Alike
    <3> QED
      BY <2>2, <3>1, <3>3 DEF d
  <2> DEFINE u == DrainOne(t)
  <2>4. Drain(t) = Drain(u)
    BY <2>3, DrainUnfolds
  <2>5. u \in ParserState /\ u.buffer \in {Remainder(t), <<>>}
    BY <2>3, DrainOneFacts
  <2>6. u.terminal = "none"
    <3> SUFFICES ASSUME u.terminal # "none" PROVE FALSE
      OBVIOUS
    <3>1. u.buffer = <<>>
      BY <2>3, DrainOneFacts
    <3> HIDE DEF u
    <3>2. Drain(u) = u
      BY <2>5, <3>1, DrainUnfolds, NoEventInNothing
    <3> QED
      BY <2>2, <2>4, <3>2
  <2>7. u.buffer = Remainder(t)
    BY <2>3, <2>6, DrainOneFacts
  <2>8. Good(u)
    <3> SUFFICES ASSUME ~Good(u) PROVE FALSE
      OBVIOUS
    <3>1. Len(Remainder(t)) + 1 <= m /\ Remainder(t) \in Seq(Pieces)
      BY <2>1, <2>3, SplitBuffer
    <3> HIDE DEF u, Good
    <3>2. PICK k \in Nat : k = Len(u.buffer)
      BY <2>7, <3>1, LenProperties
    <3>3. k \in Bad
      BY <2>5, <3>2
    <3>4. ~(m <= k)
      <4>1. m \in Nat
        BY <1>1
      <4> QED
        BY <2>7, <3>1, <3>2, <4>1
    <3> HIDE DEF Bad
    <3> QED
      BY <1>2, <3>3, <3>4
  <2> DEFINE l == Later(t, c)
             v == DrainOne(l)
             w == Later(u, c)
  <2>9. EventEnd(l.buffer) # 0 /\ Ahead(<<>>, v, w)
    BY <2>3, <2>6, DrainOneLater
  <2>10. Drain(l) = Drain(v)
    BY <2>9, LaterFacts, DrainUnfolds
  <2>11. Ahead(<<>>, Drain(w), Drain(Later(Drain(u), c)))
    <3>1. Drain(u).terminal = "none"
      BY <2>2, <2>4
    <3> HIDE DEF u
    <3> QED
      BY <2>8, <3>1
  <2>12. Ahead(<<>>, Drain(v), Drain(w))
    <3>1. <<>> \in Seq(Pieces)
      BY EmptySeq
    <3> HIDE DEF v, w
    <3> QED
      BY <2>9, <3>1, AheadDrain
  <2>13. Ahead(<<>>, Drain(v), Drain(Later(Drain(u), c)))
    <3> HIDE DEF u, v, w
    <3> QED
      BY <2>11, <2>12, AheadOfSame
  <2> HIDE DEF u, v, w, l
  <2>14. Ahead(<<>>, Drain(l), Drain(Later(Drain(t), c)))
    BY <2>4, <2>10, <2>13
  <2> QED
    BY <2>2, <2>14 DEF l
<1>3. Bad = {}
  <2> HIDE DEF Bad
  <2> QED
    BY <1>1, <1>2, LeastNumber
<1>4. Good(s)
  <2>1. Len(s.buffer) \in Nat
    BY LenProperties DEF ParserState
  <2> HIDE DEF Good
  <2> QED
    BY <1>3, <2>1
<1> QED
  BY <1>4

-----------------------------------------------------------------------------
(* The first field of a body *)

LEMMA Cat ==
  ASSUME NEW S, NEW a \in Seq(S), NEW b \in Seq(S), NEW c, c = a \o b
  PROVE  /\ Len(a) \in Nat /\ Len(b) \in Nat /\ c \in Seq(S) /\ Len(c) = Len(a) + Len(b)
         /\ \A i \in 1..Len(a) : c[i] = a[i]
         /\ \A i \in (Len(a) + 1)..Len(c) : c[i] = b[i - Len(a)]
<1>1. Len(a) \in Nat /\ Len(b) \in Nat /\ c \in Seq(S) /\ Len(c) = Len(a) + Len(b)
  BY LenProperties, ConcatProperties
<1>2. ASSUME NEW i \in 1..Len(a)
      PROVE  c[i] = a[i]
  <2>1. i \in 1..(Len(a) + Len(b)) /\ i <= Len(a)
    BY <1>1
  <2> QED
    BY <2>1, ConcatProperties
<1>3. ASSUME NEW i \in (Len(a) + 1)..Len(c)
      PROVE  c[i] = b[i - Len(a)]
  <2>1. i \in 1..(Len(a) + Len(b)) /\ ~(i <= Len(a))
    BY <1>1
  <2> QED
    BY <2>1, ConcatProperties
<1> QED
  BY <1>1, <1>2, <1>3

\* Whether the next byte begins a line.
Ends(x) == After(TRUE, x)

LEMMA EndsAfter ==
  ASSUME NEW a \in Seq(Pieces), NEW b \in Seq(Pieces)
  PROVE  After(Ends(a), b) = Ends(a \o b)
<1>1. CASE b = <<>>
  <2>1. a \o b = a
    BY <1>1, ConcatEmptySeq
  <2> QED
    BY <1>1, <2>1 DEF After
<1>2. CASE b # <<>>
  <2>1. a \o b # <<>> /\ Last(a \o b) = Last(b)
    BY <1>2, LastOfConcat
  <2> QED
    BY <1>2, <2>1 DEF After, Ends
<1> QED
  BY <1>1, <1>2

\* A field that is complete, one that may become complete.
FieldAt(x, i) ==
  /\ i \in 1..(Len(x) - 1) /\ x[i] = "da" /\ x[i + 1] \in Kinds
  /\ i = 1 \/ EndsLine(x[i - 1])

Dangling(x) ==
  /\ x # <<>> /\ x[Len(x)] = "da"
  /\ Len(x) = 1 \/ EndsLine(x[Len(x) - 1])

\* Where the parser looks for the first field in bytes that follow others.
StartAt(begin, b, i) ==
  /\ i \in 1..Len(b) /\ b[i] = "da"
  /\ IF i = 1 THEN begin ELSE EndsLine(b[i - 1])
  /\ i = Len(b) \/ b[i + 1] \in Kinds

LEMMA FieldsOfConcat ==
  ASSUME NEW x \in Seq(Pieces), NEW b \in Seq(Pieces), NEW z, z = x \o b
  PROVE  /\ \A i : FieldAt(x, i) => FieldAt(z, i)
         /\ \A i : FieldAt(z, i) =>
              \/ FieldAt(x, i)
              \/ i = Len(x) /\ Dangling(x)
              \/ i - Len(x) \in 1..(Len(b) - 1) /\ StartAt(Ends(x), b, i - Len(x))
         /\ \A j \in 1..(Len(b) - 1) : StartAt(Ends(x), b, j) => FieldAt(z, Len(x) + j)
<1>1. /\ Len(x) \in Nat /\ Len(b) \in Nat /\ z \in Seq(Pieces) /\ Len(z) = Len(x) + Len(b)
      /\ \A i \in 1..Len(x) : z[i] = x[i]
      /\ \A i \in (Len(x) + 1)..Len(z) : z[i] = b[i - Len(x)]
  BY Cat
<1>2. ASSUME NEW i, FieldAt(x, i)
      PROVE  FieldAt(z, i)
  <2>1. i \in 1..(Len(x) - 1) /\ x[i] = "da" /\ x[i + 1] \in Kinds /\ (i = 1 \/ EndsLine(x[i - 1]))
    BY <1>2 DEF FieldAt
  <2>2. z[i] = x[i] /\ z[i + 1] = x[i + 1] /\ (i # 1 => z[i - 1] = x[i - 1])
    BY <1>1, <2>1
  <2>3. i \in 1..(Len(z) - 1)
    BY <1>1, <2>1
  <2> QED
    BY <2>1, <2>2, <2>3 DEF FieldAt
<1>3. x # <<>> <=> Len(x) # 0
  BY EmptySeq
<1>4. ASSUME NEW i, FieldAt(z, i)
      PROVE  \/ FieldAt(x, i)
             \/ i = Len(x) /\ Dangling(x)
             \/ i - Len(x) \in 1..(Len(b) - 1) /\ StartAt(Ends(x), b, i - Len(x))
  <2>1. i \in 1..(Len(z) - 1) /\ z[i] = "da" /\ z[i + 1] \in Kinds /\ (i = 1 \/ EndsLine(z[i - 1]))
    BY <1>4 DEF FieldAt
  <2>2. CASE i < Len(x)
    <3>1. z[i] = x[i] /\ z[i + 1] = x[i + 1] /\ (i # 1 => z[i - 1] = x[i - 1])
      BY <1>1, <2>1, <2>2
    <3>2. i \in 1..(Len(x) - 1)
      BY <1>1, <2>1, <2>2
    <3> QED
      BY <2>1, <3>1, <3>2 DEF FieldAt
  <2>3. CASE i = Len(x)
    <3>1. z[i] = x[i] /\ (i # 1 => z[i - 1] = x[i - 1])
      BY <1>1, <2>1, <2>3
    <3> QED
      BY <1>1, <1>3, <2>1, <2>3, <3>1 DEF Dangling
  <2>4. CASE i > Len(x)
    <3> DEFINE j == i - Len(x)
    <3>1. j \in 1..(Len(b) - 1) /\ z[i] = b[j] /\ z[i + 1] = b[j + 1]
      BY <1>1, <2>1, <2>4
    <3>2. IF j = 1 THEN Ends(x) ELSE EndsLine(b[j - 1])
      <4>1. CASE j = 1
        <5>1. i = Len(x) + 1
          BY <1>1, <2>1, <4>1
        <5>2. CASE x = <<>>
          BY <4>1, <5>2 DEF Ends, After
        <5>3. CASE x # <<>>
          <6>1. i # 1 /\ z[i - 1] = x[Len(x)]
            BY <1>1, <1>3, <5>1, <5>3
          <6> QED
            BY <2>1, <4>1, <5>3, <6>1 DEF Ends, After, Last
        <5> QED
          BY <5>2, <5>3
      <4>2. CASE j # 1
        <5>1. i # 1 /\ z[i - 1] = b[j - 1]
          BY <1>1, <2>1, <3>1, <4>2
        <5> QED
          BY <2>1, <4>2, <5>1
      <4> QED
        BY <4>1, <4>2
    <3>3. j \in 1..Len(b)
      BY <1>1, <3>1
    <3> QED
      BY <2>1, <3>1, <3>2, <3>3 DEF StartAt
  <2> QED
    BY <1>1, <2>1, <2>2, <2>3, <2>4
<1>5. ASSUME NEW j \in 1..(Len(b) - 1), StartAt(Ends(x), b, j)
      PROVE  FieldAt(z, Len(x) + j)
  <2> DEFINE i == Len(x) + j
  <2>1. b[j] = "da" /\ (IF j = 1 THEN Ends(x) ELSE EndsLine(b[j - 1])) /\ b[j + 1] \in Kinds
    BY <1>1, <1>5 DEF StartAt
  <2>2. i \in 1..(Len(z) - 1) /\ z[i] = b[j] /\ z[i + 1] = b[j + 1]
    BY <1>1
  <2>3. i = 1 \/ EndsLine(z[i - 1])
    <3>1. CASE j = 1
      <4>1. CASE x = <<>>
        BY <1>1, <1>3, <3>1, <4>1
      <4>2. CASE x # <<>>
        <5>1. z[i - 1] = x[Len(x)]
          BY <1>1, <1>3, <3>1, <4>2
        <5> QED
          BY <2>1, <3>1, <4>2, <5>1 DEF Ends, After, Last
      <4> QED
        BY <4>1, <4>2
    <3>2. CASE j # 1
      <4>1. z[i - 1] = b[j - 1]
        BY <1>1, <3>2
      <4> QED
        BY <2>1, <3>2, <4>1
    <3> QED
      BY <3>1, <3>2
  <2> QED
    BY <2>1, <2>2, <2>3 DEF FieldAt
<1> QED
  BY <1>2, <1>4, <1>5

LEMMA DanglingOfConcat ==
  ASSUME NEW x \in Seq(Pieces), NEW b \in Seq(Pieces), NEW z, z = x \o b, b # <<>>, Dangling(z)
  PROVE  StartAt(Ends(x), b, Len(b))
<1>1. /\ Len(x) \in Nat /\ Len(b) \in Nat /\ z \in Seq(Pieces) /\ Len(z) = Len(x) + Len(b)
      /\ \A i \in 1..Len(x) : z[i] = x[i]
      /\ \A i \in (Len(x) + 1)..Len(z) : z[i] = b[i - Len(x)]
  BY Cat
<1>2. Len(b) # 0 /\ (x # <<>> <=> Len(x) # 0)
  BY EmptySeq
<1>3. z[Len(z)] = "da" /\ (Len(z) = 1 \/ EndsLine(z[Len(z) - 1]))
  BY DEF Dangling
<1>4. z[Len(z)] = b[Len(b)] /\ Len(b) \in 1..Len(b)
  BY <1>1, <1>2
<1>5. CASE Len(b) = 1
  <2>1. CASE x = <<>>
    BY <1>3, <1>4, <1>5, <2>1 DEF StartAt, Ends, After
  <2>2. CASE x # <<>>
    <3>1. Len(z) # 1 /\ z[Len(z) - 1] = x[Len(x)]
      BY <1>1, <1>2, <1>5, <2>2
    <3> QED
      BY <1>3, <1>4, <1>5, <2>2, <3>1 DEF StartAt, Ends, After, Last
  <2> QED
    BY <2>1, <2>2
<1>6. CASE Len(b) # 1
  <2>1. Len(z) # 1 /\ z[Len(z) - 1] = b[Len(b) - 1]
    <3> DEFINE m == Len(x)
               n == Len(b)
               len == Len(z)
    <3>0. m \in Nat /\ n \in Nat /\ len = m + n /\ n # 0 /\ n # 1
      BY <1>1, <1>2, <1>6
    <3> HIDE DEF m, n, len
    <3>2. len - 1 \in (m + 1)..len /\ len # 1 /\ (len - 1) - m = n - 1
      BY ONLY <3>0
    <3>1. /\ Len(z) - 1 \in (Len(x) + 1)..Len(z) /\ Len(z) # 1
          /\ (Len(z) - 1) - Len(x) = Len(b) - 1
      BY ONLY <3>2 DEF m, n, len
    <3> QED
      BY <1>1, <3>1
  <2> QED
    BY <1>3, <1>4, <1>6, <2>1 DEF StartAt
<1> QED
  BY <1>5, <1>6

\* A body x cut before its first field.
Split(x, a, y) ==
  /\ a \in Seq(Pieces) /\ y \in Seq(Pieces) /\ x = a \o y
  /\ FieldAt(x, Len(a) + 1)
  /\ \A i \in 1..Len(a) : ~FieldAt(x, i)

LEMMA SplitUnique ==
  ASSUME NEW x, NEW a, NEW y, NEW b, NEW z, Split(x, a, y), Split(x, b, z)
  PROVE  a = b /\ y = z
<1>1. /\ a \in Seq(Pieces) /\ y \in Seq(Pieces) /\ x = a \o y
      /\ b \in Seq(Pieces) /\ z \in Seq(Pieces) /\ x = b \o z
  BY DEF Split
<1>2. Len(a) \in Nat /\ Len(b) \in Nat
  BY <1>1, LenProperties
<1>3. Len(a) = Len(b)
  <2>1. ~(Len(a) < Len(b))
    <3> SUFFICES ASSUME Len(a) < Len(b) PROVE FALSE
      OBVIOUS
    <3>1. Len(a) + 1 \in 1..Len(b)
      BY <1>2
    <3> QED
      BY <3>1 DEF Split
  <2>2. ~(Len(b) < Len(a))
    <3> SUFFICES ASSUME Len(b) < Len(a) PROVE FALSE
      OBVIOUS
    <3>1. Len(b) + 1 \in 1..Len(a)
      BY <1>2
    <3> QED
      BY <3>1 DEF Split
  <2> QED
    BY <1>2, <2>1, <2>2
<1>4. \A i \in 1..Len(a) : a[i] = x[i] /\ b[i] = x[i]
  <2>1. \A i \in 1..Len(a) : x[i] = a[i]
    <3>1. a \in Seq(Pieces) /\ y \in Seq(Pieces) /\ x = a \o y
      BY <1>1
    <3> QED
      BY ONLY <3>1, Cat
  <2>2. \A i \in 1..Len(b) : x[i] = b[i]
    <3>1. b \in Seq(Pieces) /\ z \in Seq(Pieces) /\ x = b \o z
      BY <1>1
    <3> QED
      BY ONLY <3>1, Cat
  <2> QED
    BY <1>3, <2>1, <2>2
<1>5. a = b
  BY <1>1, <1>3, <1>4, SeqEqual
<1>6. y = z
  BY <1>1, <1>5, CancelLeft
<1> QED
  BY <1>5, <1>6

LEMMA SplitLater ==
  ASSUME NEW x, NEW a, NEW y, Split(x, a, y), NEW b \in Seq(Pieces)
  PROVE  Split(x \o b, a, y \o b)
<1>1. a \in Seq(Pieces) /\ y \in Seq(Pieces) /\ x = a \o y
  BY DEF Split
<1> DEFINE z == x \o b
           c == y \o b
<1>2. x \in Seq(Pieces) /\ Len(x) \in Nat /\ Len(a) \in Nat
  BY <1>1, Cat
<1>3. c \in Seq(Pieces)
  BY <1>1, ConcatProperties
<1>4. z = a \o c
  <2>1. (a \o y) \o b = a \o (y \o b)
    <3>1. a \in Seq(Pieces) /\ y \in Seq(Pieces) /\ b \in Seq(Pieces)
      BY <1>1
    <3> QED
      BY ONLY <3>1, Associative, SMTT(60)
  <2> QED
    BY <1>1, <2>1
<1>5. z = x \o b
  OBVIOUS
<1> HIDE DEF z, c
<1>6. FieldAt(x, Len(a) + 1)
  BY DEF Split
<1>7. FieldAt(z, Len(a) + 1)
  <2>1. x \in Seq(Pieces) /\ b \in Seq(Pieces) /\ z = x \o b
    BY <1>2, <1>5
  <2>2. \A i : FieldAt(x, i) => FieldAt(z, i)
    BY ONLY <2>1, FieldsOfConcat
  <2> QED
    BY <1>6, <2>2
<1>8. ASSUME NEW i \in 1..Len(a)
      PROVE  ~FieldAt(z, i)
  <2>1. ~FieldAt(x, i)
    BY DEF Split
  <2>2. i < Len(x)
    BY <1>2, <1>6 DEF FieldAt
  <2>3. ~(i = Len(x)) /\ ~(i - Len(x) \in 1..(Len(b) - 1))
    BY <1>2, <2>2
  <2> QED
    BY <1>2, <1>5, <2>1, <2>3, FieldsOfConcat
<1>9. Split(z, a, c)
  BY <1>1, <1>3, <1>4, <1>7, <1>8 DEF Split
<1> QED
  BY <1>9 DEF z, c

\* What precedes the first field has been given out, what follows is to be drained.
Opening(a, y) ==
  [buffer |-> y, lineStart |-> TRUE, sseMode |-> TRUE, terminal |-> "none", output |-> <<a>>]

LEMMA OtherBuffer ==
  ASSUME NEW y, NEW c, NEW start, NEW mode, NEW end, NEW given
  PROVE  [[buffer |-> y, lineStart |-> start, sseMode |-> mode,
           terminal |-> end, output |-> given] EXCEPT !.buffer = c] =
         [buffer |-> c, lineStart |-> start, sseMode |-> mode,
          terminal |-> end, output |-> given]
  OBVIOUS

LEMMA OpeningLater ==
  ASSUME NEW a, NEW y, NEW c
  PROVE  [Opening(a, y) EXCEPT !.buffer = c] = Opening(a, c)
<1> DEFINE given == <<a>>
           yes == TRUE
           end == "none"
<1>1. Opening(a, y) = [buffer |-> y, lineStart |-> yes, sseMode |-> yes,
                       terminal |-> end, output |-> given]
  BY DEF Opening
<1>2. Opening(a, c) = [buffer |-> c, lineStart |-> yes, sseMode |-> yes,
                       terminal |-> end, output |-> given]
  BY DEF Opening
<1> HIDE DEF given, yes, end
<1> QED
  BY <1>1, <1>2, OtherBuffer

LEMMA OpeningFacts ==
  ASSUME NEW a \in Seq(Pieces), NEW y \in Seq(Pieces)
  PROVE  Opening(a, y) \in ParserState /\ Out(Opening(a, y)) = a
<1> DEFINE none == <<>>
<1>1. none \in Seq(Seq(Pieces)) /\ FlattenSeq(none) = <<>> /\ Append(none, a) = <<a>>
  BY EmptySeq, FlattenNone
<1> HIDE DEF none
<1>2. FlattenSeq(Append(none, a)) = FlattenSeq(none) \o a
  BY <1>1, FlattenAppend
<1>3. <<a>> \in Seq(Seq(Pieces))
  OBVIOUS
<1>4. FlattenSeq(<<a>>) = a
  BY <1>1, <1>2, ConcatEmptySeq
<1> QED
  BY <1>3, <1>4 DEF Opening, ParserState, Out

LEMMA PassThroughFacts ==
  ASSUME NEW s \in ParserState, NEW bytes \in Seq(Pieces)
  PROVE  LET t == PassThrough(s, bytes)
         IN  /\ t \in ParserState /\ t.buffer = s.buffer /\ t.sseMode = s.sseMode
             /\ t.terminal = s.terminal /\ Out(t) = Out(s) \o bytes
             /\ t.lineStart = After(s.lineStart, bytes)
<1> DEFINE e == Emit(s, bytes)
           start == After(e.lineStart, bytes)
           t == [e EXCEPT !.lineStart = start]
<1>1. PassThrough(s, bytes) = t
  BY DEF PassThrough
<1>2. e \in ParserState /\ Alike(e, s) /\ Out(e) = Out(s) \o bytes
  BY EmitFacts
<1> HIDE DEF e
<1>3. start = After(s.lineStart, bytes) /\ start \in BOOLEAN
  <2>1. e.lineStart = s.lineStart /\ s.lineStart \in BOOLEAN
    BY <1>2 DEF Alike, ParserState
  <2>2. EndsLine(Last(bytes)) \in BOOLEAN
    BY DEF EndsLine
  <2> QED
    BY <2>1, <2>2 DEF After
<1> HIDE DEF start
<1>4. /\ t \in ParserState /\ t.lineStart = start
      /\ t.buffer = e.buffer /\ t.terminal = e.terminal /\ t.sseMode = e.sseMode
      /\ Out(t) = Out(e)
  BY <1>2, <1>3 DEF ParserState, Out
<1> QED
  BY <1>1, <1>2, <1>3, <1>4 DEF Alike

LEMMA RestFacts ==
  ASSUME NEW b \in Seq(Pieces), NEW i \in 1..Len(b)
  PROVE  LET rest == SubSeq(b, i, Len(b))
         IN  /\ rest \in Seq(Pieces)
             /\ Full(rest) <=> i < Len(b) /\ b[i] = "da" /\ b[i + 1] \in Kinds
             /\ Partial(rest) <=> i = Len(b) /\ b[i] = "da"
<1> DEFINE rest == SubSeq(b, i, Len(b))
           n == Len(b)
           one == <<"da">>
<1>1. n \in Nat /\ i \in 1..n /\ \A j \in 1..n : b[j] \in Pieces
  BY LenProperties, ElementOfSeq
<1>2. one \in Seq(Pieces) /\ Len(one) = 1 /\ one[1] = "da"
  BY DEF Pieces
<1>3. rest \in Seq(Pieces) /\ Len(rest) = (n - i) + 1 /\ \A j \in 1..((n - i) + 1) : rest[j] = b[(i + j) - 1]
  <2> HIDE DEF n
  <2>1. i \in Int /\ n \in Int /\ i <= n /\ \A j \in i..n : b[j] \in Pieces
    BY <1>1
  <2>2. /\ SubSeq(b, i, n) \in Seq(Pieces)
        /\ Len(SubSeq(b, i, n)) = IF i <= n THEN n - i + 1 ELSE 0
        /\ \A j \in 1..(n - i + 1) : SubSeq(b, i, n)[j] = b[i + j - 1]
    BY <2>1, SubSeqProperties
  <2> QED
    BY <2>1, <2>2 DEF n
<1> HIDE DEF rest, n, one
<1>4. rest[1] = b[i] /\ (i < n => rest[2] = b[i + 1]) /\ (Len(rest) >= 2 <=> i < n)
  <2>1. 1 \in 1..((n - i) + 1) /\ (i + 1) - 1 = i
    BY <1>1
  <2>2. i < n => 2 \in 1..((n - i) + 1) /\ (i + 2) - 1 = i + 1
    BY <1>1
  <2> QED
    BY <1>1, <1>3, <2>1, <2>2
<1>5. Full(rest) <=> i < n /\ b[i] = "da" /\ b[i + 1] \in Kinds
  BY <1>4 DEF Full
<1>6. Partial(rest) <=> i = n /\ b[i] = "da"
  <2>1. ASSUME rest = one
        PROVE  i = n /\ b[i] = "da"
    <3>1. Len(rest) = 1 /\ rest[1] = "da"
      BY <1>2, <2>1
    <3>2. (n - i) + 1 = 1
      BY <1>3, <3>1
    <3> QED
      BY <1>1, <1>4, <3>1, <3>2
  <2>2. ASSUME i = n, b[i] = "da"
        PROVE  rest = one
    <3>1. Len(rest) = 1 /\ rest[1] = "da"
      BY <1>1, <1>3, <1>4, <2>2
    <3>2. \A j \in 1..Len(rest) : rest[j] = one[j]
      BY <1>2, <3>1
    <3> QED
      BY <1>2, <1>3, <3>1, <3>2, SeqEqual
  <2> QED
    BY <2>1, <2>2 DEF Partial, one
<1> QED
  BY <1>3, <1>5, <1>6 DEF rest, n

LEMMA CutAt ==
  ASSUME NEW b \in Seq(Pieces), NEW i \in 1..Len(b)
  PROVE  LET c == SubSeq(b, 1, i - 1)
             d == SubSeq(b, i, Len(b))
         IN  /\ c \in Seq(Pieces) /\ d \in Seq(Pieces) /\ c \o d = b /\ Len(c) = i - 1
             /\ \A j \in 1..(i - 1) : c[j] = b[j]
<1> DEFINE n == Len(b)
<1>1. n \in Nat /\ i \in 1..n /\ \A j \in 1..n : b[j] \in Pieces
  BY LenProperties, ElementOfSeq
<1>2. SubSeq(b, 1, n) = b
  BY SubSeqFull
<1>3. SubSeq(b, i, n) \in Seq(Pieces)
  BY RestFacts
<1> HIDE DEF n
<1>4. /\ SubSeq(b, 1, i - 1) \in Seq(Pieces) /\ Len(SubSeq(b, 1, i - 1)) = i - 1
      /\ \A j \in 1..(i - 1) : SubSeq(b, 1, i - 1)[j] = b[j]
  <2> DEFINE k == i - 1
  <2>1. k \in Int /\ 1 \in Int /\ (\A j \in 1..k : b[j] \in Pieces) /\ k >= 0 /\ k - 1 + 1 = k
    BY <1>1
  <2> HIDE DEF k
  <2>2. /\ SubSeq(b, 1, k) \in Seq(Pieces)
        /\ Len(SubSeq(b, 1, k)) = IF 1 <= k THEN k - 1 + 1 ELSE 0
        /\ \A j \in 1..(k - 1 + 1) : SubSeq(b, 1, k)[j] = b[1 + j - 1]
    BY ONLY <2>1, SubSeqProperties
  <2>3. Len(SubSeq(b, 1, k)) = k
    BY <2>1, <2>2
  <2>4. \A j \in 1..k : SubSeq(b, 1, k)[j] = b[j]
    <3>1. \A j \in 1..k : 1 + j - 1 = j
      OBVIOUS
    <3> QED
      BY <2>1, <2>2, <3>1
  <2> QED
    BY <2>2, <2>3, <2>4 DEF k
<1>5. SubSeq(b, 1, i - 1) \o SubSeq(b, i, n) = b
  <2> DEFINE k == i - 1
  <2>1. /\ 1 \in 1..(n + 1) /\ k \in (1 - 1)..n /\ n \in k..n /\ k + 1 = i
    BY <1>1
  <2> HIDE DEF k
  <2>2. SubSeq(b, 1, k) \o SubSeq(b, k + 1, n) = SubSeq(b, 1, n)
    BY <2>1, ConcatAdjacentSubSeq DEF n
  <2> QED
    BY <1>2, <2>1, <2>2 DEF k
<1> QED
  BY <1>3, <1>4, <1>5 DEF n

\* What observe_bytes does while no field has been seen.
Misses(s, b) ==
  /\ \A i : ~StartAt(s.lineStart, b, i)
  /\ Search(s, b) = PassThrough(s, b)

Finds(s, b, i, c, d) ==
  /\ StartAt(s.lineStart, b, i)
  /\ \A j \in 1..(i - 1) : ~StartAt(s.lineStart, b, j)
  /\ c \o d = b /\ Len(c) = i - 1 /\ \A j \in 1..(i - 1) : c[j] = b[j]
  /\ LET t == [PassThrough(s, c) EXCEPT !.buffer = d]
     IN  \/ i < Len(b) /\ Search(s, b) = Drain([t EXCEPT !.sseMode = TRUE])
         \/ i = Len(b) /\ d = <<"da">> /\ Search(s, b) = t

LEMMA SearchCases ==
  ASSUME NEW s \in ParserState, NEW b \in Seq(Pieces)
  PROVE  \/ Misses(s, b)
         \/ \E i \in 1..Len(b), c \in Seq(Pieces), d \in Seq(Pieces) : Finds(s, b, i, c, d)
<1> DEFINE starts == {i \in 1..Len(b) :
                        /\ IF i = 1 THEN s.lineStart ELSE EndsLine(b[i - 1])
                        /\ LET rest == SubSeq(b, i, Len(b)) IN Full(rest) \/ Partial(rest)}
           first == CHOOSE i \in starts : \A j \in starts : i <= j
           c == SubSeq(b, 1, first - 1)
           d == SubSeq(b, first, Len(b))
           t == [PassThrough(s, c) EXCEPT !.buffer = d]
<1>1. Search(s, b) = IF starts = {} THEN PassThrough(s, b)
                     ELSE IF Full(d) THEN Drain([t EXCEPT !.sseMode = TRUE]) ELSE t
  BY DEF Search
<1>2. Len(b) \in Nat
  BY LenProperties
<1>3. ASSUME NEW i
      PROVE  i \in starts <=> StartAt(s.lineStart, b, i)
  <2>1. CASE i \in 1..Len(b)
    <3> DEFINE rest == SubSeq(b, i, Len(b))
    <3>1. /\ Full(rest) <=> i < Len(b) /\ b[i] = "da" /\ b[i + 1] \in Kinds
          /\ Partial(rest) <=> i = Len(b) /\ b[i] = "da"
      BY <2>1, RestFacts
    <3>2. i < Len(b) \/ i = Len(b)
      BY <1>2, <2>1
    <3>3. (Full(rest) \/ Partial(rest)) <=> b[i] = "da" /\ (i = Len(b) \/ b[i + 1] \in Kinds)
      BY <3>1, <3>2
    <3> HIDE DEF rest
    <3>4. i \in starts <=> /\ IF i = 1 THEN s.lineStart ELSE EndsLine(b[i - 1])
                           /\ Full(rest) \/ Partial(rest)
      BY <2>1 DEF rest
    <3> QED
      BY <2>1, <3>3, <3>4 DEF StartAt
  <2>2. CASE i \notin 1..Len(b)
    BY <2>2 DEF StartAt
  <2> QED
    BY <2>1, <2>2
<1>4. starts \in SUBSET Nat
  BY <1>2
<1> HIDE DEF starts
<1>5. CASE starts = {}
  BY <1>1, <1>3, <1>5 DEF Misses
<1>6. CASE starts # {}
  <2>1. first \in starts /\ \A j \in starts : first <= j
    BY <1>4, <1>6, LeastNumber
  <2> HIDE DEF first
  <2>2. first \in 1..Len(b) /\ b[first] = "da" /\ (first = Len(b) \/ b[first + 1] \in Kinds)
    BY <1>3, <2>1 DEF StartAt
  <2>3. \A j \in 1..(first - 1) : ~StartAt(s.lineStart, b, j)
    <3>1. \A j \in 1..(first - 1) : ~(first <= j)
      BY <1>2, <2>2
    <3> QED
      BY <1>3, <2>1, <3>1
  <2>4. /\ c \in Seq(Pieces) /\ d \in Seq(Pieces) /\ c \o d = b /\ Len(c) = first - 1
        /\ \A j \in 1..(first - 1) : c[j] = b[j]
    BY <2>2, CutAt
  <2>5. /\ Full(d) <=> first < Len(b) /\ b[first] = "da" /\ b[first + 1] \in Kinds
        /\ Partial(d) <=> first = Len(b) /\ b[first] = "da"
    BY <2>2, RestFacts
  <2> HIDE DEF c, d
  <2>6. \/ first < Len(b) /\ Search(s, b) = Drain([t EXCEPT !.sseMode = TRUE])
        \/ first = Len(b) /\ d = <<"da">> /\ Search(s, b) = t
    <3>1. CASE first < Len(b)
      <4>1. Full(d)
        BY <1>2, <2>2, <2>5, <3>1
      <4> QED
        BY <1>1, <1>6, <3>1, <4>1
    <3>2. CASE first = Len(b)
      <4>1. ~Full(d) /\ d = <<"da">>
        BY <1>2, <2>2, <2>5, <3>2 DEF Partial
      <4> QED
        BY <1>1, <1>6, <3>2, <4>1
    <3> QED
      BY <1>2, <2>2, <3>1, <3>2
  <2>7. first \in 1..Len(b) /\ StartAt(s.lineStart, b, first)
    BY <1>3, <2>1, <2>2
  <2>8. Finds(s, b, first, c, d)
    BY <2>3, <2>4, <2>6, <2>7 DEF Finds
  <2> QED
    BY <2>4, <2>7, <2>8
<1> QED
  BY <1>5, <1>6

-----------------------------------------------------------------------------
(* The parser after the body x, of which pre has been given out before *)

\* There has been no field yet: all is passed on but what may become a field.
Plain(x, pre, s) ==
  /\ s \in ParserState /\ s.terminal = "none" /\ ~s.sseMode
  /\ \A i : ~FieldAt(x, i)
  /\ (pre \o Out(s)) \o s.buffer = x
  /\ s.lineStart = Ends(pre \o Out(s))
  /\ \/ s.buffer = <<>> /\ ~Dangling(x)
     \/ s.buffer = <<"da">> /\ s.lineStart

\* There has been one: what follows it has been drained.
Parsing(x, pre, s) ==
  \E a, y : Split(x, a, y) /\ Ahead(pre, Drain(Opening(a, y)), s)

Reads(x, pre, s) == Plain(x, pre, s) \/ Parsing(x, pre, s)

LEMMA WithMode ==
  ASSUME NEW s \in ParserState
  PROVE  LET t == [s EXCEPT !.sseMode = TRUE]
         IN  /\ t \in ParserState /\ t.sseMode = TRUE /\ Out(t) = Out(s)
             /\ t.lineStart = s.lineStart /\ t.buffer = s.buffer
             /\ t.terminal = s.terminal
  BY DEF ParserState, Out

LEMMA ParsingStarts ==
  ASSUME NEW x, NEW a, NEW y, Split(x, a, y), NEW pre \in Seq(Pieces), NEW s \in ParserState,
         s.buffer = y, s.lineStart = TRUE, s.sseMode = TRUE, s.terminal = "none",
         a = pre \o Out(s)
  PROVE  Parsing(x, pre, Drain(s))
<1>1. a \in Seq(Pieces) /\ y \in Seq(Pieces)
  BY DEF Split
<1>2. Opening(a, y) \in ParserState /\ Out(Opening(a, y)) = a
  BY <1>1, OpeningFacts
<1>3. Alike(Opening(a, y), s)
  BY DEF Alike, Opening
<1>4. Ahead(pre, Opening(a, y), s)
  BY <1>2, <1>3 DEF Ahead
<1>5. Ahead(pre, Drain(Opening(a, y)), Drain(s))
  BY <1>4, AheadDrain
<1> QED
  BY <1>5 DEF Parsing

LEMMA SearchReads ==
  ASSUME NEW pre \in Seq(Pieces), NEW s, NEW x \in Seq(Pieces), NEW b \in Seq(Pieces),
         Plain(x, pre, s), s.buffer = <<>>
  PROVE  Reads(x \o b, pre, Search(s, b))
<1> DEFINE z == x \o b
           r == Search(s, b)
<1>1. s \in ParserState /\ s.terminal = "none" /\ s.sseMode = FALSE
  BY DEF Plain, ParserState
<1>2. PICK out \in Seq(Pieces) : out = Out(s)
  BY <1>1, OutType
<1>3. x = pre \o out /\ s.lineStart = Ends(x)
  <2> DEFINE told == pre \o out
  <2>1. told \in Seq(Pieces)
    BY ConcatProperties
  <2>2. told \o s.buffer = x /\ s.lineStart = Ends(told)
    BY <1>2 DEF Plain
  <2> HIDE DEF told
  <2>3. told = x
    BY <2>1, <2>2, ConcatEmptySeq
  <2> QED
    BY <2>2, <2>3 DEF told
<1>4. (\A i : ~FieldAt(x, i)) /\ ~Dangling(x)
  <2>1. s.buffer # <<"da">>
    OBVIOUS
  <2> QED
    BY <2>1 DEF Plain
<1>5. z = x \o b
  OBVIOUS
<1> HIDE DEF z
<1>6. z \in Seq(Pieces)
  BY <1>5, Cat
<1>7. ASSUME NEW i, FieldAt(z, i)
      PROVE  i - Len(x) \in 1..(Len(b) - 1) /\ StartAt(Ends(x), b, i - Len(x))
  BY <1>4, <1>5, <1>7, FieldsOfConcat
<1>8. Len(x) \in Nat /\ Len(b) \in Nat
  BY LenProperties
<1>9. ASSUME NEW c \in Seq(Pieces)
      PROVE  pre \o (out \o c) = x \o c
  <2>1. pre \in Seq(Pieces) /\ out \in Seq(Pieces) /\ c \in Seq(Pieces)
    OBVIOUS
  <2>2. (pre \o out) \o c = pre \o (out \o c)
    BY ONLY <2>1, Associative, SMTT(60)
  <2> QED
    BY <1>3, <2>2
<1>10. CASE Misses(s, b)
  <2>0. (\A i : ~StartAt(s.lineStart, b, i)) /\ r = PassThrough(s, b)
    BY <1>10 DEF Misses
  <2> HIDE DEF r
  <2>1. /\ r \in ParserState /\ r.buffer = <<>> /\ r.sseMode = FALSE
        /\ r.terminal = "none" /\ Out(r) = out \o b
        /\ r.lineStart = After(Ends(x), b)
    <3> DEFINE t == PassThrough(s, b)
    <3>1. /\ t \in ParserState /\ t.buffer = s.buffer /\ t.sseMode = s.sseMode
          /\ t.terminal = s.terminal /\ Out(t) = Out(s) \o b
          /\ t.lineStart = After(s.lineStart, b)
      BY <1>1, PassThroughFacts
    <3>2. r = t
      BY <2>0
    <3> HIDE DEF t
    <3> QED
      BY <1>1, <1>2, <1>3, <3>1, <3>2
  <2>2. pre \o Out(r) = z
    BY <1>5, <1>9, <2>1
  <2>3. (pre \o Out(r)) \o r.buffer = z
    BY <1>6, <2>1, <2>2, ConcatEmptySeq
  <2>4. r.lineStart = Ends(z)
    BY <1>5, <2>1, EndsAfter
  <2>5. \A i : ~FieldAt(z, i)
    BY <1>3, <1>7, <2>0
  <2>6. ~Dangling(z)
    <3>1. CASE b = <<>>
      <4>1. z = x
        BY <1>5, <3>1, ConcatEmptySeq
      <4> QED
        BY <1>4, <4>1
    <3>2. CASE b # <<>>
      BY <1>3, <1>5, <2>0, <3>2, DanglingOfConcat
    <3> QED
      BY <3>1, <3>2
  <2>7. Plain(z, pre, r)
    BY <2>1, <2>2, <2>3, <2>4, <2>5, <2>6 DEF Plain
  <2> QED
    BY <2>7 DEF z, r, Reads
<1>11. ASSUME NEW i \in 1..Len(b), NEW c \in Seq(Pieces), NEW d \in Seq(Pieces),
              Finds(s, b, i, c, d)
       PROVE  Reads(z, pre, r)
  <2> DEFINE p == PassThrough(s, c)
             t == [p EXCEPT !.buffer = d]
             u == [t EXCEPT !.sseMode = TRUE]
             a == x \o c
  <2>1. \/ i < Len(b) /\ r = Drain(u)
        \/ i = Len(b) /\ d = <<"da">> /\ r = t
    BY <1>11 DEF Finds
  <2>0. /\ StartAt(s.lineStart, b, i)
        /\ \A j \in 1..(i - 1) : ~StartAt(s.lineStart, b, j)
        /\ c \o d = b /\ Len(c) = i - 1 /\ \A j \in 1..(i - 1) : c[j] = b[j]
    BY <1>11 DEF Finds
  <2> HIDE DEF r
  <2>2. /\ p \in ParserState /\ p.buffer = <<>> /\ p.sseMode = FALSE
        /\ p.terminal = "none" /\ Out(p) = out \o c
        /\ p.lineStart = After(Ends(x), c)
    <3>1. /\ p \in ParserState /\ p.buffer = s.buffer /\ p.sseMode = s.sseMode
          /\ p.terminal = s.terminal /\ Out(p) = Out(s) \o c
          /\ p.lineStart = After(s.lineStart, c)
      BY <1>1, PassThroughFacts
    <3> HIDE DEF p
    <3> QED
      BY <1>1, <1>2, <1>3, <3>1
  <2> HIDE DEF p
  <2>3. /\ t \in ParserState /\ t.buffer = d /\ t.sseMode = FALSE
        /\ t.terminal = "none" /\ Out(t) = out \o c
        /\ t.lineStart = After(Ends(x), c)
    BY <2>2, WithBuffer
  <2> HIDE DEF t
  <2>4. pre \o Out(t) = a
    BY <1>9, <2>3
  <2>5. a = x \o c
    OBVIOUS
  <2> HIDE DEF a
  <2>6. a \in Seq(Pieces) /\ Len(a) = Len(x) + (i - 1)
    <3>1. x \in Seq(Pieces) /\ c \in Seq(Pieces) /\ a = x \o c
      BY <2>5
    <3>2. a \in Seq(Pieces) /\ Len(a) = Len(x) + Len(c)
      BY ONLY <3>1, Cat
    <3> QED
      BY <2>0, <3>2
  <2>7. t.lineStart = Ends(a)
    BY <2>3, <2>5, EndsAfter
  <2>8. a \o d = z
    <3>1. x \in Seq(Pieces) /\ c \in Seq(Pieces) /\ d \in Seq(Pieces)
      OBVIOUS
    <3>2. (x \o c) \o d = x \o (c \o d)
      BY ONLY <3>1, Associative, SMTT(60)
    <3> QED
      BY <1>5, <2>0, <2>5, <3>2
  <2>9. t.lineStart = TRUE
    <3>1. CASE i = 1
      <4>1. c = <<>>
        BY <2>0, <3>1, EmptySeq
      <4> QED
        BY <1>3, <2>0, <2>3, <3>1, <4>1 DEF StartAt, After
    <3>2. CASE i # 1
      <4>1. c # <<>> /\ Last(c) = b[i - 1]
        <5>1. i - 1 \in 1..(i - 1)
          BY <3>2
        <5> QED
          BY <2>0, <5>1 DEF Last
      <4> QED
        BY <2>0, <2>3, <3>2, <4>1 DEF StartAt, After, EndsLine
    <3> QED
      BY <3>1, <3>2
  <2>10. \A j \in 1..Len(a) : ~FieldAt(z, j)
    <3> SUFFICES ASSUME NEW j \in 1..Len(a), FieldAt(z, j) PROVE FALSE
      OBVIOUS
    <3>1. j - Len(x) \in 1..(Len(b) - 1) /\ StartAt(Ends(x), b, j - Len(x))
      BY <1>7
    <3>2. j - Len(x) \in 1..(i - 1)
      BY <1>8, <2>6, <3>1
    <3> QED
      BY <1>3, <2>0, <3>1, <3>2
  <2>11. CASE i < Len(b)
    <3>1. r = Drain(u)
      BY <2>1, <2>11
    <3>2. /\ u \in ParserState /\ u.buffer = d /\ u.sseMode = TRUE
          /\ u.terminal = "none" /\ Out(u) = Out(t) /\ u.lineStart = TRUE
      BY <2>3, <2>9, WithMode
    <3> HIDE DEF u
    <3>3. FieldAt(z, Len(a) + 1)
      <4>1. i \in 1..(Len(b) - 1) /\ Len(a) + 1 = Len(x) + i
        BY <1>8, <2>6, <2>11
      <4> QED
        <5>1. StartAt(Ends(x), b, i)
          BY <1>3, <2>0
        <5> QED
          BY <1>5, <4>1, <5>1, FieldsOfConcat
    <3>4. Split(z, a, d)
      BY <2>6, <2>8, <2>10, <3>3 DEF Split
    <3>5. a = pre \o Out(u)
      BY <2>4, <3>2
    <3>6. Parsing(z, pre, r)
      BY <3>1, <3>2, <3>4, <3>5, ParsingStarts
    <3> QED
      BY <3>6 DEF Reads
  <2>12. CASE i = Len(b)
    <3>1. d = <<"da">> /\ r = t
      BY <2>1, <2>12
    <3>2. \A j : ~FieldAt(z, j)
      <4> SUFFICES ASSUME NEW j, FieldAt(z, j) PROVE FALSE
        OBVIOUS
      <4>1. j - Len(x) \in 1..(Len(b) - 1) /\ StartAt(Ends(x), b, j - Len(x))
        BY <1>7
      <4> QED
        BY <1>3, <2>0, <2>12, <4>1
    <3>3. Plain(z, pre, r)
      BY <2>3, <2>4, <2>7, <2>8, <2>9, <3>1, <3>2 DEF Plain
    <3> QED
      BY <3>3 DEF Reads
  <2> QED
    BY <1>8, <2>11, <2>12
<1> QED
  BY <1>1, <1>10, <1>11, SearchCases DEF z

LEMMA ParsingGoesOn ==
  ASSUME NEW pre \in Seq(Pieces), NEW s, NEW x, NEW b \in Seq(Pieces),
         Parsing(x, pre, s), s.terminal = "none"
  PROVE  Parsing(x \o b, pre, Drain(Later(s, b)))
<1>1. PICK a, y : Split(x, a, y) /\ Ahead(pre, Drain(Opening(a, y)), s)
  BY DEF Parsing
<1> DEFINE o == Opening(a, y)
           d == Drain(o)
           more == Opening(a, y \o b)
<1>2. a \in Seq(Pieces) /\ y \in Seq(Pieces)
  BY <1>1 DEF Split
<1>3. o \in ParserState
  BY <1>2, OpeningFacts
<1>4. Later(o, b) = more
  <2> DEFINE c == y \o b
  <2>1. Opening(a, y).buffer = y
    BY DEF Opening
  <2>2. Later(o, b) = [o EXCEPT !.buffer = c]
    BY <2>1 DEF Later
  <2> HIDE DEF c
  <2>3. [o EXCEPT !.buffer = c] = Opening(a, c)
    BY OpeningLater
  <2> QED
    BY <2>2, <2>3 DEF c
<1>5. d.terminal = "none"
  BY <1>1 DEF Ahead, Alike
<1> HIDE DEF o, more
<1>6. Ahead(<<>>, Drain(Later(o, b)), Drain(Later(d, b)))
  BY <1>3, <1>5, DrainLater
<1>7. Ahead(pre, d, s)
  BY <1>1 DEF o
<1> HIDE DEF d
<1>8. Ahead(pre, Later(d, b), Later(s, b))
  BY <1>7, AheadLater
<1>9. Ahead(pre, Drain(Later(d, b)), Drain(Later(s, b)))
  BY <1>8, AheadDrain
<1>10. Ahead(pre, Drain(Later(o, b)), Drain(Later(s, b)))
  BY <1>6, <1>9, AheadOfSame
<1>11. Split(x \o b, a, y \o b)
  BY <1>1, SplitLater
<1> QED
  BY <1>4, <1>10, <1>11 DEF Parsing, more

LEMMA FirstByte ==
  ASSUME NEW b \in Seq(Pieces), b # <<>>
  PROVE  LET h == SubSeq(b, 1, 1)
             more == SubSeq(b, 2, Len(b))
         IN  /\ h \in Seq(Pieces) /\ Len(h) = 1 /\ h[1] = b[1] /\ b[1] \in Pieces
             /\ more \in Seq(Pieces)
             /\ h \o more = b
<1> DEFINE n == Len(b)
<1>1. n \in Nat /\ n # 0 /\ \A j \in 1..n : b[j] \in Pieces
  BY EmptySeq, LenProperties, ElementOfSeq
<1>2. SubSeq(b, 1, n) = b
  BY SubSeqFull
<1> HIDE DEF n
<1>3. SubSeq(b, 1, 1) \in Seq(Pieces) /\ Len(SubSeq(b, 1, 1)) = 1 /\ SubSeq(b, 1, 1)[1] = b[1]
  <2>1. 1 \in Int /\ \A j \in 1..1 : b[j] \in Pieces
    BY <1>1
  <2>2. /\ SubSeq(b, 1, 1) \in Seq(Pieces)
        /\ Len(SubSeq(b, 1, 1)) = IF 1 <= 1 THEN 1 - 1 + 1 ELSE 0
        /\ \A j \in 1..(1 - 1 + 1) : SubSeq(b, 1, 1)[j] = b[1 + j - 1]
    BY ONLY <2>1, SubSeqProperties
  <2> QED
    BY <2>2
<1>4. SubSeq(b, 2, n) \in Seq(Pieces)
  <2>1. 2 \in Int /\ n \in Int /\ \A j \in 2..n : b[j] \in Pieces
    BY <1>1
  <2> QED
    BY ONLY <2>1, SubSeqProperties
<1>5. SubSeq(b, 1, 1) \o SubSeq(b, 2, n) = b
  <2>1. 1 \in 1..(n + 1) /\ 1 \in (1 - 1)..n /\ n \in 1..n /\ 1 + 1 = 2
    BY <1>1
  <2>2. SubSeq(b, 1, 1) \o SubSeq(b, 1 + 1, n) = SubSeq(b, 1, n)
    BY <2>1, ConcatAdjacentSubSeq DEF n
  <2> QED
    BY <1>2, <2>1, <2>2
<1> QED
  BY <1>1, <1>3, <1>4, <1>5 DEF n

LEMMA DaEndsNothing == ~EndsLine("da") /\ "da" \in Pieces /\ "da" \notin Kinds
  BY DEF EndsLine, Pieces, Kinds

LEMMA NotDangling ==
  ASSUME NEW x \in Seq(Pieces), Ends(x)
  PROVE  ~Dangling(x)
  BY DaEndsNothing DEF Ends, After, Dangling, Last

\* observe_bytes while bytes are held back.
LEMMA HeldReads ==
  ASSUME NEW pre \in Seq(Pieces), NEW s, NEW x \in Seq(Pieces), NEW b \in Seq(Pieces),
         Plain(x, pre, s), s.buffer = <<"da">>, b # <<>>
  PROVE  Reads(x \o b, pre, Observe(s, b))
<1> DEFINE z == x \o b
           one == <<"da">>
           h == SubSeq(b, 1, 1)
           more == SubSeq(b, 2, Len(b))
           held == one \o h
           y == one \o b
           u == [s EXCEPT !.sseMode = TRUE, !.buffer = held \o more]
           s0 == [s EXCEPT !.buffer = <<>>]
           s1 == PassThrough(s0, held)
<1>1. s \in ParserState /\ s.terminal = "none" /\ s.sseMode = FALSE /\ s.lineStart = TRUE
  BY DEF Plain, ParserState
<1>2. PICK out \in Seq(Pieces) : out = Out(s)
  BY <1>1, OutType
<1>3. PICK told \in Seq(Pieces) : told = pre \o out
  BY ConcatProperties
<1>4. /\ one \in Seq(Pieces) /\ Len(one) = 1 /\ one[1] = "da" /\ one # <<>>
  BY DaEndsNothing
<1>5. Observe(s, b) = IF Full(held) THEN Drain(u) ELSE Search(s1, more)
  BY <1>1, <1>4 DEF Observe
<1>6. s.buffer = one /\ z = x \o b /\ y = one \o b /\ held = one \o h
  OBVIOUS
<1>7. /\ h \in Seq(Pieces) /\ Len(h) = 1 /\ h[1] = b[1]
      /\ more \in Seq(Pieces) /\ h \o more = b
  BY FirstByte
<1> HIDE DEF z, y, one, h, more, held
<1>8. told \o one = x /\ Ends(told)
  BY <1>1, <1>2, <1>3, <1>6 DEF Plain
<1>9. /\ held \in Seq(Pieces) /\ Len(held) = 2 /\ held[1] = "da" /\ held[2] = b[1] /\ held # <<>>
  <2>1. /\ held \in Seq(Pieces) /\ Len(held) = Len(one) + Len(h)
        /\ \A i \in 1..Len(one) : held[i] = one[i]
        /\ \A i \in (Len(one) + 1)..Len(held) : held[i] = h[i - Len(one)]
    <3>1. one \in Seq(Pieces) /\ h \in Seq(Pieces) /\ held = one \o h
      BY <1>4, <1>6, <1>7
    <3> QED
      BY ONLY <3>1, Cat
  <2>2. held \in Seq(Pieces) /\ Len(held) = 2 /\ held[1] = "da" /\ held[2] = b[1]
    BY <1>4, <1>7, <2>1
  <2>3. held # <<>>
    <3>1. held \in Seq(Pieces) /\ Len(held) # 0
      BY <2>2
    <3> QED
      BY ONLY <3>1, EmptySeq
  <2> QED
    BY <2>2, <2>3
<1>10. /\ y \in Seq(Pieces) /\ Len(y) = 1 + Len(b) /\ y[1] = "da" /\ y[2] = b[1]
       /\ Len(b) \in Nat /\ Len(b) # 0
  <2>1. /\ y \in Seq(Pieces) /\ Len(y) = Len(one) + Len(b) /\ Len(b) \in Nat
        /\ \A i \in 1..Len(one) : y[i] = one[i]
        /\ \A i \in (Len(one) + 1)..Len(y) : y[i] = b[i - Len(one)]
    <3>1. one \in Seq(Pieces) /\ b \in Seq(Pieces) /\ y = one \o b
      BY <1>4, <1>6
    <3> QED
      BY ONLY <3>1, Cat
  <2>2. Len(b) # 0
    BY EmptySeq
  <2> QED
    BY <1>4, <2>1, <2>2
<1>11. /\ held \o more = y /\ told \o y = z /\ told \o held = x \o h
       /\ (x \o h) \o more = z
  <2>1. /\ one \in Seq(Pieces) /\ h \in Seq(Pieces) /\ more \in Seq(Pieces)
        /\ b \in Seq(Pieces) /\ told \in Seq(Pieces) /\ x \in Seq(Pieces)
    BY <1>4, <1>7
  <2>2. (one \o h) \o more = one \o (h \o more)
    BY ONLY <2>1, Associative, SMTT(60)
  <2>3. (told \o one) \o b = told \o (one \o b)
    BY ONLY <2>1, Associative, SMTT(60)
  <2>4. (told \o one) \o h = told \o (one \o h)
    BY ONLY <2>1, Associative, SMTT(60)
  <2>5. (x \o h) \o more = x \o (h \o more)
    BY ONLY <2>1, Associative, SMTT(60)
  <2> QED
    BY <1>6, <1>7, <1>8, <2>2, <2>3, <2>4, <2>5
<1>12. Full(held) <=> b[1] \in Kinds
  BY <1>9 DEF Full
<1>13. /\ Len(x) = Len(told) + 1 /\ Len(told) \in Nat
       /\ \A i : ~FieldAt(x, i)
  <2>1. told \in Seq(Pieces) /\ one \in Seq(Pieces) /\ x = told \o one
    BY <1>4, <1>8
  <2>2. Len(x) = Len(told) + Len(one) /\ Len(told) \in Nat
    BY ONLY <2>1, Cat
  <2> QED
    BY <1>4, <2>2 DEF Plain
<1>14. CASE b[1] \in Kinds
  <2>1. Observe(s, b) = Drain(u)
    BY <1>5, <1>12, <1>14
  <2>2. /\ u \in ParserState /\ u.buffer = y /\ u.sseMode = TRUE
        /\ u.terminal = "none" /\ Out(u) = out /\ u.lineStart = TRUE
    BY <1>1, <1>2, <1>10, <1>11 DEF ParserState, Out
  <2> HIDE DEF u
  <2>3. FieldAt(z, Len(told) + 1)
    <3>1. StartAt(Ends(told), y, 1) /\ 1 \in 1..(Len(y) - 1)
      BY <1>8, <1>10, <1>14 DEF StartAt
    <3> QED
      BY <1>10, <1>11, <3>1, FieldsOfConcat
  <2>4. \A i \in 1..Len(told) : ~FieldAt(z, i)
    <3> SUFFICES ASSUME NEW i \in 1..Len(told), FieldAt(z, i) PROVE FALSE
      OBVIOUS
    <3>1. ~(i = Len(x)) /\ ~(i - Len(x) \in 1..(Len(b) - 1))
      BY <1>10, <1>13
    <3> QED
      BY <1>6, <1>13, <3>1, FieldsOfConcat
  <2>5. Split(z, told, y)
    BY <1>10, <1>11, <2>3, <2>4 DEF Split
  <2>6. Parsing(z, pre, Drain(u))
    BY <1>3, <2>2, <2>5, ParsingStarts
  <2> QED
    BY <2>1, <2>6 DEF Reads, z
<1>15. CASE b[1] \notin Kinds
  <2> DEFINE x1 == x \o h
  <2>1. Observe(s, b) = Search(s1, more)
    BY <1>5, <1>12, <1>15
  <2>2. /\ s0 \in ParserState /\ s0.buffer = <<>> /\ s0.sseMode = FALSE
        /\ s0.terminal = "none" /\ Out(s0) = out /\ s0.lineStart = TRUE
    BY <1>1, <1>2, EmptySeq, WithBuffer
  <2> HIDE DEF s0
  <2>3. /\ s1 \in ParserState /\ s1.buffer = <<>> /\ s1.sseMode = FALSE
        /\ s1.terminal = "none" /\ Out(s1) = out \o held
        /\ s1.lineStart = After(TRUE, held)
    BY <1>9, <2>2, PassThroughFacts
  <2> HIDE DEF s1
  <2>4. x1 = told \o held /\ x1 \o more = z
    BY <1>11
  <2> HIDE DEF x1
  <2>5. x1 \in Seq(Pieces)
    BY <1>9, <2>4, ConcatProperties
  <2>6. pre \o Out(s1) = x1
    <3>1. pre \in Seq(Pieces) /\ out \in Seq(Pieces) /\ held \in Seq(Pieces)
      BY <1>9
    <3>2. (pre \o out) \o held = pre \o (out \o held)
      BY ONLY <3>1, Associative, SMTT(60)
    <3> QED
      BY <1>3, <2>3, <2>4, <3>2
  <2>7. x1 \o <<>> = x1
    BY <2>5, ConcatEmptySeq
  <2>8. s1.lineStart = Ends(x1)
    <3>1. After(Ends(told), held) = Ends(x1)
      BY <1>9, <2>4, EndsAfter
    <3>2. After(TRUE, held) = After(Ends(told), held)
      BY <1>9 DEF After
    <3> QED
      BY <2>3, <3>1, <3>2
  <2>9. \A i : ~FieldAt(x1, i)
    <3> SUFFICES ASSUME NEW i, FieldAt(x1, i) PROVE FALSE
      OBVIOUS
    <3>1. ~FieldAt(told, i)
      BY <1>4, <1>8, <1>13, FieldsOfConcat
    <3>2. ~Dangling(told)
      BY <1>8, NotDangling
    <3>3. i - Len(told) \in 1..(Len(held) - 1) /\ StartAt(Ends(told), held, i - Len(told))
      BY <1>9, <2>4, <3>1, <3>2, FieldsOfConcat
    <3>4. i - Len(told) = 1
      BY <1>9, <3>3
    <3> QED
      BY <1>9, <1>15, <3>3, <3>4 DEF StartAt
  <2>10. ~Dangling(x1)
    <3> SUFFICES ASSUME Dangling(x1) PROVE FALSE
      OBVIOUS
    <3>1. StartAt(Ends(told), held, Len(held))
      BY <1>9, <2>4, DanglingOfConcat
    <3> QED
      BY <1>9, <3>1, DaEndsNothing DEF StartAt
  <2>11. Plain(x1, pre, s1)
    BY <2>3, <2>6, <2>7, <2>8, <2>9, <2>10 DEF Plain
  <2>12. Reads(x1 \o more, pre, Search(s1, more))
    BY <1>7, <2>3, <2>5, <2>11, SearchReads
  <2> QED
    BY <2>1, <2>4, <2>12 DEF z
<1> QED
  BY <1>14, <1>15

LEMMA SplitEnds ==
  ASSUME NEW x, NEW a, NEW y, Split(x, a, y)
  PROVE  Ends(a)
<1>1. a \in Seq(Pieces) /\ y \in Seq(Pieces) /\ x = a \o y
  BY DEF Split
<1>2. Len(a) \in Nat /\ \A i \in 1..Len(a) : x[i] = a[i]
  BY ONLY <1>1, Cat
<1>3. Len(a) + 1 = 1 \/ EndsLine(x[(Len(a) + 1) - 1])
  BY DEF Split, FieldAt
<1>4. CASE Len(a) = 0
  <2>1. a = <<>>
    BY <1>1, <1>4, EmptySeq
  <2> QED
    BY <2>1 DEF Ends, After
<1>5. CASE Len(a) # 0
  <2>1. EndsLine(x[Len(a)])
    <3>1. (Len(a) + 1) - 1 = Len(a) /\ Len(a) + 1 # 1
      BY <1>2, <1>5
    <3> QED
      BY <1>3, <3>1
  <2>2. x[Len(a)] = a[Len(a)]
    BY <1>2, <1>5
  <2> QED
    BY <2>1, <2>2 DEF Ends, After, Last
<1> QED
  BY <1>4, <1>5

\* What the client has been given of x, and what it has not.
Told(x, pre, s, told, rest) ==
  /\ told = pre \o Out(s) /\ told \o rest = x
  /\ s.terminal = "none" => s.buffer = rest
  /\ s.terminal # "none" => s.buffer = <<>>
  /\ s.sseMode => Ends(told)
  /\ ~s.sseMode => s.terminal = "none" /\ s.buffer \in {<<>>, <<"da">>}

LEMMA ReadsFacts ==
  ASSUME NEW pre \in Seq(Pieces), NEW s, NEW x, Reads(x, pre, s)
  PROVE  /\ s \in ParserState
         /\ \E told, rest \in Seq(Pieces) : Told(x, pre, s, told, rest)
<1>1. CASE Plain(x, pre, s)
  <2>1. s \in ParserState /\ s.terminal = "none" /\ ~s.sseMode /\ s.buffer \in {<<>>, <<"da">>}
    BY <1>1 DEF Plain
  <2>2. PICK rest \in Seq(Pieces) : rest = s.buffer
    BY <2>1 DEF ParserState
  <2>3. PICK out \in Seq(Pieces) : out = Out(s)
    BY <2>1, OutType
  <2>4. PICK told \in Seq(Pieces) : told = pre \o out
    BY ConcatProperties
  <2>5. told \o rest = x
    BY <1>1, <2>2, <2>3, <2>4 DEF Plain
  <2>6. Told(x, pre, s, told, rest)
    BY <2>1, <2>2, <2>3, <2>4, <2>5 DEF Told
  <2> QED
    BY <2>1, <2>6
<1>2. CASE Parsing(x, pre, s)
  <2>1. PICK a, y : Split(x, a, y) /\ Ahead(pre, Drain(Opening(a, y)), s)
    BY <1>2 DEF Parsing
  <2> DEFINE o == Opening(a, y)
             d == Drain(o)
  <2>2. a \in Seq(Pieces) /\ y \in Seq(Pieces) /\ x = a \o y
    BY <2>1 DEF Split
  <2>3. o \in ParserState /\ Out(o) = a
    BY <2>2, OpeningFacts
  <2>4. o.terminal = "none" /\ o.sseMode = TRUE /\ o.buffer = y
    BY DEF Opening
  <2> HIDE DEF o
  <2>5. Drains(o, d)
    BY <2>3, <2>4, DrainDrains
  <2>6. Ahead(pre, d, s)
    BY <2>1 DEF o
  <2> HIDE DEF d
  <2>7. PICK given, rest \in Seq(Pieces) :
          /\ Out(d) = Out(o) \o given
          /\ given \o rest = o.buffer
          /\ d.terminal = "none" => d.buffer = rest
          /\ given # <<>> => Last(given) = "newline"
    BY <2>5 DEF Drains
  <2>8. s \in ParserState /\ Alike(d, s) /\ Out(d) = pre \o Out(s)
    BY <2>6 DEF Ahead
  <2>9. PICK told \in Seq(Pieces) : told = a \o given
    BY <2>2, ConcatProperties
  <2>10. told = pre \o Out(s)
    BY <2>3, <2>7, <2>8, <2>9
  <2>11. told \o rest = x
    <3>1. a \in Seq(Pieces) /\ given \in Seq(Pieces) /\ rest \in Seq(Pieces)
      BY <2>2
    <3>2. (a \o given) \o rest = a \o (given \o rest)
      BY ONLY <3>1, Associative, SMTT(60)
    <3> QED
      BY <2>2, <2>4, <2>7, <2>9, <3>2
  <2>12. Ends(told)
    <3>1. Ends(a)
      BY <2>1, SplitEnds
    <3>2. After(Ends(a), given) = Ends(told)
      BY <2>2, <2>9, EndsAfter
    <3>3. EndsLine("newline")
      BY DEF EndsLine
    <3> QED
      BY <2>7, <3>1, <3>2, <3>3 DEF After
  <2>13. d.sseMode = TRUE /\ (d.terminal # "none" => d.buffer = <<>>)
    BY <2>4, <2>5 DEF Drains
  <2>14. Told(x, pre, s, told, rest)
    BY <2>7, <2>8, <2>10, <2>11, <2>12, <2>13 DEF Told, Alike
  <2> QED
    BY <2>8, <2>14
<1> QED
  BY <1>1, <1>2 DEF Reads

LEMMA ParsingMode ==
  ASSUME NEW pre, NEW s, NEW x, Parsing(x, pre, s)
  PROVE  s.sseMode = TRUE /\ s \in ParserState
<1>1. PICK a, y : Split(x, a, y) /\ Ahead(pre, Drain(Opening(a, y)), s)
  BY DEF Parsing
<1>2. a \in Seq(Pieces) /\ y \in Seq(Pieces)
  BY <1>1 DEF Split
<1> DEFINE o == Opening(a, y)
<1>3. o \in ParserState /\ o.terminal = "none" /\ o.sseMode = TRUE
  BY <1>2, OpeningFacts DEF Opening
<1> HIDE DEF o
<1>4. Drains(o, Drain(o))
  BY <1>3, DrainDrains
<1>5. Drain(o).sseMode = TRUE
  BY <1>3, <1>4 DEF Drains
<1> QED
  BY <1>1, <1>5 DEF o, Ahead, Alike

\* A chunk more.
LEMMA ObserveReads ==
  ASSUME NEW pre \in Seq(Pieces), NEW s, NEW x \in Seq(Pieces), NEW b \in Seq(Pieces),
         Reads(x, pre, s), s.terminal = "none"
  PROVE  Reads(x \o b, pre, Observe(s, b))
<1>1. CASE b = <<>>
  <2>1. x \o b = x
    BY <1>1, ConcatEmptySeq
  <2>2. Observe(s, b) = s
    BY <1>1 DEF Observe
  <2> QED
    BY <2>1, <2>2
<1>2. CASE b # <<>> /\ Parsing(x, pre, s)
  <2>1. s.sseMode = TRUE
    BY <1>2, ParsingMode
  <2>2. Observe(s, b) = Drain(Later(s, b))
    BY <1>2, <2>1 DEF Observe, Later
  <2>3. Parsing(x \o b, pre, Drain(Later(s, b)))
    BY <1>2, ParsingGoesOn
  <2> QED
    BY <2>2, <2>3 DEF Reads
<1>3. CASE b # <<>> /\ Plain(x, pre, s) /\ s.buffer = <<>>
  <2>1. ~s.sseMode
    BY <1>3 DEF Plain
  <2>2. Observe(s, b) = Search(s, b)
    BY <1>3, <2>1 DEF Observe
  <2> QED
    BY <1>3, <2>2, SearchReads
<1>4. CASE b # <<>> /\ Plain(x, pre, s) /\ s.buffer # <<>>
  <2>1. s.buffer = <<"da">>
    BY <1>4 DEF Plain
  <2> QED
    BY <1>4, <2>1, HeldReads
<1> QED
  BY <1>1, <1>2, <1>3, <1>4 DEF Reads

\* The parser after the body x in one piece.
Fresh ==
  [buffer |-> <<>>, lineStart |-> TRUE, sseMode |-> FALSE, terminal |-> "none", output |-> <<>>]

Whole(x) == Observe(Fresh, x)

LEMMA FreshReads == Reads(<<>>, <<>>, Fresh)
<1> DEFINE none == <<>>
<1>1. none \in Seq(Pieces) /\ none \in Seq(Seq(Pieces)) /\ Len(none) = 0 /\ none \o none = none
  BY EmptySeq, ConcatEmptySeq
<1>2. FlattenSeq(none) = none
  BY FlattenNone
<1>3. Fresh = [buffer |-> none, lineStart |-> TRUE, sseMode |-> FALSE, terminal |-> "none", output |-> none]
  BY DEF Fresh
<1>4. ~Dangling(none) /\ Ends(none)
  BY DEF Dangling, Ends, After
<1> HIDE DEF none
<1>5. \A i : ~FieldAt(none, i)
  BY <1>1 DEF FieldAt
<1>6. Fresh \in ParserState
  BY <1>1, <1>3 DEF ParserState
<1>7. Fresh.buffer = none /\ Fresh.lineStart = TRUE /\ Fresh.sseMode = FALSE
      /\ Fresh.terminal = "none" /\ Out(Fresh) = none
  BY <1>2, <1>3 DEF Out
<1>8. Plain(none, none, Fresh)
  BY <1>1, <1>4, <1>5, <1>6, <1>7 DEF Plain, none
<1> QED
  BY <1>8 DEF none, Reads

LEMMA WholeReads ==
  ASSUME NEW x \in Seq(Pieces)
  PROVE  Reads(x, <<>>, Whole(x))
<1> DEFINE none == <<>>
<1>1. none \in Seq(Pieces) /\ none \o x = x
  BY EmptySeq, ConcatEmptySeq
<1>2. Reads(none, none, Fresh)
  BY FreshReads
<1>3. Fresh.terminal = "none"
  BY DEF Fresh
<1> HIDE DEF none
<1>4. Reads(none \o x, none, Observe(Fresh, x))
  BY <1>1, <1>2, <1>3, ObserveReads
<1> QED
  BY <1>1, <1>4 DEF Whole, none

LEMMA HeldDangles ==
  ASSUME NEW a \in Seq(Pieces), Ends(a), NEW z, z = a \o <<"da">>
  PROVE  Dangling(z)
<1> DEFINE one == <<"da">>
<1>1. one \in Seq(Pieces) /\ Len(one) = 1 /\ one[1] = "da"
  BY DaEndsNothing
<1>2. z = a \o one
  OBVIOUS
<1> HIDE DEF one
<1>3. /\ Len(a) \in Nat /\ Len(z) = Len(a) + 1 /\ z \in Seq(Pieces)
      /\ \A i \in 1..Len(a) : z[i] = a[i]
      /\ \A i \in (Len(a) + 1)..Len(z) : z[i] = one[i - Len(a)]
  <2>1. a \in Seq(Pieces) /\ one \in Seq(Pieces) /\ z = a \o one
    BY <1>1, <1>2
  <2>2. /\ Len(a) \in Nat /\ Len(z) = Len(a) + Len(one) /\ z \in Seq(Pieces)
        /\ \A i \in 1..Len(a) : z[i] = a[i]
        /\ \A i \in (Len(a) + 1)..Len(z) : z[i] = one[i - Len(a)]
    BY ONLY <2>1, Cat
  <2> QED
    BY <1>1, <2>2
<1>4. z[Len(z)] = "da"
  BY <1>1, <1>3
<1>5. z # <<>>
  <2>1. z \in Seq(Pieces) /\ Len(z) # 0
    BY <1>3
  <2> QED
    BY ONLY <2>1, EmptySeq
<1>6. Len(z) = 1 \/ EndsLine(z[Len(z) - 1])
  <2>1. CASE a = <<>>
    <3>1. Len(a) = 0
      BY <2>1, EmptySeq
    <3> QED
      BY <1>3, <3>1
  <2>2. CASE a # <<>>
    <3>1. Len(a) # 0 /\ EndsLine(a[Len(a)])
      BY <2>2, EmptySeq DEF Ends, After, Last
    <3>2. Len(z) - 1 = Len(a) /\ z[Len(a)] = a[Len(a)]
      BY <1>3, <3>1
    <3> QED
      BY <3>1, <3>2
  <2> QED
    BY <2>1, <2>2
<1> QED
  BY <1>4, <1>5, <1>6 DEF Dangling

SameTold(pre, s, qre, t) == pre \o Out(s) = qre \o Out(t)

\* The body determines the parser and what has been given out in all.
LEMMA ReadsUnique ==
  ASSUME NEW pre \in Seq(Pieces), NEW qre \in Seq(Pieces), NEW s, NEW t, NEW x,
         Reads(x, pre, s), Reads(x, qre, t)
  PROVE  Alike(s, t) /\ SameTold(pre, s, qre, t)
<1>1. CASE Plain(x, pre, s) /\ Plain(x, qre, t)
  <2>1. s \in ParserState /\ t \in ParserState
    BY <1>1 DEF Plain
  <2>2. PICK a \in Seq(Pieces) : a = pre \o Out(s)
    BY <2>1, OutType, ConcatProperties
  <2>3. PICK b \in Seq(Pieces) : b = qre \o Out(t)
    BY <2>1, OutType, ConcatProperties
  <2>4. PICK c \in Seq(Pieces), d \in Seq(Pieces) : c = s.buffer /\ d = t.buffer
    BY <2>1 DEF ParserState
  <2>5. /\ (c = <<>> /\ ~Dangling(x)) \/ (c = <<"da">> /\ Ends(a))
        /\ a \o c = x /\ s.lineStart = Ends(a) /\ s.terminal = "none" /\ s.sseMode = FALSE
    BY <1>1, <2>2, <2>4 DEF Plain, ParserState
  <2>6. /\ (d = <<>> /\ ~Dangling(x)) \/ (d = <<"da">> /\ Ends(b))
        /\ b \o d = x /\ t.lineStart = Ends(b) /\ t.terminal = "none" /\ t.sseMode = FALSE
    BY <1>1, <2>3, <2>4 DEF Plain, ParserState
  <2>7. c = d
    <3>1. ASSUME c = <<"da">>
          PROVE  Dangling(x)
      <4>1. a \in Seq(Pieces) /\ Ends(a) /\ x = a \o <<"da">>
        BY <2>5, <3>1
      <4> QED
        BY ONLY <4>1, HeldDangles
    <3>2. ASSUME d = <<"da">>
          PROVE  Dangling(x)
      <4>1. b \in Seq(Pieces) /\ Ends(b) /\ x = b \o <<"da">>
        BY <2>6, <3>2
      <4> QED
        BY ONLY <4>1, HeldDangles
    <3> QED
      BY <2>5, <2>6, <3>1, <3>2
  <2>8. a = b
    BY <2>5, <2>6, <2>7, CancelRight
  <2> QED
    BY <2>2, <2>3, <2>4, <2>5, <2>6, <2>7, <2>8 DEF Alike, SameTold
<1>2. CASE Parsing(x, pre, s) /\ Parsing(x, qre, t)
  <2>1. PICK a, y : Split(x, a, y) /\ Ahead(pre, Drain(Opening(a, y)), s)
    BY <1>2 DEF Parsing
  <2>2. PICK b, z : Split(x, b, z) /\ Ahead(qre, Drain(Opening(b, z)), t)
    BY <1>2 DEF Parsing
  <2>3. a = b /\ y = z
    BY <2>1, <2>2, SplitUnique
  <2> QED
    BY <2>1, <2>2, <2>3 DEF Ahead, Alike, SameTold
<1>3. ASSUME NEW p, NEW q, NEW u, NEW v, Plain(x, p, u), Parsing(x, q, v)
      PROVE  FALSE
  BY <1>3 DEF Plain, Parsing, Split
<1> QED
  BY <1>1, <1>2, <1>3 DEF Reads

LEMMA ReadsOtherwise ==
  ASSUME NEW pre \in Seq(Pieces), NEW qre \in Seq(Pieces), NEW s, NEW t \in ParserState, NEW x,
         Reads(x, pre, s), Alike(s, t), pre \o Out(s) = qre \o Out(t)
  PROVE  Reads(x, qre, t)
<1>1. CASE Plain(x, pre, s)
  BY <1>1 DEF Plain, Reads, Alike
<1>2. CASE Parsing(x, pre, s)
  BY <1>2 DEF Parsing, Reads, Ahead, Alike
<1> QED
  BY <1>1, <1>2 DEF Reads

\* A chunk more keeps the parser where the whole body would have brought it.
LEMMA ChunkStep ==
  ASSUME NEW x \in Seq(Pieces), NEW b \in Seq(Pieces), NEW s \in ParserState, Out(s) = <<>>,
         Alike(s, Whole(x)), s.terminal = "none"
  PROVE  LET t == Observe(s, b)
         IN  /\ t \in ParserState /\ Alike(t, Whole(x \o b))
             /\ Out(Whole(x \o b)) = Out(Whole(x)) \o Out(t)
<1> DEFINE none == <<>>
           w == Whole(x)
           z == x \o b
           v == Whole(z)
           t == Observe(s, b)
<1>1. none \in Seq(Pieces)
  BY EmptySeq
<1>2. z \in Seq(Pieces)
  BY ConcatProperties
<1>3. Reads(x, none, w) /\ Reads(z, none, v)
  BY <1>2, WholeReads
<1>4. Alike(w, s) /\ Out(s) = none
  BY DEF Alike
<1>5. z = x \o b
  OBVIOUS
<1> HIDE DEF none, w, z, v
<1>6. w \in ParserState /\ v \in ParserState
  BY <1>1, <1>3, ReadsFacts
<1>7. PICK out \in Seq(Pieces) : out = Out(w)
  BY <1>6, OutType
<1>8. none \o out = out /\ out \o none = out /\ none \o Out(v) = Out(v)
  BY <1>6, OutType, ConcatEmptySeq DEF none
<1>9. Reads(x, out, s)
  <2>1. none \o Out(w) = out \o Out(s)
    BY <1>4, <1>7, <1>8
  <2> QED
    BY <1>1, <1>3, <1>4, <2>1, ReadsOtherwise
<1>10. Reads(z, out, t)
  BY <1>5, <1>9, ObserveReads
<1> HIDE DEF t
<1>11. t \in ParserState
  BY <1>10, ReadsFacts
<1>12. Alike(t, v) /\ out \o Out(t) = none \o Out(v)
  <2>1. /\ out \in Seq(Pieces) /\ none \in Seq(Pieces)
        /\ Reads(z, out, t) /\ Reads(z, none, v)
    BY <1>1, <1>3, <1>10
  <2>2. Alike(t, v) /\ SameTold(out, t, none, v)
    BY ONLY <2>1, ReadsUnique
  <2> QED
    BY <2>2 DEF SameTold
<1> QED
  BY <1>7, <1>8, <1>11, <1>12 DEF t, v, z, w

-----------------------------------------------------------------------------
(* The end of the body *)

\* A complete line is left over.
LineLeft(s) ==
  s.terminal = "none" /\ s.sseMode /\ s.buffer # <<>> /\ EndsLine(Last(s.buffer))

LEMMA EofCases ==
  ASSUME NEW s \in ParserState
  PROVE  /\ ~LineLeft(s) => ObserveEof(s) = s
         /\ LineLeft(s) =>
              LET e == ObserveEof(s)
              IN  /\ e \in ParserState
                  /\ e.buffer = <<>> /\ e.lineStart = s.lineStart /\ e.sseMode = s.sseMode
                  /\ Out(e) = Out(s) \o s.buffer
                  /\ e.terminal = IF Kind(s.buffer) \in Terminals THEN Kind(s.buffer)
                                  ELSE s.terminal
<1> DEFINE none == <<>>
           t == [s EXCEPT !.buffer = none]
           e == Consume(t, s.buffer)
<1>1. CASE ~LineLeft(s)
  BY <1>1 DEF LineLeft, ObserveEof
<1>2. CASE LineLeft(s)
  <2>1. ObserveEof(s) = e
    BY <1>2 DEF LineLeft, ObserveEof
  <2>2. none \in Seq(Pieces) /\ s.buffer \in Seq(Pieces)
    BY EmptySeq DEF ParserState
  <2> HIDE DEF none
  <2>3. /\ t \in ParserState /\ t.buffer = none /\ Out(t) = Out(s)
        /\ t.lineStart = s.lineStart /\ t.sseMode = s.sseMode /\ t.terminal = s.terminal
    BY <2>2, WithBuffer
  <2> HIDE DEF t
  <2>4. /\ e \in ParserState
        /\ e.buffer = t.buffer /\ e.lineStart = t.lineStart /\ e.sseMode = t.sseMode
        /\ Out(e) = Out(t) \o s.buffer
        /\ e.terminal = IF Kind(s.buffer) \in Terminals THEN Kind(s.buffer) ELSE t.terminal
    BY <2>2, <2>3, ConsumeFacts
  <2> HIDE DEF e
  <2> QED
    BY <1>2, <2>1, <2>3, <2>4 DEF none
<1> QED
  BY <1>1, <1>2

LEMMA AheadEof ==
  ASSUME NEW pre \in Seq(Pieces), NEW s, NEW t, Ahead(pre, s, t)
  PROVE  Ahead(pre, ObserveEof(s), ObserveEof(t))
<1>1. /\ s \in ParserState /\ t \in ParserState /\ Out(s) = pre \o Out(t)
      /\ s.buffer = t.buffer /\ s.lineStart = t.lineStart
      /\ s.sseMode = t.sseMode /\ s.terminal = t.terminal
  BY DEF Ahead, Alike
<1>2. LineLeft(s) <=> LineLeft(t)
  BY <1>1 DEF LineLeft
<1>3. CASE ~LineLeft(s)
  BY <1>1, <1>2, <1>3, EofCases
<1>4. CASE LineLeft(s)
  <2> DEFINE u == ObserveEof(s)
             v == ObserveEof(t)
  <2>1. PICK b \in Seq(Pieces) : b = s.buffer
    BY <1>1 DEF ParserState
  <2>2. PICK out \in Seq(Pieces) : out = Out(t)
    BY <1>1, OutType
  <2>3. /\ u \in ParserState
        /\ u.buffer = <<>> /\ u.lineStart = s.lineStart /\ u.sseMode = s.sseMode
        /\ Out(u) = Out(s) \o b
        /\ u.terminal = IF Kind(b) \in Terminals THEN Kind(b) ELSE s.terminal
    BY <1>1, <1>4, <2>1, EofCases
  <2>4. /\ v \in ParserState
        /\ v.buffer = <<>> /\ v.lineStart = t.lineStart /\ v.sseMode = t.sseMode
        /\ Out(v) = Out(t) \o b
        /\ v.terminal = IF Kind(b) \in Terminals THEN Kind(b) ELSE t.terminal
    BY <1>1, <1>2, <1>4, <2>1, EofCases
  <2> HIDE DEF u, v
  <2>5. (pre \o out) \o b = pre \o (out \o b)
    <3>1. pre \in Seq(Pieces) /\ out \in Seq(Pieces) /\ b \in Seq(Pieces)
      OBVIOUS
    <3> QED
      BY ONLY <3>1, Associative, SMTT(60)
  <2>6. Alike(u, v)
    BY <1>1, <2>3, <2>4 DEF Alike
  <2>7. Out(u) = pre \o Out(v)
    BY <1>1, <2>2, <2>3, <2>4, <2>5
  <2>8. Ahead(pre, u, v)
    BY <2>3, <2>4, <2>6, <2>7 DEF Ahead
  <2> QED
    BY <2>8 DEF u, v
<1> QED
  BY <1>3, <1>4

\* While the stream is open nothing is left to be passed on when it is cut short.
LEMMA FlushFacts ==
  ASSUME NEW s \in ParserState, ~s.sseMode => s.buffer \in {<<>>, <<"da">>}
  PROVE  LET t == Flush(s)
         IN  /\ t.output = s.output /\ t.terminal = s.terminal /\ t.sseMode = s.sseMode
             /\ t.lineStart = s.lineStart /\ t.buffer = <<>>
<1>1. (IF s.sseMode \/ Partial(s.buffer) THEN s ELSE Emit(s, s.buffer)) = s
  BY DEF Partial, Emit
<1>2. Flush(s) = [s EXCEPT !.buffer = <<>>]
  BY <1>1 DEF Flush
<1> QED
  BY <1>2 DEF ParserState

\* How a body that came in one piece may have ended.
LEMMA EndFacts ==
  ASSUME NEW x \in Seq(Pieces), NEW s \in {Whole(x), ObserveEof(Whole(x))}
  PROVE  /\ s \in ParserState
         /\ Out(s) \in Seq(Pieces)
         /\ \E rest \in Seq(Pieces) : Out(s) \o rest = x
         /\ s.sseMode => Ends(Out(s))
<1> DEFINE none == <<>>
           w == Whole(x)
<1>1. none \in Seq(Pieces) /\ Reads(x, none, w)
  BY EmptySeq, WholeReads
<1> HIDE DEF w
<1>2. w \in ParserState
  BY <1>1, ReadsFacts
<1>3. PICK told \in Seq(Pieces), rest \in Seq(Pieces) : Told(x, none, w, told, rest)
  BY <1>1, ReadsFacts
<1>4. /\ told = Out(w) /\ told \o rest = x
      /\ w.terminal = "none" => w.buffer = rest
      /\ w.sseMode => Ends(told)
  <2>1. none \o Out(w) = Out(w)
    BY <1>2, OutType, ConcatEmptySeq
  <2> QED
    BY <1>3, <2>1 DEF Told
<1>5. CASE s = w
  BY <1>2, <1>4, <1>5
<1>6. CASE s # w
  <2>1. s = ObserveEof(w)
    BY <1>6 DEF w
  <2>2. LineLeft(w)
    BY <1>2, <1>6, <2>1, EofCases
  <2>3. w.buffer = rest /\ rest # <<>> /\ EndsLine(Last(rest)) /\ w.sseMode
    BY <1>4, <2>2 DEF LineLeft
  <2>4. s \in ParserState /\ Out(s) = told \o rest
    BY <1>2, <1>4, <2>1, <2>2, <2>3, EofCases
  <2>5. Ends(x)
    <3>1. After(Ends(told), rest) = Ends(told \o rest)
      BY EndsAfter
    <3> QED
      BY <1>4, <2>3, <3>1 DEF After
  <2>6. x \o none = x
    BY ConcatEmptySeq
  <2> QED
    BY <1>1, <1>4, <2>4, <2>5, <2>6
<1> QED
  BY <1>5, <1>6

-----------------------------------------------------------------------------
(* The stream *)

Bytes == Pieces \cup {Synthetic}

LEMMA PiecesAreBytes ==
  /\ Synthetic \notin Pieces
  /\ \A b \in Seq(Pieces) : b \in Seq(Bytes)
  /\ \A c \in Seq(Seq(Pieces)) : c \in Seq(Seq(Bytes))
<1>1. Synthetic \notin Pieces
  BY DEF Synthetic, Pieces, Kinds
<1>2. Pieces \subseteq Bytes
  BY DEF Bytes
<1>3. \A b \in Seq(Pieces) : b \in Seq(Bytes)
  BY <1>2, SeqMonotonic
<1>4. Seq(Pieces) \subseteq Seq(Bytes)
  BY <1>3
<1>5. \A c \in Seq(Seq(Pieces)) : c \in Seq(Seq(Bytes))
  BY <1>4, SeqMonotonic
<1> QED
  BY <1>1, <1>3, <1>5

\* While the stream goes on, the parser is where the body so far would have
\* brought it in one piece, and nobody has settled unless the client has gone.
GoingInv ==
  ~closing =>
    /\ Alike(Parsed(<<>>), Whole(body))
    /\ Output = Out(Whole(body))
    /\ terminal = "none"
    /\ settlements = IF phase = "open" THEN <<>> ELSE <<"release">>

\* s ended the stream, or nothing did and the gateway had to.
EndsAs(s) ==
  /\ terminal = s.terminal /\ sseMode = s.sseMode
  /\ IF s.terminal = "none"
     THEN Output = Out(s) \o <<Synthetic>> /\ settlements = <<"failure">>
     ELSE Output = Out(s) /\ settlements = <<Verdict(s)>>

EndedInv ==
  closing => \E s \in {Whole(body), ObserveEof(Whole(body))} : EndsAs(s)

GivenInv == phase = "ended" => pending = <<>>

StreamInv == TypeOK /\ GoingInv /\ EndedInv /\ GivenInv

LEMMA ReturnFacts ==
  ASSUME sent \in Seq(Bytes), NEW output \in Seq(Seq(Bytes)), Return(output)
  PROVE  /\ sent' \in Seq(Bytes) /\ pending' \in Seq(Seq(Bytes))
         /\ Output' = sent \o FlattenSeq(output)
         /\ output = <<>> => pending' = <<>>
<1>1. CASE output = <<>>
  BY <1>1, EmptySeq DEF Return, Output
<1>2. CASE output # <<>>
  <2>1. sent' = sent \o Head(output) /\ pending' = Tail(output)
    BY <1>2 DEF Return
  <2>2. PICK h \in Seq(Bytes), t \in Seq(Seq(Bytes)) : h = Head(output) /\ t = Tail(output)
    BY <1>2, HeadTailProperties
  <2>3. PICK f \in Seq(Bytes) : f = FlattenSeq(t)
    BY FlattenType
  <2>4. FlattenSeq(output) = h \o f
    BY <1>2, <2>2, <2>3, FlattenHead
  <2>5. (sent \o h) \o f = sent \o (h \o f)
    <3>1. sent \in Seq(Bytes) /\ h \in Seq(Bytes) /\ f \in Seq(Bytes)
      OBVIOUS
    <3> QED
      BY ONLY <3>1, Associative, SMTT(60)
  <2>6. Output' = (sent \o h) \o f
    BY <2>1, <2>2, <2>3 DEF Output
  <2>7. sent \o h \in Seq(Bytes)
    BY ConcatProperties
  <2> QED
    BY <1>2, <2>1, <2>2, <2>4, <2>5, <2>6, <2>7
<1> QED
  BY <1>1, <1>2

LEMMA NothingPending ==
  ASSUME TypeOK, pending = <<>>
  PROVE  Output = sent
<1>1. sent \in Seq(Bytes)
  BY DEF TypeOK, Bytes
<1>2. sent \o <<>> = sent
  BY <1>1, ConcatEmptySeq
<1> QED
  BY <1>2, FlattenNone DEF Output

LEMMA ParsedType ==
  ASSUME TypeOK
  PROVE  Parsed(<<>>) \in ParserState /\ Out(Parsed(<<>>)) = <<>> /\ Parsed(<<>>).output = <<>>
<1> DEFINE none == <<>>
<1>1. none \in Seq(Seq(Pieces)) /\ FlattenSeq(none) = none
  BY EmptySeq, FlattenNone
<1> HIDE DEF none
<1>2. Parsed(none) \in ParserState
  BY <1>1 DEF TypeOK, Parsed, ParserState
<1>3. Parsed(none).output = none
  BY DEF Parsed
<1> QED
  BY <1>1, <1>2, <1>3 DEF none, Out

LEMMA WaitingFacts ==
  ASSUME StreamInv, Waiting
  PROVE  /\ body \in Seq(Pieces) /\ Parsed(<<>>) \in ParserState
         /\ Out(Parsed(<<>>)) = <<>> /\ Parsed(<<>>).output = <<>>
         /\ Alike(Parsed(<<>>), Whole(body))
         /\ Output = sent /\ sent = Out(Whole(body))
         /\ terminal = "none" /\ settlements = <<>>
         /\ ~sseMode => buffer \in {<<>>, <<"da">>}
         /\ Output \o buffer = body
<1> DEFINE none == <<>>
           w == Whole(body)
           p == Parsed(<<>>)
<1>1. body \in Seq(Pieces) /\ ~closing /\ phase = "open" /\ pending = <<>>
  BY DEF StreamInv, TypeOK, Waiting
<1>2. p \in ParserState /\ Out(p) = <<>> /\ p.output = <<>>
  BY ParsedType DEF StreamInv
<1>3. Output = sent
  BY <1>1, NothingPending DEF StreamInv
<1>4. Alike(p, w) /\ Output = Out(w) /\ terminal = "none" /\ settlements = <<>>
  BY <1>1 DEF StreamInv, GoingInv
<1>5. p.sseMode = sseMode /\ p.buffer = buffer /\ p.terminal = terminal
  BY DEF Parsed
<1> HIDE DEF p, w
<1>6. none \in Seq(Pieces) /\ Reads(body, none, w)
  BY <1>1, EmptySeq, WholeReads DEF w
<1>7. w \in ParserState
  BY <1>6, ReadsFacts
<1>8. PICK told \in Seq(Pieces), rest \in Seq(Pieces) : Told(body, none, w, told, rest)
  BY <1>6, ReadsFacts
<1>9. none \o Out(w) = Out(w)
  BY <1>7, OutType, ConcatEmptySeq
<1>10. (~sseMode => buffer \in {<<>>, <<"da">>}) /\ Output \o buffer = body
  BY <1>4, <1>5, <1>8, <1>9 DEF Told, Alike
<1> QED
  BY <1>1, <1>2, <1>3, <1>4, <1>10 DEF p, w

\* Nothing that the invariants look at has changed.
LEMMA StreamStutters ==
  ASSUME GoingInv, EndedInv, body' = body, parser' = parser, closing' = closing,
         Output' = Output, settlements' = settlements,
         phase' = phase \/ closing
  PROVE  GoingInv' /\ EndedInv'
<1>1. /\ buffer' = buffer /\ lineStart' = lineStart
      /\ sseMode' = sseMode /\ terminal' = terminal
  BY DEF parser
<1>2. GoingInv'
  BY <1>1 DEF GoingInv, Parsed, Alike
<1>3. EndedInv'
  BY <1>1 DEF EndedInv, EndsAs
<1> QED
  BY <1>2, <1>3

LEMMA StreamInit ==
  ASSUME Init
  PROVE  StreamInv
<1> DEFINE none == <<>>
<1>1. /\ none \in Seq(Pieces) /\ none \in Seq(Bytes) /\ none \in Seq(Seq(Bytes))
      /\ none \in Seq({"success", "failure", "release"})
      /\ Len(none) = 0 /\ none \o none = none
  BY EmptySeq, ConcatEmptySeq
<1>2. FlattenSeq(none) = none
  BY FlattenNone
<1>3. /\ body = none /\ buffer = none /\ lineStart = TRUE /\ sseMode = FALSE
      /\ terminal = "none" /\ pending = none /\ closing = FALSE
      /\ sent = none /\ settlements = none /\ phase = "open"
  BY DEF Init
<1>4. Whole(none) = Fresh
  BY DEF Whole, Observe, Fresh
<1>5. /\ Fresh.buffer = none /\ Fresh.lineStart = TRUE /\ Fresh.sseMode = FALSE
      /\ Fresh.terminal = "none" /\ Out(Fresh) = none
  BY <1>2 DEF Fresh, Out
<1>6. Parsed(<<>>).buffer = none /\ Parsed(<<>>).lineStart = TRUE
      /\ Parsed(<<>>).sseMode = FALSE /\ Parsed(<<>>).terminal = "none"
  BY <1>3 DEF Parsed
<1> HIDE DEF none
<1>7. TypeOK
  <2>1. body \in Seq(Pieces) /\ buffer \in Seq(Pieces) /\ Len(body) <= MaxPieces
    BY <1>1, <1>3, StreamAssumption
  <2>2. /\ pending \in Seq(Seq(Pieces \cup {Synthetic}))
        /\ sent \in Seq(Pieces \cup {Synthetic})
        /\ settlements \in Seq({"success", "failure", "release"})
    BY <1>1, <1>3 DEF Bytes
  <2> QED
    BY <1>3, <2>1, <2>2 DEF TypeOK
<1>8. Output = none
  BY <1>1, <1>2, <1>3 DEF Output
<1>9. GoingInv
  BY <1>3, <1>4, <1>5, <1>6, <1>8 DEF GoingInv, Alike, none
<1>10. EndedInv /\ GivenInv
  BY <1>3 DEF EndedInv, GivenInv, none
<1> QED
  BY <1>7, <1>9, <1>10 DEF StreamInv

LEMMA PollPendingKeeps ==
  ASSUME StreamInv, PollPending
  PROVE  StreamInv'
<1>1. /\ phase = "open" /\ Return(pending) /\ body' = body /\ parser' = parser
      /\ closing' = closing /\ settlements' = settlements /\ phase' = phase
  BY DEF PollPending
<1>2. pending \in Seq(Seq(Bytes)) /\ sent \in Seq(Bytes)
  BY DEF StreamInv, TypeOK, Bytes
<1>3. sent' \in Seq(Bytes) /\ pending' \in Seq(Seq(Bytes)) /\ Output' = sent \o FlattenSeq(pending)
  BY <1>1, <1>2, ReturnFacts
<1>4. Output' = Output
  BY <1>3 DEF Output
<1>5. TypeOK'
  BY <1>1, <1>3 DEF StreamInv, TypeOK, parser, Bytes
<1>6. GoingInv' /\ EndedInv'
  BY <1>1, <1>4, StreamStutters DEF StreamInv
<1>7. GivenInv'
  BY <1>1 DEF GivenInv
<1> QED
  BY <1>5, <1>6, <1>7 DEF StreamInv

LEMMA PollEndKeeps ==
  ASSUME StreamInv, PollEnd
  PROVE  StreamInv'
<1>1. /\ phase = "open" /\ pending = <<>> /\ closing /\ phase' = "ended"
      /\ body' = body /\ parser' = parser /\ pending' = pending /\ closing' = closing
      /\ sent' = sent /\ settlements' = settlements
  BY DEF PollEnd
<1>2. Output' = Output
  BY <1>1 DEF Output
<1>3. TypeOK'
  BY <1>1 DEF StreamInv, TypeOK, parser
<1>4. GoingInv' /\ EndedInv'
  BY <1>1, <1>2, StreamStutters DEF StreamInv
<1>5. GivenInv'
  BY <1>1 DEF GivenInv
<1> QED
  BY <1>3, <1>4, <1>5 DEF StreamInv

LEMMA OneIsSome ==
  ASSUME NEW e
  PROVE  <<e>> # <<>>
  OBVIOUS

Outcomes == {"success", "failure", "release"}

LEMMA SettleFacts ==
  ASSUME TypeOK, NEW how \in Outcomes, Settle(how)
  PROVE  /\ settlements' \in Seq(Outcomes)
         /\ settlements = <<>> => settlements' = <<how>>
         /\ settlements # <<>> => settlements' = settlements
<1>1. settlements \in Seq(Outcomes)
  BY DEF TypeOK, Outcomes
<1>2. <<how>> \in Seq(Outcomes)
  OBVIOUS
<1> QED
  BY <1>1, <1>2 DEF Settle

LEMMA PollShutdownKeeps ==
  ASSUME StreamInv, PollShutdown
  PROVE  StreamInv'
<1>1. /\ Waiting /\ Settle("release") /\ phase' = "ended"
      /\ body' = body /\ parser' = parser /\ pending' = pending /\ closing' = closing
      /\ sent' = sent
  BY DEF PollShutdown
<1>2. phase = "open" /\ pending = <<>> /\ closing = FALSE /\ TypeOK
  BY <1>1 DEF Waiting, StreamInv, TypeOK
<1>3. settlements = <<>>
  BY <1>1, WaitingFacts
<1>4. settlements' = <<"release">> /\ settlements' \in Seq(Outcomes)
  BY <1>1, <1>2, <1>3, SettleFacts DEF Outcomes
<1>5. Output' = Output
  BY <1>1 DEF Output
<1>6. TypeOK'
  BY <1>1, <1>2, <1>4 DEF TypeOK, parser, Outcomes
<1>7. /\ buffer' = buffer /\ lineStart' = lineStart
      /\ sseMode' = sseMode /\ terminal' = terminal
  BY <1>1 DEF parser
<1>8. GoingInv'
  BY <1>1, <1>2, <1>4, <1>5, <1>7 DEF StreamInv, GoingInv, Parsed, Alike
<1>9. EndedInv' /\ GivenInv'
  BY <1>1, <1>2 DEF EndedInv, GivenInv
<1> QED
  BY <1>6, <1>8, <1>9 DEF StreamInv

LEMMA DropStreamKeeps ==
  ASSUME StreamInv, DropStream
  PROVE  StreamInv'
<1> DEFINE how == IF terminal = "none" THEN "release" ELSE Verdict(Parsed(<<>>))
<1>1. /\ phase # "dropped" /\ phase' = "dropped" /\ Settle(how)
      /\ body' = body /\ parser' = parser /\ pending' = pending /\ closing' = closing
      /\ sent' = sent
  BY DEF DropStream
<1>2. TypeOK /\ closing \in BOOLEAN /\ phase \in {"open", "ended", "dropped"}
  BY DEF StreamInv, TypeOK
<1>3. how \in Outcomes /\ (terminal = "none" => how = "release")
  BY DEF Outcomes, Verdict
<1> HIDE DEF how
<1>4. /\ settlements' \in Seq(Outcomes)
      /\ settlements = <<>> => settlements' = <<how>>
      /\ settlements # <<>> => settlements' = settlements
  BY <1>1, <1>2, <1>3, SettleFacts
<1>5. Output' = Output
  BY <1>1 DEF Output
<1>6. TypeOK'
  BY <1>1, <1>2, <1>4 DEF TypeOK, parser, Outcomes
<1>7. GivenInv'
  BY <1>1 DEF GivenInv
<1>8. CASE closing
  <2>1. settlements # <<>>
    <3>1. PICK s : EndsAs(s)
      BY <1>8 DEF StreamInv, EndedInv
    <3>2. settlements = <<"failure">> \/ settlements = <<Verdict(s)>>
      BY <3>1 DEF EndsAs
    <3> QED
      BY <3>2, OneIsSome
  <2>2. GoingInv' /\ EndedInv'
    BY <1>1, <1>4, <1>5, <1>8, <2>1, StreamStutters DEF StreamInv
  <2> QED
    BY <1>6, <1>7, <2>2 DEF StreamInv
<1>9. CASE ~closing
  <2>1. terminal = "none" /\ settlements = IF phase = "open" THEN <<>> ELSE <<"release">>
    BY <1>9 DEF StreamInv, GoingInv
  <2>2. settlements' = <<"release">>
    BY <1>3, <1>4, <2>1
  <2>3. /\ buffer' = buffer /\ lineStart' = lineStart
        /\ sseMode' = sseMode /\ terminal' = terminal
    BY <1>1 DEF parser
  <2>4. GoingInv'
    BY <1>1, <1>5, <1>9, <2>2, <2>3 DEF StreamInv, GoingInv, Parsed, Alike
  <2>5. EndedInv'
    BY <1>1, <1>9 DEF EndedInv
  <2> QED
    BY <1>6, <1>7, <2>4, <2>5 DEF StreamInv
<1> QED
  BY <1>8, <1>9

LEMMA BecomesType ==
  ASSUME NEW s \in ParserState, Becomes(s)
  PROVE  /\ buffer' \in Seq(Pieces) /\ lineStart' \in BOOLEAN /\ sseMode' \in BOOLEAN
         /\ terminal' \in {"none"} \cup Terminals
         /\ Alike(Parsed(<<>>)', s)
  BY DEF Becomes, ParserState, Parsed, Alike

LEMMA PollBytesKeeps ==
  ASSUME StreamInv, PollBytes
  PROVE  StreamInv'
<1> DEFINE p == Parsed(<<>>)
<1>1. PICK n \in 1..MaxChunk : \E bytes \in [1..n -> Pieces] :
        /\ Len(body) + n <= MaxPieces
        /\ body' = body \o bytes
        /\ LET s == Observe(p, bytes) IN
           /\ Becomes(s)
           /\ Return(s.output)
           /\ closing' = (s.terminal # "none")
           /\ IF s.terminal # "none" THEN Settle(Verdict(s)) ELSE UNCHANGED settlements
           /\ phase' = IF s.terminal # "none" /\ s.output = <<>> THEN "ended" ELSE "open"
  BY DEF PollBytes
<1>2. PICK bytes \in [1..n -> Pieces] :
        /\ Len(body) + n <= MaxPieces
        /\ body' = body \o bytes
        /\ LET s == Observe(p, bytes) IN
           /\ Becomes(s)
           /\ Return(s.output)
           /\ closing' = (s.terminal # "none")
           /\ IF s.terminal # "none" THEN Settle(Verdict(s)) ELSE UNCHANGED settlements
           /\ phase' = IF s.terminal # "none" /\ s.output = <<>> THEN "ended" ELSE "open"
  BY <1>1
<1> DEFINE s == Observe(p, bytes)
           all == body \o bytes
           w == Whole(body)
<1>3. /\ body' = all /\ Becomes(s) /\ Return(s.output)
      /\ closing' = (s.terminal # "none")
      /\ IF s.terminal # "none" THEN Settle(Verdict(s)) ELSE UNCHANGED settlements
      /\ phase' = IF s.terminal # "none" /\ s.output = <<>> THEN "ended" ELSE "open"
  BY <1>2
<1>4. /\ body \in Seq(Pieces) /\ p \in ParserState /\ Out(p) = <<>>
      /\ Alike(p, w) /\ Output = sent /\ sent = Out(w)
      /\ terminal = "none" /\ settlements = <<>> /\ TypeOK /\ Waiting
  BY WaitingFacts DEF StreamInv, PollBytes
<1>5. p.terminal = "none"
  BY <1>4 DEF Parsed
<1>6. bytes \in Seq(Pieces) /\ Len(bytes) = n /\ n \in Nat
  <2>1. n \in Nat
    BY StreamAssumption
  <2> QED
    BY <2>1, SeqDef
<1>7. all \in Seq(Pieces) /\ Len(all) <= MaxPieces
  <2>1. all \in Seq(Pieces) /\ Len(all) = Len(body) + Len(bytes)
    BY <1>4, <1>6, ConcatProperties
  <2> QED
    BY <1>2, <1>6, <2>1
<1> HIDE DEF p, w
<1>0. PICK v : v = Whole(all)
  OBVIOUS
<1>8. s \in ParserState /\ Alike(s, v) /\ Out(v) = Out(w) \o Out(s)
  BY <1>0, <1>4, <1>5, <1>6, ChunkStep DEF w
<1> HIDE DEF s, all
<1>9. /\ buffer' \in Seq(Pieces) /\ lineStart' \in BOOLEAN /\ sseMode' \in BOOLEAN
      /\ terminal' \in {"none"} \cup Terminals
      /\ Alike(Parsed(<<>>)', s)
  BY <1>3, <1>8, BecomesType
<1>10. /\ sent' \in Seq(Bytes) /\ pending' \in Seq(Seq(Bytes))
       /\ Output' = sent \o FlattenSeq(s.output)
       /\ s.output = <<>> => pending' = <<>>
  <2>1. s.output \in Seq(Seq(Bytes))
    BY <1>8, PiecesAreBytes DEF ParserState
  <2>2. sent \in Seq(Bytes)
    BY <1>4 DEF TypeOK, Bytes
  <2> QED
    BY <1>3, <2>1, <2>2, ReturnFacts
<1>11. Output' = Out(v)
  BY <1>4, <1>8, <1>10 DEF Out
<1>12. /\ settlements' \in Seq(Outcomes)
       /\ settlements' = IF s.terminal = "none" THEN <<>> ELSE <<Verdict(s)>>
  <2>1. Verdict(s) \in Outcomes
    BY DEF Verdict, Outcomes
  <2>2. settlements \in Seq(Outcomes)
    BY <1>4 DEF TypeOK, Outcomes
  <2>3. CASE s.terminal = "none"
    BY <1>3, <1>4, <2>2, <2>3
  <2>4. CASE s.terminal # "none"
    BY <1>3, <1>4, <2>1, <2>4, SettleFacts
  <2> QED
    BY <2>3, <2>4
<1>13. phase' \in {"open", "ended"} /\ closing' \in BOOLEAN
  BY <1>3
<1>14. TypeOK'
  <2>1. body' \in Seq(Pieces) /\ Len(body') <= MaxPieces
    BY <1>3, <1>7
  <2>2. /\ pending' \in Seq(Seq(Pieces \cup {Synthetic}))
        /\ sent' \in Seq(Pieces \cup {Synthetic})
        /\ settlements' \in Seq({"success", "failure", "release"})
    BY <1>10, <1>12 DEF Bytes, Outcomes
  <2> QED
    BY <1>9, <1>13, <2>1, <2>2 DEF TypeOK
<1>15. Whole(body)' = v
  BY <1>0, <1>3
<1>16. GoingInv'
  <2> SUFFICES ASSUME closing' = FALSE
               PROVE  /\ Alike(Parsed(<<>>)', v)
                      /\ Output' = Out(v)
                      /\ terminal' = "none"
                      /\ settlements' = IF phase' = "open" THEN <<>> ELSE <<"release">>
    BY <1>13, <1>15 DEF GoingInv
  <2>1. s.terminal = "none"
    BY <1>3
  <2>2. phase' = "open" /\ settlements' = <<>>
    BY <1>3, <1>12, <2>1
  <2>3. terminal' = "none"
    BY <1>3, <2>1 DEF Becomes
  <2>4. Alike(Parsed(<<>>)', v)
    BY <1>8, <1>9 DEF Alike
  <2> QED
    BY <1>11, <2>2, <2>3, <2>4
<1>17. EndedInv'
  <2> SUFFICES ASSUME closing' PROVE EndsAs(v)'
    BY <1>15 DEF EndedInv
  <2>1. s.terminal # "none"
    BY <1>3
  <2>2. v.terminal = s.terminal /\ v.sseMode = s.sseMode
    BY <1>8 DEF Alike
  <2>3. Verdict(v) = Verdict(s)
    BY <2>2 DEF Verdict
  <2> QED
    BY <1>3, <1>11, <1>12, <2>1, <2>2, <2>3 DEF EndsAs, Becomes
<1>18. GivenInv'
  BY <1>3, <1>10 DEF GivenInv
<1> QED
  BY <1>14, <1>16, <1>17, <1>18 DEF StreamInv

\* The gateway's event behind whatever else is given out.
LEMMA SyntheticLast ==
  ASSUME NEW given \in Seq(Seq(Pieces))
  PROVE  /\ Append(given, <<Synthetic>>) \in Seq(Seq(Bytes))
         /\ FlattenSeq(Append(given, <<Synthetic>>)) = FlattenSeq(given) \o <<Synthetic>>
<1> DEFINE own == <<Synthetic>>
<1>1. own \in Seq(Bytes)
  BY DEF Bytes
<1>2. given \in Seq(Seq(Bytes))
  BY PiecesAreBytes
<1> HIDE DEF own
<1>3. /\ Append(given, own) \in Seq(Seq(Bytes))
      /\ FlattenSeq(Append(given, own)) = FlattenSeq(given) \o own
  BY <1>1, <1>2, AppendProperties, FlattenAppend
<1> QED
  BY <1>3 DEF own

\* The stream ends behind the gateway's event.
LEMMA GatewayEnds ==
  ASSUME StreamInv, Waiting, NEW s \in {Whole(body), ObserveEof(Whole(body))},
         NEW t, Becomes(t), t.terminal = "none", t.sseMode = s.sseMode, s.terminal = "none",
         t.buffer \in Seq(Pieces), t.lineStart \in BOOLEAN, t.sseMode \in BOOLEAN,
         t.output \in Seq(Seq(Pieces)), Out(s) = sent \o FlattenSeq(t.output),
         Return(Append(t.output, <<Synthetic>>)), Settle("failure"),
         closing' = TRUE, body' = body, phase' = phase
  PROVE  StreamInv'
<1>1. /\ TypeOK /\ settlements = <<>> /\ phase = "open"
      /\ body \in Seq(Pieces)
  BY WaitingFacts DEF StreamInv, Waiting
<1>2. settlements' = <<"failure">> /\ settlements' \in Seq(Outcomes)
  BY <1>1, SettleFacts DEF Outcomes
<1> DEFINE all == Append(t.output, <<Synthetic>>)
<1>3. all \in Seq(Seq(Bytes)) /\ FlattenSeq(all) = FlattenSeq(t.output) \o <<Synthetic>>
  BY SyntheticLast
<1>4. Return(all)
  OBVIOUS
<1> HIDE DEF all
<1>5. sent \in Seq(Bytes)
  BY <1>1 DEF TypeOK, Bytes
<1>6. sent' \in Seq(Bytes) /\ pending' \in Seq(Seq(Bytes)) /\ Output' = sent \o FlattenSeq(all)
  BY <1>3, <1>4, <1>5, ReturnFacts
<1>7. Output' = Out(s) \o <<Synthetic>>
  <2>1. PICK f \in Seq(Bytes) : f = FlattenSeq(t.output)
    <3>1. FlattenSeq(t.output) \in Seq(Pieces)
      BY FlattenType
    <3> QED
      BY <3>1, PiecesAreBytes
  <2>2. PICK own \in Seq(Bytes) : own = <<Synthetic>>
    <3>1. <<Synthetic>> \in Seq(Bytes)
      BY DEF Bytes
    <3> QED
      BY <3>1
  <2>3. (sent \o f) \o own = sent \o (f \o own)
    <3>1. sent \in Seq(Bytes) /\ f \in Seq(Bytes) /\ own \in Seq(Bytes)
      BY <1>5
    <3> QED
      BY ONLY <3>1, Associative, SMTT(60)
  <2> QED
    BY <1>3, <1>6, <2>1, <2>2, <2>3
<1>8. /\ buffer' = t.buffer /\ lineStart' = t.lineStart
      /\ sseMode' = s.sseMode /\ terminal' = "none" /\ sseMode' \in BOOLEAN
  BY DEF Becomes
<1>9. TypeOK'
  <2>1. /\ pending' \in Seq(Seq(Pieces \cup {Synthetic}))
        /\ sent' \in Seq(Pieces \cup {Synthetic})
        /\ settlements' \in Seq({"success", "failure", "release"})
    BY <1>2, <1>6 DEF Bytes, Outcomes
  <2>2. body' \in Seq(Pieces) /\ Len(body') <= MaxPieces /\ phase' \in {"open", "ended", "dropped"}
    BY <1>1 DEF TypeOK
  <2> QED
    BY <1>8, <2>1, <2>2 DEF TypeOK
<1>10. EndsAs(s)'
  BY <1>2, <1>7, <1>8 DEF EndsAs
<1>11. EndedInv'
  <2>1. Whole(body)' = Whole(body)
    OBVIOUS
  <2> QED
    BY <1>10, <2>1 DEF EndedInv
<1>12. GoingInv' /\ GivenInv'
  BY <1>1 DEF GoingInv, GivenInv
<1> QED
  BY <1>9, <1>11, <1>12 DEF StreamInv

LEMMA PollErrorKeeps ==
  ASSUME StreamInv, PollError
  PROVE  StreamInv'
<1>1. /\ body \in Seq(Pieces) /\ Parsed(<<>>) \in ParserState
      /\ Out(Parsed(<<>>)) = <<>> /\ Parsed(<<>>).output = <<>>
      /\ Alike(Parsed(<<>>), Whole(body))
      /\ sent = Out(Whole(body)) /\ terminal = "none"
      /\ ~sseMode => buffer \in {<<>>, <<"da">>}
      /\ Waiting /\ TypeOK
  BY WaitingFacts DEF StreamInv, PollError
<1>2. PICK p : p = Parsed(<<>>)
  OBVIOUS
<1>3. PICK w : w = Whole(body)
  OBVIOUS
<1>4. PICK t : t = Flush(p)
  OBVIOUS
<1>5. /\ Becomes(t) /\ Return(Append(t.output, <<Synthetic>>)) /\ Settle("failure")
      /\ closing' = TRUE /\ body' = body /\ phase' = phase
  BY <1>2, <1>4 DEF PollError
<1>6. p.sseMode = sseMode /\ p.buffer = buffer /\ p.terminal = "none"
  BY <1>1, <1>2 DEF Parsed
<1>7. p \in ParserState /\ Alike(p, w) /\ Out(w) = sent /\ p.output = <<>>
  BY <1>1, <1>2, <1>3
<1>8. /\ t.output = <<>> /\ t.terminal = "none" /\ t.sseMode = p.sseMode
      /\ t.lineStart = p.lineStart /\ t.buffer = <<>>
  BY <1>1, <1>4, <1>6, <1>7, FlushFacts
<1>9. /\ t.buffer \in Seq(Pieces) /\ t.lineStart \in BOOLEAN /\ t.sseMode \in BOOLEAN
      /\ t.output \in Seq(Seq(Pieces))
  BY <1>7, <1>8, EmptySeq DEF ParserState
<1>10. Out(w) = sent \o FlattenSeq(t.output)
  <2>1. sent \in Seq(Bytes)
    BY <1>1 DEF TypeOK, Bytes
  <2>2. sent \o <<>> = sent
    BY <2>1, ConcatEmptySeq
  <2> QED
    BY <1>7, <1>8, <2>2, FlattenNone
<1>11. w.terminal = "none" /\ t.sseMode = w.sseMode
  BY <1>6, <1>7, <1>8 DEF Alike
<1>12. w \in {Whole(body), ObserveEof(Whole(body))}
  BY <1>3
<1> QED
  BY <1>1, <1>5, <1>8, <1>9, <1>10, <1>11, <1>12, GatewayEnds

LEMMA PollEofKeeps ==
  ASSUME StreamInv, PollEof
  PROVE  StreamInv'
<1>1. /\ body \in Seq(Pieces) /\ Parsed(<<>>) \in ParserState
      /\ Out(Parsed(<<>>)) = <<>> /\ Parsed(<<>>).output = <<>>
      /\ Alike(Parsed(<<>>), Whole(body))
      /\ sent = Out(Whole(body)) /\ terminal = "none" /\ settlements = <<>>
      /\ ~sseMode => buffer \in {<<>>, <<"da">>}
      /\ Waiting /\ TypeOK
  BY WaitingFacts DEF StreamInv, PollEof
<1>2. PICK p : p = Parsed(<<>>)
  OBVIOUS
<1>3. PICK w : w = Whole(body)
  OBVIOUS
<1>4. PICK s : s = ObserveEof(p)
  OBVIOUS
<1>5. PICK t : t = Flush(s)
  OBVIOUS
<1>6. PICK e : e = ObserveEof(w)
  OBVIOUS
<1>7. /\ IF s.terminal # "none"
         THEN Becomes(s) /\ Return(s.output) /\ Settle(Verdict(s))
         ELSE Becomes(t) /\ Return(Append(t.output, <<Synthetic>>)) /\ Settle("failure")
      /\ closing' = TRUE /\ body' = body /\ phase' = phase
  BY <1>2, <1>4, <1>5 DEF PollEof
<1>8. p.sseMode = sseMode /\ p.buffer = buffer /\ p.terminal = "none"
  BY <1>1, <1>2 DEF Parsed
<1>9. /\ p \in ParserState /\ Alike(p, w) /\ Out(w) = sent /\ Out(p) = <<>>
      /\ w \in ParserState
  <2>1. w \in ParserState
    BY <1>1, <1>3, EndFacts
  <2> QED
    BY <1>1, <1>2, <1>3, <2>1
<1>10. sent \in Seq(Pieces)
  BY <1>9, OutType
<1>11. Ahead(sent, w, p)
  <2>1. sent \o <<>> = sent
    BY <1>10, ConcatEmptySeq
  <2> QED
    BY <1>9, <2>1 DEF Ahead, Alike
<1>12. Ahead(sent, e, s)
  BY <1>4, <1>6, <1>10, <1>11, AheadEof
<1>13. /\ e \in ParserState /\ s \in ParserState /\ Out(e) = sent \o Out(s)
       /\ e.terminal = s.terminal /\ e.sseMode = s.sseMode
  BY <1>12 DEF Ahead, Alike
<1>14. e \in {Whole(body), ObserveEof(Whole(body))}
  BY <1>3, <1>6
<1>15. ~s.sseMode => s.buffer \in {<<>>, <<"da">>}
  <2>1. CASE LineLeft(p)
    BY <1>4, <1>9, <2>1, EofCases DEF LineLeft
  <2>2. CASE ~LineLeft(p)
    BY <1>1, <1>4, <1>8, <1>9, <2>2, EofCases
  <2> QED
    BY <2>1, <2>2
<1>16. CASE s.terminal = "none"
  <2>1. /\ Becomes(t) /\ Return(Append(t.output, <<Synthetic>>)) /\ Settle("failure")
    BY <1>7, <1>16
  <2>2. /\ t.output = s.output /\ t.terminal = s.terminal /\ t.sseMode = s.sseMode
        /\ t.lineStart = s.lineStart /\ t.buffer = <<>>
    BY <1>5, <1>13, <1>15, FlushFacts
  <2>3. /\ t.buffer \in Seq(Pieces) /\ t.lineStart \in BOOLEAN /\ t.sseMode \in BOOLEAN
        /\ t.output \in Seq(Seq(Pieces))
    BY <1>13, <2>2, EmptySeq DEF ParserState
  <2>4. Out(e) = sent \o FlattenSeq(t.output)
    BY <1>13, <2>2 DEF Out
  <2>5. t.terminal = "none" /\ e.terminal = "none" /\ t.sseMode = e.sseMode
    BY <1>13, <1>16, <2>2
  <2> QED
    BY <1>1, <1>7, <1>14, <2>1, <2>3, <2>4, <2>5, GatewayEnds
<1>17. CASE s.terminal # "none"
  <2>1. Becomes(s) /\ Return(s.output) /\ Settle(Verdict(s))
    BY <1>7, <1>17
  <2>2. /\ buffer' \in Seq(Pieces) /\ lineStart' \in BOOLEAN /\ sseMode' \in BOOLEAN
        /\ terminal' \in {"none"} \cup Terminals
    BY <1>13, <2>1, BecomesType
  <2>3. settlements' = <<Verdict(s)>> /\ settlements' \in Seq(Outcomes)
    <3>1. Verdict(s) \in Outcomes
      BY DEF Verdict, Outcomes
    <3> QED
      BY <1>1, <2>1, <3>1, SettleFacts
  <2>4. /\ sent' \in Seq(Bytes) /\ pending' \in Seq(Seq(Bytes))
        /\ Output' = sent \o FlattenSeq(s.output)
    <3>1. s.output \in Seq(Seq(Bytes))
      BY <1>13, PiecesAreBytes DEF ParserState
    <3>2. sent \in Seq(Bytes)
      BY <1>1 DEF TypeOK, Bytes
    <3> QED
      BY <2>1, <3>1, <3>2, ReturnFacts
  <2>5. Output' = Out(e)
    BY <1>13, <2>4 DEF Out
  <2>6. TypeOK'
    <3>1. /\ pending' \in Seq(Seq(Pieces \cup {Synthetic}))
          /\ sent' \in Seq(Pieces \cup {Synthetic})
          /\ settlements' \in Seq({"success", "failure", "release"})
      BY <2>3, <2>4 DEF Bytes, Outcomes
    <3>2. body' \in Seq(Pieces) /\ Len(body') <= MaxPieces /\ phase' \in {"open", "ended", "dropped"}
      BY <1>1, <1>7 DEF TypeOK
    <3> QED
      BY <1>7, <2>2, <3>1, <3>2 DEF TypeOK
  <2>7. EndsAs(e)'
    <3>1. Verdict(e) = Verdict(s)
      BY <1>13 DEF Verdict
    <3> QED
      BY <1>13, <1>17, <2>1, <2>3, <2>5, <3>1 DEF EndsAs, Becomes
  <2>8. EndedInv'
    <3>1. Whole(body)' = Whole(body) /\ ObserveEof(Whole(body))' = ObserveEof(Whole(body))
      BY <1>7
    <3> QED
      BY <1>14, <2>7, <3>1 DEF EndedInv
  <2>9. GoingInv' /\ GivenInv'
    BY <1>1, <1>7 DEF GoingInv, GivenInv, Waiting
  <2> QED
    BY <2>6, <2>8, <2>9 DEF StreamInv
<1> QED
  BY <1>16, <1>17

\* The inductive invariant.
THEOREM StreamTypeCorrect == Spec => []StreamInv
<1>1. Init => StreamInv
  BY StreamInit
<1>2. StreamInv /\ [Next]_vars => StreamInv'
  <2> SUFFICES ASSUME StreamInv, [Next]_vars PROVE StreamInv'
    OBVIOUS
  <2>1. CASE PollPending
    BY <2>1, PollPendingKeeps
  <2>2. CASE PollEnd
    BY <2>2, PollEndKeeps
  <2>3. CASE PollShutdown
    BY <2>3, PollShutdownKeeps
  <2>4. CASE PollBytes
    BY <2>4, PollBytesKeeps
  <2>5. CASE PollError
    BY <2>5, PollErrorKeeps
  <2>6. CASE PollEof
    BY <2>6, PollEofKeeps
  <2>7. CASE DropStream
    BY <2>7, DropStreamKeeps
  <2>8. CASE UNCHANGED vars
    <3>1. /\ body' = body /\ parser' = parser /\ closing' = closing /\ pending' = pending
          /\ sent' = sent /\ settlements' = settlements /\ phase' = phase
      BY <2>8 DEF vars, parser
    <3>2. Output' = Output
      BY <3>1 DEF Output
    <3>3. TypeOK'
      BY <3>1 DEF StreamInv, TypeOK, parser
    <3>4. GoingInv' /\ EndedInv'
      BY <3>1, <3>2, StreamStutters DEF StreamInv
    <3>5. GivenInv'
      BY <3>1 DEF StreamInv, GivenInv
    <3> QED
      BY <3>3, <3>4, <3>5 DEF StreamInv
  <2> QED
    BY <2>1, <2>2, <2>3, <2>4, <2>5, <2>6, <2>7, <2>8 DEF Next
<1> QED
  BY <1>1, <1>2, PTL DEF Spec

-----------------------------------------------------------------------------
(* What the client is shown *)

LEMMA PrefixOfConcat ==
  ASSUME NEW S, NEW a \in Seq(S), NEW b \in Seq(S)
  PROVE  IsPrefix(a, a \o b)
<1>1. Len(a) \in Nat /\ Len(b) \in Nat /\ Len(a \o b) = Len(a) + Len(b)
  BY LenProperties, ConcatProperties
<1>2. Len(a) <= Len(a \o b)
  BY <1>1
<1>3. SubSeq(a, 1, Len(a)) = SubSeq(a \o b, 1, Len(a))
  <2>1. CASE Len(a) = 0
    <3>1. a = <<>>
      BY <2>1, EmptySeq
    <3>2. SubSeq(a, 1, 0) = <<>> /\ SubSeq(a \o b, 1, 0) = <<>>
      <4>1. a \o b \in Seq(S)
        BY ConcatProperties
      <4> QED
        BY <4>1
    <3> QED
      BY <2>1, <3>2
  <2>2. CASE Len(a) # 0
    <3>1. 1 \in 1..Len(a) /\ Len(a) \in 1..Len(a)
      BY <1>1, <2>2
    <3> QED
      BY <3>1, SubSeqOfConcat1
  <2> QED
    BY <2>1, <2>2
<1> QED
  BY <1>2, <1>3 DEF IsPrefix

\* The gateway's event behind a part of the body.
LEMMA BehindPieces ==
  ASSUME NEW q \in Seq(Pieces)
  PROVE  LET whole == q \o <<Synthetic>> IN
         /\ whole \in Seq(Bytes) /\ Len(whole) = Len(q) + 1 /\ Len(q) \in Nat
         /\ \A i \in 1..Len(q) : whole[i] = q[i] /\ q[i] # Synthetic
         /\ whole[Len(q) + 1] = Synthetic
         /\ Front(whole) = q /\ Last(whole) = Synthetic /\ Contains(whole, Synthetic)
<1> DEFINE own == <<Synthetic>>
           whole == q \o own
<1>1. q \in Seq(Bytes) /\ own \in Seq(Bytes) /\ Len(own) = 1 /\ own[1] = Synthetic
  BY PiecesAreBytes DEF Bytes
<1> HIDE DEF own
<1>2. Len(q) \in Nat
  BY <1>1, LenProperties
<1>3. whole \in Seq(Bytes) /\ Len(whole) = Len(q) + 1
  BY <1>1, ConcatProperties
<1>4. \A i \in 1..(Len(q) + 1) : whole[i] = IF i <= Len(q) THEN q[i] ELSE own[i - Len(q)]
  <2>1. \A i \in 1..(Len(q) + Len(own)) :
          whole[i] = IF i <= Len(q) THEN q[i] ELSE own[i - Len(q)]
    BY <1>1, ConcatProperties
  <2> QED
    BY <1>1, <2>1
<1> HIDE DEF whole
<1>5. \A i \in 1..Len(q) : whole[i] = q[i] /\ q[i] # Synthetic
  <2> SUFFICES ASSUME NEW i \in 1..Len(q)
               PROVE  whole[i] = q[i] /\ q[i] # Synthetic
    OBVIOUS
  <2>1. q[i] \in Pieces
    BY ElementOfSeq
  <2>2. i \in 1..(Len(q) + 1) /\ i <= Len(q)
    BY <1>2
  <2> QED
    BY <1>4, <2>1, <2>2, PiecesAreBytes
<1>6. whole[Len(q) + 1] = Synthetic
  <2>1. Len(q) + 1 \in 1..(Len(q) + 1) /\ ~(Len(q) + 1 <= Len(q)) /\ (Len(q) + 1) - Len(q) = 1
    BY <1>2
  <2> QED
    BY <1>1, <1>4, <2>1
<1>7. Front(whole) = q
  <2>1. Len(whole) - 1 = Len(q)
    BY <1>2, <1>3
  <2>2. IsPrefix(q, whole)
    BY <1>1, PrefixOfConcat DEF whole
  <2>3. SubSeq(q, 1, Len(q)) = SubSeq(whole, 1, Len(q))
    BY <2>2 DEF IsPrefix
  <2>4. SubSeq(q, 1, Len(q)) = q
    BY SubSeqFull
  <2> QED
    BY <2>1, <2>3, <2>4 DEF Front
<1>8. Last(whole) = Synthetic
  BY <1>3, <1>6 DEF Last
<1>9. Contains(whole, Synthetic)
  <2>1. Len(q) + 1 \in 1..Len(whole)
    BY <1>2, <1>3
  <2> QED
    BY <1>6, <2>1 DEF Contains
<1> QED
  BY <1>2, <1>3, <1>5, <1>6, <1>7, <1>8, <1>9 DEF whole, own

\* All that a client is given while the gateway has nothing to say.
OwnWords(q) ==
  /\ Output = q
  /\ closing <=> terminal # "none"
  /\ ~closing => /\ settlements \in {<<>>, <<"release">>}
                 /\ phase # "open" => settlements = <<"release">>
  /\ closing => settlements = <<IF terminal = "completed" THEN "success" ELSE "failure">>

\* And when the gateway has closed the stream.
GatewaysWord(q) ==
  /\ Output = q \o <<Synthetic>>
  /\ closing /\ terminal = "none" /\ settlements = <<"failure">>
  /\ sseMode => Ends(q)

LEMMA Shown ==
  ASSUME StreamInv
  PROVE  /\ terminal \in {"none"} \cup Terminals
         /\ \E q, rest \in Seq(Pieces) :
              q \o rest = body /\ (OwnWords(q) \/ GatewaysWord(q))
<1>1. body \in Seq(Pieces) /\ terminal \in {"none"} \cup Terminals
      /\ phase \in {"open", "ended", "dropped"} /\ closing \in BOOLEAN
  BY DEF StreamInv, TypeOK
<1>2. CASE ~closing
  <2> DEFINE w == Whole(body)
  <2>1. Output = Out(w) /\ terminal = "none"
        /\ settlements = IF phase = "open" THEN <<>> ELSE <<"release">>
    BY <1>2 DEF StreamInv, GoingInv
  <2>2. w \in {Whole(body), ObserveEof(Whole(body))}
    OBVIOUS
  <2> HIDE DEF w
  <2>3. Out(w) \in Seq(Pieces) /\ \E rest \in Seq(Pieces) : Out(w) \o rest = body
    BY <1>1, <2>2, EndFacts
  <2>4. OwnWords(Out(w))
    BY <1>2, <2>1 DEF OwnWords
  <2> QED
    BY <1>1, <2>3, <2>4
<1>3. CASE closing
  <2>1. PICK s \in {Whole(body), ObserveEof(Whole(body))} : EndsAs(s)
    BY <1>3 DEF StreamInv, EndedInv
  <2>2. /\ Out(s) \in Seq(Pieces)
        /\ \E rest \in Seq(Pieces) : Out(s) \o rest = body
        /\ s.sseMode => Ends(Out(s))
    BY <1>1, EndFacts
  <2>3. CASE s.terminal = "none"
    <3>1. GatewaysWord(Out(s))
      BY <1>3, <2>1, <2>2, <2>3 DEF EndsAs, GatewaysWord
    <3> QED
      BY <1>1, <2>2, <3>1
  <2>4. CASE s.terminal # "none"
    <3>1. OwnWords(Out(s))
      BY <1>3, <2>1, <2>4 DEF EndsAs, OwnWords, Verdict
    <3> QED
      BY <1>1, <2>2, <3>1
  <2> QED
    BY <2>3, <2>4
<1> QED
  BY <1>1, <1>2, <1>3

LEMMA NothingOfTheGateway ==
  ASSUME NEW q \in Seq(Pieces)
  PROVE  /\ \A i \in 1..Len(q) : q[i] # Synthetic
         /\ ~Contains(q, Synthetic)
<1>1. \A i \in 1..Len(q) : q[i] \in Pieces
  BY ElementOfSeq
<1> QED
  BY <1>1, PiecesAreBytes DEF Contains

\* How the upstream cuts its body into chunks makes no difference: what the client was
\* or will be given, and the parser's verdict, are those of observe_bytes on a body that
\* came in one piece, then ended (observe_eof) or was cut short by a transport error.
THEOREM ChunksDoNotMatter == Spec => []ChunkingIrrelevant
<1>1. StreamInv => ChunkingIrrelevant
  <2> SUFFICES ASSUME StreamInv PROVE ChunkingIrrelevant
    OBVIOUS
  <2> DEFINE none == <<>>
             own == <<Synthetic>>
             Same(s, more) == terminal = s.terminal /\ Output = FlattenSeq(s.output) \o more
  <2>1. body \in Seq(Pieces)
    BY DEF StreamInv, TypeOK
  <2>2. \A s \in {Whole(body), ObserveEof(Whole(body))} : Out(s) \in Seq(Pieces)
    BY <2>1, EndFacts
  <2>3. \A q \in Seq(Pieces) : q \o none = q
    BY ConcatEmptySeq
  <2> HIDE DEF none
  <2>4. ASSUME ~closing
        PROVE  Same(Whole(body), none)
    <3>1. Alike(Parsed(<<>>), Whole(body)) /\ Output = Out(Whole(body))
      BY <2>4 DEF StreamInv, GoingInv
    <3>2. terminal = Whole(body).terminal
      BY <3>1 DEF Alike, Parsed
    <3> QED
      BY <2>2, <2>3, <3>1, <3>2 DEF Out
  <2>5. ASSUME closing
        PROVE  \E s \in {Whole(body), ObserveEof(Whole(body))}, more \in {none, own} :
                 Same(s, more)
    <3>1. PICK s \in {Whole(body), ObserveEof(Whole(body))} : EndsAs(s)
      BY <2>5 DEF StreamInv, EndedInv
    <3>2. terminal = s.terminal /\ (Output = Out(s) \o own \/ Output = Out(s))
      BY <3>1 DEF EndsAs
    <3>3. Output = Out(s) \o own \/ Output = Out(s) \o none
      BY <2>2, <2>3, <3>2
    <3> HIDE DEF own
    <3>4. Same(s, own) \/ Same(s, none)
      BY <3>2, <3>3 DEF Out
    <3> HIDE DEF Same
    <3> QED
      BY <3>4
  <2>6. closing \in BOOLEAN
    BY DEF StreamInv, TypeOK
  <2> QED
    BY <2>4, <2>5, <2>6 DEF ChunkingIrrelevant, Whole, Fresh, none
<1> QED
  BY <1>1, StreamTypeCorrect, PTL

\* A client that stays to the end of a stream that no shutdown cut off is told exactly
\* once how its response ended: by the upstream's terminal event, or by the event that
\* the gateway writes at the end of the body or on a transport error, and then last.
THEOREM EndToldOnce == Spec => []OneTerminalEvent
<1>1. StreamInv => OneTerminalEvent
  <2> SUFFICES ASSUME StreamInv, phase = "ended", closing
               PROVE  LET made == {i \in 1..Len(sent) : sent[i] = Synthetic} IN
                      \/ terminal # "none" /\ made = {}
                      \/ terminal = "none" /\ made = {Len(sent)}
    BY DEF OneTerminalEvent
  <2>1. Output = sent
    BY NothingPending DEF StreamInv, GivenInv
  <2>2. PICK q \in Seq(Pieces) : OwnWords(q) \/ GatewaysWord(q)
    BY Shown
  <2>3. CASE OwnWords(q)
    <3>1. sent = q /\ terminal # "none"
      BY <2>1, <2>3 DEF OwnWords
    <3> QED
      BY <3>1, NothingOfTheGateway
  <2>4. CASE GatewaysWord(q)
    <3>1. terminal = "none" /\ sent = q \o <<Synthetic>>
      BY <2>1, <2>4 DEF GatewaysWord
    <3>2. /\ Len(sent) = Len(q) + 1 /\ Len(q) \in Nat /\ sent[Len(q) + 1] = Synthetic
          /\ \A i \in 1..Len(q) : sent[i] # Synthetic
      BY <3>1, BehindPieces
    <3> QED
      BY <3>1, <3>2
  <2> QED
    BY <2>2, <2>3, <2>4
<1> QED
  BY <1>1, StreamTypeCorrect, PTL

\* The account is settled as the client was told: success exactly for response.completed,
\* failure exactly for a failed event of the upstream's or the gateway's, and a stream that
\* has been dropped has settled exactly once (settle; Drop of ManagedResponseStream).
THEOREM SettledAsTold == Spec => []SettlementMatchesOutput
<1>1. StreamInv => SettlementMatchesOutput
  <2> SUFFICES ASSUME StreamInv PROVE SettlementMatchesOutput
    OBVIOUS
  <2>1. PICK q \in Seq(Pieces) : OwnWords(q) \/ GatewaysWord(q)
    BY Shown
  <2>2. terminal \in {"none", "completed", "failed"}
    BY Shown DEF Terminals
  <2>3. \A e : Last(<<e>>) = e /\ Len(<<e>>) = 1
    BY DEF Last
  <2>4. CASE OwnWords(q)
    <3>1. ~Contains(Output, Synthetic)
      BY <2>4, NothingOfTheGateway DEF OwnWords
    <3>2. CASE ~closing
      <4>1. terminal = "none" /\ settlements \in {<<>>, <<"release">>}
            /\ (phase # "open" => settlements = <<"release">>)
        BY <2>4, <3>2 DEF OwnWords
      <4>2. settlements # <<>> => Last(settlements) = "release"
        BY <2>3, <4>1
      <4>3. phase = "dropped" => Len(settlements) = 1
        BY <2>3, <4>1
      <4> QED
        BY <3>1, <4>1, <4>2, <4>3 DEF SettlementMatchesOutput
    <3>3. CASE closing
      <4>1. /\ terminal # "none"
            /\ settlements = <<IF terminal = "completed" THEN "success" ELSE "failure">>
        BY <2>4, <3>3 DEF OwnWords
      <4>2. Last(settlements) = (IF terminal = "completed" THEN "success" ELSE "failure")
            /\ Len(settlements) = 1
        BY <2>3, <4>1
      <4> QED
        BY <2>2, <3>1, <4>1, <4>2 DEF SettlementMatchesOutput
    <3> QED
      BY <3>2, <3>3 DEF StreamInv, TypeOK
  <2>5. CASE GatewaysWord(q)
    <3>1. terminal = "none" /\ settlements = <<"failure">>
      BY <2>5 DEF GatewaysWord
    <3>2. Contains(Output, Synthetic)
      BY <2>5, BehindPieces DEF GatewaysWord
    <3>3. Last(settlements) = "failure" /\ Len(settlements) = 1
      BY <2>3, <3>1
    <3> QED
      BY <3>1, <3>2, <3>3 DEF SettlementMatchesOutput
  <2> QED
    BY <2>1, <2>4, <2>5
<1> QED
  BY <1>1, StreamTypeCorrect, PTL

\* The gateway loses, repeats and reorders nothing of the body: what the client gets is a
\* prefix of it, with the gateway's own event at most behind it, and while the stream goes
\* on the parser's buffer holds what is missing.
THEOREM NothingLost == Spec => []Transparent
<1>1. StreamInv => Transparent
  <2> SUFFICES ASSUME StreamInv PROVE Transparent
    OBVIOUS
  <2>1. PICK q \in Seq(Pieces), rest \in Seq(Pieces) :
          q \o rest = body /\ (OwnWords(q) \/ GatewaysWord(q))
    BY Shown
  <2>2. IsPrefix(q, body)
    BY <2>1, PrefixOfConcat
  <2>3. CASE OwnWords(q)
    <3>1. IsPrefix(Output, body)
      BY <2>2, <2>3 DEF OwnWords
    <3> QED
      BY <3>1, WaitingFacts DEF Transparent
  <2>4. CASE GatewaysWord(q)
    <3>1. /\ Contains(Output, Synthetic) /\ Last(Output) = Synthetic
          /\ Front(Output) = q
      BY <2>4, BehindPieces DEF GatewaysWord
    <3> QED
      BY <2>2, <3>1, WaitingFacts DEF Transparent
  <2> QED
    BY <2>1, <2>3, <2>4
<1> QED
  BY <1>1, StreamTypeCorrect, PTL

\* The gateway never writes its event into a line of the upstream's: in an event stream
\* the client has nothing before it or a complete line, because held back fragments are
\* dropped (observe_eof, take_terminal_passthrough_bytes).
THEOREM EventStartsLine == Spec => []SyntheticStartsLine
<1>1. StreamInv => SyntheticStartsLine
  <2> SUFFICES ASSUME StreamInv, sseMode, NEW i \in 2..Len(Output), Output[i] = Synthetic
               PROVE  EndsLine(Output[i - 1])
    BY DEF SyntheticStartsLine
  <2>1. PICK q \in Seq(Pieces) : OwnWords(q) \/ GatewaysWord(q)
    BY Shown
  <2>2. ~OwnWords(q)
    <3>1. ASSUME Output = q
          PROVE  FALSE
      <4>1. i \in 1..Len(q)
        BY <3>1, LenProperties
      <4> QED
        BY <3>1, <4>1, NothingOfTheGateway
    <3> QED
      BY <3>1 DEF OwnWords
  <2>3. Output = q \o <<Synthetic>> /\ Ends(q)
    BY <2>1, <2>2 DEF GatewaysWord
  <2>4. /\ Len(Output) = Len(q) + 1 /\ Len(q) \in Nat
        /\ \A j \in 1..Len(q) : Output[j] = q[j] /\ q[j] # Synthetic
    BY <2>3, BehindPieces
  <2>5. i = Len(q) + 1 /\ Len(q) \in 1..Len(q)
    BY <2>4
  <2>6. q # <<>> /\ Output[i - 1] = Last(q)
    BY <2>4, <2>5 DEF Last
  <2> QED
    BY <2>3, <2>6 DEF Ends, After
<1> QED
  BY <1>1, StreamTypeCorrect, PTL

=============================================================================
