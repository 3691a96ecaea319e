---------------------------- MODULE ReaderProofs -----------------------------
(***************************************************************************)
(* Messages and lines of any length, cut anywhere by the network: the       *)
(* reader's buffers are right for every client, and a client that waits for *)
(* its answers has each line and message taken as it was sent.              *)
(*                                                                         *)
(* What is on its way is in one of three places, ReadDataBlock's buffer,    *)
(* Read's buffer or the network, in this order; with them put together a    *)
(* piece is whole until it is taken.  A read that ends in a line break      *)
(* inside a message adds to the first place; the end of a message cannot    *)
(* stand anywhere but at its end, so when it is found nothing is left       *)
(* behind.                                                                  *)
(***************************************************************************)
EXTENDS Reader, SequenceTheorems, TLAPS

Bytes == {"cr", "lf", "dot", "x", "d"}

Taken == [kind : {"line", "message"}, bytes : Seq(Bytes)]

\* Where the bytes are.
Typed ==
  /\ sent \in Seq(Pieces) /\ Len(sent) <= MaxPieces
  /\ arrived \in Seq(Bytes) /\ raw \in Seq(Bytes) /\ dataBuffer \in Seq(Bytes)
  /\ expecting \in {"line", "message"}
  /\ taken \in Seq(Taken)
  /\ expecting = "line" => dataBuffer = <<>>

TakenInOrder ==
  /\ Len(taken) <= Len(sent)
  /\ \A i \in 1..Len(taken) : taken[i] = AsTaken(sent[i])

\* All is taken and answered: the reader expects what the client sends next.
Answered ==
  /\ Len(sent) = Len(taken)
  /\ arrived = <<>> /\ raw = <<>> /\ dataBuffer = <<>>
  /\ (expecting = "message") <=> (sent # <<>> /\ sent[Len(sent)] = DataLine)

\* One piece is on its way, and the reader expects one of its kind.
Underway ==
  /\ Len(sent) = Len(taken) + 1
  /\ expecting = sent[Len(sent)].kind
  /\ dataBuffer \o (raw \o arrived) = OnWire(sent[Len(sent)])

InStep == TakenInOrder /\ (Answered \/ Underway)

-----------------------------------------------------------------------------
\* Two pieces of text, one after the other.
LEMMA Joined ==
  ASSUME NEW s \in Seq(Bytes), NEW t \in Seq(Bytes)
  PROVE  /\ s \o t \in Seq(Bytes) /\ Len(s) \in Nat /\ Len(t) \in Nat
         /\ Len(s \o t) = Len(s) + Len(t)
         /\ \A i \in 1..Len(s) : (s \o t)[i] = s[i]
         /\ \A i \in 1..Len(t) : (s \o t)[Len(s) + i] = t[i]
<1>1. Len(s) \in Nat /\ Len(t) \in Nat
  OBVIOUS
<1>2. s \o t \in Seq(Bytes) /\ Len(s \o t) = Len(s) + Len(t)
  BY ConcatProperties
<1>3. \A i \in 1..Len(s) : (s \o t)[i] = s[i]
  OBVIOUS
<1>4. \A i \in 1..Len(t) : (s \o t)[Len(s) + i] = t[i]
  OBVIOUS
<1> QED BY <1>1, <1>2, <1>3, <1>4

\* The marks.
LEMMA Marks ==
  /\ CRLF \in Seq(Bytes) /\ Len(CRLF) = 2 /\ CRLF[1] = "cr" /\ CRLF[2] = "lf"
  /\ Terminator \in Seq(Bytes) /\ Len(Terminator) = 5
  /\ Terminator[1] = "cr" /\ Terminator[2] = "lf"
<1> DEFINE dot == <<"dot">>
           start == CRLF \o dot
<1>1. CRLF \in Seq(Bytes) /\ Len(CRLF) = 2 /\ CRLF[1] = "cr" /\ CRLF[2] = "lf"
  BY DEF CRLF, Bytes
<1>2. dot \in Seq(Bytes) /\ Len(dot) = 1
  BY DEF Bytes
<1> HIDE DEF dot
<1>3. start \in Seq(Bytes) /\ Len(start) = 3 /\ start[1] = "cr" /\ start[2] = "lf"
  <2>1. /\ start \in Seq(Bytes) /\ Len(CRLF) \in Nat /\ Len(dot) \in Nat
        /\ Len(start) = Len(CRLF) + Len(dot)
        /\ \A i \in 1..Len(CRLF) : start[i] = CRLF[i]
        /\ \A i \in 1..Len(dot) : start[Len(CRLF) + i] = dot[i]
    BY <1>1, <1>2, Joined
  <2> HIDE DEF start
  <2> QED BY <1>1, <1>2, <2>1
<1> HIDE DEF start
<1>4. Terminator = start \o CRLF
  BY DEF Terminator, start, dot
<1>5. /\ Terminator \in Seq(Bytes) /\ Len(Terminator) = 5
      /\ Terminator[1] = "cr" /\ Terminator[2] = "lf"
  <2>1. /\ Terminator \in Seq(Bytes) /\ Len(start) \in Nat /\ Len(CRLF) \in Nat
        /\ Len(Terminator) = Len(start) + Len(CRLF)
        /\ \A i \in 1..Len(start) : Terminator[i] = start[i]
        /\ \A i \in 1..Len(CRLF) : Terminator[Len(start) + i] = CRLF[i]
    BY <1>1, <1>3, <1>4, Joined
  <2> QED BY <1>1, <1>3, <2>1
<1> QED BY <1>1, <1>5

\* All of a text but its last byte.
LEMMA FrontOf ==
  ASSUME NEW s \in Seq(Bytes), Len(s) >= 1
  PROVE  /\ Front(s) \in Seq(Bytes) /\ Len(Front(s)) = Len(s) - 1
         /\ \A i \in 1..Len(s) - 1 : Front(s)[i] = s[i]
<1>1. PICK n \in Nat : n = Len(s) - 1
  BY Len(s) \in Nat
<1>2. n \in Int /\ 1 \in Int /\ \A i \in 1..n : s[i] \in Bytes
  BY <1>1
<1>3. /\ SubSeq(s, 1, n) \in Seq(Bytes)
      /\ Len(SubSeq(s, 1, n)) = IF 1 <= n THEN n - 1 + 1 ELSE 0
      /\ \A i \in 1..n - 1 + 1 : SubSeq(s, 1, n)[i] = s[1 + i - 1]
  BY <1>2, SubSeqProperties
<1>4. Front(s) = SubSeq(s, 1, n)
  BY <1>1 DEF Front
<1>5. Len(SubSeq(s, 1, n)) = n
  BY ONLY <1>3, n \in Nat
<1>6. \A i \in 1..n : SubSeq(s, 1, n)[i] = s[i]
  <2> TAKE i \in 1..n
  <2>1. i \in 1..n - 1 + 1 /\ 1 + i - 1 = i
    BY ONLY n \in Nat, i \in 1..n
  <2> QED BY <1>3, <2>1
<1>7. Front(s) \in Seq(Bytes)
  BY ONLY <1>3, <1>4
<1>8. Len(Front(s)) = n /\ \A i \in 1..n : Front(s)[i] = s[i]
  BY ONLY <1>4, <1>5, <1>6
<1> QED BY ONLY <1>1, <1>7, <1>8

\* What ends in a line break has it at its last two places.
LEMMA Ends ==
  ASSUME NEW s \in Seq(Bytes), IsSuffix(CRLF, s)
  PROVE  Len(s) >= 2 /\ s[Len(s) - 1] = "cr" /\ s[Len(s)] = "lf"
<1> DEFINE c == Reverse(CRLF)
           r == Reverse(s)
<1>1. /\ Len(c) = 2 /\ c[1] = "lf" /\ c[2] = "cr"
      /\ Len(r) = Len(s) /\ \A i \in 1..Len(s) : r[i] = s[Len(s) - i + 1]
      /\ c \in Seq(Bytes) /\ r \in Seq(Bytes)
  <2>1. c = [i \in 1..2 |-> CRLF[2 - i + 1]]
    BY Marks DEF Reverse
  <2>2. r = [i \in 1..Len(s) |-> s[Len(s) - i + 1]]
    BY DEF Reverse
  <2>3. c \in Seq(Bytes) /\ Len(c) = 2 /\ c[1] = "lf" /\ c[2] = "cr"
    <3>1. \A i \in 1..2 : CRLF[2 - i + 1] \in Bytes
      <4> TAKE i \in 1..2
      <4>1. 2 - i + 1 = 1 \/ 2 - i + 1 = 2
        OBVIOUS
      <4> QED BY <4>1, Marks DEF Bytes
    <3>2. c \in [1..2 -> Bytes]
      BY <2>1, <3>1
    <3> HIDE DEF c
    <3> QED BY <2>1, <3>2, Marks
  <2>4. r \in Seq(Bytes) /\ Len(r) = Len(s)
    <3>1. \A i \in 1..Len(s) : s[Len(s) - i + 1] \in Bytes
      OBVIOUS
    <3>2. r \in [1..Len(s) -> Bytes] /\ Len(s) \in Nat
      BY <2>2, <3>1
    <3> HIDE DEF r
    <3> QED BY <3>2
  <2> QED BY <2>2, <2>3, <2>4
<1>2. Len(c) <= Len(r) /\ SubSeq(c, 1, Len(c)) = SubSeq(r, 1, Len(c))
  BY DEF IsSuffix, IsPrefix
<1> HIDE DEF c, r
<1>3. Len(s) \in Nat /\ Len(s) >= 2
  BY <1>1, <1>2
<1>4. SubSeq(c, 1, 2)[1] = c[1] /\ SubSeq(c, 1, 2)[2] = c[2]
  BY <1>1
<1>5. SubSeq(r, 1, 2)[1] = r[1] /\ SubSeq(r, 1, 2)[2] = r[2]
  BY <1>1, <1>3
<1>6. r[1] = "lf" /\ r[2] = "cr"
  BY <1>1, <1>2, <1>4, <1>5
<1> QED BY <1>1, <1>3, <1>6

\* The two parts that a read leaves, put together.
LEMMA Parts ==
  ASSUME NEW s \in Seq(Bytes), NEW n \in 1..Len(s)
  PROVE  /\ SubSeq(s, 1, n) \in Seq(Bytes) /\ SubSeq(s, n + 1, Len(s)) \in Seq(Bytes)
         /\ SubSeq(s, 1, n) \o SubSeq(s, n + 1, Len(s)) = s
         /\ Len(SubSeq(s, 1, n)) = n
<1>1. SubSeq(s, 1, n) \in Seq(Bytes) /\ Len(SubSeq(s, 1, n)) = n
  OBVIOUS
<1>2. \A i \in n + 1..Len(s) : s[i] \in Bytes
  OBVIOUS
<1>3. SubSeq(s, n + 1, Len(s)) \in Seq(Bytes)
  BY <1>2, SubSeqProperties, Len(s) \in Int
<1>4. SubSeq(s, 1, n) \o SubSeq(s, n + 1, Len(s)) = SubSeq(s, 1, Len(s))
  BY ConcatAdjacentSubSeq
<1>5. SubSeq(s, 1, Len(s)) = s
  BY SubSeqFull
<1> QED BY <1>1, <1>3, <1>4, <1>5

\* A line has its line break at its end only: what is read of it up to a line break is
\* all of it.
LEMMA LineIsWhole ==
  ASSUME NEW c \in {"d", "x"}, NEW s \in Seq(Bytes), NEW t \in Seq(Bytes),
         s \o t = <<c, "cr", "lf">>, IsSuffix(CRLF, s)
  PROVE  s = <<c, "cr", "lf">> /\ t = <<>>
<1> DEFINE line == <<c, "cr", "lf">>
<1>1. line \in Seq(Bytes) /\ Len(line) = 3 /\ line[1] = c /\ line[2] = "cr" /\ line[3] = "lf"
  BY DEF Bytes
<1> HIDE DEF line
<1>2. /\ Len(s \o t) = Len(s) + Len(t)
      /\ \A i \in 1..Len(s) : (s \o t)[i] = s[i]
      /\ Len(s) \in Nat /\ Len(t) \in Nat
  BY Joined
<1>3. s \o t = line
  BY DEF line
<1>4. Len(s) >= 2 /\ s[Len(s) - 1] = "cr" /\ s[Len(s)] = "lf"
  BY Ends
<1>5. Len(s) # 2
  BY <1>1, <1>2, <1>3, <1>4
<1>6. Len(s) = 3 /\ Len(t) = 0
  BY <1>1, <1>2, <1>3, <1>4, <1>5
<1>7. t = <<>>
  BY <1>6
<1>8. s \o t = s
  BY <1>7, ConcatEmptySeq
<1> QED BY <1>3, <1>7, <1>8 DEF line

\* A message has its terminator at its end only: where it is found, nothing is left.
LEMMA TerminatorAtEnd ==
  ASSUME NEW body \in Seq(Bytes), Terminator \notin SubSeqs(body \o Front(Terminator)),
         NEW s \in Seq(Bytes), NEW t \in Seq(Bytes), s \o t = body \o Terminator,
         Terminator \in SubSeqs(s)
  PROVE  t = <<>> /\ s = body \o Terminator
<1> DEFINE most == body \o Front(Terminator)
           whole == body \o Terminator
<1>1. /\ Front(Terminator) \in Seq(Bytes) /\ Len(Front(Terminator)) = 4
      /\ \A i \in 1..4 : Front(Terminator)[i] = Terminator[i]
  <2>1. /\ Front(Terminator) \in Seq(Bytes) /\ Len(Front(Terminator)) = Len(Terminator) - 1
        /\ \A i \in 1..Len(Terminator) - 1 : Front(Terminator)[i] = Terminator[i]
    <3>1. Terminator \in Seq(Bytes) /\ Len(Terminator) >= 1
      BY Marks
    <3> QED BY <3>1, FrontOf
  <2>2. Len(Terminator) - 1 = 4
    BY Marks
  <2> QED BY <2>1, <2>2
<1>2. /\ Len(s \o t) = Len(s) + Len(t)
      /\ \A i \in 1..Len(s) : (s \o t)[i] = s[i]
      /\ Len(s) \in Nat /\ Len(t) \in Nat
  BY Joined
<1>3. /\ most \in Seq(Bytes) /\ Len(most) = Len(body) + 4 /\ Len(body) \in Nat
      /\ \A i \in 1..Len(body) : most[i] = body[i]
      /\ \A i \in 1..4 : most[Len(body) + i] = Terminator[i]
  <2>1. /\ most \in Seq(Bytes) /\ Len(body) \in Nat /\ Len(Front(Terminator)) \in Nat
        /\ Len(most) = Len(body) + Len(Front(Terminator))
        /\ \A i \in 1..Len(body) : most[i] = body[i]
        /\ \A i \in 1..Len(Front(Terminator)) : most[Len(body) + i] = Front(Terminator)[i]
    BY <1>1, Joined
  <2> HIDE DEF most
  <2> QED BY <1>1, <2>1
<1>4. /\ Len(whole) = Len(body) + 5
      /\ \A i \in 1..Len(body) : whole[i] = body[i]
      /\ \A i \in 1..5 : whole[Len(body) + i] = Terminator[i]
  <2>1. /\ whole \in Seq(Bytes) /\ Len(body) \in Nat /\ Len(Terminator) \in Nat
        /\ Len(whole) = Len(body) + Len(Terminator)
        /\ \A i \in 1..Len(body) : whole[i] = body[i]
        /\ \A i \in 1..Len(Terminator) : whole[Len(body) + i] = Terminator[i]
    BY Marks, Joined
  <2> HIDE DEF whole
  <2> QED BY Marks, <2>1
<1>5. s \o t = whole
  OBVIOUS
<1> HIDE DEF most, whole
<1>6. Len(t) = 0
  <2> SUFFICES ASSUME Len(t) # 0 PROVE FALSE
    OBVIOUS
  <2>1. Len(s) <= Len(most)
    BY <1>2, <1>3, <1>4, <1>5
  <2>2. \A i \in 1..Len(s) : s[i] = most[i]
    <3> SUFFICES ASSUME NEW i \in 1..Len(s) PROVE s[i] = most[i]
      OBVIOUS
    <3>1. i \in 1..Len(body) + 4
      BY <1>2, <1>3, <2>1
    <3>2. s[i] = whole[i]
      BY <1>2, <1>5
    <3>3. CASE i \in 1..Len(body)
      BY <1>3, <1>4, <3>2, <3>3
    <3>4. CASE i \notin 1..Len(body)
      <4>1. PICK k \in 1..4 : i = Len(body) + k
        <5>1. i - Len(body) \in 1..4 /\ i = Len(body) + (i - Len(body))
          BY <1>3, <3>1, <3>4
        <5> QED BY <5>1
      <4> QED BY <1>3, <1>4, <3>2, <4>1
    <3> QED BY <3>3, <3>4
  <2>3. PICK i \in 0..Len(s), j \in 0..Len(s) : Terminator = SubSeq(s, i + 1, j)
    BY DEF SubSeqs
  <2>4. SubSeq(s, i + 1, j) = SubSeq(most, i + 1, j)
    <3>1. \A k \in i + 1..j : s[k] = most[k] /\ s[k] \in Bytes /\ most[k] \in Bytes
      BY <1>2, <2>2
    <3>2. i + 1 \in Int /\ j \in Int
      BY <1>2
    <3>3. /\ SubSeq(s, i + 1, j) \in Seq(Bytes)
          /\ Len(SubSeq(s, i + 1, j)) = IF i + 1 <= j THEN j - (i + 1) + 1 ELSE 0
          /\ \A k \in 1..j - (i + 1) + 1 : SubSeq(s, i + 1, j)[k] = s[i + 1 + k - 1]
      BY <3>1, <3>2, SubSeqProperties
    <3>4. /\ SubSeq(most, i + 1, j) \in Seq(Bytes)
          /\ Len(SubSeq(most, i + 1, j)) = IF i + 1 <= j THEN j - (i + 1) + 1 ELSE 0
          /\ \A k \in 1..j - (i + 1) + 1 : SubSeq(most, i + 1, j)[k] = most[i + 1 + k - 1]
      BY <3>1, <3>2, SubSeqProperties
    <3>5. \A k \in 1..Len(SubSeq(s, i + 1, j)) :
             SubSeq(s, i + 1, j)[k] = SubSeq(most, i + 1, j)[k]
      <4> TAKE k \in 1..Len(SubSeq(s, i + 1, j))
      <4>1. k \in 1..j - (i + 1) + 1 /\ i + 1 + k - 1 \in i + 1..j
        BY <1>2, <3>2, <3>3
      <4> QED BY <3>1, <3>3, <3>4, <4>1
    <3> QED BY <3>3, <3>4, <3>5, SeqEqual
  <2>5. i \in 0..Len(most) /\ j \in 0..Len(most)
    BY <1>2, <1>3, <2>1
  <2>6. Terminator \in SubSeqs(most)
    BY <2>3, <2>4, <2>5 DEF SubSeqs
  <2> QED BY <2>6 DEF most
<1>7. t = <<>>
  BY <1>6
<1>8. s \o t = s
  BY <1>7, ConcatEmptySeq
<1> QED BY <1>5, <1>7, <1>8 DEF whole

\* Cutting three bytes off a message leaves what it carries, with a line break.
LEMMA ThreeCut ==
  ASSUME NEW body \in Seq(Bytes)
  PROVE  SubSeq(body \o Terminator, 1, Len(body \o Terminator) - 3) = body \o CRLF
<1> DEFINE whole == body \o Terminator
           kept == body \o CRLF
<1>1. /\ whole \in Seq(Bytes) /\ Len(whole) = Len(body) + 5 /\ Len(body) \in Nat
      /\ \A i \in 1..Len(body) : whole[i] = body[i]
      /\ \A i \in 1..5 : whole[Len(body) + i] = Terminator[i]
  <2>1. /\ whole \in Seq(Bytes) /\ Len(body) \in Nat /\ Len(Terminator) \in Nat
        /\ Len(whole) = Len(body) + Len(Terminator)
        /\ \A i \in 1..Len(body) : whole[i] = body[i]
        /\ \A i \in 1..Len(Terminator) : whole[Len(body) + i] = Terminator[i]
    BY Marks, Joined
  <2> HIDE DEF whole
  <2> QED BY Marks, <2>1
<1>2. /\ kept \in Seq(Bytes) /\ Len(kept) = Len(body) + 2
      /\ \A i \in 1..Len(body) : kept[i] = body[i]
      /\ \A i \in 1..2 : kept[Len(body) + i] = CRLF[i]
  <2>1. /\ kept \in Seq(Bytes) /\ Len(body) \in Nat /\ Len(CRLF) \in Nat
        /\ Len(kept) = Len(body) + Len(CRLF)
        /\ \A i \in 1..Len(body) : kept[i] = body[i]
        /\ \A i \in 1..Len(CRLF) : kept[Len(body) + i] = CRLF[i]
    BY Marks, Joined
  <2> HIDE DEF kept
  <2> QED BY Marks, <2>1
<1>3. Terminator[1] = CRLF[1] /\ Terminator[2] = CRLF[2]
  BY Marks
<1> HIDE DEF whole, kept
<1>4. Len(whole) - 3 = Len(body) + 2
  BY <1>1
<1>5. /\ SubSeq(whole, 1, Len(body) + 2) \in Seq(Bytes)
      /\ Len(SubSeq(whole, 1, Len(body) + 2)) = Len(body) + 2
      /\ \A i \in 1..Len(body) + 2 : SubSeq(whole, 1, Len(body) + 2)[i] = whole[i]
  BY <1>1
<1>6. \A i \in 1..Len(body) + 2 : whole[i] = kept[i]
  <2> TAKE i \in 1..Len(body) + 2
  <2>1. CASE i \in 1..Len(body)
    BY <1>1, <1>2, <2>1
  <2>2. CASE i \notin 1..Len(body)
    <3>1. i = Len(body) + 1 \/ i = Len(body) + 2
      BY <1>1, <2>2
    <3> QED BY <1>1, <1>2, <1>3, <3>1
  <2> QED BY <2>1, <2>2
<1>7. SubSeq(whole, 1, Len(body) + 2) = kept
  BY <1>2, <1>5, <1>6, SeqEqual
<1> QED BY <1>4, <1>7 DEF whole, kept

-----------------------------------------------------------------------------
\* How texts are put together does not matter.
LEMMA Associative ==
  \A s, t, u \in Seq(Bytes) : (s \o t) \o u = s \o (t \o u)
BY ConcatAssociative

\* A line of one letter.
LEMMA LineBytes ==
  ASSUME NEW c \in {"d", "x"}
  PROVE  <<c>> \o CRLF = <<c, "cr", "lf">>
<1> DEFINE s == <<c>>
           line == <<c, "cr", "lf">>
<1>1. s \in Seq(Bytes) /\ Len(s) = 1 /\ s[1] = c
  BY DEF Bytes
<1>2. line \in Seq(Bytes) /\ Len(line) = 3 /\ line[1] = c /\ line[2] = "cr" /\ line[3] = "lf"
  BY DEF Bytes
<1> HIDE DEF s, line
<1>3. /\ s \o CRLF \in Seq(Bytes)
      /\ Len(s \o CRLF) = Len(s) + Len(CRLF)
      /\ \A i \in 1..Len(s) : (s \o CRLF)[i] = s[i]
      /\ \A i \in 1..Len(CRLF) : (s \o CRLF)[Len(s) + i] = CRLF[i]
  BY <1>1, Marks, Joined
<1>4. /\ Len(s \o CRLF) = 3 /\ (s \o CRLF)[1] = c
      /\ (s \o CRLF)[2] = "cr" /\ (s \o CRLF)[3] = "lf"
  <2>1. /\ (s \o CRLF)[1] = s[1]
        /\ (s \o CRLF)[1 + 1] = CRLF[1] /\ (s \o CRLF)[1 + 2] = CRLF[2]
    BY <1>1, <1>3, Marks
  <2> QED BY <1>1, <1>3, <2>1, Marks
<1>5. \A i \in 1..3 : i = 1 \/ i = 2 \/ i = 3
  OBVIOUS
<1>6. \A i \in 1..Len(s \o CRLF) : (s \o CRLF)[i] = line[i]
  BY <1>2, <1>4, <1>5
<1>7. s \o CRLF = line
  BY <1>2, <1>3, <1>4, <1>6, SeqEqual
<1> QED BY <1>7 DEF s, line

\* What a client sends.
LEMMA PieceKinds ==
  ASSUME NEW piece \in Pieces
  PROVE  /\ piece.kind \in {"line", "message"}
         /\ OnWire(piece) \in Seq(Bytes)
         /\ piece.kind = "line" =>
              /\ piece = DataLine \/ piece = OtherLine
              /\ OnWire(piece) = piece.bytes
         /\ piece.kind = "message" =>
              /\ piece.bytes \in Seq(Bytes)
              /\ Terminator \notin SubSeqs(piece.bytes \o Front(Terminator))
              /\ OnWire(piece) = piece.bytes \o Terminator
              /\ AsTaken(piece) = [kind |-> "message", bytes |-> piece.bytes \o CRLF]
              /\ piece # DataLine
<1>1. CASE piece \in {DataLine, OtherLine}
  <2>1. /\ DataLine.kind = "line" /\ OtherLine.kind = "line"
        /\ DataLine.bytes = <<"d", "cr", "lf">> /\ OtherLine.bytes = <<"x", "cr", "lf">>
    <3>1. \A c \in {"d", "x"} : <<c>> \o CRLF = <<c, "cr", "lf">>
      BY LineBytes
    <3> QED BY <3>1 DEF DataLine, OtherLine
  <2>2. <<"d", "cr", "lf">> \in Seq(Bytes) /\ <<"x", "cr", "lf">> \in Seq(Bytes)
    BY DEF Bytes
  <2> QED BY <1>1, <2>1, <2>2 DEF OnWire
<1>2. CASE piece \in Messages
  <2>1. PICK body \in Bodies :
           /\ Terminator \notin SubSeqs(body \o Front(Terminator))
           /\ piece = [kind |-> "message", bytes |-> body]
    BY <1>2 DEF Messages
  <2>2. body \in Seq(Bytes)
    <3>1. PICK m \in 0..MaxBody : body \in [1..m -> {"cr", "lf", "dot", "x"}]
      BY <2>1 DEF Bodies, BoundedSeq, SeqOf
    <3>2. m \in Nat
      BY <3>1, ReaderAssumption
    <3>3. body \in [1..m -> Bytes]
      BY <3>1 DEF Bytes
    <3> QED BY <3>2, <3>3
  <2>3. piece.kind = "message" /\ piece.bytes = body
    BY <2>1
  <2>4. OnWire(piece) = body \o Terminator /\ OnWire(piece) \in Seq(Bytes)
    <3>1. OnWire(piece) = body \o Terminator
      BY <2>3 DEF OnWire
    <3>2. Terminator \in Seq(Bytes)
      BY Marks
    <3> QED BY <2>2, <3>1, <3>2, Joined
  <2>5. AsTaken(piece) = [kind |-> "message", bytes |-> body \o CRLF]
    BY <2>1, <2>3 DEF AsTaken
  <2>6. DataLine.kind = "line"
    BY DEF DataLine
  <2> QED BY <2>1, <2>2, <2>3, <2>4, <2>5, <2>6
<1> QED BY <1>1, <1>2 DEF Pieces

\* A read takes the first bytes of what has arrived and adds them to Read's buffer.
LEMMA ReadParts ==
  ASSUME Typed, NEW n \in 1..Len(arrived)
  PROVE  LET all == raw \o SubSeq(arrived, 1, n)
             rest == SubSeq(arrived, n + 1, Len(arrived))
         IN /\ all \in Seq(Bytes) /\ rest \in Seq(Bytes)
            /\ all \o rest = raw \o arrived
<1> DEFINE first == SubSeq(arrived, 1, n)
           rest == SubSeq(arrived, n + 1, Len(arrived))
<1>1. arrived \in Seq(Bytes) /\ raw \in Seq(Bytes)
  BY DEF Typed
<1>2. first \in Seq(Bytes) /\ rest \in Seq(Bytes) /\ first \o rest = arrived
  BY <1>1, Parts
<1> HIDE DEF first, rest
<1>3. raw \o first \in Seq(Bytes)
  BY <1>1, <1>2, Joined
<1>4. (raw \o first) \o rest = raw \o (first \o rest)
  BY <1>1, <1>2, Associative
<1>5. (raw \o first) \o rest = raw \o arrived
  BY <1>2, <1>4
<1> QED BY <1>2, <1>3, <1>5 DEF first, rest

\* A read that goes to neither reader's result leaves the bytes to Read's buffer.
LEMMA KeepsReading ==
  ASSUME NEW n, ReadConnection(n), ~IsSuffix(CRLF, raw \o SubSeq(arrived, 1, n))
  PROVE  raw' = raw \o SubSeq(arrived, 1, n) /\ UNCHANGED <<dataBuffer, expecting, taken>>
BY DEF ReadConnection

\* A read that ends in a line break goes to the one that is at work.
LEMMA HandsOver ==
  ASSUME NEW n, ReadConnection(n), IsSuffix(CRLF, raw \o SubSeq(arrived, 1, n))
  PROVE  /\ raw' = <<>>
         /\ expecting = "line" => LineRead(raw \o SubSeq(arrived, 1, n))
         /\ expecting # "line" => BlockRead(raw \o SubSeq(arrived, 1, n))
BY DEF ReadConnection

LEMMA TypedHolds == Spec => []Typed
<1>1. Init => Typed
  <2> SUFFICES ASSUME Init PROVE Typed
    OBVIOUS
  <2>1. /\ sent = <<>> /\ arrived = <<>> /\ raw = <<>> /\ dataBuffer = <<>>
        /\ expecting = "line" /\ taken = <<>>
    BY DEF Init
  <2>2. /\ <<>> \in Seq(Pieces) /\ <<>> \in Seq(Bytes) /\ <<>> \in Seq(Taken)
        /\ Len(<<>>) = 0
    BY EmptySeq
  <2>3. Len(sent) <= MaxPieces
    BY <2>1, <2>2, ReaderAssumption
  <2> QED BY <2>1, <2>2, <2>3 DEF Typed
<1>2. Typed /\ [Next]_vars => Typed'
  <2> SUFFICES ASSUME Typed, [Next]_vars PROVE Typed'
    OBVIOUS
  <2> USE DEF Typed
  <2>1. ASSUME NEW piece \in Pieces, Send(piece) PROVE Typed'
    <3>1. /\ sent' = Append(sent, piece) /\ Len(sent) < MaxPieces
          /\ arrived' = arrived \o OnWire(piece)
          /\ UNCHANGED <<raw, dataBuffer, expecting, taken>>
      BY <2>1 DEF Send
    <3>2. sent' \in Seq(Pieces) /\ Len(sent') = Len(sent) + 1
      BY <3>1, AppendProperties
    <3>3. Len(sent') <= MaxPieces
      BY <3>1, <3>2, ReaderAssumption
    <3>4. arrived' \in Seq(Bytes)
      <4>1. OnWire(piece) \in Seq(Bytes)
        BY PieceKinds
      <4> QED BY <3>1, <4>1, Joined
    <3> QED BY <3>1, <3>2, <3>3, <3>4
  <2>2. ASSUME NEW n \in 1..MaxRead, ReadConnection(n) PROVE Typed'
    <3> DEFINE all == raw \o SubSeq(arrived, 1, n)
    <3>1. /\ n \in 1..Len(arrived) /\ sent' = sent
          /\ arrived' = SubSeq(arrived, n + 1, Len(arrived))
      BY <2>2 DEF ReadConnection
    <3>2. all \in Seq(Bytes) /\ arrived' \in Seq(Bytes)
      BY <3>1, ReadParts
    <3>3. CASE ~IsSuffix(CRLF, all)
      BY <2>2, <3>1, <3>2, <3>3, KeepsReading
    <3>4. CASE IsSuffix(CRLF, all) /\ expecting = "line"
      <4>1. raw' = <<>> /\ LineRead(all)
        BY <2>2, <3>4, HandsOver
      <4> HIDE DEF all
      <4>2. /\ taken' = Append(taken, [kind |-> "line", bytes |-> all])
            /\ expecting' \in {"line", "message"} /\ dataBuffer' = dataBuffer
        BY <4>1 DEF LineRead, Take
      <4>3. taken' \in Seq(Taken)
        <5>1. [kind |-> "line", bytes |-> all] \in Taken
          BY <3>2 DEF Taken
        <5> QED BY <4>2, <5>1, AppendProperties
      <4> QED BY <3>1, <3>2, <3>4, <4>1, <4>2, <4>3
    <3>5. CASE IsSuffix(CRLF, all) /\ expecting # "line"
      <4> DEFINE data == dataBuffer \o all
      <4>1. raw' = <<>> /\ BlockRead(all)
        BY <2>2, <3>5, HandsOver
      <4> HIDE DEF all
      <4>2. data \in Seq(Bytes)
        BY <3>2, Joined
      <4>3. CASE Terminator \in SubSeqs(data)
        <5>1. /\ taken' = Append(taken, [kind |-> "message", bytes |-> SubSeq(data, 1, Len(data) - 3)])
              /\ dataBuffer' = <<>> /\ expecting' = "line"
          BY <4>1, <4>3 DEF BlockRead, Take
        <5> HIDE DEF data
        <5>2. SubSeq(data, 1, Len(data) - 3) \in Seq(Bytes)
          <6>1. Len(data) - 3 \in Int /\ 1 \in Int /\ \A i \in 1..Len(data) - 3 : data[i] \in Bytes
            BY <4>2
          <6> QED BY <6>1, SubSeqProperties
        <5>3. [kind |-> "message", bytes |-> SubSeq(data, 1, Len(data) - 3)] \in Taken
          BY <5>2 DEF Taken
        <5>4. taken' \in Seq(Taken)
          BY <5>1, <5>3, AppendProperties
        <5> QED BY <3>1, <3>2, <4>1, <5>1, <5>4
      <4>4. CASE Terminator \notin SubSeqs(data)
        <5>1. dataBuffer' = data /\ UNCHANGED <<expecting, taken>>
          BY <4>1, <4>4 DEF BlockRead
        <5> QED BY <3>1, <3>2, <3>5, <4>1, <4>2, <5>1
      <4> QED BY <4>3, <4>4
    <3> QED BY <3>3, <3>4, <3>5
  <2>3. CASE UNCHANGED vars
    BY <2>3 DEF vars
  <2> QED BY <2>1, <2>2, <2>3 DEF Next, Reading
<1> QED BY <1>1, <1>2, PTL DEF Spec

\* Whoever the client is, with Waits or without: the buffers hold bytes, what is taken is a
\* line or a message, and ReadDataBlock's buffer is empty while a line is expected.
THEOREM ReaderTypeCorrect == Spec => []TypeOK
<1>1. Typed => TypeOK
  <2> SUFFICES ASSUME Typed PROVE TypeOK
    OBVIOUS
  <2>1. \A i \in DOMAIN taken : taken[i].kind \in {"line", "message"}
    <3>1. taken \in Seq(Taken)
      BY DEF Typed
    <3>2. \A i \in DOMAIN taken : taken[i] \in Taken
      BY <3>1, ElementOfSeq, LenProperties
    <3> QED BY <3>2 DEF Taken
  <2> QED BY <2>1 DEF Typed, TypeOK, Bytes
<1> QED BY <1>1, TypedHolds, PTL

-----------------------------------------------------------------------------
\* One more piece taken, the one that was underway.
LEMMA OneMoreTaken ==
  ASSUME Typed, TakenInOrder, Len(sent) = Len(taken) + 1, UNCHANGED sent,
         taken' = Append(taken, AsTaken(sent[Len(sent)])), AsTaken(sent[Len(sent)]) \in Taken
  PROVE  TakenInOrder' /\ Len(sent') = Len(taken')
<1>1. taken \in Seq(Taken) /\ Len(taken) \in Nat /\ Len(sent) \in Nat
  BY DEF Typed
<1>2. /\ Len(taken') = Len(taken) + 1
      /\ \A i \in 1..Len(taken) : taken'[i] = taken[i]
      /\ taken'[Len(taken) + 1] = AsTaken(sent[Len(sent)])
  BY <1>1, AppendProperties
<1>3. ASSUME NEW i \in 1..Len(taken') PROVE taken'[i] = AsTaken(sent[i])
  <2>1. CASE i \in 1..Len(taken)
    BY <1>2, <2>1 DEF TakenInOrder
  <2>2. CASE i \notin 1..Len(taken)
    <3>1. i = Len(taken) + 1
      BY <1>1, <1>2, <2>2
    <3> QED BY <1>2, <3>1
  <2> QED BY <2>1, <2>2
<1> QED BY <1>1, <1>2, <1>3 DEF TakenInOrder

\* A client that waits sends when it is answered, and what it sends is of the kind the
\* reader expects.
LEMMA SendInStep ==
  ASSUME Waits, Typed, InStep, NEW piece \in Pieces, Send(piece)
  PROVE  InStep'
<1>1. /\ Len(taken) = Len(sent)
      /\ (piece.kind = "message") <=> (sent # <<>> /\ sent[Len(sent)] = DataLine)
      /\ sent' = Append(sent, piece)
      /\ arrived' = arrived \o OnWire(piece)
      /\ UNCHANGED <<raw, dataBuffer, expecting, taken>>
  BY DEF Send, Last
<1>2. sent \in Seq(Pieces) /\ Len(sent) \in Nat /\ Len(taken) \in Nat
  BY DEF Typed
<1>3. Answered /\ TakenInOrder
  BY <1>1, <1>2 DEF InStep, Underway
<1>4. /\ Len(sent') = Len(sent) + 1
      /\ \A i \in 1..Len(sent) : sent'[i] = sent[i]
      /\ sent'[Len(sent')] = piece
  BY <1>1, <1>2, AppendProperties
<1>5. TakenInOrder'
  BY <1>1, <1>2, <1>3, <1>4 DEF TakenInOrder
<1>6. expecting' = piece.kind
  <2>1. piece.kind \in {"line", "message"} /\ expecting \in {"line", "message"}
    BY PieceKinds DEF Typed
  <2> QED BY <1>1, <1>3, <2>1 DEF Answered
<1>7. dataBuffer' \o (raw' \o arrived') = OnWire(piece)
  <2>1. OnWire(piece) \in Seq(Bytes)
    BY PieceKinds
  <2>2. <<>> \o OnWire(piece) = OnWire(piece)
    BY <2>1, ConcatEmptySeq
  <2> QED BY <1>1, <1>3, <2>2 DEF Answered
<1> QED BY <1>1, <1>4, <1>5, <1>6, <1>7 DEF InStep, Underway

\* A read takes of the piece underway, and the piece with it when that was the rest.
LEMMA ReadInStep ==
  ASSUME Typed, InStep, NEW n, ReadConnection(n)
  PROVE  InStep'
<1>1. /\ n \in 1..Len(arrived) /\ sent' = sent
      /\ arrived' = SubSeq(arrived, n + 1, Len(arrived))
  BY DEF ReadConnection
<1>2. /\ sent \in Seq(Pieces) /\ Len(sent) \in Nat /\ taken \in Seq(Taken) /\ Len(taken) \in Nat
      /\ dataBuffer \in Seq(Bytes) /\ expecting \in {"line", "message"}
      /\ expecting = "line" => dataBuffer = <<>>
  BY DEF Typed
<1>3. Underway /\ TakenInOrder
  <2>1. arrived # <<>>
    BY <1>1
  <2> QED BY <2>1 DEF InStep, Answered
<1>4. PICK piece \in Pieces : piece = sent[Len(sent)]
  <2>1. Len(sent) \in 1..Len(sent)
    BY <1>2, <1>3 DEF Underway
  <2> QED BY <1>2, <2>1, ElementOfSeq
<1>5. PICK all \in Seq(Bytes), rest \in Seq(Bytes) :
         /\ all = raw \o SubSeq(arrived, 1, n) /\ rest = arrived'
         /\ all \o rest = raw \o arrived
  BY <1>1, ReadParts
<1>6. dataBuffer \o (all \o rest) = OnWire(piece) /\ expecting = piece.kind
  BY <1>3, <1>4, <1>5 DEF Underway
<1>7. CASE ~IsSuffix(CRLF, all)
  <2>1. raw' = all /\ UNCHANGED <<dataBuffer, expecting, taken>>
    BY <1>5, <1>7, KeepsReading
  <2>2. Underway'
    BY <1>1, <1>3, <1>4, <1>5, <1>6, <2>1 DEF Underway
  <2>3. TakenInOrder'
    BY <1>1, <1>3, <2>1 DEF TakenInOrder
  <2> QED BY <2>2, <2>3 DEF InStep
<1>8. CASE IsSuffix(CRLF, all) /\ expecting = "line"
  <2>1. raw' = <<>> /\ LineRead(all)
    BY <1>5, <1>8, HandsOver
  <2>2. piece = DataLine \/ piece = OtherLine
    BY <1>6, <1>8, PieceKinds
  <2>3. PICK c \in {"d", "x"} :
           /\ OnWire(piece) = <<c, "cr", "lf">>
           /\ piece = [kind |-> "line", bytes |-> <<c, "cr", "lf">>]
           /\ c = "d" <=> piece = DataLine
    <3>1. <<"d">> \o CRLF = <<"d", "cr", "lf">> /\ <<"x">> \o CRLF = <<"x", "cr", "lf">>
      BY LineBytes
    <3>2. /\ DataLine = [kind |-> "line", bytes |-> <<"d", "cr", "lf">>]
          /\ OtherLine = [kind |-> "line", bytes |-> <<"x", "cr", "lf">>]
      BY <3>1 DEF DataLine, OtherLine
    <3>3. DataLine # OtherLine
      <4>1. <<"d", "cr", "lf">>[1] = "d" /\ <<"x", "cr", "lf">>[1] = "x"
        OBVIOUS
      <4>2. <<"d", "cr", "lf">> # <<"x", "cr", "lf">>
        BY <4>1
      <4> QED BY <3>2, <4>2
    <3>4. OnWire(piece) = piece.bytes
      BY <1>6, <1>8, PieceKinds
    <3>5. CASE piece = DataLine
      BY <3>2, <3>4, <3>5
    <3>6. CASE piece = OtherLine
      BY <3>2, <3>3, <3>4, <3>6
    <3> QED BY <2>2, <3>5, <3>6
  <2>4. all = <<c, "cr", "lf">> /\ rest = <<>>
    <3>1. all \o rest = <<c, "cr", "lf">>
      <4>1. all \o rest \in Seq(Bytes)
        BY Joined
      <4>2. <<>> \o (all \o rest) = all \o rest
        BY <4>1, ConcatEmptySeq
      <4> QED BY <1>2, <1>6, <1>8, <2>3, <4>2
    <3> QED BY <1>8, <3>1, LineIsWhole
  <2>5. AsTaken(piece) = [kind |-> "line", bytes |-> all]
    BY <2>3, <2>4 DEF AsTaken
  <2>6. /\ taken' = Append(taken, AsTaken(piece)) /\ dataBuffer' = <<>>
        /\ expecting' = IF piece = DataLine THEN "message" ELSE "line"
    <3>1. all[1] = c
      BY <2>4
    <3> QED BY <1>2, <1>8, <2>1, <2>3, <2>5, <3>1 DEF LineRead, Take, IsData
  <2>7. AsTaken(piece) \in Taken
    BY <2>5 DEF Taken
  <2>8. TakenInOrder' /\ Len(sent') = Len(taken')
    BY <1>1, <1>3, <1>4, <2>6, <2>7, OneMoreTaken DEF Underway
  <2>9. sent # <<>>
    BY <1>2, <1>3 DEF Underway
  <2> QED BY <1>1, <1>4, <1>5, <2>1, <2>4, <2>6, <2>8, <2>9 DEF InStep, Answered
<1>9. CASE IsSuffix(CRLF, all) /\ expecting # "line"
  <2>1. raw' = <<>> /\ BlockRead(all)
    BY <1>5, <1>9, HandsOver
  <2>2. PICK data \in Seq(Bytes) : data = dataBuffer \o all
    BY <1>2, Joined
  <2>3. /\ piece.bytes \in Seq(Bytes)
        /\ Terminator \notin SubSeqs(piece.bytes \o Front(Terminator))
        /\ OnWire(piece) = piece.bytes \o Terminator
        /\ AsTaken(piece) = [kind |-> "message", bytes |-> piece.bytes \o CRLF]
        /\ piece # DataLine
    BY <1>2, <1>6, <1>9, PieceKinds
  <2>4. data \o rest = OnWire(piece)
    BY <1>2, <1>6, <2>2, Associative
  <2>5. CASE Terminator \in SubSeqs(data)
    <3>1. /\ taken' = Append(taken, [kind |-> "message", bytes |-> SubSeq(data, 1, Len(data) - 3)])
          /\ dataBuffer' = <<>> /\ expecting' = "line"
      BY <2>1, <2>2, <2>5 DEF BlockRead, Take
    <3>2. rest = <<>> /\ data = piece.bytes \o Terminator
      BY <2>3, <2>4, <2>5, TerminatorAtEnd
    <3>3. SubSeq(data, 1, Len(data) - 3) = piece.bytes \o CRLF
      BY <2>3, <3>2, ThreeCut
    <3>4. taken' = Append(taken, AsTaken(piece))
      BY <2>3, <3>1, <3>3
    <3>5. AsTaken(piece) \in Taken
      <4>1. piece.bytes \o CRLF \in Seq(Bytes)
        BY <2>3, Marks, Joined
      <4> QED BY <2>3, <4>1 DEF Taken
    <3>6. TakenInOrder' /\ Len(sent') = Len(taken')
      BY <1>1, <1>3, <1>4, <3>4, <3>5, OneMoreTaken DEF Underway
    <3> QED BY <1>1, <1>4, <1>5, <2>1, <2>3, <3>1, <3>2, <3>6 DEF InStep, Answered
  <2>6. CASE Terminator \notin SubSeqs(data)
    <3>1. dataBuffer' = data /\ UNCHANGED <<expecting, taken>>
      BY <2>1, <2>2, <2>6 DEF BlockRead
    <3>2. raw' \o arrived' = rest
      BY <1>5, <2>1, ConcatEmptySeq
    <3>3. Underway'
      BY <1>1, <1>3, <1>4, <1>6, <2>4, <3>1, <3>2 DEF Underway
    <3>4. TakenInOrder'
      BY <1>1, <1>3, <3>1 DEF TakenInOrder
    <3> QED BY <3>3, <3>4 DEF InStep
  <2> QED BY <2>5, <2>6
<1> QED BY <1>7, <1>8, <1>9

\* What is taken is the first of what was sent, without a gap.
LEMMA InOrderIsPrefix ==
  ASSUME Typed, TakenInOrder
  PROVE  TakenAsSent
<1> DEFINE S == {AsTaken(piece) : piece \in Pieces}
           all == [i \in DOMAIN sent |-> AsTaken(sent[i])]
<1>1. sent \in Seq(Pieces) /\ Len(sent) \in Nat /\ Len(taken) \in Nat /\ DOMAIN sent = 1..Len(sent)
  BY DEF Typed
<1>2. \A i \in 1..Len(sent) : sent[i] \in Pieces
  BY <1>1, ElementOfSeq
<1>3. all \in [1..Len(sent) -> S] /\ Len(all) = Len(sent)
  <2>1. all \in [1..Len(sent) -> S]
    BY <1>1, <1>2
  <2> HIDE DEF all, S
  <2> QED BY <1>1, <2>1
<1>4. \A i \in 1..Len(taken) : taken[i] = all[i] /\ all[i] \in S /\ taken[i] \in S
  BY <1>1, <1>2 DEF TakenInOrder
<1> HIDE DEF all, S
<1>5. /\ SubSeq(taken, 1, Len(taken)) \in Seq(S)
      /\ Len(SubSeq(taken, 1, Len(taken))) = IF 1 <= Len(taken) THEN Len(taken) - 1 + 1 ELSE 0
      /\ \A i \in 1..Len(taken) - 1 + 1 : SubSeq(taken, 1, Len(taken))[i] = taken[1 + i - 1]
  BY <1>1, <1>4, SubSeqProperties
<1>6. /\ SubSeq(all, 1, Len(taken)) \in Seq(S)
      /\ Len(SubSeq(all, 1, Len(taken))) = IF 1 <= Len(taken) THEN Len(taken) - 1 + 1 ELSE 0
      /\ \A i \in 1..Len(taken) - 1 + 1 : SubSeq(all, 1, Len(taken))[i] = all[1 + i - 1]
  BY <1>1, <1>4, SubSeqProperties
<1>7. SubSeq(taken, 1, Len(taken)) = SubSeq(all, 1, Len(taken))
  <2>1. \A i \in 1..Len(SubSeq(taken, 1, Len(taken))) :
           SubSeq(taken, 1, Len(taken))[i] = SubSeq(all, 1, Len(taken))[i]
    BY <1>1, <1>4, <1>5, <1>6
  <2> QED BY <1>5, <1>6, <2>1, SeqEqual
<1>8. IsPrefix(taken, all)
  BY <1>1, <1>3, <1>7 DEF IsPrefix, TakenInOrder
<1> QED BY <1>8 DEF TakenAsSent, all

\* A client that waits for its answers is understood byte for byte: what is taken of its
\* lines and messages, of any number and length, is what it sent, in order, whatever the
\* reads of the connection return.
THEOREM WaitingIsUnderstood ==
  ASSUME Waits
  PROVE  Spec => []TakenAsSent
<1>1. Init => InStep
  <2> SUFFICES ASSUME Init PROVE InStep
    OBVIOUS
  <2>1. Len(sent) = 0 /\ Len(taken) = 0
    BY EmptySeq DEF Init
  <2> QED BY <2>1 DEF Init, InStep, TakenInOrder, Answered
<1>2. Typed /\ InStep /\ [Next]_vars => InStep'
  <2> SUFFICES ASSUME Typed, InStep, [Next]_vars PROVE InStep'
    OBVIOUS
  <2>1. ASSUME NEW piece \in Pieces, Send(piece) PROVE InStep'
    BY <2>1, SendInStep
  <2>2. ASSUME NEW n \in 1..MaxRead, ReadConnection(n) PROVE InStep'
    BY <2>2, ReadInStep
  <2>3. CASE UNCHANGED vars
    BY <2>3 DEF vars, InStep, TakenInOrder, Answered, Underway
  <2> QED BY <2>1, <2>2, <2>3 DEF Next, Reading
<1>3. Typed /\ InStep => TakenAsSent
  BY InOrderIsPrefix DEF InStep
<1> QED BY <1>1, <1>2, <1>3, TypedHolds, PTL DEF Spec
==============================================================================
