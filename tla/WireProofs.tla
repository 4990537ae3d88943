----------------------------- MODULE WireProofs -----------------------------
(***************************************************************************)
(* Theorems about Wire: the reader finds its way back, and its errors have *)
(* causes, for any frames, any number of lost or altered bytes and of      *)
(* stalls, and every codec that keeps the promises of CodecAssumption.     *)
(***************************************************************************)
EXTENDS Wire, FiniteSetTheorems, SequenceTheorems, WellFoundedInduction, TLAPS

-----------------------------------------------------------------------------
(* Sequences                                                               *)

LEMMA EmptyLen ==
  ASSUME NEW S, NEW s \in Seq(S)
  PROVE  Len(s) \in Nat /\ (s = <<>> <=> Len(s) = 0)
<1>1. Len(s) \in Nat /\ Len(<<>>) = 0
  BY EmptySeq
<1>2. s # <<>> => Len(s) \in Nat \ {0}
  BY EmptySeq
<1> QED
  BY <1>1, <1>2

LEMMA HeadTail ==
  ASSUME NEW S, NEW s \in Seq(S), s # <<>>
  PROVE  /\ 1 \in 1 .. Len(s) /\ Head(s) = s[1] /\ s[1] \in S
         /\ Tail(s) \in Seq(S) /\ Len(Tail(s)) = Len(s) - 1
         /\ \A i \in 1 .. Len(Tail(s)) : Tail(s)[i] = s[i + 1]
<1>1. Len(s) \in Nat \ {0}
  BY EmptySeq
<1> QED
  BY <1>1

LEMMA Concat ==
  ASSUME NEW S, NEW s \in Seq(S), NEW t \in Seq(S)
  PROVE  /\ s \o t \in Seq(S) /\ Len(s \o t) = Len(s) + Len(t)
         /\ \A i \in 1 .. Len(s) : (s \o t)[i] = s[i]
         /\ \A i \in 1 .. Len(t) : (s \o t)[Len(s) + i] = t[i]
OBVIOUS

LEMMA Appended ==
  ASSUME NEW S, NEW s \in Seq(S), NEW e \in S
  PROVE  /\ Append(s, e) \in Seq(S) /\ Len(Append(s, e)) = Len(s) + 1
         /\ \A i \in 1 .. Len(s) : Append(s, e)[i] = s[i]
         /\ Append(s, e)[Len(s) + 1] = e
OBVIOUS

-----------------------------------------------------------------------------
(* The codec                                                               *)

\* The bytes of a frame.
Code(f) == CHOOSE w \in Encode(f) : TRUE

\* What CodecAssumption says of them.
LEMMA CodeFacts ==
  ASSUME NEW f \in Msgs, NEW w \in Encode(f)
  PROVE  /\ w = Code(f) /\ Encode(f) = {w}
         /\ w \in Seq(Octet) /\ Len(w) \in Nat /\ Len(w) > 1
         /\ \A i \in 1 .. Len(w) : w[i] \in Octet /\ (w[i] = 0 <=> i = Len(w))
         /\ Decode(SubSeq(w, 1, Len(w) - 1)) = {f}
<1>1. /\ Encode(f) = {w} /\ w \in Seq(Octet) /\ Len(w) > 1
      /\ \A i \in 1 .. Len(w) : w[i] = 0 <=> i = Len(w)
      /\ Decode(SubSeq(w, 1, Len(w) - 1)) = {f}
  BY CodecAssumption
<1>2. Code(f) = w
  BY <1>1 DEF Code
<1>3. Len(w) \in Nat /\ \A i \in 1 .. Len(w) : w[i] \in Octet
  BY <1>1
<1> QED
  BY <1>1, <1>2, <1>3

-----------------------------------------------------------------------------
(* The inductive invariant                                                 *)

\* A byte of a stream, as it is now and as it was written.
StreamByte == [b : Octet, of : Nat, at : Nat]

\* TypeOK, without what got holds: the codec is not known to return frames.
TypeInv ==
  /\ sent \in Seq(Msgs)
  /\ wire \in Seq(StreamByte)
  /\ buf \in Seq(StreamByte) /\ \A i \in 1 .. Len(buf) : buf[i].b # 0
  /\ \E S : got \in Seq(S)
  /\ errors \in Nat /\ faults \in Nat /\ stalls \in Nat

\* y comes after x in the stream as it was written, when x belongs to a frame
\* of len bytes.
Follows(x, y, len) ==
  IF x.at < len THEN y.of = x.of /\ y.at = x.at + 1
                ELSE y.of = x.of + 1 /\ y.at = 1

\* The wire holds the end of the stream that was written, altered in its
\* first byte at most.
WireOK ==
  /\ \A k \in 1 .. Len(sent) : Encode(sent[k]) # {}
  /\ \A i \in 1 .. Len(wire) :
       /\ wire[i].of \in 1 .. Len(sent)
       /\ wire[i].at \in 1 .. Len(Code(sent[wire[i].of]))
       /\ i > 1 => wire[i].b = Code(sent[wire[i].of])[wire[i].at]
       /\ i < Len(wire) =>
            Follows(wire[i], wire[i + 1], Len(Code(sent[wire[i].of])))
       /\ i = Len(wire) => /\ wire[i].of = Len(sent)
                           /\ wire[i].at = Len(Code(sent[wire[i].of]))

\* The next byte is not the one that was written.
Wrong == wire # <<>> /\ wire[1].b # Code(sent[wire[1].of])[wire[1].at]

\* What was read of the frame at the head of the wire is what was written.
Clean ==
  IF wire = <<>> THEN buf = <<>>
  ELSE /\ ~Wrong
       /\ Len(buf) = wire[1].at - 1
       /\ \A i \in 1 .. Len(buf) : buf[i].b = Code(sent[wire[1].of])[i]

\* The frames that what happened so far will still cost.
Doomed == IF Wrong THEN 2 ELSE IF Clean THEN 0 ELSE 1

\* The frames that have left the wire.
Gone == IF wire = <<>> THEN Len(sent) ELSE wire[1].of - 1

\* Resyncs and ErrorsHaveCauses alone are not inductive: a byte that was just
\* spoilt has cost nothing yet.
CostOK ==
  /\ errors + Doomed <= 2 * faults + stalls
  /\ (Gone - Len(got)) + Doomed <= 2 * faults + stalls

Inv == TypeInv /\ WireOK /\ CostOK

LEMMA InvInit == Init => Inv
<1> SUFFICES ASSUME Init PROVE Inv
  OBVIOUS
<1>1. TypeInv
  BY DEF Init, TypeInv
<1>2. WireOK /\ CostOK
  BY DEF Init, WireOK, CostOK, Doomed, Wrong, Clean, Gone
<1> QED
  BY <1>1, <1>2 DEF Inv

-----------------------------------------------------------------------------
(* The byte at the head of the wire                                        *)

LEMMA SentFacts ==
  ASSUME TypeInv, WireOK, NEW k \in 1 .. Len(sent)
  PROVE  LET w == Code(sent[k]) IN
         /\ w \in Seq(Octet) /\ Len(w) \in Nat /\ Len(w) > 1
         /\ \A i \in 1 .. Len(w) : w[i] \in Octet /\ (w[i] = 0 <=> i = Len(w))
         /\ Decode(SubSeq(w, 1, Len(w) - 1)) = {sent[k]}
<1>1. sent[k] \in Msgs
  BY DEF TypeInv
<1>2. PICK w \in Encode(sent[k]) : TRUE
  BY DEF WireOK
<1>3. w = Code(sent[k])
  BY <1>1, <1>2, CodeFacts
<1> QED
  BY <1>1, <1>3, CodeFacts

LEMMA HeadFacts ==
  ASSUME TypeInv, WireOK, wire # <<>>
  PROVE  LET w == Code(sent[wire[1].of]) IN
         /\ Head(wire) = wire[1] /\ 1 \in 1 .. Len(wire)
         /\ wire[1] \in StreamByte
         /\ wire[1].of \in 1 .. Len(sent) /\ wire[1].at \in 1 .. Len(w)
         /\ Gone = wire[1].of - 1
         /\ ~Wrong => (wire[1].b = 0 <=> wire[1].at = Len(w))
         /\ Wrong /\ wire[1].b = 0 => wire[1].at # Len(w)
<1> DEFINE w == Code(sent[wire[1].of])
<1>1. /\ Head(wire) = wire[1] /\ 1 \in 1 .. Len(wire)
      /\ wire[1] \in StreamByte
  BY HeadTail DEF TypeInv
<1>2. wire[1].of \in 1 .. Len(sent) /\ wire[1].at \in 1 .. Len(w)
  BY <1>1 DEF WireOK
<1>3. w[wire[1].at] = 0 <=> wire[1].at = Len(w)
  BY <1>2, SentFacts
<1> QED
  BY <1>1, <1>2, <1>3 DEF Gone, Wrong

\* What is left when the byte at the head is taken off.
LEMMA TailFacts ==
  ASSUME TypeInv, WireOK, wire # <<>>, wire' = Tail(wire), UNCHANGED sent
  PROVE  LET len == Len(Code(sent[wire[1].of])) IN
         /\ wire' \in Seq(StreamByte) /\ WireOK' /\ ~Wrong'
         /\ wire[1].at < len =>
              /\ Gone' = Gone /\ wire' # <<>>
              /\ wire'[1].of = wire[1].of /\ wire'[1].at = wire[1].at + 1
         /\ wire[1].at = len =>
              /\ Gone' = Gone + 1
              /\ wire' = <<>> \/ wire'[1].at = 1
<1> DEFINE len(k) == Len(Code(sent[k]))
<1>1. /\ wire \in Seq(StreamByte) /\ Len(wire) \in Nat \ {0}
      /\ wire' \in Seq(StreamByte)
      /\ Len(wire') = Len(wire) - 1
      /\ \A i \in 1 .. Len(wire') : wire'[i] = wire[i + 1]
  BY HeadTail, EmptyLen DEF TypeInv
<1>2. ASSUME NEW i \in 1 .. Len(wire')
      PROVE  /\ wire'[i].of \in 1 .. Len(sent)
             /\ wire'[i].at \in 1 .. len(wire'[i].of)
             /\ wire'[i].b = Code(sent[wire'[i].of])[wire'[i].at]
             /\ i < Len(wire') =>
                  Follows(wire'[i], wire'[i + 1], len(wire'[i].of))
             /\ i = Len(wire') => /\ wire'[i].of = Len(sent)
                                  /\ wire'[i].at = len(wire'[i].of)
  <2>1. i + 1 \in 1 .. Len(wire) /\ i + 1 > 1 /\ wire'[i] = wire[i + 1]
    BY <1>1
  <2>2. i < Len(wire') => i + 1 < Len(wire) /\ wire'[i + 1] = wire[(i + 1) + 1]
    BY <1>1
  <2>3. i = Len(wire') => i + 1 = Len(wire)
    BY <1>1
  <2> QED
    BY <2>1, <2>2, <2>3 DEF WireOK
<1>3. WireOK'
  BY <1>2 DEF WireOK
<1>4. wire' # <<>> <=> 1 \in 1 .. Len(wire')
  BY <1>1, EmptyLen
<1>5. ~Wrong'
  BY <1>2, <1>4 DEF Wrong
<1>6. /\ wire[1].of \in 1 .. Len(sent) /\ Gone = wire[1].of - 1
      /\ wire[1].at \in 1 .. len(wire[1].of)
      /\ len(wire[1].of) \in Nat /\ Len(sent) \in Nat
  BY HeadFacts, SentFacts, EmptyLen DEF TypeInv
<1>7. CASE Len(wire) = 1
  <2>1. wire' = <<>>
    BY <1>1, <1>7, EmptyLen
  <2>2. wire[1].of = Len(sent) /\ wire[1].at = len(wire[1].of)
    BY <1>7 DEF WireOK
  <2>3. Gone' = Len(sent)
    BY <2>1 DEF Gone
  <2> QED
    BY <1>1, <1>3, <1>5, <1>6, <2>1, <2>2, <2>3
<1>8. CASE Len(wire) > 1
  <2>1. 1 \in 1 .. Len(wire') /\ 1 \in 1 .. Len(wire) /\ 1 + 1 = 2
    BY <1>1, <1>8
  <2>2. wire' # <<>> /\ wire'[1] = wire[2]
    BY <1>1, <1>4, <2>1
  <2>3. Follows(wire[1], wire[2], len(wire[1].of))
    BY <1>8, <2>1 DEF WireOK
  <2>4. Gone' = wire'[1].of - 1
    BY <2>2 DEF Gone
  <2>5. ASSUME wire[1].at < len(wire[1].of)
        PROVE  /\ wire'[1].of = wire[1].of /\ wire'[1].at = wire[1].at + 1
               /\ Gone' = Gone
    BY <1>6, <2>2, <2>3, <2>4, <2>5 DEF Follows
  <2>6. ASSUME wire[1].at = len(wire[1].of)
        PROVE  Gone' = Gone + 1 /\ wire'[1].at = 1
    <3>1. wire'[1].of = wire[1].of + 1
      BY <1>6, <2>2, <2>3, <2>6 DEF Follows
    <3>2. wire'[1].at = 1
      BY <1>6, <2>2, <2>3, <2>6 DEF Follows
    <3>3. PICK k \in Nat : k = wire[1].of
      BY <1>6
    <3>4. Gone = k - 1
      BY <1>6, <3>3
    <3>5. Gone' = (k + 1) - 1
      BY <2>4, <3>1, <3>3
    <3>6. Gone' = Gone + 1
      BY <3>4, <3>5
    <3> QED
      BY <3>2, <3>6
  <2> QED
    BY <1>1, <1>3, <1>5, <2>2, <2>5, <2>6
<1> QED
  BY <1>1, <1>7, <1>8

-----------------------------------------------------------------------------
(* Every step keeps it                                                     *)

LEMMA Numbers ==
  ASSUME TypeInv, WireOK
  PROVE  Gone \in Nat /\ Len(got) \in Nat /\ Doomed \in 0 .. 2
<1>1. Gone \in Nat
  BY HeadFacts, EmptyLen DEF Gone, TypeInv
<1>2. Len(got) \in Nat
  BY EmptyLen DEF TypeInv
<1> QED
  BY <1>1, <1>2 DEF Doomed

LEMMA Balance ==
  ASSUME NEW e \in Nat, NEW g \in Nat, NEW n \in Nat, NEW b \in Nat,
         NEW d \in 0 .. 2, NEW x \in 0 .. 2,
         NEW de \in Nat, NEW dg \in Nat, NEW dn \in Nat, NEW db \in Nat,
         e + d <= b, (g - n) + d <= b,
         de + x <= d + db, dg + x <= d + db + dn
  PROVE  (e + de) + x <= b + db /\ ((g + dg) - (n + dn)) + x <= b + db
OBVIOUS

LEMMA CostNow ==
  ASSUME TypeInv, WireOK, CostOK
  PROVE  \E e, g, n, b \in Nat, d \in 0 .. 2 :
           /\ e = errors /\ g = Gone /\ n = Len(got) /\ d = Doomed
           /\ b = 2 * faults + stalls
           /\ e + d <= b /\ (g - n) + d <= b
<1>1. Gone \in Nat /\ Len(got) \in Nat /\ Doomed \in 0 .. 2
  BY Numbers
<1>2. errors \in Nat
  BY DEF TypeInv
<1>3. 2 * faults + stalls \in Nat
  BY DEF TypeInv
<1>4. errors + Doomed <= 2 * faults + stalls
  BY DEF CostOK
<1>5. (Gone - Len(got)) + Doomed <= 2 * faults + stalls
  BY DEF CostOK
<1> QED
  BY <1>1, <1>2, <1>3, <1>4, <1>5

\* A step keeps CostOK when the errors and the frames it costs, and those that
\* are still to come, are paid for by what was owed and by what happened in it.
LEMMA CostNext ==
  ASSUME TypeInv, WireOK, CostOK,
         NEW d \in 0 .. 2, NEW x \in 0 .. 2, Doomed = d, Doomed' = x,
         NEW de \in Nat, errors' = errors + de,
         NEW dg \in Nat, Gone' = Gone + dg,
         NEW dn \in Nat, Len(got') = Len(got) + dn,
         NEW db \in Nat, 2 * faults' + stalls' = (2 * faults + stalls) + db,
         de + x <= d + db, dg + x <= d + db + dn
  PROVE  CostOK'
<1>1. PICK e, g, n, b \in Nat :
        /\ e = errors /\ g = Gone /\ n = Len(got)
        /\ b = 2 * faults + stalls
        /\ e + d <= b /\ (g - n) + d <= b
  BY CostNow
<1>2. (e + de) + x <= b + db /\ ((g + dg) - (n + dn)) + x <= b + db
  BY <1>1, Balance
<1>3. errors' + Doomed' <= 2 * faults' + stalls'
  BY <1>1, <1>2
<1>4. (Gone' - Len(got')) + Doomed' <= 2 * faults' + stalls'
  BY <1>1, <1>2
<1> QED
  BY <1>3, <1>4 DEF CostOK

LEMMA ReadByteKeeps ==
  ASSUME Inv, ReadByte
  PROVE  Inv'
<1> DEFINE of == wire[1].of
           at == wire[1].at
           len == Len(Code(sent[of]))
<1>0. TypeInv /\ WireOK /\ CostOK
  BY DEF Inv
<1>1. /\ TypeInv /\ WireOK /\ CostOK
      /\ wire # <<>> /\ Head(wire).b # 0
      /\ buf' = Append(buf, Head(wire)) /\ wire' = Tail(wire)
      /\ UNCHANGED <<sent, got, errors, faults, stalls>>
  BY DEF Inv, ReadByte
<1>2. /\ Head(wire) = wire[1] /\ wire[1] \in StreamByte
      /\ of \in 1 .. Len(sent) /\ at \in 1 .. len
      /\ ~Wrong => at # len
  BY <1>1, HeadFacts
<1>3. /\ wire' \in Seq(StreamByte) /\ WireOK' /\ ~Wrong'
      /\ at < len => /\ Gone' = Gone /\ wire' # <<>>
                     /\ wire'[1].of = of /\ wire'[1].at = at + 1
      /\ at = len => Gone' = Gone + 1
  BY <1>1, TailFacts
<1>4. len \in Nat
  BY <1>1, <1>2, SentFacts
<1>5. /\ buf \in Seq(StreamByte) /\ Len(buf) \in Nat
      /\ buf' \in Seq(StreamByte) /\ Len(buf') = Len(buf) + 1
      /\ \A i \in 1 .. Len(buf) : buf'[i] = buf[i]
      /\ buf'[Len(buf) + 1] = wire[1]
  BY <1>1, <1>2, Appended, EmptyLen DEF TypeInv
<1>6. TypeInv'
  <2>1. ASSUME NEW i \in 1 .. Len(buf') PROVE buf'[i].b # 0
    <3>1. CASE i \in 1 .. Len(buf)
      BY <1>1, <1>5, <3>1 DEF TypeInv
    <3>2. CASE i = Len(buf) + 1
      BY <1>1, <1>2, <1>5, <3>2
    <3> QED
      BY <1>5, <3>1, <3>2
  <2> QED
    BY <1>1, <1>3, <1>5, <2>1 DEF TypeInv
<1>9. /\ Gone \in Nat /\ errors' = errors + 0 /\ Len(got') = Len(got) + 0
      /\ 2 * faults' + stalls' = (2 * faults + stalls) + 0
  BY <1>1, Numbers DEF TypeInv
<1>7. CASE Wrong
  <2>1. Doomed = 2
    BY <1>7 DEF Doomed
  <2>2. PICK x \in 0 .. 1 : Doomed' = x
    BY <1>3 DEF Doomed
  <2>3. PICK dg \in 0 .. 1 : Gone' = Gone + dg
    <3> HIDE DEF len, at, of
    <3> QED
      BY <1>2, <1>3, <1>4, <1>9
  <2>4. /\ x \in 0 .. 2 /\ dg \in Nat /\ 0 \in Nat /\ 2 \in 0 .. 2
        /\ 0 + x <= 2 + 0 /\ dg + x <= 2 + 0 + 0
    BY <2>2, <2>3
  <2>5. CostOK'
    BY <1>0, <1>9, <2>1, <2>2, <2>3, <2>4, CostNext
  <2> QED
    BY <1>3, <1>6, <2>5 DEF Inv
<1>8. CASE ~Wrong
  <2>1. at < len
    <3> HIDE DEF len, at, of
    <3> QED
      BY <1>2, <1>4, <1>8
  <2>2. ASSUME Clean PROVE Clean'
    <3>1. /\ Len(buf) = at - 1
          /\ \A i \in 1 .. Len(buf) : buf[i].b = Code(sent[of])[i]
      BY <1>1, <2>2 DEF Clean
    <3>2. Len(buf') = at
      BY <1>2, <1>5, <3>1
    <3>3. ASSUME NEW i \in 1 .. Len(buf') PROVE buf'[i].b = Code(sent[of])[i]
      <4>1. CASE i \in 1 .. Len(buf)
        BY <1>5, <3>1, <4>1
      <4>2. CASE i = Len(buf) + 1
        <5>1. buf'[i] = wire[1] /\ i = at
          BY <1>2, <1>5, <3>1, <4>2
        <5>2. wire[1].b = Code(sent[of])[at]
          BY <1>1, <1>8 DEF Wrong
        <5> QED
          BY <5>1, <5>2
      <4> QED
        BY <1>5, <4>1, <4>2
    <3>4. wire' # <<>> /\ wire'[1].of = of /\ wire'[1].at - 1 = at
      BY <1>2, <1>3, <2>1
    <3> QED
      BY <1>1, <1>3, <3>2, <3>3, <3>4 DEF Clean
  <2>3. PICK d \in 0 .. 1, x \in 0 .. 1 : Doomed = d /\ Doomed' = x /\ x <= d
    BY <1>3, <1>8, <2>2 DEF Doomed
  <2>4. Gone' = Gone + 0
    BY <1>3, <1>9, <2>1
  <2>5. /\ x \in 0 .. 2 /\ d \in 0 .. 2 /\ 0 \in Nat
        /\ 0 + x <= d + 0 /\ 0 + x <= d + 0 + 0
    BY <2>3
  <2>6. CostOK'
    BY <1>0, <1>9, <2>3, <2>4, <2>5, CostNext
  <2> QED
    BY <1>3, <1>6, <2>6 DEF Inv
<1> QED
  BY <1>7, <1>8

\* read_frame gives the decoder the bytes of the frame before the delimiter.
LEMMA WholeFrame ==
  ASSUME NEW w \in Seq(Octet), buf \in Seq(StreamByte), Len(buf) = Len(w) - 1,
         \A i \in 1 .. Len(buf) : buf[i].b = w[i]
  PROVE  Octets(buf) = SubSeq(w, 1, Len(w) - 1)
<1>1. Len(w) \in Nat /\ Len(buf) \in Nat
  BY EmptyLen
<1>2. DOMAIN buf = 1 .. Len(w) - 1
  BY <1>1
<1>3. Octets(buf) = [i \in 1 .. Len(w) - 1 |-> w[i]]
  BY <1>2 DEF Octets
<1>4. SubSeq(w, 1, Len(w) - 1) = [i \in 1 .. Len(w) - 1 |-> w[i]]
  BY <1>1
<1> QED
  BY <1>3, <1>4

LEMMA ReadDelimiterKeeps ==
  ASSUME Inv, ReadDelimiter
  PROVE  Inv'
<1> DEFINE of == wire[1].of
           at == wire[1].at
           len == Len(Code(sent[of]))
           frames == Decode(Octets(buf))
<1>0. TypeInv /\ WireOK /\ CostOK
  BY DEF Inv
<1>1. /\ wire # <<>> /\ Head(wire).b = 0
      /\ buf' = <<>> /\ wire' = Tail(wire)
      /\ UNCHANGED <<sent, faults, stalls>>
  BY DEF ReadDelimiter, Fresh, Rest
<1>2. \/ UNCHANGED <<got, errors>> /\ buf = <<>>
      \/ errors' = errors + 1 /\ UNCHANGED got /\ frames = {}
      \/ (\E f \in frames : got' = Append(got, f)) /\ UNCHANGED errors
  BY DEF ReadDelimiter
<1>3. /\ Head(wire) = wire[1] /\ wire[1] \in StreamByte
      /\ of \in 1 .. Len(sent) /\ at \in 1 .. len
      /\ ~Wrong <=> at = len
  BY <1>0, <1>1, HeadFacts
<1>4. /\ wire' \in Seq(StreamByte) /\ WireOK' /\ ~Wrong'
      /\ at < len => Gone' = Gone
      /\ at = len => Gone' = Gone + 1 /\ (wire' = <<>> \/ wire'[1].at = 1)
  BY <1>0, <1>1, TailFacts
<1>5. len \in Nat /\ len > 1
  BY <1>0, <1>3, SentFacts
<1>6. PICK S : got \in Seq(S)
  BY <1>0 DEF TypeInv
<1>7. PICK n \in Nat : n = Len(got)
  BY <1>6, EmptyLen
<1>8. ASSUME NEW f, got' = Append(got, f)
      PROVE  got' \in Seq(S \cup {f}) /\ Len(got') = Len(got) + 1
  BY <1>6, <1>8
<1>9. (\E T : got' \in Seq(T)) /\ errors' \in Nat
  <2>1. \E T : got' \in Seq(T)
    BY <1>2, <1>6, <1>8
  <2>2. errors \in Nat
    BY <1>0 DEF TypeInv
  <2> QED
    BY <1>2, <2>1, <2>2
<1>10. TypeInv'
  BY <1>0, <1>1, <1>4, <1>9 DEF TypeInv
<1>11. PICK de \in 0 .. 1, dn \in 0 .. 1 :
         errors' = errors + de /\ Len(got') = Len(got) + dn
  BY <1>0, <1>2, <1>7, <1>8 DEF TypeInv
<1>12. /\ Gone \in Nat
       /\ 2 * faults' + stalls' = (2 * faults + stalls) + 0
  BY <1>0, <1>1, Numbers DEF TypeInv
<1>13. CASE Wrong
  <2>1. Doomed = 2
    BY <1>13 DEF Doomed
  <2>2. PICK x \in 0 .. 1 : Doomed' = x
    BY <1>4 DEF Doomed
  <2>3. at < len
    <3> HIDE DEF at, len
    <3> QED
      BY <1>3, <1>5, <1>13
  <2>4. Gone' = Gone + 0
    BY <1>4, <1>12, <2>3
  <2>5. /\ x \in 0 .. 2 /\ de \in Nat /\ dn \in Nat /\ 0 \in Nat /\ 2 \in 0 .. 2
        /\ de + x <= 2 + 0 /\ 0 + x <= 2 + 0 + dn
    BY <1>11, <2>2
  <2>6. CostOK'
    BY <1>0, <1>11, <1>12, <2>1, <2>2, <2>4, <2>5, CostNext
  <2> QED
    BY <1>4, <1>10, <2>6 DEF Inv
<1>14. CASE ~Wrong
  <2>1. at = len /\ Gone' = Gone + 1 /\ (wire' = <<>> \/ wire'[1].at = 1)
    BY <1>3, <1>4, <1>14
  <2>2. Clean'
    BY <1>1, <1>4, <2>1 DEF Clean
  <2>3. Doomed' = 0
    BY <1>4, <2>2 DEF Doomed
  <2>6. Gone' = Gone + 1
    BY <2>1
  <2>4. CASE Clean
    <3>1. /\ Len(buf) = len - 1
          /\ \A i \in 1 .. Len(buf) : buf[i].b = Code(sent[of])[i]
      BY <1>1, <2>1, <2>4 DEF Clean
    <3>2. /\ Code(sent[of]) \in Seq(Octet)
          /\ Decode(SubSeq(Code(sent[of]), 1, len - 1)) = {sent[of]}
      BY <1>0, <1>3, SentFacts
    <3>3. buf \in Seq(StreamByte) /\ buf # <<>>
      BY <1>0, <1>5, <3>1, EmptyLen DEF TypeInv
    <3>4. frames = {sent[of]}
      BY <3>1, <3>2, <3>3, WholeFrame
    <3>5. UNCHANGED errors /\ got' = Append(got, sent[of])
      <4> HIDE DEF frames
      <4> QED
        BY <1>2, <3>3, <3>4
    <3>6. errors' = errors + 0 /\ Len(got') = Len(got) + 1
      BY <1>0, <1>8, <3>5 DEF TypeInv
    <3>7. Doomed = 0
      BY <1>14, <2>4 DEF Doomed
    <3>8. 0 \in 0 .. 2 /\ 0 \in Nat /\ 1 \in Nat /\ 0 + 0 <= 0 + 0 /\ 1 + 0 <= 0 + 0 + 1
      OBVIOUS
    <3>9. CostOK'
      BY <1>0, <1>12, <2>6, <2>3, <3>6, <3>7, <3>8, CostNext
    <3> QED
      BY <1>4, <1>10, <3>9 DEF Inv
  <2>5. CASE ~Clean
    <3>1. Doomed = 1
      BY <1>14, <2>5 DEF Doomed
    <3>2. /\ 0 \in 0 .. 2 /\ 1 \in 0 .. 2 /\ 0 \in Nat /\ 1 \in Nat
          /\ de \in Nat /\ dn \in Nat
          /\ de + 0 <= 1 + 0 /\ 1 + 0 <= 1 + 0 + dn
      BY <1>11
    <3>3. CostOK'
      BY <1>0, <1>11, <1>12, <2>6, <2>3, <3>1, <3>2, CostNext
    <3> QED
      BY <1>4, <1>10, <3>3 DEF Inv
  <2> QED
    BY <2>4, <2>5
<1> QED
  BY <1>13, <1>14

\* A byte that is altered keeps its place.
LEMMA AlterKeeps ==
  ASSUME TypeInv, WireOK, wire # <<>>, NEW c \in Octet,
         wire' = [wire EXCEPT ![1].b = c], UNCHANGED sent
  PROVE  wire' \in Seq(StreamByte) /\ WireOK' /\ Gone' = Gone
<1>1. /\ wire \in Seq(StreamByte) /\ Len(wire) \in Nat
      /\ 1 \in 1 .. Len(wire) /\ wire[1] \in StreamByte
  BY HeadTail, EmptyLen DEF TypeInv
<1>2. [wire[1] EXCEPT !.b = c] \in StreamByte
  BY <1>1 DEF StreamByte
<1>3. wire' = [wire EXCEPT ![1] = [wire[1] EXCEPT !.b = c]]
  BY <1>1
<1>4. /\ wire' \in Seq(StreamByte) /\ Len(wire') = Len(wire)
      /\ wire'[1] = [wire[1] EXCEPT !.b = c]
      /\ \A i \in 1 .. Len(wire) : i # 1 => wire'[i] = wire[i]
  BY <1>1, <1>2, <1>3
<1>5. wire'[1].of = wire[1].of /\ wire'[1].at = wire[1].at
  BY <1>1, <1>4 DEF StreamByte
<1>6. wire' # <<>>
  BY <1>1, <1>4, EmptyLen
<1>7. Gone' = Gone
  BY <1>5, <1>6 DEF Gone
<1>8. ASSUME NEW i \in 1 .. Len(wire')
      PROVE  wire'[i].of = wire[i].of /\ wire'[i].at = wire[i].at
  BY <1>4, <1>5
<1>9. ASSUME NEW i \in 1 .. Len(wire')
      PROVE  /\ wire'[i].of \in 1 .. Len(sent)
             /\ wire'[i].at \in 1 .. Len(Code(sent[wire'[i].of]))
             /\ i > 1 => wire'[i].b = Code(sent[wire'[i].of])[wire'[i].at]
             /\ i < Len(wire') =>
                  Follows(wire'[i], wire'[i + 1], Len(Code(sent[wire'[i].of])))
             /\ i = Len(wire') => /\ wire'[i].of = Len(sent)
                                  /\ wire'[i].at = Len(Code(sent[wire'[i].of]))
  <2>1. i \in 1 .. Len(wire) /\ (i = Len(wire') <=> i = Len(wire))
        /\ (i < Len(wire') <=> i < Len(wire))
    BY <1>4
  <2>2. i > 1 => wire'[i] = wire[i]
    BY <1>1, <1>4, <2>1
  <2>3. i < Len(wire) => i + 1 \in 1 .. Len(wire')
    BY <1>1, <1>4, <2>1
  <2>4. i < Len(wire) => wire'[i + 1].of = wire[i + 1].of /\ wire'[i + 1].at = wire[i + 1].at
    BY <1>8, <2>3
  <2>5. i < Len(wire) =>
          Follows(wire'[i], wire'[i + 1], Len(Code(sent[wire'[i].of])))
    <3> SUFFICES ASSUME i < Len(wire)
                 PROVE  Follows(wire'[i], wire'[i + 1], Len(Code(sent[wire'[i].of])))
      OBVIOUS
    <3>1. Follows(wire[i], wire[i + 1], Len(Code(sent[wire[i].of])))
      BY <2>1 DEF WireOK
    <3> QED
      BY <1>8, <2>4, <3>1 DEF Follows
  <2>6. /\ wire'[i].of \in 1 .. Len(sent)
        /\ wire'[i].at \in 1 .. Len(Code(sent[wire'[i].of]))
    BY <1>8, <2>1 DEF WireOK
  <2>7. i > 1 => wire'[i].b = Code(sent[wire'[i].of])[wire'[i].at]
    BY <2>1, <2>2 DEF WireOK
  <2>8. i = Len(wire') => /\ wire'[i].of = Len(sent)
                          /\ wire'[i].at = Len(Code(sent[wire'[i].of]))
    BY <1>8, <2>1 DEF WireOK
  <2> QED
    BY <2>1, <2>5, <2>6, <2>7, <2>8
<1>10. WireOK'
  BY <1>9 DEF WireOK
<1> QED
  BY <1>4, <1>7, <1>10

LEMMA SpoilsKeeps ==
  ASSUME Inv, Spoils
  PROVE  Inv'
<1>0. TypeInv /\ WireOK /\ CostOK
  BY DEF Inv
<1>1. /\ wire # <<>> /\ faults' = faults + 1
      /\ UNCHANGED <<sent, buf, got, errors, stalls>>
  BY DEF Spoils
<1>2. PICK d \in 0 .. 2 : Doomed = d
  BY <1>0, Numbers
<1>3. /\ Gone \in Nat /\ errors' = errors + 0 /\ Len(got') = Len(got) + 0
      /\ 2 * faults' + stalls' = (2 * faults + stalls) + 2
  BY <1>0, <1>1, Numbers DEF TypeInv
<1>4. ASSUME wire' \in Seq(StreamByte) PROVE TypeInv'
  BY <1>0, <1>1, <1>4 DEF TypeInv
<1>5. CASE wire' = Tail(wire)
  <2>1. /\ wire' \in Seq(StreamByte) /\ WireOK' /\ ~Wrong'
    BY <1>0, <1>1, <1>5, TailFacts
  <2>2. Gone' = Gone \/ Gone' = Gone + 1
    <3>1. /\ wire[1].at \in 1 .. Len(Code(sent[wire[1].of]))
          /\ wire[1].of \in 1 .. Len(sent)
      BY <1>0, <1>1, HeadFacts
    <3>2. Len(Code(sent[wire[1].of])) \in Nat
      BY <1>0, <3>1, SentFacts
    <3>3. /\ wire[1].at < Len(Code(sent[wire[1].of])) => Gone' = Gone
          /\ wire[1].at = Len(Code(sent[wire[1].of])) => Gone' = Gone + 1
      BY <1>0, <1>1, <1>5, TailFacts
    <3> QED
      BY <3>1, <3>2, <3>3
  <2>3. PICK dg \in 0 .. 1 : Gone' = Gone + dg
    BY <1>3, <2>2
  <2>4. PICK x \in 0 .. 1 : Doomed' = x
    BY <2>1 DEF Doomed
  <2>5. /\ x \in 0 .. 2 /\ dg \in Nat /\ 0 \in Nat /\ 2 \in Nat
        /\ 0 + x <= d + 2 /\ dg + x <= d + 2 + 0
    BY <1>2, <2>3, <2>4
  <2>6. CostOK'
    BY <1>0, <1>2, <1>3, <2>3, <2>4, <2>5, CostNext
  <2> QED
    BY <1>4, <2>1, <2>6 DEF Inv
<1>6. CASE \E c \in Noise : wire' = [wire EXCEPT ![1].b = c]
  <2>1. PICK c \in Octet : wire' = [wire EXCEPT ![1].b = c]
    BY <1>6, WireAssumption
  <2>2. wire' \in Seq(StreamByte) /\ WireOK' /\ Gone' = Gone
    BY <1>0, <1>1, <2>1, AlterKeeps
  <2>3. PICK x \in 0 .. 2 : Doomed' = x
    BY DEF Doomed
  <2>4. Gone' = Gone + 0
    BY <1>3, <2>2
  <2>5. /\ 0 \in Nat /\ 2 \in Nat
        /\ 0 + x <= d + 2 /\ 0 + x <= d + 2 + 0
    BY <1>2, <2>3
  <2>6. CostOK'
    BY <1>0, <1>2, <1>3, <2>3, <2>4, <2>5, CostNext
  <2> QED
    BY <1>4, <2>2, <2>6 DEF Inv
<1> QED
  BY <1>5, <1>6 DEF Spoils

\* A time-out costs the frame whose first bytes it drops.
LEMMA ReadNothingKeeps ==
  ASSUME Inv, ReadNothing
  PROVE  Inv'
<1>0. TypeInv /\ WireOK /\ CostOK
  BY DEF Inv
<1>1. /\ stalls' = stalls + 1 /\ buf' = <<>>
      /\ UNCHANGED <<sent, wire, got, errors, faults>>
  BY DEF ReadNothing
<1>2. WireOK' /\ TypeInv'
  <2>1. WireOK'
    BY <1>0, <1>1 DEF WireOK
  <2>2. TypeInv'
    BY <1>0, <1>1 DEF TypeInv
  <2> QED
    BY <2>1, <2>2
<1>3. (Wrong' <=> Wrong) /\ Gone' = Gone
  BY <1>1 DEF Wrong, Gone
<1>4. PICK d \in 0 .. 2, x \in 0 .. 2 : Doomed = d /\ Doomed' = x /\ x <= d + 1
  BY <1>3 DEF Doomed
<1>5. /\ Gone \in Nat /\ errors' = errors + 0 /\ Len(got') = Len(got) + 0
      /\ 2 * faults' + stalls' = (2 * faults + stalls) + 1
  BY <1>0, <1>1, Numbers DEF TypeInv
<1>6. Gone' = Gone + 0
  BY <1>3, <1>5
<1>7. /\ 0 \in Nat /\ 1 \in Nat /\ 0 + x <= d + 1 /\ 0 + x <= d + 1 + 0
  BY <1>4
<1>8. CostOK'
  BY <1>0, <1>4, <1>5, <1>6, <1>7, CostNext
<1> QED
  BY <1>2, <1>8 DEF Inv

LEMMA StutterKeeps ==
  ASSUME Inv, UNCHANGED <<sent, wire, buf, got, errors, faults, stalls>>
  PROVE  Inv'
<1>1. TypeInv' /\ WireOK'
  <2>1. TypeInv'
    BY DEF Inv, TypeInv
  <2>2. WireOK'
    BY DEF Inv, WireOK
  <2> QED
    BY <2>1, <2>2
<1>2. CostOK'
  <2>1. Gone' = Gone
    BY DEF Gone
  <2>2. Doomed' = Doomed
    BY DEF Doomed, Wrong, Clean
  <2> QED
    BY <2>1, <2>2 DEF Inv, CostOK
<1> QED
  BY <1>1, <1>2 DEF Inv

LEMMA StampedFacts ==
  ASSUME NEW w \in Seq(Octet), NEW n \in Nat
  PROVE  /\ Stamped(w, n) \in Seq(StreamByte) /\ Len(Stamped(w, n)) = Len(w)
         /\ \A j \in 1 .. Len(w) : /\ Stamped(w, n)[j].b = w[j]
                                   /\ Stamped(w, n)[j].of = n
                                   /\ Stamped(w, n)[j].at = j
<1> DEFINE e(i) == [b |-> w[i], of |-> n, at |-> i]
<1>1. Len(w) \in Nat /\ DOMAIN w = 1 .. Len(w) /\ \A i \in 1 .. Len(w) : w[i] \in Octet
  BY EmptyLen
<1>2. \A i \in 1 .. Len(w) : e(i) \in StreamByte
  BY <1>1 DEF StreamByte
<1>3. Stamped(w, n) = [i \in 1 .. Len(w) |-> e(i)]
  BY <1>1 DEF Stamped
<1>4. \A j \in 1 .. Len(w) : e(j).b = w[j] /\ e(j).of = n /\ e(j).at = j
  OBVIOUS
<1> HIDE DEF e
<1>5. [i \in 1 .. Len(w) |-> e(i)] \in Seq(StreamByte)
  BY <1>1, <1>2, IsASeq
<1> QED
  BY <1>1, <1>3, <1>4, <1>5

\* A frame that is written comes after all that is on the wire.
LEMMA WritesKeeps ==
  ASSUME Inv, NEW f \in Msgs, Writes(f)
  PROVE  Inv'
<1>0. /\ TypeInv /\ WireOK /\ CostOK
      /\ UNCHANGED <<buf, got, errors, faults, stalls>>
  BY DEF Inv, Writes
<1>1. sent \in Seq(Msgs) /\ wire \in Seq(StreamByte)
  BY <1>0 DEF TypeInv
<1>2. PICK n \in Nat \ {0} : n = Len(sent) + 1
  BY <1>1, EmptyLen
<1>3. PICK L \in Nat : L = Len(wire)
  BY <1>1, EmptyLen
<1>4. sent' = Append(sent, f)
  BY DEF Writes
<1>5. /\ sent' \in Seq(Msgs) /\ Len(sent') = n /\ sent'[n] = f
      /\ \A k \in 1 .. Len(sent) : sent'[k] = sent[k]
  BY <1>1, <1>2, <1>4, Appended
<1>6. PICK w \in Encode(f) : wire' = wire \o Stamped(w, n)
  BY <1>5 DEF Writes
<1>7. /\ w \in Seq(Octet) /\ Len(w) \in Nat /\ Len(w) > 1
      /\ w = Code(f) /\ Encode(f) = {w}
  BY CodeFacts
<1>8. PICK M \in Nat \ {0, 1} : M = Len(w)
  BY <1>7
<1>9. PICK t : t = Stamped(w, n)
  OBVIOUS
<1>10. /\ t \in Seq(StreamByte) /\ Len(t) = M
       /\ \A j \in 1 .. M : t[j].b = w[j] /\ t[j].of = n /\ t[j].at = j
  BY <1>7, <1>8, <1>9, StampedFacts
<1>11. /\ wire' \in Seq(StreamByte) /\ Len(wire') = Len(wire) + Len(t)
       /\ \A i \in 1 .. Len(wire) : wire'[i] = wire[i]
       /\ \A j \in 1 .. Len(t) : wire'[Len(wire) + j] = t[j]
  <2>1. wire' = wire \o t
    BY <1>6, <1>9
  <2>2. /\ wire \o t \in Seq(StreamByte) /\ Len(wire \o t) = Len(wire) + Len(t)
        /\ \A i \in 1 .. Len(wire) : (wire \o t)[i] = wire[i]
        /\ \A j \in 1 .. Len(t) : (wire \o t)[Len(wire) + j] = t[j]
    <3>1. wire \in Seq(StreamByte) /\ t \in Seq(StreamByte)
      BY <1>1, <1>10
    <3> QED
      BY <3>1, Concat
  <2> QED
    BY <2>1, <2>2
<1>12. /\ Len(wire') = L + M
       /\ \A i \in 1 .. L : wire'[i] = wire[i]
       /\ \A j \in 1 .. M : /\ wire'[L + j].b = w[j]
                            /\ wire'[L + j].of = n
                            /\ wire'[L + j].at = j
  <2>1. Len(t) = M
    BY <1>10
  <2>2. \A j \in 1 .. M : wire'[L + j] = t[j]
    BY <1>3, <1>11, <2>1
  <2>3. Len(wire') = L + M /\ \A i \in 1 .. L : wire'[i] = wire[i]
    BY <1>3, <1>11, <2>1
  <2> QED
    BY <1>10, <2>2, <2>3
<1>13. WireOK'
  <2>1. ASSUME NEW k \in 1 .. Len(sent') PROVE Encode(sent'[k]) # {}
    <3>1. CASE k \in 1 .. Len(sent)
      BY <1>0, <1>5, <3>1 DEF WireOK
    <3>2. CASE k = n
      BY <1>5, <1>7, <3>2
    <3> QED
      BY <1>2, <1>5, <3>1, <3>2
  <2>2. ASSUME NEW j \in 1 .. M
        PROVE  /\ wire'[L + j].of = n /\ wire'[L + j].at = j
               /\ sent'[wire'[L + j].of] = f /\ wire'[L + j].b = w[j]
    BY <1>5, <1>12
  <2>3. ASSUME NEW i \in 1 .. L
        PROVE  /\ wire'[i] = wire[i] /\ wire[i].of \in 1 .. Len(sent)
               /\ sent'[wire[i].of] = sent[wire[i].of]
               /\ wire[i].at \in 1 .. Len(Code(sent[wire[i].of]))
               /\ i > 1 => wire[i].b = Code(sent[wire[i].of])[wire[i].at]
               /\ i < L => Follows(wire[i], wire[i + 1], Len(Code(sent[wire[i].of])))
               /\ i = L => /\ wire[i].of = Len(sent)
                          /\ wire[i].at = Len(Code(sent[wire[i].of]))
    BY <1>0, <1>3, <1>5, <1>12 DEF WireOK
  <2>4. ASSUME NEW i \in 1 .. L
        PROVE  Follows(wire'[i], wire'[i + 1], Len(Code(sent'[wire'[i].of])))
    <3>1. CASE i < L
      <4>1. wire'[i + 1] = wire[i + 1]
        BY <1>12, <3>1
      <4> QED
        BY <2>3, <3>1, <4>1
    <3>2. CASE i = L
      <4>1. 1 \in 1 .. M
        BY <1>12
      <4>2. wire'[i + 1].of = Len(sent) + 1 /\ wire'[i + 1].at = 1
        BY <1>2, <2>2, <3>2, <4>1
      <4>3. /\ wire[i].of = Len(sent) /\ wire'[i] = wire[i]
            /\ wire[i].at = Len(Code(sent'[wire'[i].of]))
        BY <2>3, <3>2
      <4>4. ~(wire[i].at < Len(Code(sent'[wire'[i].of])))
        BY <2>3, <4>3
      <4> QED
        BY <4>2, <4>3, <4>4 DEF Follows
    <3> QED
      BY <3>1, <3>2
  <2>5. ASSUME NEW j \in 1 .. M, j < M
        PROVE  Follows(wire'[L + j], wire'[(L + j) + 1], Len(Code(sent'[wire'[L + j].of])))
    <3>1. (L + j) + 1 = L + (j + 1) /\ j + 1 \in 1 .. M
      BY <2>5
    <3>2. wire'[(L + j) + 1].of = n /\ wire'[(L + j) + 1].at = j + 1
      BY <2>2, <3>1
    <3> QED
      BY <1>7, <1>8, <2>2, <2>5, <3>2 DEF Follows
  <2>6. ASSUME NEW i \in 1 .. Len(wire')
        PROVE  /\ wire'[i].of \in 1 .. Len(sent')
               /\ wire'[i].at \in 1 .. Len(Code(sent'[wire'[i].of]))
               /\ i > 1 => wire'[i].b = Code(sent'[wire'[i].of])[wire'[i].at]
               /\ i < Len(wire') =>
                    Follows(wire'[i], wire'[i + 1], Len(Code(sent'[wire'[i].of])))
               /\ i = Len(wire') => /\ wire'[i].of = Len(sent')
                                    /\ wire'[i].at = Len(Code(sent'[wire'[i].of]))
    <3>1. CASE i \in 1 .. L
      <4>1. i # Len(wire')
        BY <1>12, <3>1
      <4>2. wire[i].of \in 1 .. Len(sent')
        BY <1>2, <1>5, <2>3, <3>1
      <4> QED
        BY <2>3, <2>4, <3>1, <4>1, <4>2
    <3>2. CASE \E j \in 1 .. M : i = L + j
      <4>1. PICK j \in 1 .. M : i = L + j
        BY <3>2
      <4>2. (i < Len(wire') => j < M) /\ (i = Len(wire') => j = M)
        BY <1>12, <4>1
      <4>3. n \in 1 .. Len(sent') /\ n = Len(sent')
        BY <1>2, <1>5
      <4>4. Code(f) = w /\ Len(w) = M
        BY <1>7, <1>8
      <4> QED
        BY <2>2, <2>5, <4>1, <4>2, <4>3, <4>4
    <3> QED
      BY <1>12, <3>1, <3>2
  <2> QED
    BY <2>1, <2>6 DEF WireOK
<1>14. TypeInv'
  BY <1>0, <1>5, <1>11 DEF TypeInv
<1>15. ASSUME wire = <<>> PROVE Gone' = Gone /\ Doomed' = Doomed
  <2>1. L = 0 /\ 1 \in 1 .. M /\ L + 1 = 1 /\ wire' # <<>>
    BY <1>1, <1>3, <1>11, <1>12, <1>15, EmptyLen
  <2>2. wire'[1].of = n /\ wire'[1].at = 1 /\ wire'[1].b = Code(sent'[n])[1]
    BY <1>5, <1>7, <1>12, <2>1
  <2>3. Gone' = Gone
    BY <1>2, <1>15, <2>1, <2>2 DEF Gone
  <2>4. ~Wrong /\ ~Wrong'
    BY <1>15, <2>1, <2>2 DEF Wrong
  <2>5. Clean' <=> Clean
    <3>1. buf \in Seq(StreamByte) /\ buf' = buf
      BY <1>0 DEF TypeInv
    <3>2. Clean <=> buf = <<>>
      BY <1>15 DEF Clean
    <3>3. Clean' <=> /\ Len(buf) = 0
                     /\ \A i \in 1 .. Len(buf) : buf[i].b = Code(sent'[n])[i]
      BY <2>1, <2>2, <2>4, <3>1 DEF Clean
    <3> QED
      BY <3>1, <3>2, <3>3, EmptyLen
  <2> QED
    BY <2>3, <2>4, <2>5 DEF Doomed
<1>16. ASSUME wire # <<>> PROVE Gone' = Gone /\ Doomed' = Doomed
  <2>1. 1 \in 1 .. L /\ wire' # <<>>
    BY <1>1, <1>3, <1>11, <1>12, <1>16, EmptyLen
  <2>2. wire'[1] = wire[1] /\ sent'[wire[1].of] = sent[wire[1].of]
    BY <1>0, <1>3, <1>5, <1>12, <2>1 DEF WireOK
  <2>3. Gone' = Gone
    BY <1>16, <2>1, <2>2 DEF Gone
  <2>4. Wrong' <=> Wrong
    BY <1>16, <2>1, <2>2 DEF Wrong
  <2>5. Clean' <=> Clean
    BY <1>0, <1>16, <2>1, <2>2, <2>4 DEF Clean
  <2> QED
    BY <2>3, <2>4, <2>5 DEF Doomed
<1>17. CostOK'
  <2>1. Gone' = Gone /\ Doomed' = Doomed
    BY <1>15, <1>16
  <2>2. errors' = errors /\ faults' = faults /\ stalls' = stalls /\ got' = got
    BY <1>0
  <2> QED
    BY <1>0, <2>1, <2>2 DEF CostOK
<1> QED
  BY <1>13, <1>14, <1>17 DEF Inv

-----------------------------------------------------------------------------
(* The theorems                                                            *)

LEMMA InvNext == Inv /\ [Next]_vars => Inv'
<1> SUFFICES ASSUME Inv, [Next]_vars PROVE Inv'
  OBVIOUS
<1>1. CASE \E f \in Msgs : Writes(f)
  BY <1>1, WritesKeeps
<1>2. CASE Spoils
  BY <1>2, SpoilsKeeps
<1>3. CASE ReadByte
  BY <1>3, ReadByteKeeps
<1>4. CASE ReadDelimiter
  BY <1>4, ReadDelimiterKeeps
<1>5. CASE ReadNothing
  BY <1>5, ReadNothingKeeps
<1>6. CASE ReadFails
  BY <1>6, StutterKeeps DEF ReadFails
<1>7. CASE UNCHANGED vars
  BY <1>7, StutterKeeps DEF vars
<1> QED
  BY <1>1, <1>2, <1>3, <1>4, <1>5, <1>6, <1>7 DEF Next

LEMMA InvHolds == Spec => []Inv
BY InvInit, InvNext, PTL DEF Spec

\* Reader thread, after FrameError (session.py, _reader_loop; frame.py:124-134):
\* it never reports more asynchronous errors than what happened to the bytes
\* explains, two for a byte lost or altered and one for a time-out, however
\* many frames are written and whatever they hold.
THEOREM ErrorsHaveCausesHolds == Spec => []ErrorsHaveCauses
<1>1. Inv => ErrorsHaveCauses
  <2> SUFFICES ASSUME Inv PROVE ErrorsHaveCauses
    OBVIOUS
  <2>1. PICK e, b \in Nat, d \in 0 .. 2 :
          e = errors /\ b = 2 * faults + stalls /\ e + d <= b
    BY CostNow DEF Inv
  <2>2. e <= b
    BY <2>1
  <2> QED
    BY <2>1, <2>2 DEF ErrorsHaveCauses
<1> QED
  BY <1>1, InvHolds, PTL

\* read_frame resynchronises at the next delimiter (frame.py:124-134): of the
\* frames that have left the wire, all but two for every byte lost or altered
\* and one for every time-out in a frame were handed to _dispatch, for every
\* length of the stream and every codec that keeps CodecAssumption.
THEOREM ResyncsHolds == Spec => []Resyncs
<1>1. Inv => Resyncs
  <2> SUFFICES ASSUME Inv PROVE Resyncs
    OBVIOUS
  <2>1. PICK g, n, b \in Nat, d \in 0 .. 2 :
          /\ g = Gone /\ n = Len(got) /\ b = 2 * faults + stalls
          /\ (g - n) + d <= b
    BY CostNow DEF Inv
  <2>2. Passed = 1 .. g
    <3>1. Gone = IF wire = <<>> THEN Len(sent) ELSE Head(wire).of - 1
      BY HeadFacts DEF Gone, Inv
    <3> QED
      BY <2>1, <3>1 DEF Passed
  <2>3. Cardinality(1 .. g) = g
    BY FS_Interval
  <2>4. g - n <= b
    BY <2>1
  <2>5. Lost = g - n
    BY <2>1, <2>2, <2>3 DEF Lost
  <2> QED
    BY <2>1, <2>4, <2>5 DEF Resyncs
<1> QED
  BY <1>1, InvHolds, PTL

-----------------------------------------------------------------------------
(* Types                                                                   *)

\* What TypeOK says and Inv does not; the frames are those of the decoder.
RestOK ==
  /\ \A i \in 1 .. Len(buf) : buf[i].of \in 1 .. Len(sent)
  /\ open \in BOOLEAN
  /\ got \in Seq(Frames)
  /\ last \in 0 .. Len(sent)
  /\ faults \in 0 .. MaxFaults /\ stalls \in 0 .. MaxStalls

\* A decoder that returns frames, as decode_frame does.
DecoderTyped == \A s \in Seq(Octet) : Decode(s) \subseteq Frames

LEMMA Least ==
  ASSUME NEW T, T \subseteq Nat, T # {}
  PROVE  \E x \in T : \A y \in T : x <= y
<1> DEFINE R == {ss \in Nat \X Nat : ss[1] < ss[2]}
<1>1. IsWellFoundedOn(R, Nat)
  BY NatLessThanWellFounded DEF OpToRel
<1> HIDE DEF R
<1>2. PICK x \in T : \A y \in T : ~(<<y, x>> \in R)
  BY <1>1, WFMin
<1>3. \A y \in T : ~(y < x)
  BY <1>2 DEF R
<1> QED
  BY <1>3

LEMMA Retyped ==
  ASSUME NEW S, NEW T, NEW s \in Seq(S), \A i \in 1 .. Len(s) : s[i] \in T
  PROVE  s \in Seq(T)
<1>1. Len(s) \in Nat /\ s = [i \in 1 .. Len(s) |-> s[i]]
  OBVIOUS
<1> QED
  BY <1>1

\* A frame that was read is put down to one whose bytes were read.
LEMMA OriginType ==
  ASSUME TypeInv, RestOK, buf # <<>>, NEW f
  PROVE  Origin(f) \in 1 .. Len(sent)
<1> DEFINE here == {buf[i].of : i \in DOMAIN buf}
           same == {i \in here : i > last /\ sent[i] = f}
<1>1. /\ buf \in Seq(StreamByte) /\ DOMAIN buf = 1 .. Len(buf)
      /\ Head(buf) = buf[1] /\ 1 \in 1 .. Len(buf)
  BY HeadTail DEF TypeInv
<1>2. here \subseteq 1 .. Len(sent)
  BY <1>1 DEF RestOK
<1>3. same \subseteq Nat /\ same \subseteq 1 .. Len(sent)
  BY <1>2
<1>4. Origin(f) = IF same = {} THEN Head(buf).of
                  ELSE CHOOSE i \in same : \A j \in same : i <= j
  BY DEF Origin
<1> HIDE DEF same, here
<1>5. CASE same = {}
  BY <1>1, <1>4, <1>5 DEF RestOK
<1>6. CASE same # {}
  <2>1. \E i \in same : \A j \in same : i <= j
    BY <1>3, <1>6, Least
  <2>2. Origin(f) \in same
    BY <1>4, <1>6, <2>1
  <2> QED
    BY <1>3, <2>2
<1> QED
  BY <1>5, <1>6

LEMMA OctetsType ==
  ASSUME NEW s \in Seq(StreamByte)
  PROVE  Octets(s) \in Seq(Octet)
<1> DEFINE e(i) == s[i].b
<1>1. Len(s) \in Nat /\ DOMAIN s = 1 .. Len(s)
  BY EmptyLen
<1>2. \A i \in 1 .. Len(s) : s[i] \in StreamByte
  BY <1>1
<1>3. \A i \in 1 .. Len(s) : e(i) \in Octet
  BY <1>2 DEF StreamByte
<1>4. Octets(s) = [i \in 1 .. Len(s) |-> e(i)]
  BY <1>1 DEF Octets
<1> HIDE DEF e
<1>5. [i \in 1 .. Len(s) |-> e(i)] \in Seq(Octet)
  BY <1>1, <1>3, IsASeq
<1> QED
  BY <1>4, <1>5

LEMMA RestNext ==
  ASSUME DecoderTyped, Inv, RestOK, [Next]_vars
  PROVE  RestOK'
<1>0. /\ TypeInv /\ WireOK /\ sent \in Seq(Msgs) /\ buf \in Seq(StreamByte)
      /\ Len(sent) \in Nat /\ Len(buf) \in Nat
  BY EmptyLen DEF Inv, TypeInv
<1>1. ASSUME NEW f \in Msgs, Writes(f) PROVE RestOK'
  <2>1. UNCHANGED <<buf, open, got, last, faults, stalls>>
    BY <1>1 DEF Writes
  <2>2. Len(sent') = Len(sent) + 1
    BY <1>0, <1>1, Appended DEF Writes
  <2>3. 1 .. Len(sent) \subseteq 1 .. Len(sent') /\ 0 .. Len(sent) \subseteq 0 .. Len(sent')
    BY <1>0, <2>2
  <2> QED
    BY <2>1, <2>3 DEF RestOK
<1>2. CASE Spoils
  <2>1. /\ UNCHANGED <<sent, buf, open, got, last, stalls>>
        /\ faults < MaxFaults /\ faults' = faults + 1
    BY <1>2 DEF Spoils
  <2>2. faults' \in 0 .. MaxFaults
    BY <2>1, WireAssumption DEF RestOK
  <2> QED
    BY <2>1, <2>2 DEF RestOK
<1>3. CASE ReadByte
  <2>1. /\ UNCHANGED <<sent, open, got, last, faults, stalls>>
        /\ wire # <<>> /\ buf' = Append(buf, Head(wire))
    BY <1>3 DEF ReadByte
  <2>2. Head(wire) \in StreamByte /\ Head(wire).of \in 1 .. Len(sent)
    BY <1>0, <2>1, HeadFacts
  <2>3. /\ Len(buf') = Len(buf) + 1 /\ buf'[Len(buf) + 1] = Head(wire)
        /\ \A i \in 1 .. Len(buf) : buf'[i] = buf[i]
    BY <1>0, <2>1, <2>2, Appended
  <2>4. ASSUME NEW i \in 1 .. Len(buf') PROVE buf'[i].of \in 1 .. Len(sent)
    <3>1. CASE i \in 1 .. Len(buf)
      BY <2>3, <3>1 DEF RestOK
    <3>2. CASE i = Len(buf) + 1
      BY <2>2, <2>3, <3>2
    <3> QED
      BY <1>0, <2>3, <3>1, <3>2
  <2> QED
    BY <2>1, <2>4 DEF RestOK
<1>4. CASE ReadDelimiter
  <2>1. /\ UNCHANGED <<sent, open, faults, stalls>> /\ buf' = <<>>
        /\ \/ UNCHANGED <<got, last>>
           \/ /\ buf # <<>>
              /\ \E f \in Decode(Octets(buf)) : got' = Append(got, f) /\ last' = Origin(f)
    BY <1>4 DEF ReadDelimiter, Fresh
  <2>2. CASE UNCHANGED <<got, last>>
    BY <2>1, <2>2 DEF RestOK
  <2>3. CASE /\ buf # <<>>
             /\ \E f \in Decode(Octets(buf)) : got' = Append(got, f) /\ last' = Origin(f)
    <3>1. PICK f \in Decode(Octets(buf)) : got' = Append(got, f) /\ last' = Origin(f)
      BY <2>3
    <3>2. f \in Frames
      BY <1>0, <3>1, OctetsType DEF DecoderTyped
    <3>3. got' \in Seq(Frames)
      BY <3>1, <3>2, Appended DEF RestOK
    <3>4. last' \in 1 .. Len(sent)
      BY <1>0, <2>3, <3>1, OriginType
    <3> QED
      BY <1>0, <2>1, <3>3, <3>4 DEF RestOK
  <2> QED
    BY <2>1, <2>2, <2>3
<1>5. CASE ReadNothing
  <2>1. /\ UNCHANGED <<sent, open, got, last, faults>> /\ buf' = <<>>
        /\ stalls < MaxStalls /\ stalls' = stalls + 1
    BY <1>5 DEF ReadNothing
  <2>2. stalls' \in 0 .. MaxStalls
    BY <2>1, WireAssumption DEF RestOK
  <2> QED
    BY <2>1, <2>2 DEF RestOK
<1>6. CASE ReadFails
  BY <1>6 DEF ReadFails, RestOK
<1>7. CASE UNCHANGED vars
  BY <1>7 DEF vars, RestOK
<1> QED
  BY <1>1, <1>2, <1>3, <1>4, <1>5, <1>6, <1>7 DEF Next

\* The reader's variables have their types, for every decoder that returns
\* frames; above all, the delimiter never gets into the buffer of read_frame,
\* and a frame that is handed on is put down to one that was written.
THEOREM TypeCorrect ==
  ASSUME DecoderTyped
  PROVE  Spec => []TypeOK
<1>1. Init => RestOK
  <2> SUFFICES ASSUME Init PROVE RestOK
    OBVIOUS
  <2>1. Len(sent) = 0 /\ Len(buf) = 0
    BY DEF Init
  <2> QED
    BY <2>1, WireAssumption DEF Init, RestOK
<1>2. Inv /\ RestOK /\ [Next]_vars => RestOK'
  BY RestNext
<1>3. Inv /\ RestOK => TypeOK
  <2> SUFFICES ASSUME Inv, RestOK PROVE TypeOK
    OBVIOUS
  <2> DEFINE W == [b : Octet, of : 1 .. Len(sent), at : Nat]
             B == [b : Octet \ {0}, of : 1 .. Len(sent), at : Nat]
  <2>1. ASSUME NEW i \in 1 .. Len(wire) PROVE wire[i] \in W
    <3>1. wire[i] \in StreamByte /\ wire[i].of \in 1 .. Len(sent)
      BY DEF Inv, TypeInv, WireOK
    <3> QED
      BY <3>1 DEF StreamByte
  <2>2. ASSUME NEW i \in 1 .. Len(buf) PROVE buf[i] \in B
    <3>1. buf[i] \in StreamByte /\ buf[i].b # 0 /\ buf[i].of \in 1 .. Len(sent)
      BY DEF Inv, TypeInv, RestOK
    <3> QED
      BY <3>1 DEF StreamByte
  <2> HIDE DEF W, B
  <2>3. wire \in Seq(W) /\ buf \in Seq(B)
    BY <2>1, <2>2, Retyped DEF Inv, TypeInv
  <2> QED
    BY <2>3 DEF TypeOK, Inv, TypeInv, RestOK, W, B
<1> QED
  BY <1>1, <1>2, <1>3, InvHolds, PTL DEF Spec

-----------------------------------------------------------------------------
(* The link that is implemented                                            *)

\* The last byte that was read was written before those on the wire.
Behind ==
  LET end == buf[Len(buf)]
  IN  end.of <= Gone \/ (wire # <<>> /\ end.of = wire[1].of /\ end.at < wire[1].at)

\* Nothing that was read, or is on its way, is of a frame that was handed on or
\* of one before it.
OrderOK ==
  /\ last \in 0 .. Gone
  /\ \A i \in 1 .. Len(buf) : buf[i].of \in 1 .. Len(sent) /\ buf[i].of > last
  /\ buf # <<>> => Behind

LEMMA GoneFacts ==
  ASSUME TypeInv, WireOK
  PROVE  Gone \in Nat /\ Len(sent) \in Nat /\ Gone <= Len(sent)
<1>1. Gone \in Nat /\ Len(sent) \in Nat
  BY Numbers, EmptyLen DEF TypeInv
<1>2. CASE wire = <<>>
  BY <1>1, <1>2 DEF Gone
<1>3. CASE wire # <<>>
  <2>1. wire[1].of \in 1 .. Len(sent) /\ Gone = wire[1].of - 1
    BY <1>3, HeadFacts
  <2> QED
    BY <1>1, <2>1
<1> QED
  BY <1>1, <1>2, <1>3

\* A frame that is written changes nothing at the head of the wire.
LEMMA WritesAtEnd ==
  ASSUME Inv, NEW f \in Msgs, Writes(f)
  PROVE  /\ Len(sent') = Len(sent) + 1 /\ \A k \in 1 .. Len(sent) : sent'[k] = sent[k]
         /\ Gone' = Gone
         /\ wire # <<>> => wire' # <<>> /\ wire'[1] = wire[1]
<1>1. TypeInv /\ WireOK /\ sent \in Seq(Msgs) /\ wire \in Seq(StreamByte)
  BY DEF Inv, TypeInv
<1>2. PICK n \in Nat \ {0} : n = Len(sent) + 1
  BY <1>1, EmptyLen
<1>3. Len(sent') = n /\ \A k \in 1 .. Len(sent) : sent'[k] = sent[k]
  BY <1>1, <1>2, Appended DEF Writes
<1>4. PICK w \in Encode(f) : wire' = wire \o Stamped(w, n)
  BY <1>3 DEF Writes
<1>5. w \in Seq(Octet) /\ Len(w) \in Nat /\ Len(w) > 1
  BY CodeFacts
<1>6. PICK t \in Seq(StreamByte) :
        t = Stamped(w, n) /\ Len(t) > 1 /\ t[1].of = n
  BY <1>5, StampedFacts
<1>7. /\ wire' \in Seq(StreamByte) /\ Len(wire') = Len(wire) + Len(t)
      /\ \A i \in 1 .. Len(wire) : wire'[i] = wire[i]
      /\ \A j \in 1 .. Len(t) : wire'[Len(wire) + j] = t[j]
  BY <1>1, <1>4, <1>6, Concat
<1>8. Len(wire) \in Nat /\ Len(t) \in Nat /\ 1 \in 1 .. Len(t)
  BY <1>1, <1>6, EmptyLen
<1>9. wire' # <<>>
  BY <1>6, <1>7, <1>8, EmptyLen
<1>10. CASE wire = <<>>
  <2>1. Len(wire) = 0 /\ Len(wire) + 1 = 1
    BY <1>1, <1>10, EmptyLen
  <2>2. wire'[1].of = n
    BY <1>6, <1>7, <1>8, <2>1
  <2>3. Gone' = n - 1
    BY <1>9, <2>2 DEF Gone
  <2>4. Gone = Len(sent)
    BY <1>10 DEF Gone
  <2>5. Gone' = Gone
    BY <1>1, <1>2, <2>3, <2>4, EmptyLen
  <2> QED
    BY <1>2, <1>3, <1>10, <2>5
<1>11. CASE wire # <<>>
  <2>1. wire'[1] = wire[1]
    BY <1>1, <1>7, <1>11, HeadTail
  <2>2. Gone' = Gone
    BY <1>9, <1>11, <2>1 DEF Gone
  <2> QED
    BY <1>2, <1>3, <1>9, <2>1, <2>2
<1> QED
  BY <1>10, <1>11

\* What left the wire was before what is left.
LEMMA Onwards ==
  ASSUME TypeInv, WireOK, wire # <<>>, wire' = Tail(wire), UNCHANGED sent,
         NEW of \in Nat, NEW at \in Nat,
         of <= Gone \/ (of = wire[1].of /\ at <= wire[1].at)
  PROVE  /\ Gone \in Nat /\ Gone' \in Nat /\ Gone <= Gone'
         /\ of <= Gone' \/ (wire' # <<>> /\ of = wire'[1].of /\ at < wire'[1].at)
<1> DEFINE len == Len(Code(sent[wire[1].of]))
<1>1. /\ Gone \in Nat /\ Gone = wire[1].of - 1
      /\ wire[1].of \in 1 .. Len(sent) /\ wire[1].at \in 1 .. len
  BY HeadFacts, GoneFacts
<1>2. len \in Nat
  BY <1>1, SentFacts
<1>3. /\ wire[1].at < len =>
           /\ Gone' = Gone /\ wire' # <<>>
           /\ wire'[1].of = wire[1].of /\ wire'[1].at = wire[1].at + 1
      /\ wire[1].at = len => Gone' = Gone + 1
  BY TailFacts
<1> HIDE DEF len
<1>4. CASE wire[1].at < len
  <2>1. PICK a \in Nat : a = wire[1].at /\ wire'[1].at = a + 1
    BY <1>1, <1>2, <1>3, <1>4
  <2>2. at <= a => at < a + 1
    OBVIOUS
  <2>3. Gone' = Gone /\ Gone <= Gone' /\ wire' # <<>> /\ wire'[1].of = wire[1].of
    BY <1>1, <1>3, <1>4
  <2>4. CASE of <= Gone
    BY <1>1, <2>3, <2>4
  <2>5. CASE of = wire[1].of /\ at <= wire[1].at
    <3>1. of = wire'[1].of /\ at < wire'[1].at
      BY <2>1, <2>2, <2>3, <2>5
    <3> QED
      BY <1>1, <2>3, <3>1
  <2> QED
    BY <2>4, <2>5
<1>5. CASE wire[1].at = len
  <2>1. PICK g \in Nat : g = Gone /\ wire[1].of = g + 1 /\ Gone' = g + 1
    BY <1>1, <1>3, <1>5
  <2> QED
    BY <2>1
<1>6. wire[1].at < len \/ wire[1].at = len
  BY <1>1, <1>2
<1> QED
  BY <1>4, <1>5, <1>6

\* The frame that is handed on, when the checksum detects what happened to the
\* bytes: it is one that was written and none before it is handed on again.
LEMMA HandedOn ==
  ASSUME Inv, OrderOK, Detected, wire # <<>>, Head(wire).b = 0, buf # <<>>,
         NEW f \in Decode(Octets(buf)), wire' = Tail(wire), UNCHANGED sent
  PROVE  /\ Origin(f) \in 1 .. Len(sent) /\ Origin(f) > last
         /\ sent[Origin(f)] = f /\ Origin(f) <= Gone'
<1> DEFINE here == {buf[i].of : i \in DOMAIN buf}
           same == {i \in here : i > last /\ sent[i] = f}
           end == buf[Len(buf)]
<1>1. /\ TypeInv /\ WireOK /\ buf \in Seq(StreamByte)
      /\ Len(buf) \in Nat /\ DOMAIN buf = 1 .. Len(buf) /\ Len(buf) \in 1 .. Len(buf)
      /\ Len(sent) \in Nat
  BY EmptyLen DEF Inv, TypeInv
<1>2. /\ end \in StreamByte /\ end.of \in here
      /\ end.of \in 1 .. Len(sent) /\ end.of > last
  BY <1>1 DEF OrderOK
<1>3. sent[end.of] = f /\ \A w \in Encode(f) : end.at = Len(w) - 1
  BY DEF Detected
<1>4. end.of \in same
  BY <1>2, <1>3
<1>5. here \subseteq 1 .. Len(sent)
  BY <1>1 DEF OrderOK
<1>6. same \subseteq Nat /\ \A i \in same : i \in 1 .. Len(sent) /\ i > last /\ sent[i] = f
  <2>1. 1 .. Len(sent) \subseteq Nat
    OBVIOUS
  <2> HIDE DEF here
  <2> QED
    BY <1>5, <2>1
<1>7. Origin(f) = IF same = {} THEN Head(buf).of
                  ELSE CHOOSE i \in same : \A j \in same : i <= j
  BY DEF Origin
<1>8. Origin(f) \in same /\ \A j \in same : Origin(f) <= j
  <2> HIDE DEF same
  <2>1. \E i \in same : \A j \in same : i <= j
    BY <1>4, <1>6, Least
  <2> QED
    BY <1>4, <1>7, <2>1
<1>9. end.of <= Gone'
  <2>1. CASE end.of <= Gone
    BY <1>1, <1>2, <2>1, Onwards
  <2>2. CASE end.of = wire[1].of /\ end.at < wire[1].at
    <3>1. PICK w \in Encode(f) : w = Code(f)
      BY <1>1, <1>2, <1>3, CodeFacts DEF WireOK, TypeInv
    <3>2. Len(w) \in Nat /\ end.at = Len(w) - 1
      BY <1>1, <1>2, <1>3, <3>1, CodeFacts DEF TypeInv
    <3>3. wire[1].at \in 1 .. Len(w) /\ Gone = wire[1].of - 1 /\ Gone \in Nat
      BY <1>1, <1>3, <2>2, <3>1, HeadFacts, GoneFacts
    <3>4. wire[1].at = Len(w)
      BY <2>2, <3>2, <3>3
    <3>5. Gone' = Gone + 1
      BY <1>1, <1>3, <2>2, <3>1, <3>4, TailFacts
    <3>6. PICK g \in Nat : g = Gone /\ end.of = wire[1].of /\ g = wire[1].of - 1
      BY <2>2, <3>3
    <3>7. end.of = g + 1
      BY <1>1, <1>2, <3>6
    <3> QED
      BY <3>5, <3>6, <3>7
  <2> QED
    BY <2>1, <2>2 DEF OrderOK, Behind
<1>10. Origin(f) <= end.of /\ Origin(f) \in 1 .. Len(sent)
  BY <1>4, <1>6, <1>8
<1>11. Gone' \in Nat
  BY <1>1, HeadFacts, Onwards
<1> QED
  BY <1>2, <1>6, <1>8, <1>9, <1>10, <1>11

\* A byte that is altered keeps its place.
LEMMA AlteredHead ==
  ASSUME TypeInv, wire # <<>>, NEW c, wire' = [wire EXCEPT ![1].b = c]
  PROVE  wire' # <<>> /\ wire'[1].of = wire[1].of /\ wire'[1].at = wire[1].at
<1>1. 1 \in DOMAIN wire /\ wire[1] \in StreamByte
  BY HeadTail DEF TypeInv
<1>2. wire'[1] = [wire[1] EXCEPT !.b = c] /\ DOMAIN wire' = DOMAIN wire
  BY <1>1
<1>3. wire' # <<>>
  BY <1>1, <1>2
<1> QED
  BY <1>1, <1>2, <1>3 DEF StreamByte

\* A step in which nothing is read.
LEMMA NotRead ==
  ASSUME TypeInv, WireOK, OrderOK, UNCHANGED <<buf, last>>, Gone' \in Nat, Gone <= Gone',
         Len(sent') \in Nat, Len(sent) <= Len(sent'),
         buf # <<>> => Behind'
  PROVE  OrderOK'
<1>1. Gone \in Nat /\ Len(sent) \in Nat
  BY GoneFacts
<1>2. last' \in 0 .. Gone'
  BY <1>1 DEF OrderOK
<1>3. \A i \in 1 .. Len(buf') : buf'[i].of \in 1 .. Len(sent') /\ buf'[i].of > last'
  BY <1>1 DEF OrderOK
<1> QED
  BY <1>2, <1>3 DEF OrderOK

LEMMA OrderNext ==
  ASSUME Inv, OrderOK, Detected, [Next]_vars
  PROVE  OrderOK'
<1>0. /\ TypeInv /\ WireOK /\ sent \in Seq(Msgs) /\ buf \in Seq(StreamByte)
      /\ Len(sent) \in Nat /\ Len(buf) \in Nat /\ Gone \in Nat /\ Gone <= Len(sent)
  BY GoneFacts, EmptyLen DEF Inv, TypeInv
<1>1. ASSUME NEW f \in Msgs, Writes(f) PROVE OrderOK'
  <2>1. /\ UNCHANGED <<buf, last>> /\ Gone' = Gone /\ Len(sent') = Len(sent) + 1
        /\ wire # <<>> => wire' # <<>> /\ wire'[1] = wire[1]
    BY <1>1, WritesAtEnd DEF Writes
  <2>2. buf # <<>> => Behind'
    BY <2>1 DEF OrderOK, Behind
  <2>3. Len(sent') \in Nat /\ Len(sent) <= Len(sent') /\ Gone' \in Nat /\ Gone <= Gone'
    BY <1>0, <2>1
  <2> QED
    BY <1>0, <2>1, <2>2, <2>3, NotRead
<1>2. ASSUME buf # <<>>
      PROVE  /\ buf[Len(buf)] \in StreamByte
             /\ buf[Len(buf)].of \in Nat /\ buf[Len(buf)].at \in Nat
  <2>1. Len(buf) \in 1 .. Len(buf)
    BY <1>0, <1>2, EmptyLen
  <2>2. buf[Len(buf)] \in StreamByte
    BY <1>0, <2>1
  <2> QED
    BY <2>2 DEF StreamByte
<1>3. CASE Spoils
  <2>1. UNCHANGED <<sent, buf, last>> /\ wire # <<>>
    BY <1>3 DEF Spoils
  <2>2. CASE wire' = Tail(wire)
    <3>1. Gone' \in Nat /\ Gone <= Gone'
      BY <1>0, <2>1, <2>2, Onwards, HeadFacts
    <3>2. ASSUME buf # <<>> PROVE Behind'
      <4>1. \/ buf[Len(buf)].of <= Gone
            \/ buf[Len(buf)].of = wire[1].of /\ buf[Len(buf)].at < wire[1].at
        BY <3>2 DEF OrderOK, Behind
      <4>2. wire[1].at \in Nat
        BY <1>0, <2>1, HeadFacts DEF StreamByte
      <4>3. \/ buf[Len(buf)].of <= Gone
            \/ buf[Len(buf)].of = wire[1].of /\ buf[Len(buf)].at <= wire[1].at
        BY <1>2, <3>2, <4>1, <4>2
      <4>4. \/ buf[Len(buf)].of <= Gone'
            \/ wire' # <<>> /\ buf[Len(buf)].of = wire'[1].of /\ buf[Len(buf)].at < wire'[1].at
        BY <1>0, <1>2, <2>1, <2>2, <3>2, <4>3, Onwards
      <4> QED
        BY <2>1, <4>4 DEF Behind
    <3> QED
      BY <1>0, <2>1, <3>1, <3>2, NotRead
  <2>3. CASE \E c \in Noise : wire' = [wire EXCEPT ![1].b = c]
    <3>1. PICK c \in Octet : wire' = [wire EXCEPT ![1].b = c]
      BY <2>3, WireAssumption
    <3>2. Gone' = Gone
      BY <1>0, <2>1, <3>1, AlterKeeps
    <3>3. wire' # <<>> /\ wire'[1].of = wire[1].of /\ wire'[1].at = wire[1].at
      BY <1>0, <2>1, <3>1, AlteredHead
    <3>4. buf # <<>> => Behind'
      BY <2>1, <3>2, <3>3 DEF OrderOK, Behind
    <3> QED
      BY <1>0, <2>1, <3>2, <3>4, NotRead
  <2> QED
    BY <1>3, <2>2, <2>3 DEF Spoils
<1>4. CASE ReadByte
  <2>1. /\ UNCHANGED <<sent, last>>
        /\ wire # <<>> /\ buf' = Append(buf, Head(wire)) /\ wire' = Tail(wire)
    BY <1>4 DEF ReadByte
  <2>2. /\ Head(wire) = wire[1] /\ wire[1] \in StreamByte
        /\ wire[1].of \in 1 .. Len(sent) /\ Gone = wire[1].of - 1
        /\ wire[1].of \in Nat /\ wire[1].at \in Nat
    BY <1>0, <2>1, HeadFacts DEF StreamByte
  <2>3. last \in 0 .. Gone /\ wire[1].of > last
    BY <1>0, <2>2 DEF OrderOK
  <2>4. /\ Len(buf') = Len(buf) + 1 /\ buf'[Len(buf) + 1] = wire[1]
        /\ \A i \in 1 .. Len(buf) : buf'[i] = buf[i]
    BY <1>0, <2>1, <2>2, Appended
  <2>5. wire[1].at <= wire[1].at
    BY <2>2
  <2>6. /\ Gone' \in Nat /\ Gone <= Gone'
        /\ \/ wire[1].of <= Gone'
           \/ wire' # <<>> /\ wire[1].of = wire'[1].of /\ wire[1].at < wire'[1].at
    BY <1>0, <2>1, <2>2, <2>5, Onwards
  <2>7. Behind'
    BY <2>4, <2>6 DEF Behind
  <2>8. ASSUME NEW i \in 1 .. Len(buf')
        PROVE  buf'[i].of \in 1 .. Len(sent') /\ buf'[i].of > last'
    <3>1. CASE i \in 1 .. Len(buf)
      BY <2>1, <2>4, <3>1 DEF OrderOK
    <3>2. CASE i = Len(buf) + 1
      BY <2>1, <2>2, <2>3, <2>4, <3>2
    <3> QED
      BY <1>0, <2>4, <3>1, <3>2
  <2>9. last' \in 0 .. Gone'
    BY <1>0, <2>1, <2>3, <2>6
  <2> QED
    BY <2>7, <2>8, <2>9 DEF OrderOK
<1>5. CASE ReadDelimiter
  <2>1. /\ UNCHANGED sent /\ buf' = <<>> /\ wire' = Tail(wire)
        /\ wire # <<>> /\ Head(wire).b = 0
        /\ \/ UNCHANGED last
           \/ /\ buf # <<>>
              /\ \E f \in Decode(Octets(buf)) : last' = Origin(f)
    BY <1>5 DEF ReadDelimiter, Fresh, Rest
  <2>2. Gone' \in Nat /\ Gone <= Gone'
    BY <1>0, <2>1, Onwards, HeadFacts
  <2>3. last' \in 0 .. Gone'
    <3>1. CASE UNCHANGED last
      BY <1>0, <2>2, <3>1 DEF OrderOK
    <3>2. CASE buf # <<>> /\ \E f \in Decode(Octets(buf)) : last' = Origin(f)
      BY <1>0, <2>1, <2>2, <3>2, HandedOn
    <3> QED
      BY <2>1, <3>1, <3>2
  <2>4. Len(buf') = 0
    BY <2>1
  <2> QED
    BY <2>1, <2>3, <2>4 DEF OrderOK
<1>6. CASE ReadNothing
  <2>1. UNCHANGED <<sent, wire, last>> /\ buf' = <<>>
    BY <1>6 DEF ReadNothing
  <2>2. Gone' = Gone /\ Len(buf') = 0
    BY <2>1 DEF Gone
  <2> QED
    BY <2>1, <2>2 DEF OrderOK
<1>7. CASE UNCHANGED <<sent, wire, buf, last>>
  <2>1. Gone' = Gone /\ (Behind' <=> Behind)
    BY <1>7 DEF Gone, Behind
  <2> QED
    BY <1>7, <2>1 DEF OrderOK
<1> QED
  BY <1>1, <1>3, <1>4, <1>5, <1>6, <1>7 DEF Next, ReadFails, vars

\* What a step of the reader is to the Link: a frame that is handed on comes
\* after the last one and is as it was written.
LEMMA LinkNext ==
  ASSUME Inv, OrderOK, Detected, [Next]_vars
  PROVE  TheLink!Next \/ UNCHANGED <<sent, got, last + 1>>
<1>0. TypeInv /\ WireOK /\ Len(sent) \in Nat /\ Gone \in Nat /\ Gone <= Len(sent)
  BY GoneFacts DEF Inv
<1>1. ASSUME NEW f \in Msgs, Writes(f) PROVE TheLink!Sends
  BY <1>1 DEF Writes, TheLink!Sends
<1>2. CASE ReadDelimiter
  <2>1. /\ UNCHANGED sent /\ wire' = Tail(wire) /\ wire # <<>> /\ Head(wire).b = 0
        /\ \/ UNCHANGED <<got, last>>
           \/ /\ buf # <<>>
              /\ \E f \in Decode(Octets(buf)) : got' = Append(got, f) /\ last' = Origin(f)
    BY <1>2 DEF ReadDelimiter, Rest
  <2>2. CASE UNCHANGED <<got, last>>
    BY <2>1, <2>2
  <2>3. CASE /\ buf # <<>>
             /\ \E f \in Decode(Octets(buf)) : got' = Append(got, f) /\ last' = Origin(f)
    <3>1. PICK f \in Decode(Octets(buf)) : got' = Append(got, f) /\ last' = Origin(f)
      BY <2>3
    <3>2. /\ Origin(f) \in 1 .. Len(sent) /\ Origin(f) > last /\ sent[Origin(f)] = f
      BY <2>1, <2>3, HandedOn
    <3>3. PICK i : i = Origin(f)
      OBVIOUS
    <3>4. last \in Nat
      BY <1>0 DEF OrderOK
    <3>5. i \in (last + 1) .. Len(sent) /\ got' = Append(got, sent[i]) /\ last' + 1 = i + 1
      BY <1>0, <3>1, <3>2, <3>3, <3>4
    <3> QED
      BY <2>1, <3>5 DEF TheLink!Next, TheLink!HandsOn
  <2> QED
    BY <2>1, <2>2, <2>3
<1>3. CASE UNCHANGED <<sent, got, last>>
  BY <1>3
<1> QED
  BY <1>1, <1>2, <1>3 DEF Next, Spoils, ReadByte, ReadNothing, ReadFails, vars, TheLink!Next

\* _reader_loop and read_frame (session.py, frame.py:110-135) are a Link as long
\* as the checksum detects what happens to the bytes: frames are handed to
\* _dispatch unaltered, in the order in which they were written and each once,
\* whatever is lost, altered or cut by a time-out, however long the stream is.
THEOREM WireRefinesLink == Spec /\ []Detected => KeepsFrames
<1>1. Init => TheLink!Init /\ OrderOK
  <2> SUFFICES ASSUME Init PROVE TheLink!Init /\ OrderOK
    OBVIOUS
  <2>1. Gone = 0 /\ Len(buf) = 0
    BY DEF Init, Gone
  <2> QED
    BY <2>1 DEF Init, OrderOK, TheLink!Init
<1>2. Inv /\ OrderOK /\ Detected /\ [Next]_vars => OrderOK'
  BY OrderNext
<1>3. Inv /\ OrderOK /\ Detected /\ [Next]_vars => [TheLink!Next]_<<sent, got, last + 1>>
  BY LinkNext
<1> QED
  BY <1>1, <1>2, <1>3, InvHolds, PTL DEF Spec, KeepsFrames, TheLink!Spec

-----------------------------------------------------------------------------
(* A line to which nothing happens                                         *)

\* On such a line what was read is the beginning of the frame at the head of the
\* wire, and the frames that left it were handed on.
UntouchedOK ==
  faults = 0 /\ stalls = 0 =>
    /\ \A i \in 1 .. Len(buf) : wire # <<>> /\ buf[i].of = wire[1].of /\ buf[i].at = i
    /\ Len(got) = Gone /\ \A k \in 1 .. Len(got) : got[k] = sent[k]

LEMMA UntouchedClean ==
  ASSUME Inv, faults = 0, stalls = 0
  PROVE  Clean /\ ~Wrong
<1>1. PICK d \in 0 .. 2, e, b \in Nat :
        d = Doomed /\ e = errors /\ b = 2 * faults + stalls /\ e + d <= b
  BY CostNow DEF Inv
<1>2. d = 0
  BY <1>1
<1> QED
  BY <1>1, <1>2 DEF Doomed

\* The frame whose delimiter comes was read whole.
LEMMA UntouchedFrame ==
  ASSUME Inv, Clean, ~Wrong, wire # <<>>, Head(wire).b = 0
  PROVE  LET of == wire[1].of IN
         /\ of \in 1 .. Len(sent) /\ of = Gone + 1
         /\ buf # <<>> /\ Decode(Octets(buf)) = {sent[of]}
         /\ Len(buf) = Len(Code(sent[of])) - 1 /\ wire[1].at = Len(Code(sent[of]))
<1> DEFINE of == wire[1].of
           w == Code(sent[of])
<1>1. /\ TypeInv /\ WireOK /\ buf \in Seq(StreamByte) /\ Len(buf) \in Nat
  BY EmptyLen DEF Inv, TypeInv
<1>2. /\ of \in 1 .. Len(sent) /\ Gone = of - 1 /\ Gone \in Nat
      /\ wire[1].at = Len(w)
  BY <1>1, HeadFacts, GoneFacts
<1>3. /\ w \in Seq(Octet) /\ Len(w) \in Nat /\ Len(w) > 1
      /\ Decode(SubSeq(w, 1, Len(w) - 1)) = {sent[of]}
  BY <1>1, <1>2, SentFacts
<1>4. Len(buf) = Len(w) - 1 /\ \A i \in 1 .. Len(buf) : buf[i].b = w[i]
  BY <1>2 DEF Clean
<1>5. Decode(Octets(buf)) = {sent[of]}
  BY <1>1, <1>3, <1>4, WholeFrame
<1>6. buf # <<>>
  BY <1>1, <1>3, <1>4, EmptyLen
<1>7. of = Gone + 1
  <2>1. PICK g \in Nat : g = Gone /\ g = of - 1
    BY <1>2
  <2>2. Len(sent) \in Nat
    BY <1>1, GoneFacts
  <2> QED
    BY <1>2, <2>1, <2>2
<1> QED
  BY <1>2, <1>4, <1>5, <1>6, <1>7

LEMMA UntouchedNext ==
  ASSUME Inv, UntouchedOK, [Next]_vars
  PROVE  UntouchedOK'
<1> SUFFICES ASSUME faults' = 0, stalls' = 0
    PROVE  /\ \A i \in 1 .. Len(buf') :
                wire' # <<>> /\ buf'[i].of = wire'[1].of /\ buf'[i].at = i
           /\ Len(got') = Gone' /\ \A k \in 1 .. Len(got') : got'[k] = sent'[k]
  BY DEF UntouchedOK
<1>0. /\ TypeInv /\ WireOK /\ buf \in Seq(StreamByte) /\ Len(buf) \in Nat
      /\ faults \in Nat /\ stalls \in Nat /\ Gone \in Nat /\ Len(sent) \in Nat
      /\ Gone <= Len(sent)
  BY EmptyLen, GoneFacts DEF Inv, TypeInv
<1>1. faults = 0 /\ stalls = 0
  BY <1>0 DEF Next, Writes, Spoils, ReadByte, ReadDelimiter, ReadNothing, ReadFails, vars
<1>2. Clean /\ ~Wrong
  BY <1>1, UntouchedClean
<1>3. /\ \A i \in 1 .. Len(buf) : wire # <<>> /\ buf[i].of = wire[1].of /\ buf[i].at = i
      /\ Len(got) = Gone /\ \A k \in 1 .. Len(got) : got[k] = sent[k]
  BY <1>1 DEF UntouchedOK
<1>4. ASSUME NEW f \in Msgs, Writes(f)
      PROVE  /\ \A i \in 1 .. Len(buf') :
                  wire' # <<>> /\ buf'[i].of = wire'[1].of /\ buf'[i].at = i
             /\ Len(got') = Gone' /\ \A k \in 1 .. Len(got') : got'[k] = sent'[k]
  <2>1. /\ UNCHANGED <<buf, got>> /\ Gone' = Gone
        /\ \A k \in 1 .. Len(sent) : sent'[k] = sent[k]
        /\ wire # <<>> => wire' # <<>> /\ wire'[1] = wire[1]
    BY <1>4, WritesAtEnd DEF Writes
  <2>2. \A k \in 1 .. Len(got) : k \in 1 .. Len(sent)
    BY <1>0, <1>3
  <2> QED
    BY <1>3, <2>1, <2>2
<1>5. CASE ReadByte
  <2>1. /\ UNCHANGED <<sent, got>> /\ wire # <<>> /\ Head(wire).b # 0
        /\ buf' = Append(buf, Head(wire)) /\ wire' = Tail(wire)
    BY <1>5 DEF ReadByte
  <2>2. /\ Head(wire) = wire[1] /\ wire[1] \in StreamByte
        /\ wire[1].at \in 1 .. Len(Code(sent[wire[1].of]))
        /\ wire[1].at # Len(Code(sent[wire[1].of])) /\ wire[1].of \in 1 .. Len(sent)
    BY <1>0, <1>2, <2>1, HeadFacts
  <2>3. Len(Code(sent[wire[1].of])) \in Nat
    BY <1>0, <2>2, SentFacts
  <2>4. wire[1].at < Len(Code(sent[wire[1].of])) /\ wire[1].at \in Nat
    BY <2>2, <2>3
  <2>5. Gone' = Gone /\ wire' # <<>> /\ wire'[1].of = wire[1].of
    BY <1>0, <2>1, <2>4, TailFacts
  <2>6. /\ Len(buf') = Len(buf) + 1 /\ buf'[Len(buf) + 1] = wire[1]
        /\ \A i \in 1 .. Len(buf) : buf'[i] = buf[i]
    BY <1>0, <2>1, <2>2, Appended
  <2>7. wire[1].at = Len(buf) + 1
    BY <1>0, <1>2, <2>1, <2>4 DEF Clean
  <2>8. ASSUME NEW i \in 1 .. Len(buf')
        PROVE  buf'[i].of = wire'[1].of /\ buf'[i].at = i
    <3>1. CASE i \in 1 .. Len(buf)
      BY <1>3, <2>5, <2>6, <3>1
    <3>2. CASE i = Len(buf) + 1
      BY <2>5, <2>6, <2>7, <3>2
    <3> QED
      BY <1>0, <2>6, <3>1, <3>2
  <2> QED
    BY <1>3, <2>1, <2>5, <2>8
<1>6. CASE ReadDelimiter
  <2>1. /\ UNCHANGED sent /\ wire # <<>> /\ Head(wire).b = 0
        /\ buf' = <<>> /\ wire' = Tail(wire)
    BY <1>6 DEF ReadDelimiter, Fresh, Rest
  <2>2. /\ wire[1].of \in 1 .. Len(sent) /\ wire[1].of = Gone + 1
        /\ buf # <<>> /\ Decode(Octets(buf)) = {sent[wire[1].of]}
        /\ wire[1].at = Len(Code(sent[wire[1].of]))
    BY <1>2, <2>1, UntouchedFrame
  <2>3. got' = Append(got, sent[Gone + 1])
    BY <1>6, <2>2 DEF ReadDelimiter
  <2>4. Gone' = Gone + 1 /\ Len(buf') = 0
    BY <1>0, <2>1, <2>2, TailFacts
  <2>5. PICK T : got \in Seq(T)
    BY <1>0 DEF TypeInv
  <2>6. /\ Len(got') = Len(got) + 1 /\ got'[Len(got) + 1] = sent[Gone + 1]
        /\ \A k \in 1 .. Len(got) : got'[k] = got[k]
    <3>1. got \in Seq(T \cup {sent[Gone + 1]})
      BY <2>5
    <3> QED
      BY <2>3, <3>1, Appended
  <2>7. ASSUME NEW k \in 1 .. Len(got') PROVE got'[k] = sent'[k]
    <3>1. CASE k \in 1 .. Len(got)
      BY <1>3, <2>1, <2>6, <3>1
    <3>2. CASE k = Len(got) + 1
      BY <1>3, <2>1, <2>6, <3>2
    <3> QED
      BY <1>0, <1>3, <2>6, <3>1, <3>2
  <2> QED
    BY <1>3, <2>4, <2>6, <2>7
<1>7. CASE UNCHANGED <<sent, wire, buf, got>>
  <2>1. Gone' = Gone
    BY <1>7 DEF Gone
  <2> QED
    BY <1>3, <1>7, <2>1
<1>8. CASE Spoils \/ ReadNothing
  <2>1. faults' = faults + 1 \/ stalls' = stalls + 1
    BY <1>8 DEF Spoils, ReadNothing
  <2> QED
    BY <1>1, <2>1
<1> QED
  BY <1>4, <1>5, <1>6, <1>7, <1>8 DEF Next, ReadFails, vars

LEMMA UntouchedHolds == Spec => []UntouchedOK
<1>1. Init => UntouchedOK
  <2> SUFFICES ASSUME Init PROVE UntouchedOK
    OBVIOUS
  <2>1. Gone = 0 /\ Len(buf) = 0 /\ Len(got) = 0
    BY DEF Init, Gone
  <2> QED
    BY <2>1 DEF UntouchedOK
<1>2. Inv /\ UntouchedOK /\ [Next]_vars => UntouchedOK'
  BY UntouchedNext
<1> QED
  BY <1>1, <1>2, InvHolds, PTL DEF Spec

\* As long as no byte was lost, altered or cut by a time-out, read_frame hands on
\* every frame that has left the wire, unaltered and in order (frame.py:124-135),
\* and the checksum has nothing to detect.
THEOREM UntouchedIsWhole ==
  Spec => [](faults = 0 /\ stalls = 0 =>
               Detected /\ Len(got) = Gone /\ \A k \in 1 .. Len(got) : got[k] = sent[k])
<1>1. ASSUME Inv, UntouchedOK, faults = 0, stalls = 0, wire # <<>>, Head(wire).b = 0,
             NEW f \in Decode(Octets(buf))
      PROVE  /\ sent[buf[Len(buf)].of] = f
             /\ \A w \in Encode(f) : buf[Len(buf)].at = Len(w) - 1
  <2>1. Clean /\ ~Wrong
    BY <1>1, UntouchedClean
  <2>2. /\ wire[1].of \in 1 .. Len(sent) /\ buf # <<>>
        /\ Decode(Octets(buf)) = {sent[wire[1].of]}
        /\ Len(buf) = Len(Code(sent[wire[1].of])) - 1
    BY <1>1, <2>1, UntouchedFrame
  <2>3. f = sent[wire[1].of] /\ f \in Msgs
    BY <1>1, <2>2 DEF Inv, TypeInv
  <2>4. Len(buf) \in 1 .. Len(buf)
    BY <1>1, <2>2, EmptyLen DEF Inv, TypeInv
  <2>5. buf[Len(buf)].of = wire[1].of /\ buf[Len(buf)].at = Len(buf)
    BY <1>1, <2>4 DEF UntouchedOK
  <2>6. \A w \in Encode(f) : w = Code(f)
    BY <2>3, CodeFacts
  <2> QED
    BY <2>2, <2>3, <2>5, <2>6
<1>2. Inv /\ UntouchedOK =>
        (faults = 0 /\ stalls = 0 =>
           Detected /\ Len(got) = Gone /\ \A k \in 1 .. Len(got) : got[k] = sent[k])
  <2> SUFFICES ASSUME Inv, UntouchedOK, faults = 0, stalls = 0
               PROVE  Detected /\ Len(got) = Gone /\ \A k \in 1 .. Len(got) : got[k] = sent[k]
    OBVIOUS
  <2>1. Detected
    BY <1>1 DEF Detected
  <2> QED
    BY <2>1 DEF UntouchedOK
<1> QED
  BY <1>2, InvHolds, UntouchedHolds, PTL
=============================================================================
