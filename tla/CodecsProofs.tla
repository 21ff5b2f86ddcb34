---------------------------- MODULE CodecsProofs ----------------------------
(***************************************************************************)
(* TLAPS proofs about Codecs, for any speech, any sizes of the display and *)
(* any reply.  A recording: what is stored and buffered are the codes of   *)
(* the samples heard (CaptureInv), and a code decodes to within half a     *)
(* step of its sample.  A reply: the two loops of _fit_oled keep the       *)
(* pieces of all lines or cut them (WrapInv, NextInv), and what json.dumps *)
(* writes is read back, split and drawn.  The recursive functions of the   *)
(* model are first shown to exist (Recursion); induction over them is over *)
(* a set of numbers, or of sequences, with the least counterexample.       *)
(***************************************************************************)
EXTENDS Codecs, SequenceTheorems, NaturalsInduction, WellFoundedInduction, TLAPS

\* The ends of a sample of 16 bits.
LEMMA Int16Is ==
  /\ INT16_MAX = 32767 /\ INT16_MIN = -32768 /\ INT16_MAX \in Int /\ INT16_MIN \in Int
  /\ \A x : x \in Int16 <=> x \in Int /\ INT16_MIN <= x /\ x <= INT16_MAX
<1>1. 2^15 = 32768
  OBVIOUS
<1>2. INT16_MAX = 32767 /\ INT16_MIN = -32768
  BY <1>1 DEF INT16_MAX, INT16_MIN
<1>3. INT16_MAX \in Int /\ INT16_MIN \in Int
  BY <1>2
<1>4. \A x : x \in Int16 <=> x \in Int /\ INT16_MIN <= x /\ x <= INT16_MAX
  BY <1>3 DEF Int16
<1>. QED BY <1>2, <1>3, <1>4

-----------------------------------------------------------------------------
(* mu-law. *)

\* The exponent of a biased sample, whose highest bit is bit k + 7.
Exponent(s) == Max({0} \cup {e \in 1 .. 7 : Bit(s, e + 7) = 1})

Step(k) == IF k = 0 THEN 1 ELSE IF k = 1 THEN 2 ELSE IF k = 2 THEN 4
           ELSE IF k = 3 THEN 8 ELSE IF k = 4 THEN 16 ELSE IF k = 5 THEN 32
           ELSE IF k = 6 THEN 64 ELSE 128
Low(k) == 128 * Step(k)

\* The steps of the eight segments.
LEMMA Steps ==
  /\ Step(0) = 1 /\ Step(1) = 2 /\ Step(2) = 4 /\ Step(3) = 8
  /\ Step(4) = 16 /\ Step(5) = 32 /\ Step(6) = 64 /\ Step(7) = 128
BY DEF Step

\* The step of a segment is a power of two.
LEMMA StepIsPower ==
  ASSUME NEW k \in 0 .. 7
  PROVE  2^k = Step(k) /\ 2^(k + 3) = 8 * Step(k) /\ 2^(k + 7) = Low(k)
<1>1. k = 0 \/ k = 1 \/ k = 2 \/ k = 3 \/ k = 4 \/ k = 5 \/ k = 6 \/ k = 7
  OBVIOUS
<1>2. CASE k = 0
  BY <1>2, Steps DEF Low
<1>3. CASE k = 1
  BY <1>3, Steps DEF Low
<1>4. CASE k = 2
  BY <1>4, Steps DEF Low
<1>5. CASE k = 3
  BY <1>5, Steps DEF Low
<1>6. CASE k = 4
  BY <1>6, Steps DEF Low
<1>7. CASE k = 5
  BY <1>7, Steps DEF Low
<1>8. CASE k = 6
  BY <1>8, Steps DEF Low
<1>9. CASE k = 7
  BY <1>9, Steps DEF Low
<1>. QED BY <1>1, <1>2, <1>3, <1>4, <1>5, <1>6, <1>7, <1>8, <1>9

\* A segment's step is twice that of the segment below.
LEMMA StepGrows ==
  ASSUME NEW k \in 0 .. 7
  PROVE  Step(k) \in Nat \ {0} /\ \A e \in 0 .. 7 : e > k => 2 * Step(k) <= Step(e)
<1>1. k = 0 \/ k = 1 \/ k = 2 \/ k = 3 \/ k = 4 \/ k = 5 \/ k = 6 \/ k = 7
  OBVIOUS
<1>2. ASSUME NEW e \in 0 .. 7, e > k
      PROVE  2 * Step(k) <= Step(e)
  <2>1. e = 0 \/ e = 1 \/ e = 2 \/ e = 3 \/ e = 4 \/ e = 5 \/ e = 6 \/ e = 7
    OBVIOUS
  <2>. QED BY <2>1, <1>1, <1>2, Steps
<1>. QED BY <1>1, <1>2, Steps

\* A biased sample between the ends of a segment is of that segment.
LEMMA ExponentIs ==
  ASSUME NEW s \in Nat, NEW k \in 0 .. 7, Low(k) <= s, s < 2 * Low(k)
  PROVE  Exponent(s) = k
<1>. DEFINE E == {0} \cup {e \in 1 .. 7 : Bit(s, e + 7) = 1}
<1>1. k \in E
  <2>1. CASE k = 0
    BY <2>1
  <2>2. CASE k # 0
    <3>1. Bit(s, k + 7) = (s \div Low(k)) % 2
      BY StepIsPower DEF Bit
    <3>2. Low(k) \in Nat \ {0}
      BY StepGrows DEF Low
    <3>3. s \div Low(k) = 1
      BY <3>2
    <3>. QED BY <2>2, <3>1, <3>3
  <2>. QED BY <2>1, <2>2
<1>2. \A e \in E : k >= e
  <2>. SUFFICES ASSUME NEW e \in 1 .. 7, Bit(s, e + 7) = 1, e > k PROVE FALSE
    OBVIOUS
  <2>1. Bit(s, e + 7) = (s \div Low(e)) % 2
    <3>1. 2^(e + 7) = Low(e)
      <4>1. e \in 0 .. 7
        OBVIOUS
      <4>. QED BY <4>1, StepIsPower, Zenon
    <3>. QED BY <3>1 DEF Bit
  <2>2. 2 * Low(k) <= Low(e) /\ Low(e) \in Nat \ {0} /\ Low(k) \in Nat
    <3>1. e \in 0 .. 7 /\ e > k
      OBVIOUS
    <3>2. Step(k) \in Nat /\ Step(e) \in Nat \ {0} /\ 2 * Step(k) <= Step(e)
      BY <3>1, StepGrows
    <3>. QED BY <3>2 DEF Low
  <2>3. s < Low(e)
    BY <2>2
  <2>4. s \div Low(e) = 0
    BY <2>2, <2>3
  <2>. QED BY <2>1, <2>4
<1>3. \A e \in E : (\A y \in E : e >= y) => e = k
  BY <1>1, <1>2
<1>. HIDE DEF E
<1>4. Max(E) = k
  BY <1>1, <1>2, <1>3 DEF Max
<1>. QED BY <1>4 DEF Exponent, E

\* Every biased sample is of some segment.
LEMMA HasExponent ==
  ASSUME NEW s \in Nat, 132 <= s, s <= 32767
  PROVE  \E k \in 0 .. 7 : Low(k) <= s /\ s < 2 * Low(k)
<1>1. \/ 128 <= s /\ s < 256
      \/ 256 <= s /\ s < 512
      \/ 512 <= s /\ s < 1024
      \/ 1024 <= s /\ s < 2048
      \/ 2048 <= s /\ s < 4096
      \/ 4096 <= s /\ s < 8192
      \/ 8192 <= s /\ s < 16384
      \/ 16384 <= s /\ s < 32768
  OBVIOUS
<1>2. /\ Low(0) = 128 /\ Low(1) = 256 /\ Low(2) = 512 /\ Low(3) = 1024 /\ Low(4) = 2048
      /\ Low(5) = 4096 /\ Low(6) = 8192 /\ Low(7) = 16384
  BY DEF Low, Step
<1>3. 0 \in 0 .. 7 /\ 1 \in 0 .. 7 /\ 2 \in 0 .. 7 /\ 3 \in 0 .. 7 /\ 4 \in 0 .. 7
      /\ 5 \in 0 .. 7 /\ 6 \in 0 .. 7 /\ 7 \in 0 .. 7
  OBVIOUS
<1>. QED BY <1>1, <1>2, <1>3

\* The bits below the highest one, with it, and what a decoder makes of them.
Bits(s, u) == s \div (8 * u)
Heard(s, u) == ((Bits(s, u) % 16) * 8 + 132) * u

\* It is half a step of quantisation away at most.
LEMMA HalfStep ==
  ASSUME NEW s \in Nat, NEW u \in {1, 2, 4, 8, 16, 32, 64, 128},
         128 * u <= s, s < 2 * (128 * u)
  PROVE  /\ Bits(s, u) % 16 \in 0 .. 15
         /\ Heard(s, u) \in Nat /\ Heard(s, u) >= 132
         /\ Heard(s, u) - s <= 4 * u /\ s - Heard(s, u) <= 4 * u
<1>. DEFINE q == Bits(s, u)
            m == q % 16
            p == u * q
<1>1. u = 1 \/ u = 2 \/ u = 4 \/ u = 8 \/ u = 16 \/ u = 32 \/ u = 64 \/ u = 128
  OBVIOUS
<1>2. q \in 16 .. 31 /\ 8 * (u * q) <= s /\ s < 8 * (u * q) + 8 * u
  BY <1>1 DEF Bits
<1>. HIDE DEF q
<1>3. m = q - 16
  BY <1>2
<1>. HIDE DEF m
<1>4. (m * 8 + 132) * u = 8 * p + 4 * u /\ p \in Int /\ 16 * u <= p
  <2>1. m * 8 + 132 = 8 * q + 4
    BY <1>2, <1>3
  <2>2. q \in Int /\ q >= 16
    BY <1>2
  <2>. QED BY <1>1, <2>1, <2>2
<1>5. Heard(s, u) = 8 * p + 4 * u
  BY <1>4 DEF Heard, m, q
<1>6. 8 * p <= s /\ s < 8 * p + 8 * u /\ u >= 1 /\ u \in Int
  BY <1>1, <1>2
<1>. HIDE DEF p
<1>7. m \in 0 .. 15
  BY <1>2, <1>3
<1>8. /\ Heard(s, u) \in Nat /\ Heard(s, u) >= 132
      /\ Heard(s, u) - s <= 4 * u /\ s - Heard(s, u) <= 4 * u
  BY <1>4, <1>5, <1>6
<1>. QED BY <1>7, <1>8 DEF m, q

\* _mulaw_to_pcm16 takes a code apart again.
LEMMA Decoded ==
  ASSUME NEW k \in 0 .. 7, NEW m \in 0 .. 15, NEW sign \in {0, 128}
  PROVE  MuLawToPcm16(255 - (sign + 16 * k + m))
           = IF sign = 128 THEN -((m * 8 + 132) * Step(k) - 132)
             ELSE (m * 8 + 132) * Step(k) - 132
<1>. DEFINE value == sign + 16 * k + m
<1>1. /\ value \in 0 .. 255 /\ 255 - (255 - value) = value
      /\ value % 16 = m /\ (value \div 16) % 8 = k /\ (value >= 128 <=> sign = 128)
  OBVIOUS
<1>2. 2^k = Step(k)
  BY StepIsPower
<1>. HIDE DEF value
<1>3. MuLawToPcm16(255 - value)
        = IF sign = 128 THEN -((m * 8 + 132) * Step(k) - 132)
          ELSE (m * 8 + 132) * Step(k) - 132
  BY <1>1, <1>2 DEF MuLawToPcm16
<1>. QED BY <1>3 DEF value

\* What linearToMuLaw makes of a sample.
LEMMA Encoded ==
  ASSUME NEW pcm \in Int16
  PROVE  LET size == IF pcm < 0 THEN -pcm ELSE pcm
             s    == Clip(size) + 132
             sign == IF pcm < 0 THEN 128 ELSE 0
         IN  /\ s \in Nat
             /\ \E k \in 0 .. 7 :
                  /\ Low(k) <= s /\ s < 2 * Low(k)
                  /\ LinearToMuLaw(pcm) = 255 - (sign + 16 * k + (Bits(s, Step(k)) % 16))
<1>. DEFINE size == IF pcm < 0 THEN -pcm ELSE pcm
            s    == Clip(size) + 132
            sign == IF pcm < 0 THEN 128 ELSE 0
<1>0. pcm \in Int /\ -32768 <= pcm /\ pcm <= 32767
  BY Int16Is
<1>1. s \in Nat /\ 132 <= s /\ s <= 32767
  BY <1>0 DEF Clip
<1>2. PICK k \in 0 .. 7 : Low(k) <= s /\ s < 2 * Low(k)
  BY <1>1, HasExponent
<1>. HIDE DEF s
<1>3. Exponent(s) = k
  BY <1>1, <1>2, ExponentIs
<1>4. 2^(k + 3) = 8 * Step(k)
  BY StepIsPower
<1>5. LinearToMuLaw(pcm) = 255 - (sign + 16 * k + (Bits(s, Step(k)) % 16))
  BY <1>3, <1>4 DEF LinearToMuLaw, Exponent, Bits, s
<1>. QED BY <1>1, <1>2, <1>5 DEF s

\* A code is a byte.
LEMMA CodeIsByte ==
  ASSUME NEW pcm \in Int16
  PROVE  LinearToMuLaw(pcm) \in 0 .. 255
<1>. DEFINE sign == IF pcm < 0 THEN 128 ELSE 0
<1>1. PICK s \in Nat, k \in 0 .. 7 :
        LinearToMuLaw(pcm) = 255 - (sign + 16 * k + (Bits(s, Step(k)) % 16))
  BY Encoded
<1>2. Bits(s, Step(k)) \in Int
  BY StepGrows DEF Bits
<1>. DEFINE m == Bits(s, Step(k)) % 16
<1>3. m \in 0 .. 15
  BY <1>2
<1>4. sign \in {0, 128}
  OBVIOUS
<1>. HIDE DEF m, sign
<1>. QED BY <1>1, <1>3, <1>4 DEF m

\* Every 16-bit sample is heard within half a quantisation step of itself.
THEOREM MuLawIsCloseToAll ==
  \A pcm \in Int16 : Close(pcm, MuLawToPcm16(LinearToMuLaw(pcm)))
<1>. SUFFICES ASSUME NEW pcm \in Int16
              PROVE  Close(pcm, MuLawToPcm16(LinearToMuLaw(pcm)))
  OBVIOUS
<1>. DEFINE size == IF pcm < 0 THEN -pcm ELSE pcm
            want == IF size > 32635 THEN 32635 ELSE size
            s    == want + 132
            sign == IF pcm < 0 THEN 128 ELSE 0
<1>0. pcm \in Int
  BY Int16Is
<1>1. want \in Int /\ s = Clip(size) + 132
  BY <1>0 DEF Clip
<1>. HIDE DEF s
<1>2. s \in Nat
  BY <1>1, Encoded
<1>3. PICK k \in 0 .. 7 :
        /\ Low(k) <= s /\ s < 2 * Low(k)
        /\ LinearToMuLaw(pcm) = 255 - (sign + 16 * k + (Bits(s, Step(k)) % 16))
  BY <1>1, Encoded
<1>. DEFINE u    == Step(k)
            m    == Bits(s, u) % 16
            got  == Heard(s, u)
<1>. HIDE DEF want
<1>4. u \in {1, 2, 4, 8, 16, 32, 64, 128} /\ 128 * u <= s /\ s < 2 * (128 * u)
  BY <1>3 DEF Step, Low
<1>. HIDE DEF u
<1>5. /\ m \in 0 .. 15 /\ got \in Nat /\ got >= 132
      /\ got - s <= 4 * u /\ s - got <= 4 * u
  BY <1>2, <1>4, HalfStep
<1>. DEFINE heardAs == MuLawToPcm16(LinearToMuLaw(pcm))
            signed  == IF pcm < 0 THEN -heardAs ELSE heardAs
<1>6. signed = got - 132
  <2>. HIDE DEF m
  <2>0. (m * 8 + 132) * u = got
    BY DEF m, Heard
  <2>1. sign \in {0, 128} /\ (sign = 128 <=> pcm < 0)
    OBVIOUS
  <2>2. LinearToMuLaw(pcm) = 255 - (sign + 16 * k + m)
    BY <1>3 DEF m, u
  <2>. HIDE DEF sign
  <2>3. heardAs = IF sign = 128 THEN -((m * 8 + 132) * u - 132)
                  ELSE (m * 8 + 132) * u - 132
    BY <2>2, <1>5, <2>1, Decoded DEF u
  <2>. HIDE DEF heardAs
  <2>. QED BY <1>5, <2>0, <2>1, <2>3
<1>7. signed >= 0 /\ 32 * (IF signed > want THEN signed - want ELSE want - signed) <= want + 132
  <2>. HIDE DEF signed, got
  <2>. QED BY <1>1, <1>4, <1>5, <1>6, <1>2 DEF s
<1>. QED BY <1>7 DEF Close, want

-----------------------------------------------------------------------------
(* The recording. *)

Byte == 0 .. 255

TypeOK ==
  /\ base \in Bases /\ phase \in {"recording", "stopped", "reply"}
  /\ heard \in Nat /\ drop \in Nat
  /\ buffer \in Seq(Byte) /\ stored \in Seq(Byte)
  /\ short \in BOOLEAN /\ pending \in BOOLEAN
  /\ text \in Seq(Characters)

\* What there is to be heard of sample i after the transient, and of the first n.
Code(i) == LinearToMuLaw(Saturate(Raw(DropCount + i)))
Codes(n) == [i \in 1 .. n |-> Code(i)]

\* Samples encoded so far.
Encodings == heard + drop - DropCount

CaptureInv ==
  /\ drop = IF heard < DropCount THEN DropCount - heard ELSE 0
  /\ ~short => stored \o buffer = Codes(Encodings)
  /\ Len(buffer) < BufferSize
  /\ phase = "stopped" => buffer = <<>> /\ (pending <=> stored # <<>>)

IInv == TypeOK /\ CaptureInv

\* Bytes can be appended in any grouping.
LEMMA Associative ==
  \A s, t, u \in Seq(Byte) : (s \o t) \o u = s \o (t \o u)
BY ConcatAssociative

\* What is assumed of the constants of a recording.
LEMMA SizesAre ==
  /\ BufferSize \in Nat \ {0} /\ ReadSize \in Nat \ {0} /\ ReadSize <= BufferSize
  /\ DropCount \in Nat /\ MaxSamples \in Nat /\ Bases \subseteq Int
BY CaptureAssumption DEF CaptureAssumption

\* A saturated sample fits into 16 bits.
LEMMA SaturateType == ASSUME NEW x \in Int PROVE Saturate(x) \in Int16
BY Int16Is DEF Saturate

\* The codes of the first n samples are n bytes.
LEMMA CodesType ==
  ASSUME base \in Int, NEW n \in Nat
  PROVE  /\ Codes(n) \in Seq(Byte) /\ Len(Codes(n)) = n
         /\ \A i \in 1 .. n : Codes(n)[i] = Code(i)
         /\ \A i \in Nat : Code(i) \in Byte
<1>1. ASSUME NEW i \in Nat PROVE Code(i) \in Byte
  <2>1. Raw(DropCount + i) \in Int
    BY SizesAre DEF Raw
  <2>2. Saturate(Raw(DropCount + i)) \in Int16
    BY <2>1, SaturateType
  <2>. QED BY <2>2, CodeIsByte DEF Code, Byte
<1>2. \A i \in 1 .. n : Code(i) \in Byte
  BY <1>1
<1>. HIDE DEF Code, Byte
<1>3. Codes(n) \in [1 .. n -> Byte]
  BY <1>2 DEF Codes
<1>4. Codes(n) \in Seq(Byte) /\ Len(Codes(n)) = n
  BY <1>3, IsASeq, LenProperties
<1>. QED BY <1>1, <1>4 DEF Codes

\* Later codes continue earlier ones.
LEMMA CodesGrow ==
  ASSUME base \in Int, NEW n \in Nat, NEW m \in Nat
  PROVE  LET more == [i \in 1 .. m |-> Code(n + i)]
         IN  more \in Seq(Byte) /\ Len(more) = m /\ Codes(n) \o more = Codes(n + m)
<1>. DEFINE more == [i \in 1 .. m |-> Code(n + i)]
            all  == Codes(n) \o more
<1>1. \A i \in Nat : Code(i) \in Byte
  BY CodesType
<1>2. more \in [1 .. m -> Byte]
  BY <1>1
<1>3. more \in Seq(Byte) /\ Len(more) = m /\ \A i \in 1 .. m : more[i] = Code(n + i)
  BY <1>2
<1>4. Codes(n) \in Seq(Byte) /\ Len(Codes(n)) = n /\ \A i \in 1 .. n : Codes(n)[i] = Code(i)
  BY CodesType
<1>5. /\ Codes(n + m) \in Seq(Byte) /\ Len(Codes(n + m)) = n + m
      /\ \A i \in 1 .. n + m : Codes(n + m)[i] = Code(i)
  BY CodesType
<1>. HIDE DEF more
<1>6. all \in Seq(Byte) /\ Len(all) = n + m
  BY <1>3, <1>4
<1>7. ASSUME NEW i \in 1 .. n + m PROVE all[i] = Code(i)
  <2>1. ASSUME i <= n PROVE all[i] = Code(i)
    BY <2>1, <1>3, <1>4
  <2>2. ASSUME ~(i <= n) PROVE all[i] = Code(i)
    <3>1. all[i] = more[i - n]
      BY <2>2, <1>3, <1>4
    <3>2. i - n \in 1 .. m /\ n + (i - n) = i
      BY <2>2
    <3>. QED BY <3>1, <3>2, <1>3
  <2>. QED BY <2>1, <2>2
<1>. HIDE DEF all
<1>8. all = Codes(n + m)
  BY <1>5, <1>6, <1>7, SeqEqual
<1>. QED BY <1>3, <1>8 DEF more, all

\* A flush keeps what it stores, and all of it unless it is short.
LEMMA FlushKeeps ==
  ASSUME stored \in Seq(Byte), short \in BOOLEAN, NEW full \in Seq(Byte), Flush(full)
  PROVE  /\ stored' \in Seq(Byte) /\ short' \in BOOLEAN
         /\ ~short' => ~short /\ stored' = stored \o full
<1>1. PICK written \in 0 .. Len(full) :
        /\ stored' = stored \o SubSeq(full, 1, written)
        /\ short' = (short \/ written < Len(full))
  BY DEF Flush
<1>2. SubSeq(full, 1, written) \in Seq(Byte)
  BY SubSeqProperties
<1>3. stored' \in Seq(Byte)
  BY <1>1, <1>2, ConcatProperties
<1>4. ~short' => ~short /\ written = Len(full)
  <2>1. Len(full) \in Nat
    OBVIOUS
  <2>2. ~(written < Len(full)) => written = Len(full)
    BY <2>1
  <2>. QED BY <1>1, <2>2, Zenon
<1>5. written = Len(full) => SubSeq(full, 1, written) = full
  BY SubSeqFull
<1>. QED BY <1>1, <1>3, <1>4, <1>5

\* A recording starts with nothing heard.
LEMMA CaptureInit == Init => IInv
<1>. SUFFICES ASSUME Init PROVE IInv
  OBVIOUS
<1>1. TypeOK
  <2>1. <<>> \in Seq(Byte) /\ <<>> \in Seq(Characters)
    BY EmptySeq
  <2>2. base \in Bases /\ phase \in {"recording", "reply"} /\ heard = 0 /\ drop = DropCount
        /\ buffer = <<>> /\ stored = <<>> /\ short = FALSE /\ pending = FALSE /\ text = <<>>
    BY DEF Init
  <2>. QED BY <2>1, <2>2, SizesAre DEF TypeOK
<1>2. Codes(0) = <<>>
  <2>1. base \in Int
    BY <1>1, SizesAre DEF TypeOK
  <2>. QED BY <2>1, CodesType, EmptySeq
<1>3. stored \o buffer = <<>> /\ Encodings = 0 /\ Len(buffer) = 0
  BY SizesAre DEF Init, Encodings
<1>. QED BY <1>1, <1>2, <1>3, SizesAre DEF IInv, CaptureInv, Init

\* A read keeps the invariant, however many bytes it returns.
LEMMA ReadKeeps == ASSUME IInv, ReadStep PROVE IInv'
<1>0. /\ base \in Int /\ heard \in Nat /\ drop \in Nat /\ buffer \in Seq(Byte)
      /\ stored \in Seq(Byte) /\ short \in BOOLEAN
      /\ Len(buffer) < BufferSize
      /\ drop = IF heard < DropCount THEN DropCount - heard ELSE 0
  BY SizesAre DEF IInv, TypeOK, CaptureInv
<1>1. PICK bytes \in 0 .. ReadSize : Read(bytes)
  BY DEF ReadStep
<1>. DEFINE first  == Dropped(bytes, drop)
            m      == bytes - first
            codes  == [i \in 1 .. m |-> LinearToMuLaw(Saturate(Raw(heard + first + i)))]
            queued == buffer \o codes
            n      == Encodings
<1>2. first = IF bytes < drop THEN bytes ELSE drop
  <2>1. bytes \in Int /\ drop \in Int
    BY <1>0, SizesAre
  <2>2. \A x \in {bytes, drop} : (\A y \in {bytes, drop} : x =< y)
          => x = IF bytes < drop THEN bytes ELSE drop
    BY <2>1
  <2>3. \E x \in {bytes, drop} : \A y \in {bytes, drop} : x =< y
    BY <2>1
  <2>. QED BY <2>2, <2>3 DEF Dropped, Min
<1>3. /\ heard' = heard + bytes /\ drop' = drop - first
      /\ UNCHANGED <<base, phase, pending, text>>
      /\ phase = "recording"
  BY <1>1 DEF Read, ReadStep, Dropped
<1>4. /\ m \in Nat /\ n \in Nat /\ m <= ReadSize
      /\ heard' \in Nat /\ drop' \in Nat
      /\ drop' = IF heard' < DropCount THEN DropCount - heard' ELSE 0
      /\ Encodings' = n + m
      /\ m > 0 => heard + first = DropCount + n
  <2>. HIDE DEF first
  <2>. QED BY <1>0, <1>2, <1>3, SizesAre DEF Encodings
<1>. HIDE DEF first, m, n
<1>5. codes = [i \in 1 .. m |-> Code(n + i)]
  <2>1. \A i \in 1 .. m : Raw(heard + first + i) = Raw(DropCount + (n + i))
    <3>1. \A i \in 1 .. m : heard + first + i = DropCount + (n + i)
      <4>1. m > 0 => heard + first = DropCount + n
        BY <1>4
      <4>2. first \in Int
        BY <1>2, <1>0
      <4>. QED BY <4>1, <4>2, <1>4, <1>0, SizesAre
    <3>. QED BY <3>1
  <2>. QED BY <2>1 DEF Code
<1>6. codes \in Seq(Byte) /\ Len(codes) = m /\ Codes(n) \o codes = Codes(n + m)
  BY <1>0, <1>4, <1>5, CodesGrow
<1>. HIDE DEF codes
<1>7. queued \in Seq(Byte) /\ Len(queued) = Len(buffer) + m
  <2>1. buffer \in Seq(Byte) /\ codes \in Seq(Byte) /\ Len(codes) = m
    BY <1>0, <1>6
  <2>. QED BY <2>1, ConcatProperties
<1>8. ~short => stored \o queued = Codes(n + m)
  <2>1. ~short => stored \o buffer = Codes(n)
    BY DEF IInv, CaptureInv, n
  <2>2. stored \o queued = (stored \o buffer) \o codes
    <3>1. stored \in Seq(Byte) /\ buffer \in Seq(Byte) /\ codes \in Seq(Byte)
      BY <1>0, <1>6
    <3>2. (stored \o buffer) \o codes = stored \o (buffer \o codes)
      BY <3>1, Associative
    <3>. QED BY <3>2
  <2>. QED BY <2>1, <2>2, <1>6
<1>9. /\ stored' \in Seq(Byte) /\ short' \in BOOLEAN /\ buffer' \in Seq(Byte)
      /\ ~short' => ~short /\ stored' \o buffer' = stored \o queued
      /\ Len(buffer') < BufferSize
  <2>1. CASE Len(queued) < BufferSize
    <3>1. buffer' = queued /\ UNCHANGED <<stored, short>>
      BY <1>1, <2>1 DEF Read, codes, m, first
    <3>. HIDE DEF queued
    <3>. QED BY <3>1, <2>1, <1>0, <1>7
  <2>2. CASE ~(Len(queued) < BufferSize)
    <3>. DEFINE full == SubSeq(queued, 1, BufferSize)
                rest == SubSeq(queued, BufferSize + 1, Len(queued))
    <3>1. Flush(full) /\ buffer' = rest
      BY <1>1, <2>2 DEF Read, codes, m, first
    <3>. HIDE DEF queued
    <3>2. /\ full \in Seq(Byte) /\ rest \in Seq(Byte)
          /\ Len(rest) = Len(queued) - BufferSize
      BY <2>2, <1>7, SizesAre, SubSeqProperties
    <3>3. full \o rest = queued
      <4>1. Len(queued) \in Nat /\ BufferSize <= Len(queued)
        BY <1>7, <2>2, SizesAre
      <4>2. full \o rest = SubSeq(queued, 1, Len(queued))
        BY <4>1, <1>7, SizesAre, ConcatAdjacentSubSeq
      <4>. QED BY <4>2, <1>7, SubSeqFull
    <3>. HIDE DEF full, rest
    <3>4. /\ stored' \in Seq(Byte) /\ short' \in BOOLEAN
          /\ ~short' => ~short /\ stored' = stored \o full
      BY <3>1, <3>2, <1>0, FlushKeeps
    <3>5. (stored \o full) \o rest = stored \o queued
      <4>1. stored \in Seq(Byte) /\ full \in Seq(Byte) /\ rest \in Seq(Byte)
        BY <1>0, <3>2
      <4>2. (stored \o full) \o rest = stored \o (full \o rest)
        BY <4>1, Associative
      <4>. QED BY <4>2, <3>3
    <3>6. Len(rest) < BufferSize
      BY <3>2, <1>0, <1>4, <1>7, SizesAre
    <3>. QED BY <3>1, <3>2, <3>4, <3>5, <3>6
  <2>. QED BY <2>1, <2>2
<1>. HIDE DEF queued
<1>10. ~short' => stored' \o buffer' = Codes(n + m)
  BY <1>8, <1>9
<1>11. (~short => stored \o buffer = Codes(Encodings))'
  BY <1>4, <1>10, <1>3 DEF Codes, Code, Raw
<1>12. TypeOK'
  BY <1>3, <1>4, <1>9 DEF IInv, TypeOK
<1>. QED BY <1>3, <1>4, <1>9, <1>11, <1>12 DEF IInv, CaptureInv

\* The end of a recording flushes what is buffered.
LEMMA StopKeeps == ASSUME IInv, StopStep PROVE IInv'
<1>0. /\ base \in Int /\ heard \in Nat /\ drop \in Nat /\ buffer \in Seq(Byte)
      /\ stored \in Seq(Byte) /\ short \in BOOLEAN
  BY SizesAre DEF IInv, TypeOK
<1>1. /\ phase' = "stopped" /\ buffer' = <<>> /\ pending' = (stored' # <<>>)
      /\ UNCHANGED <<base, heard, drop, text>>
      /\ IF buffer = <<>> THEN UNCHANGED <<stored, short>> ELSE Flush(buffer)
  BY DEF StopStep, Stop
<1>2. /\ stored' \in Seq(Byte) /\ short' \in BOOLEAN
      /\ ~short' => ~short /\ stored' = stored \o buffer
  <2>1. CASE buffer = <<>>
    BY <2>1, <1>0, <1>1, ConcatEmptySeq
  <2>2. CASE buffer # <<>>
    BY <2>2, <1>0, <1>1, FlushKeeps
  <2>. QED BY <2>1, <2>2
<1>3. stored' \o buffer' = stored'
  BY <1>1, <1>2, ConcatEmptySeq
<1>4. (~short => stored \o buffer = Codes(Encodings))'
  <2>1. ~short => stored \o buffer = Codes(Encodings)
    BY DEF IInv, CaptureInv
  <2>2. Codes(Encodings)' = Codes(Encodings)
    BY <1>1 DEF Codes, Code, Raw, Encodings
  <2>. QED BY <1>2, <1>3, <2>1, <2>2
<1>5. TypeOK'
  <2>1. <<>> \in Seq(Byte) /\ (stored' # <<>>) \in BOOLEAN
    BY EmptySeq
  <2>. QED BY <1>1, <1>2, <2>1 DEF IInv, TypeOK
<1>6. Len(buffer') < BufferSize
  BY <1>1, SizesAre, EmptySeq
<1>. QED BY <1>1, <1>4, <1>5, <1>6 DEF IInv, CaptureInv

\* A reply leaves the recording alone.
LEMMA ReplyKeeps == ASSUME IInv, Reply PROVE IInv'
<1>1. UNCHANGED capture /\ text' \in Seq(Characters)
  <2>1. text \in Seq(Characters)
    BY DEF IInv, TypeOK
  <2>. QED BY <2>1, AppendProperties DEF Reply
<1>2. Codes(Encodings)' = Codes(Encodings)
  BY <1>1 DEF capture, Codes, Code, Raw, Encodings
<1>. QED BY <1>1, <1>2 DEF IInv, TypeOK, CaptureInv, capture

\* The invariant of a recording and of a reply.
THEOREM InductiveInvariant == Spec => []IInv
<1>1. Init => IInv
  BY CaptureInit
<1>2. IInv /\ [Next]_vars => IInv'
  <2>. SUFFICES ASSUME IInv, [Next]_vars PROVE IInv'
    OBVIOUS
  <2>1. CASE ReadStep
    BY <2>1, ReadKeeps
  <2>2. CASE StopStep
    BY <2>2, StopKeeps
  <2>3. CASE Reply
    BY <2>3, ReplyKeeps
  <2>4. CASE UNCHANGED vars
    <3>1. Codes(Encodings)' = Codes(Encodings)
      BY <2>4 DEF vars, capture, Codes, Code, Raw, Encodings
    <3>. QED BY <2>4, <3>1 DEF IInv, TypeOK, CaptureInv, vars, capture
  <2>. QED BY <2>1, <2>2, <2>3, <2>4 DEF Next
<1>. QED BY <1>1, <1>2, PTL DEF Spec

\* The invariant says that the recording is the speech.
LEMMA RecordingFollows == IInv => RecordingIsTheSpeech
<1>. SUFFICES ASSUME IInv PROVE RecordingIsTheSpeech
  OBVIOUS
<1>. DEFINE codes == stored \o buffer
<1>0. /\ base \in Int /\ heard \in Nat /\ drop \in Nat
      /\ drop = IF heard < DropCount THEN DropCount - heard ELSE 0
  BY SizesAre DEF IInv, TypeOK, CaptureInv
<1>1. ASSUME ~short
      PROVE  /\ Len(codes) = Max({0, heard - DropCount})
             /\ \A i \in DOMAIN codes :
                  Close(Saturate(Raw(DropCount + i)), MuLawToPcm16(codes[i]))
  <2>1. Encodings \in Nat /\ Encodings = IF heard < DropCount THEN 0 ELSE heard - DropCount
    BY <1>0, SizesAre DEF Encodings
  <2>2. Max({0, heard - DropCount}) = Encodings
    <3>1. heard - DropCount \in Int
      BY <1>0, SizesAre
    <3>2. \A x \in {0, heard - DropCount} :
            (\A y \in {0, heard - DropCount} : x >= y) => x = Encodings
      BY <2>1, <3>1, <1>0, SizesAre
    <3>3. \E x \in {0, heard - DropCount} : \A y \in {0, heard - DropCount} : x >= y
      BY <3>1
    <3>. QED BY <3>2, <3>3 DEF Max
  <2>3. codes = Codes(Encodings)
    BY <1>1 DEF IInv, CaptureInv
  <2>4. Len(codes) = Encodings /\ DOMAIN codes = 1 .. Encodings
    BY <2>1, <2>3, <1>0, CodesType DEF Codes
  <2>5. ASSUME NEW i \in 1 .. Encodings
        PROVE  Close(Saturate(Raw(DropCount + i)), MuLawToPcm16(codes[i]))
    <3>1. codes[i] = LinearToMuLaw(Saturate(Raw(DropCount + i)))
      BY <2>1, <2>3, <1>0, CodesType DEF Code
    <3>2. Raw(DropCount + i) \in Int
      BY <1>0, <2>1, SizesAre DEF Raw
    <3>3. Saturate(Raw(DropCount + i)) \in Int16
      BY <3>2, SaturateType
    <3>. QED BY <3>1, <3>3, MuLawIsCloseToAll
  <2>. QED BY <2>2, <2>4, <2>5
<1>2. /\ Len(buffer) < BufferSize
      /\ phase = "stopped" => buffer = <<>> /\ (pending <=> stored # <<>>)
  BY DEF IInv, CaptureInv
<1>. QED BY <1>1, <1>2 DEF RecordingIsTheSpeech

\* What was stored decodes to what was said.
THEOREM RecordingIsFaithful == Spec => []RecordingIsTheSpeech
BY InductiveInvariant, RecordingFollows, PTL

-----------------------------------------------------------------------------
(* Induction up to a number, and recursion, for sets and functions. *)

\* A set of numbers that is not empty has a least one.
LEMMA Least ==
  ASSUME NEW T, T \subseteq Nat, T # {}
  PROVE  \E n \in T : \A m \in T : n <= m
<1>. DEFINE R == {ss \in Nat \X Nat : ss[1] < ss[2]}
<1>1. IsWellFoundedOn(R, Nat)
  BY NatLessThanWellFounded DEF OpToRel
<1>2. \A m, n \in Nat : <<m, n>> \in R <=> m < n
  OBVIOUS
<1>. HIDE DEF R
<1>3. PICK n \in T : \A m \in T : ~(<<m, n>> \in R)
  BY <1>1, WFMin
<1>4. ASSUME NEW m \in T PROVE n <= m
  <2>1. m \in Nat /\ n \in Nat /\ ~(m < n)
    BY <1>2, <1>3
  <2>. QED BY <2>1
<1>. QED BY <1>4

\* Induction up to a number: the least counterexample has a predecessor.
LEMMA UpTo ==
  ASSUME NEW N \in Nat, NEW T, 0 \in T, \A n \in 1 .. N : n - 1 \in T => n \in T
  PROVE  \A n \in 0 .. N : n \in T
<1>. DEFINE Bad == {n \in 0 .. N : n \notin T}
<1>. SUFFICES ASSUME Bad # {} PROVE FALSE
  OBVIOUS
<1>1. PICK n \in Bad : \A m \in Bad : n <= m
  <2>1. Bad \subseteq Nat
    OBVIOUS
  <2>. HIDE DEF Bad
  <2>. QED BY <2>1, Least
<1>2. n \in 1 .. N /\ n - 1 \in 0 .. N /\ n \notin T
  OBVIOUS
<1>3. n - 1 \in T
  <2>. SUFFICES ASSUME n - 1 \notin T PROVE FALSE
    OBVIOUS
  <2>1. n - 1 \in Bad
    BY <1>2
  <2>2. n <= n - 1
    BY <1>1, <2>1
  <2>. QED BY <1>2, <2>2
<1>. QED BY <1>2, <1>3

\* A function on 0 .. N that satisfies a recursion exists.
Stepper(S, N, first, step) ==
  N \in Nat /\ first \in S /\ \A n \in 1 .. N, s \in S : step[n][s] \in S
Iterates(f, S, N, first, step) ==
  /\ f \in [0 .. N -> S] /\ f[0] = first
  /\ \A n \in 1 .. N : f[n] = step[n][f[n - 1]]

\* There is one function with a given start and a given step.
LEMMA Recursion ==
  ASSUME NEW S, NEW N, NEW first, NEW step, Stepper(S, N, first, step)
  PROVE  \E f : Iterates(f, S, N, first, step)
<1>. DEFINE T == {n \in 0 .. N : \E f : Iterates(f, S, n, first, step)}
<1>0. N \in Nat /\ first \in S /\ \A n \in 1 .. N, s \in S : step[n][s] \in S
  BY DEF Stepper
<1>1. 0 \in T
  <2>1. Iterates([m \in 0 .. 0 |-> first], S, 0, first, step)
    BY <1>0 DEF Iterates
  <2>2. 0 \in 0 .. N
    BY <1>0
  <2>. QED BY <2>1, <2>2
<1>2. ASSUME NEW n \in 1 .. N, n - 1 \in T PROVE n \in T
  <2>1. PICK f : Iterates(f, S, n - 1, first, step)
    BY <1>2
  <2>. DEFINE g == [m \in 0 .. n |-> IF m = n THEN step[n][f[n - 1]] ELSE f[m]]
  <2>2. \A m \in 0 .. n - 1 : f[m] \in S
    BY <2>1 DEF Iterates
  <2>3. step[n][f[n - 1]] \in S
    BY <1>0, <2>2
  <2>4. g \in [0 .. n -> S] /\ g[0] = first /\ g[n] = step[n][f[n - 1]]
    BY <1>0, <2>1, <2>2, <2>3 DEF Iterates
  <2>5. \A m \in 0 .. n - 1 : g[m] = f[m]
    BY <1>0
  <2>. HIDE DEF g
  <2>6. ASSUME NEW m \in 1 .. n PROVE g[m] = step[m][g[m - 1]]
    <3>1. CASE m = n
      BY <3>1, <2>4, <2>5, <1>0
    <3>2. CASE m # n
      <4>1. m \in 1 .. n - 1 /\ m \in 0 .. n - 1 /\ m - 1 \in 0 .. n - 1
        BY <3>2, <1>0
      <4>2. f[m] = step[m][f[m - 1]]
        BY <4>1, <2>1 DEF Iterates
      <4>. QED BY <4>1, <4>2, <2>5
    <3>. QED BY <3>1, <3>2
  <2>7. Iterates(g, S, n, first, step)
    BY <2>4, <2>6 DEF Iterates
  <2>8. n \in 0 .. N
    BY <1>0
  <2>. QED BY <2>7, <2>8
<1>. HIDE DEF T
<1>3. \A n \in 0 .. N : n \in T
  BY <1>0, <1>1, <1>2, UpTo
<1>4. N \in T
  BY <1>0, <1>3
<1>. QED BY <1>4 DEF T

-----------------------------------------------------------------------------
(* FlattenSeq of the community modules. *)

IsFlat(f, seqs) ==
  f = [i \in 1 .. Len(seqs) |-> IF i = 1 THEN seqs[i] ELSE f[i - 1] \o seqs[i]]

\* Concatenation of the first i sequences, as FlattenSeq defines it.
LEMMA FlatExists ==
  ASSUME NEW S, NEW seqs \in Seq(Seq(S))
  PROVE  \E f : IsFlat(f, seqs)
<1>. DEFINE N == Len(seqs)
            step == [i \in 1 .. N |-> [s \in Seq(S) |-> s \o seqs[i]]]
<1>1. \A i \in 1 .. N : seqs[i] \in Seq(S)
  BY ElementOfSeq
<1>2. N \in Nat
  BY LenProperties
<1>. HIDE DEF N
<1>5. \A i \in 1 .. N, s \in Seq(S) : step[i][s] = s \o seqs[i]
  OBVIOUS
<1>. HIDE DEF step
<1>3. Stepper(Seq(S), N, <<>>, step)
  <2>1. \A i \in 1 .. N, s \in Seq(S) : step[i][s] \in Seq(S)
    BY <1>1, <1>5, ConcatProperties
  <2>2. <<>> \in Seq(S)
    BY EmptySeq
  <2>. QED BY <1>2, <2>1, <2>2 DEF Stepper
<1>6. PICK g : Iterates(g, Seq(S), N, <<>>, step)
  BY <1>3, Recursion
<1>7. /\ g \in [0 .. N -> Seq(S)] /\ g[0] = <<>>
      /\ \A i \in 1 .. N : g[i] = step[i][g[i - 1]]
  BY <1>6 DEF Iterates
<1>. DEFINE f == [i \in 1 .. N |-> g[i]]
<1>8. ASSUME NEW i \in 1 .. N
      PROVE  g[i] = IF i = 1 THEN seqs[i] ELSE g[i - 1] \o seqs[i]
  <2>1. i - 1 \in 0 .. N
    BY <1>2
  <2>2. g[i - 1] \in Seq(S)
    BY <1>7, <2>1
  <2>3. g[i] = g[i - 1] \o seqs[i]
    BY <1>5, <1>7, <2>2
  <2>4. CASE i = 1
    <3>1. g[i - 1] = <<>> /\ seqs[i] \in Seq(S)
      BY <2>4, <1>1, <1>7
    <3>. QED BY <3>1, <2>3, <2>4, ConcatEmptySeq
  <2>. QED BY <2>3, <2>4
<1>9. IsFlat(f, seqs)
  <2>1. ASSUME NEW i \in 1 .. N
        PROVE  g[i] = IF i = 1 THEN seqs[i] ELSE f[i - 1] \o seqs[i]
    <3>1. i # 1 => f[i - 1] = g[i - 1]
      BY <1>2
    <3>. QED BY <3>1, <1>8
  <2>2. f = [i \in 1 .. N |-> IF i = 1 THEN seqs[i] ELSE f[i - 1] \o seqs[i]]
    BY <2>1
  <2>. QED BY <2>2 DEF IsFlat, N
<1>. QED BY <1>9

\* The function FlattenSeq takes its result from.
LEMMA FlattenIs ==
  ASSUME NEW S, NEW seqs \in Seq(Seq(S))
  PROVE  \E f : /\ IsFlat(f, seqs)
                /\ FlattenSeq(seqs) = IF seqs = <<>> THEN <<>> ELSE f[Len(seqs)]
<1>. DEFINE f == CHOOSE f : IsFlat(f, seqs)
<1>1. IsFlat(f, seqs)
  BY FlatExists
<1>2. seqs = <<>> <=> Len(seqs) = 0
  BY EmptySeq
<1>3. FlattenSeq(seqs) = IF seqs = <<>> THEN <<>> ELSE f[Len(seqs)]
  BY <1>2 DEF FlattenSeq, IsFlat
<1>. HIDE DEF f
<1>. QED BY <1>1, <1>3

\* Flattening one more sequence appends it.
LEMMA FlattenAppend ==
  ASSUME NEW S, NEW seqs \in Seq(Seq(S)), NEW s \in Seq(S)
  PROVE  /\ FlattenSeq(seqs) \in Seq(S)
         /\ FlattenSeq(Append(seqs, s)) = FlattenSeq(seqs) \o s
<1>. DEFINE N == Len(seqs)
            more == Append(seqs, s)
<1>1. N \in Nat /\ (N = 0 <=> seqs = <<>>)
  BY LenProperties, EmptySeq
<1>2. \A i \in 1 .. N : seqs[i] \in Seq(S)
  BY ElementOfSeq
<1>3. /\ more \in Seq(Seq(S)) /\ Len(more) = N + 1 /\ more # <<>>
      /\ \A i \in 1 .. N : more[i] = seqs[i]
      /\ more[N + 1] = s
  BY AppendProperties, <1>1
<1>4. PICK f : /\ IsFlat(f, seqs)
               /\ FlattenSeq(seqs) = IF seqs = <<>> THEN <<>> ELSE f[N]
  BY FlattenIs
<1>5. PICK g : /\ IsFlat(g, more)
               /\ FlattenSeq(more) = g[N + 1]
  <2>. HIDE DEF more, N
  <2>. QED BY <1>3, FlattenIs
<1>. HIDE DEF N, more
<1>6. \A i \in 1 .. N : f[i] = IF i = 1 THEN seqs[i] ELSE f[i - 1] \o seqs[i]
  BY <1>4 DEF IsFlat, N
<1>7. \A i \in 1 .. N + 1 : g[i] = IF i = 1 THEN more[i] ELSE g[i - 1] \o more[i]
  BY <1>3, <1>5 DEF IsFlat
<1>. DEFINE T == {n \in 0 .. N : n = 0 \/ (f[n] \in Seq(S) /\ g[n] = f[n])}
<1>8. ASSUME NEW n \in 1 .. N, n - 1 \in T PROVE n \in T
  <2>0. n \in 0 .. N /\ n \in 1 .. N + 1 /\ seqs[n] \in Seq(S) /\ more[n] = seqs[n]
    BY <1>1, <1>2, <1>3
  <2>1. CASE n = 1
    <3>1. f[n] = seqs[n] /\ g[n] = more[n]
      BY <2>0, <2>1, <1>6, <1>7
    <3>2. f[n] \in Seq(S) /\ g[n] = f[n]
      BY <3>1, <2>0
    <3>. QED BY <3>2, <2>0
  <2>2. CASE n # 1
    <3>1. f[n - 1] \in Seq(S) /\ g[n - 1] = f[n - 1]
      BY <2>2, <1>8
    <3>2. f[n] = f[n - 1] \o seqs[n] /\ g[n] = g[n - 1] \o more[n]
      BY <2>0, <2>2, <1>6, <1>7
    <3>3. f[n] \in Seq(S)
      BY <3>1, <3>2, <2>0, ConcatProperties
    <3>4. f[n] \in Seq(S) /\ g[n] = f[n]
      BY <3>1, <3>2, <3>3, <2>0
    <3>. QED BY <3>4, <2>0
  <2>. QED BY <2>1, <2>2
<1>9. 0 \in T
  <2>1. 0 \in 0 .. N
    BY <1>1
  <2>. QED BY <2>1, Zenon
<1>. HIDE DEF T
<1>10. \A n \in 0 .. N : n \in T
  BY <1>1, <1>8, <1>9, UpTo
<1>11. CASE N = 0
  <2>1. FlattenSeq(seqs) = <<>> /\ g[N + 1] = more[N + 1] /\ <<>> \in Seq(S)
    <3>1. N + 1 \in 1 .. N + 1 /\ N + 1 = 1
      BY <1>11
    <3>. QED BY <3>1, <1>11, <1>1, <1>4, <1>7, EmptySeq
  <2>. QED BY <2>1, <1>3, <1>5, ConcatEmptySeq DEF more
<1>12. CASE N # 0
  <2>1. N \in T
    BY <1>1, <1>10
  <2>2. f[N] \in Seq(S) /\ g[N] = f[N] /\ FlattenSeq(seqs) = f[N]
    BY <2>1, <1>12, <1>1, <1>4 DEF T
  <2>3. g[N + 1] = g[N] \o more[N + 1]
    <3>1. ASSUME NEW M, M = N + 1
          PROVE  g[M] = g[N] \o more[M]
      <4>1. M \in 1 .. N + 1 /\ M # 1 /\ M - 1 = N
        BY <3>1, <1>1, <1>12
      <4>2. g[M] = IF M = 1 THEN more[M] ELSE g[M - 1] \o more[M]
        BY <4>1, <1>7, Zenon
      <4>. QED BY <4>1, <4>2
    <3>. QED BY <3>1
  <2>4. more[N + 1] = s /\ FlattenSeq(more) = g[N + 1]
    BY <1>3, <1>5
  <2>5. FlattenSeq(more) = FlattenSeq(seqs) \o s
    BY <2>2, <2>3, <2>4
  <2>. QED BY <2>2, <2>5 DEF more
<1>. QED BY <1>11, <1>12

\* Nothing flattens to nothing.
LEMMA FlattenEmpty == FlattenSeq(<<>>) = <<>>
<1>1. <<>> \in Seq(Seq({}))
  BY EmptySeq
<1>. QED BY <1>1, FlattenIs

-----------------------------------------------------------------------------
(* Induction over sequences, from both ends. *)

\* Induction over a sequence that grows at its end.
LEMMA AppendInduction ==
  ASSUME NEW S, NEW T, <<>> \in T,
         \A s \in Seq(S), x \in S : s \in T => Append(s, x) \in T
  PROVE  \A s \in Seq(S) : s \in T
<1>. SUFFICES ASSUME NEW s \in Seq(S) PROVE s \in T
  OBVIOUS
<1>. DEFINE N == Len(s)
            U == {n \in 0 .. N : SubSeq(s, 1, n) \in T}
<1>1. N \in Nat
  BY LenProperties
<1>. HIDE DEF N
<1>2. 0 \in U
  <2>1. SubSeq(s, 1, 0) = <<>> /\ 0 \in 0 .. N
    BY <1>1, SubSeqEmpty
  <2>. QED BY <2>1
<1>3. ASSUME NEW n \in 1 .. N, n - 1 \in U PROVE n \in U
  <2>1. SubSeq(s, 1, n - 1) \in T /\ n \in 0 .. N
    BY <1>3, <1>1
  <2>2. SubSeq(s, 1, n - 1) \in Seq(S) /\ s[n] \in S
    BY <1>1, SubSeqProperties, ElementOfSeq DEF N
  <2>3. SubSeq(s, 1, n) = Append(SubSeq(s, 1, n - 1), s[n])
    BY <1>1, SubSeqRecursiveSecond DEF N
  <2>4. SubSeq(s, 1, n) \in T
    BY <2>1, <2>2, <2>3
  <2>. QED BY <2>1, <2>4
<1>. HIDE DEF U
<1>4. \A n \in 0 .. N : n \in U
  BY <1>1, <1>2, <1>3, UpTo
<1>5. N \in U
  BY <1>1, <1>4
<1>. QED BY <1>5, SubSeqFull DEF U, N

ConsClosed(S, T) == \A s \in Seq(S), x \in S : s \in T => <<x>> \o s \in T

\* Induction over a sequence that grows at its start.
LEMMA ConsInduction ==
  ASSUME NEW S, NEW T, <<>> \in T, ConsClosed(S, T)
  PROVE  \A s \in Seq(S) : s \in T
<1>. SUFFICES ASSUME NEW s \in Seq(S) PROVE s \in T
  OBVIOUS
<1>. DEFINE N == Len(s)
            U == {n \in 0 .. N : SubSeq(s, N - n + 1, N) \in T}
<1>1. N \in Nat
  BY LenProperties
<1>. HIDE DEF N
<1>2. 0 \in U
  <2>1. SubSeq(s, N - 0 + 1, N) = <<>> /\ 0 \in 0 .. N
    BY <1>1, SubSeqEmpty
  <2>. QED BY <2>1
<1>3. ASSUME NEW n \in 1 .. N, n - 1 \in U PROVE n \in U
  <2>. DEFINE at == N - n + 1
  <2>1. SubSeq(s, at + 1, N) \in T /\ n \in 0 .. N /\ at \in 1 .. N /\ N - (n - 1) + 1 = at + 1
    BY <1>3, <1>1
  <2>. HIDE DEF at
  <2>2. SubSeq(s, at + 1, N) \in Seq(S) /\ s[at] \in S
    BY <1>1, <2>1, SubSeqProperties, ElementOfSeq DEF N
  <2>3. SubSeq(s, at, N) = <<s[at]>> \o SubSeq(s, at + 1, N)
    BY <1>1, <2>1, SubSeqRecursiveFirst DEF N
  <2>4. SubSeq(s, at, N) \in T
    BY <2>1, <2>2, <2>3 DEF ConsClosed
  <2>. QED BY <2>1, <2>4 DEF at
<1>. HIDE DEF U
<1>4. \A n \in 0 .. N : n \in U
  BY <1>1, <1>2, <1>3, UpTo
<1>5. N \in U
  BY <1>1, <1>4
<1>6. SubSeq(s, 1, N) \in T
  <2>1. N - N + 1 = 1
    BY <1>1
  <2>. QED BY <1>5, <2>1 DEF U
<1>. QED BY <1>6, SubSeqFull DEF N

\* Appending after concatenating.
LEMMA ConcatAppend ==
  ASSUME NEW S, NEW s \in Seq(S), NEW t \in Seq(S), NEW e \in S
  PROVE  /\ s \o t \in Seq(S)
         /\ s \o Append(t, e) = Append(s \o t, e)
<1>1. <<e>> \in Seq(S) /\ Append(t, e) = t \o <<e>>
  BY AppendIsConcat
<1>2. s \o t \in Seq(S)
  BY ConcatProperties
<1>3. s \o (t \o <<e>>) = (s \o t) \o <<e>>
  BY <1>1, ConcatAssociative
<1>4. Append(s \o t, e) = (s \o t) \o <<e>>
  BY <1>2, AppendIsConcat
<1>. QED BY <1>1, <1>2, <1>3, <1>4

\* Appending before concatenating.
LEMMA ConcatMiddle ==
  ASSUME NEW S, NEW s \in Seq(S), NEW t \in Seq(S), NEW e \in S
  PROVE  s \o (<<e>> \o t) = Append(s, e) \o t
<1>. DEFINE one == <<e>>
<1>1. one \in Seq(S) /\ Append(s, e) = s \o one
  BY AppendIsConcat
<1>. HIDE DEF one
<1>2. (s \o one) \o t = s \o (one \o t)
  BY <1>1, ConcatAssociative
<1>3. s \o (one \o t) = Append(s, e) \o t
  BY <1>1, <1>2
<1>. QED BY <1>3 DEF one

\* A piece of a sequence.
LEMMA SubSeqType ==
  ASSUME NEW S, NEW s \in Seq(S), NEW a \in Nat \ {0}, NEW b \in Int, b <= Len(s)
  PROVE  /\ SubSeq(s, a, b) \in Seq(S)
         /\ Len(SubSeq(s, a, b)) = IF a <= b THEN b - a + 1 ELSE 0
         /\ \A i \in 1 .. b - a + 1 : SubSeq(s, a, b)[i] = s[a + i - 1]
<1>1. \A i \in 1 .. Len(s) : s[i] \in S
  BY ElementOfSeq
<1>2. \A i \in a .. b : s[i] \in S
  BY <1>1, LenProperties
<1>3. a \in Int
  OBVIOUS
<1>. QED BY <1>2, <1>3, SubSeqProperties
\* One element in front of a sequence.
LEMMA ConsProperties ==
  ASSUME NEW S, NEW s \in Seq(S), NEW e \in S
  PROVE  /\ <<e>> \o s \in Seq(S) /\ Len(<<e>> \o s) = Len(s) + 1
         /\ (<<e>> \o s)[1] = e
         /\ \A k \in 1 .. Len(s) : (<<e>> \o s)[k + 1] = s[k]
<1>. DEFINE one == <<e>>
<1>1. one \in Seq(S) /\ Len(one) = 1 /\ one[1] = e
  OBVIOUS
<1>2. Len(s) \in Nat
  BY LenProperties
<1>. HIDE DEF one
<1>3. /\ one \o s \in Seq(S) /\ Len(one \o s) = Len(one) + Len(s)
      /\ \A i \in 1 .. Len(one) + Len(s) :
           (one \o s)[i] = IF i <= Len(one) THEN one[i] ELSE s[i - Len(one)]
  BY <1>1, ConcatProperties
<1>4. (one \o s)[1] = e /\ Len(one \o s) = Len(s) + 1
  BY <1>1, <1>2, <1>3
<1>5. ASSUME NEW k \in 1 .. Len(s), NEW j, j = k + 1
      PROVE  (one \o s)[j] = s[k]
  <2>1. j \in 1 .. 1 + Len(s) /\ ~(j <= 1) /\ j - 1 = k
    BY <1>2, <1>5
  <2>2. (one \o s)[j] = IF j <= Len(one) THEN one[j] ELSE s[j - Len(one)]
    BY <2>1, <1>1, <1>3, Zenon
  <2>. QED BY <2>1, <2>2, <1>1
<1>6. \A k \in 1 .. Len(s) : (one \o s)[k + 1] = s[k]
  BY <1>5
<1>. QED BY <1>3, <1>4, <1>6 DEF one

-----------------------------------------------------------------------------
(* Splitting and joining. *)

Plain == Characters \ {"newline"}
Lines == Seq(Seq(Plain))
SplitStep(lines, ch) ==
  IF ch = "newline" THEN Append(lines, <<>>)
  ELSE [lines EXCEPT ![Len(lines)] = Append(@, ch)]

\* One more character leaves lines, one at least.
LEMMA SplitStepType ==
  ASSUME NEW lines \in Lines, lines # <<>>, NEW ch \in Characters
  PROVE  SplitStep(lines, ch) \in Lines /\ SplitStep(lines, ch) # <<>>
<1>1. CASE ch = "newline"
  <2>1. <<>> \in Seq(Plain)
    BY EmptySeq
  <2>. QED BY <1>1, <2>1, AppendProperties DEF SplitStep, Lines
<1>2. CASE ch # "newline"
  <2>. DEFINE n == Len(lines)
  <2>1. ch \in Plain /\ n \in 1 .. Len(lines)
    BY <1>2, EmptySeq DEF Plain, Lines
  <2>2. Append(lines[n], ch) \in Seq(Plain)
    BY <2>1, ElementOfSeq, AppendProperties DEF Lines
  <2>. HIDE DEF n
  <2>3. /\ [lines EXCEPT ![n] = Append(lines[n], ch)] \in Lines
        /\ Len([lines EXCEPT ![n] = Append(lines[n], ch)]) = Len(lines)
    BY <2>1, <2>2, ExceptSeq DEF Lines
  <2>4. SplitStep(lines, ch) = [lines EXCEPT ![n] = Append(lines[n], ch)]
    BY <1>2 DEF SplitStep, n
  <2>5. Len(lines) # 0 /\ Len(<<>>) = 0
    BY <2>1
  <2>. QED BY <2>3, <2>4, <2>5
<1>. QED BY <1>1, <1>2

IsSplit(f, t) ==
  f = [k \in 0 .. Len(t) |->
        IF k = 0 THEN <<<<>>>>
        ELSE LET before == f[k - 1]
             IN  IF t[k] = "newline" THEN Append(before, <<>>)
                 ELSE [before EXCEPT ![Len(before)] = Append(@, t[k])]]

\* The recursive function of Split, by name.
LEMMA IsSplitIs ==
  ASSUME NEW f, NEW t
  PROVE  IsSplit(f, t) <=>
           f = [k \in 0 .. Len(t) |-> IF k = 0 THEN <<<<>>>> ELSE SplitStep(f[k - 1], t[k])]
BY DEF IsSplit, SplitStep

NonEmpty == {lines \in Lines : lines # <<>>}

\* An empty text has one line.
LEMMA OneBlank == <<<<>>>> \in NonEmpty
<1>1. <<>> \in Seq(Plain)
  BY EmptySeq
<1>2. <<<<>>>> \in Seq(Seq(Plain)) /\ <<<<>>>> # <<>>
  BY <1>1
<1>. QED BY <1>2 DEF NonEmpty, Lines

\* That function exists.
LEMMA SplitExists ==
  ASSUME NEW t \in Seq(Characters)
  PROVE  \E f : IsSplit(f, t)
<1>. DEFINE N == Len(t)
            step == [k \in 1 .. N |-> [lines \in NonEmpty |-> SplitStep(lines, t[k])]]
<1>1. \A k \in 1 .. N : t[k] \in Characters
  BY ElementOfSeq
<1>2. N \in Nat
  BY LenProperties
<1>. HIDE DEF N
<1>3. \A k \in 1 .. N, lines \in NonEmpty : step[k][lines] = SplitStep(lines, t[k])
  OBVIOUS
<1>. HIDE DEF step
<1>4. Stepper(NonEmpty, N, <<<<>>>>, step)
  <2>1. \A k \in 1 .. N, lines \in NonEmpty : step[k][lines] \in NonEmpty
    BY <1>1, <1>3, SplitStepType DEF NonEmpty
  <2>. QED BY <1>2, <2>1, OneBlank DEF Stepper
<1>5. PICK g : Iterates(g, NonEmpty, N, <<<<>>>>, step)
  BY <1>4, Recursion
<1>6. /\ g \in [0 .. N -> NonEmpty] /\ g[0] = <<<<>>>>
      /\ \A k \in 1 .. N : g[k] = step[k][g[k - 1]]
  BY <1>5 DEF Iterates
<1>7. ASSUME NEW k \in 0 .. N
      PROVE  g[k] = IF k = 0 THEN <<<<>>>> ELSE SplitStep(g[k - 1], t[k])
  <2>1. CASE k = 0
    BY <2>1, <1>6
  <2>2. CASE k # 0
    <3>1. k \in 1 .. N /\ k - 1 \in 0 .. N
      BY <2>2, <1>2
    <3>2. g[k - 1] \in NonEmpty
      BY <3>1, <1>6
    <3>. QED BY <2>2, <3>1, <3>2, <1>3, <1>6
  <2>. QED BY <2>1, <2>2
<1>8. g = [k \in 0 .. N |-> IF k = 0 THEN <<<<>>>> ELSE SplitStep(g[k - 1], t[k])]
  BY <1>6, <1>7
<1>9. IsSplit(g, t)
  BY <1>8, IsSplitIs DEF N
<1>. QED BY <1>9

\* The function Split takes its result from.
LEMMA SplitIs ==
  ASSUME NEW t \in Seq(Characters)
  PROVE  \E f : /\ Split(t) = f[Len(t)]
                /\ f[0] = <<<<>>>>
                /\ \A k \in 1 .. Len(t) : f[k] = SplitStep(f[k - 1], t[k])
                /\ \A k \in 0 .. Len(t) : f[k] \in NonEmpty
<1>. DEFINE f == CHOOSE f : IsSplit(f, t)
            N == Len(t)
<1>1. IsSplit(f, t)
  BY SplitExists
<1>2. Split(t) = f[N]
  BY DEF Split, IsSplit
<1>. HIDE DEF f
<1>3. N \in Nat
  BY LenProperties
<1>4. f = [k \in 0 .. N |-> IF k = 0 THEN <<<<>>>> ELSE SplitStep(f[k - 1], t[k])]
  BY <1>1, IsSplitIs
<1>5. \A k \in 1 .. N : t[k] \in Characters
  BY ElementOfSeq
<1>. HIDE DEF N
<1>6. f[0] = <<<<>>>> /\ \A k \in 1 .. N : f[k] = SplitStep(f[k - 1], t[k])
  BY <1>3, <1>4
<1>. DEFINE T == {k \in 0 .. N : f[k] \in NonEmpty}
<1>7. 0 \in T
  BY <1>3, <1>6, OneBlank
<1>8. ASSUME NEW k \in 1 .. N, k - 1 \in T PROVE k \in T
  <2>1. f[k - 1] \in NonEmpty /\ k \in 0 .. N /\ f[k] = SplitStep(f[k - 1], t[k])
    BY <1>8, <1>3, <1>6
  <2>2. SplitStep(f[k - 1], t[k]) \in NonEmpty
    BY <2>1, <1>5, SplitStepType DEF NonEmpty
  <2>. QED BY <2>1, <2>2
<1>. HIDE DEF T
<1>9. \A k \in 0 .. N : k \in T
  BY <1>3, <1>7, <1>8, UpTo
<1>10. \A k \in 0 .. N : f[k] \in NonEmpty
  BY <1>9 DEF T
<1>. QED BY <1>2, <1>6, <1>10 DEF N

\* What one more character does to the lines of a text.
LEMMA SplitAppend ==
  ASSUME NEW t \in Seq(Characters), NEW ch \in Characters
  PROVE  Split(Append(t, ch)) = SplitStep(Split(t), ch)
<1>. DEFINE N == Len(t)
            more == Append(t, ch)
<1>1. N \in Nat
  BY LenProperties
<1>2. /\ more \in Seq(Characters) /\ Len(more) = N + 1 /\ more[N + 1] = ch
      /\ \A k \in 1 .. N : more[k] = t[k]
  BY AppendProperties
<1>. HIDE DEF more
<1>3. PICK f : /\ Split(t) = f[N] /\ f[0] = <<<<>>>>
               /\ \A k \in 1 .. N : f[k] = SplitStep(f[k - 1], t[k])
  BY SplitIs
<1>4. PICK g : /\ Split(more) = g[N + 1] /\ g[0] = <<<<>>>>
               /\ \A k \in 1 .. N + 1 : g[k] = SplitStep(g[k - 1], more[k])
  <2>. HIDE DEF N
  <2>1. PICK g : /\ Split(more) = g[Len(more)] /\ g[0] = <<<<>>>>
                 /\ \A k \in 1 .. Len(more) : g[k] = SplitStep(g[k - 1], more[k])
    BY <1>2, SplitIs
  <2>. QED BY <1>2, <2>1
<1>. HIDE DEF N
<1>. DEFINE T == {k \in 0 .. N : f[k] = g[k]}
<1>5. 0 \in T
  BY <1>1, <1>3, <1>4
<1>6. ASSUME NEW k \in 1 .. N, k - 1 \in T PROVE k \in T
  <2>1. f[k - 1] = g[k - 1] /\ k \in 0 .. N /\ k \in 1 .. N + 1 /\ more[k] = t[k]
    BY <1>6, <1>1, <1>2
  <2>2. f[k] = SplitStep(f[k - 1], t[k]) /\ g[k] = SplitStep(g[k - 1], more[k])
    BY <2>1, <1>3, <1>4
  <2>. QED BY <2>1, <2>2
<1>. HIDE DEF T
<1>7. \A k \in 0 .. N : k \in T
  BY <1>1, <1>5, <1>6, UpTo
<1>8. f[N] = g[N]
  <2>1. N \in 0 .. N
    BY <1>1
  <2>. QED BY <2>1, <1>7 DEF T
<1>9. g[N + 1] = SplitStep(g[N], ch)
  <2>1. ASSUME NEW M, M = N + 1
        PROVE  g[M] = SplitStep(g[N], more[M])
    <3>1. M \in 1 .. N + 1 /\ M - 1 = N
      BY <2>1, <1>1
    <3>2. g[M] = SplitStep(g[M - 1], more[M])
      BY <3>1, <1>4, Zenon
    <3>. QED BY <3>1, <3>2
  <2>. QED BY <2>1, <1>2
<1>. QED BY <1>3, <1>4, <1>8, <1>9 DEF more

\* The lines of an empty text.
LEMMA SplitEmpty == Split(<<>>) = <<<<>>>>
<1>1. <<>> \in Seq(Characters) /\ Len(<<>>) = 0
  BY EmptySeq
<1>2. PICK f : Split(<<>>) = f[Len(<<>>)] /\ f[0] = <<<<>>>>
  <2>. DEFINE t == <<>>
  <2>1. t \in Seq(Characters)
    BY <1>1
  <2>. HIDE DEF t
  <2>2. \E f : Split(t) = f[Len(t)] /\ f[0] = <<<<>>>>
    BY <2>1, SplitIs
  <2>. QED BY <2>2 DEF t
<1>. QED BY <1>1, <1>2

\* A text has a line at least, and no line has a line end.
LEMMA SplitType ==
  ASSUME NEW t \in Seq(Characters)
  PROVE  Split(t) \in Lines /\ Split(t) # <<>>
<1>1. Len(t) \in 0 .. Len(t)
  BY LenProperties
<1>. QED BY <1>1, SplitIs DEF NonEmpty

-----------------------------------------------------------------------------
(* Joining lines and splitting them again. *)

JoinPart(i, line) == IF i = 1 THEN line ELSE <<"newline">> \o line
JoinParts(lines) == [i \in 1 .. Len(lines) |-> JoinPart(i, lines[i])]

\* Joined, by its parts.
LEMMA JoinedIs == ASSUME NEW lines PROVE Joined(lines) = FlattenSeq(JoinParts(lines))
BY DEF Joined, JoinParts, JoinPart

\* A line is a text.
LEMMA PlainIs == ASSUME NEW line \in Seq(Plain) PROVE line \in Seq(Characters)
BY SeqMonotonic DEF Plain

\* Each part of what is joined is a text.
LEMMA JoinPartType ==
  ASSUME NEW i, NEW line \in Seq(Plain)
  PROVE  JoinPart(i, line) \in Seq(Characters)
<1>1. line \in Seq(Characters) /\ <<"newline">> \in Seq(Characters)
  BY PlainIs DEF Characters
<1>2. <<"newline">> \o line \in Seq(Characters)
  BY <1>1, ConcatProperties
<1>. QED BY <1>1, <1>2 DEF JoinPart

\* There are as many parts as lines.
LEMMA JoinPartsType ==
  ASSUME NEW lines \in Lines
  PROVE  JoinParts(lines) \in Seq(Seq(Characters)) /\ Len(JoinParts(lines)) = Len(lines)
<1>. DEFINE N == Len(lines)
<1>1. N \in Nat
  BY LenProperties DEF Lines
<1>2. \A i \in 1 .. N : lines[i] \in Seq(Plain)
  BY ElementOfSeq DEF Lines
<1>3. \A i \in 1 .. N : JoinPart(i, lines[i]) \in Seq(Characters)
  BY <1>2, JoinPartType
<1>4. JoinParts(lines) = [i \in 1 .. N |-> JoinPart(i, lines[i])]
  BY DEF JoinParts
<1>. HIDE DEF N
<1>5. JoinParts(lines) \in [1 .. N -> Seq(Characters)]
  BY <1>3, <1>4
<1>6. JoinParts(lines) \in Seq(Seq(Characters)) /\ Len(JoinParts(lines)) = N
  BY <1>1, <1>5
<1>. QED BY <1>6 DEF N

\* One more line is one more part.
LEMMA JoinPartsAppend ==
  ASSUME NEW lines \in Lines, NEW line \in Seq(Plain)
  PROVE  JoinParts(Append(lines, line)) =
           Append(JoinParts(lines), JoinPart(Len(lines) + 1, line))
<1>. DEFINE more == Append(lines, line)
            part == JoinPart(Len(lines) + 1, line)
            S == Seq(Characters)
<1>1. /\ more \in Lines /\ Len(more) = Len(lines) + 1 /\ more[Len(lines) + 1] = line
      /\ \A i \in 1 .. Len(lines) : more[i] = lines[i]
  BY AppendProperties DEF Lines
<1>2. /\ JoinParts(more) \in Seq(S) /\ Len(JoinParts(more)) = Len(lines) + 1
      /\ JoinParts(lines) \in Seq(S) /\ Len(JoinParts(lines)) = Len(lines)
  BY <1>1, JoinPartsType
<1>3. part \in S
  BY JoinPartType
<1>4. Len(lines) \in Nat
  BY LenProperties DEF Lines
<1>5. \A i \in 1 .. Len(lines) + 1 : JoinParts(more)[i] = JoinPart(i, more[i])
  BY <1>1 DEF JoinParts
<1>6. \A i \in 1 .. Len(lines) : JoinParts(lines)[i] = JoinPart(i, lines[i])
  BY DEF JoinParts
<1>. DEFINE want == Append(JoinParts(lines), part)
<1>7. /\ want \in Seq(S) /\ Len(want) = Len(lines) + 1
      /\ \A i \in 1 .. Len(lines) : want[i] = JoinParts(lines)[i]
      /\ want[Len(lines) + 1] = part
  BY <1>2, <1>3, AppendProperties
<1>. HIDE DEF want, more, S
<1>8. ASSUME NEW i \in 1 .. Len(lines) + 1 PROVE JoinParts(more)[i] = want[i]
  <2>1. CASE i = Len(lines) + 1
    BY <2>1, <1>1, <1>5, <1>7
  <2>2. CASE i # Len(lines) + 1
    <3>1. i \in 1 .. Len(lines)
      BY <2>2, <1>4
    <3>. QED BY <3>1, <1>1, <1>5, <1>6, <1>7
  <2>. QED BY <2>1, <2>2
<1>9. JoinParts(more) = want
  BY <1>2, <1>7, <1>8, SeqEqual
<1>. QED BY <1>9 DEF more, want

\* One more line follows a line end, unless it is the first.
LEMMA JoinedAppend ==
  ASSUME NEW lines \in Lines, NEW line \in Seq(Plain)
  PROVE  /\ Joined(lines) \in Seq(Characters)
         /\ lines # <<>> => Joined(Append(lines, line)) =
                              Append(Joined(lines), "newline") \o line
         /\ lines = <<>> => Joined(Append(lines, line)) = line
<1>. DEFINE part == JoinPart(Len(lines) + 1, line)
<1>1. /\ JoinParts(lines) \in Seq(Seq(Characters)) /\ Len(JoinParts(lines)) = Len(lines)
      /\ part \in Seq(Characters)
  BY JoinPartsType, JoinPartType
<1>2. Joined(lines) \in Seq(Characters)
  BY <1>1, FlattenAppend, JoinedIs
<1>. HIDE DEF part
<1>3. Joined(Append(lines, line)) = Joined(lines) \o part
  <2>1. Joined(Append(lines, line)) = FlattenSeq(JoinParts(Append(lines, line)))
    BY JoinedIs
  <2>2. JoinParts(Append(lines, line)) = Append(JoinParts(lines), part)
    BY JoinPartsAppend DEF part
  <2>3. FlattenSeq(Append(JoinParts(lines), part)) = FlattenSeq(JoinParts(lines)) \o part
    BY <1>1, FlattenAppend
  <2>. QED BY <2>1, <2>2, <2>3, JoinedIs
<1>4. line \in Seq(Characters)
  BY PlainIs
<1>5. CASE lines = <<>>
  <2>1. Len(lines) = 0
    BY <1>5
  <2>2. part = line
    BY <2>1 DEF part, JoinPart
  <2>3. JoinParts(lines) = <<>>
    BY <1>1, <2>1, EmptySeq
  <2>4. Joined(lines) = <<>>
    BY <2>3, JoinedIs, FlattenEmpty
  <2>5. Joined(Append(lines, line)) = line
    BY <1>3, <1>4, <2>2, <2>4, ConcatEmptySeq
  <2>. QED BY <1>2, <1>5, <2>5
<1>6. CASE lines # <<>>
  <2>1. Len(lines) \in Nat \ {0}
    BY <1>6, EmptySeq DEF Lines
  <2>2. part = <<"newline">> \o line
    BY <2>1 DEF part, JoinPart
  <2>3. "newline" \in Characters /\ <<"newline">> \in Seq(Characters)
    BY DEF Characters
  <2>4. Joined(lines) \o (<<"newline">> \o line) = (Joined(lines) \o <<"newline">>) \o line
    BY <1>2, <1>4, <2>3, ConcatAssociative
  <2>5. Append(Joined(lines), "newline") = Joined(lines) \o <<"newline">>
    BY <1>2, <2>3, AppendIsConcat
  <2>. QED BY <1>2, <1>3, <1>6, <2>2, <2>4, <2>5
<1>. QED BY <1>5, <1>6

\* Characters that start no line go to the last one.
LEMMA SplitConcat ==
  ASSUME NEW t \in Seq(Characters)
  PROVE  \A line \in Seq(Plain) :
           Split(t \o line) =
             [Split(t) EXCEPT ![Len(Split(t))] = Split(t)[Len(Split(t))] \o line]
<1>. DEFINE lines == Split(t)
            n == Len(Split(t))
            T == {line \in Seq(Plain) : Split(t \o line) = [lines EXCEPT ![n] = lines[n] \o line]}
<1>1. lines \in Seq(Seq(Plain)) /\ n \in 1 .. Len(lines)
  <2>1. lines \in Lines /\ lines # <<>>
    BY SplitType
  <2>. QED BY <2>1, EmptySeq DEF Lines
<1>2. lines[n] \in Seq(Plain)
  BY <1>1, ElementOfSeq
<1>. HIDE DEF n, lines
<1>3. <<>> \in T
  <2>1. t \o <<>> = t /\ lines[n] \o <<>> = lines[n] /\ <<>> \in Seq(Plain)
    BY <1>2, ConcatEmptySeq, EmptySeq
  <2>2. lines = [lines EXCEPT ![n] = lines[n]]
    <3>. DEFINE same == [lines EXCEPT ![n] = lines[n]]
    <3>1. /\ same \in Seq(Seq(Plain)) /\ Len(same) = Len(lines)
          /\ \A i \in 1 .. Len(lines) : same[i] = lines[i]
      BY <1>1, <1>2, ExceptSeq
    <3>. HIDE DEF same
    <3>2. lines = same
      BY <1>1, <3>1, SeqEqual
    <3>. QED BY <3>2 DEF same
  <2>. QED BY <2>1, <2>2 DEF lines
<1>4. ASSUME NEW line \in Seq(Plain), NEW ch \in Plain, line \in T
      PROVE  Append(line, ch) \in T
  <2>. DEFINE new == lines[n] \o line
  <2>1. ch \in Characters /\ ch # "newline" /\ line \in Seq(Characters)
    BY PlainIs DEF Plain
  <2>2. Append(line, ch) = line \o <<ch>> /\ Append(line, ch) \in Seq(Plain)
    BY AppendIsConcat, AppendProperties
  <2>3. new \in Seq(Plain)
    BY <1>2, ConcatProperties
  <2>4. t \o Append(line, ch) = Append(t \o line, ch) /\ t \o line \in Seq(Characters)
    BY <2>1, ConcatAppend
  <2>5. lines[n] \o Append(line, ch) = Append(new, ch)
    <3>1. ASSUME NEW last, last = lines[n]
          PROVE  last \o Append(line, ch) = Append(last \o line, ch)
      <4>1. last \in Seq(Plain) /\ line \in Seq(Plain) /\ ch \in Plain
        BY <3>1, <1>2
      <4>. QED BY <4>1, ConcatAppend
    <3>. QED BY <3>1
  <2>6. Split(Append(t \o line, ch)) = SplitStep(Split(t \o line), ch)
    BY <2>1, <2>4, SplitAppend
  <2>7. Split(t \o line) = [lines EXCEPT ![n] = new]
    BY <1>4
  <2>. HIDE DEF new
  <2>8. Len([lines EXCEPT ![n] = new]) = n /\ [lines EXCEPT ![n] = new][n] = new
    BY <1>1, <2>3, ExceptSeq DEF n, lines
  <2>9. SplitStep([lines EXCEPT ![n] = new], ch) =
          [[lines EXCEPT ![n] = new] EXCEPT ![n] = Append(new, ch)]
    BY <2>1, <2>8 DEF SplitStep
  <2>10. [[lines EXCEPT ![n] = new] EXCEPT ![n] = Append(new, ch)] =
           [lines EXCEPT ![n] = Append(new, ch)]
    <3>1. lines \in [1 .. Len(lines) -> Seq(Plain)]
      BY <1>1, LenProperties
    <3>. QED BY <3>1
  <2>11. Split(t \o Append(line, ch)) = [lines EXCEPT ![n] = lines[n] \o Append(line, ch)]
    BY <2>4, <2>5, <2>6, <2>7, <2>9, <2>10
  <2>. QED BY <2>2, <2>11
<1>. HIDE DEF T
<1>5. \A line \in Seq(Plain) : line \in T
  BY <1>3, <1>4, AppendInduction
<1>. QED BY <1>5 DEF T, n, lines

\* What was joined, splits again.
LEMMA SplitJoined == \A lines \in NonEmpty : Split(Joined(lines)) = lines
<1>. DEFINE T == {lines \in Lines : lines # <<>> => Split(Joined(lines)) = lines}
<1>1. <<>> \in T
  BY EmptySeq DEF Lines
<1>2. ASSUME NEW lines \in Lines, NEW line \in Seq(Plain), lines \in T
      PROVE  Append(lines, line) \in T
  <2>. DEFINE more == Append(lines, line)
              n == Len(lines) + 1
  <2>1. more \in Lines /\ Len(more) = n /\ n \in Nat
    BY AppendProperties, LenProperties DEF Lines
  <2>2. Joined(lines) \in Seq(Characters) /\ line \in Seq(Characters)
    BY JoinedAppend, PlainIs
  <2>3. CASE lines = <<>>
    <3>1. Joined(more) = line
      BY <2>3, JoinedAppend
    <3>2. <<>> \o line = line /\ <<>> \in Seq(Characters)
      BY <2>2, ConcatEmptySeq, EmptySeq
    <3>3. Split(<<>> \o line) = [Split(<<>>) EXCEPT ![Len(Split(<<>>))] = Split(<<>>)[Len(Split(<<>>))] \o line]
      BY <3>2, SplitConcat
    <3>4. Split(<<>>) = <<<<>>>> /\ Len(<<<<>>>>) = 1 /\ <<<<>>>>[1] = <<>>
      BY SplitEmpty
    <3>5. Split(line) = [<<<<>>>> EXCEPT ![1] = line]
      BY <3>2, <3>3, <3>4
    <3>6. [<<<<>>>> EXCEPT ![1] = line] = <<line>>
      OBVIOUS
    <3>7. more = <<line>>
      BY <2>3
    <3>. QED BY <2>1, <3>1, <3>5, <3>6, <3>7
  <2>4. CASE lines # <<>>
    <3>. DEFINE t == Append(Joined(lines), "newline")
    <3>1. "newline" \in Characters
      BY DEF Characters
    <3>2. Joined(more) = t \o line /\ t \in Seq(Characters)
      BY <2>2, <2>4, <3>1, JoinedAppend, AppendProperties
    <3>3. Split(t) = Append(lines, <<>>)
      <4>1. Split(t) = SplitStep(Split(Joined(lines)), "newline")
        BY <2>2, <3>1, SplitAppend
      <4>2. Split(Joined(lines)) = lines
        BY <1>2, <2>4
      <4>. QED BY <4>1, <4>2 DEF SplitStep
    <3>. HIDE DEF t
    <3>4. Split(t \o line) = [Split(t) EXCEPT ![Len(Split(t))] = Split(t)[Len(Split(t))] \o line]
      BY <3>2, SplitConcat
    <3>. DEFINE blank == Append(lines, <<>>)
    <3>5. /\ blank \in Seq(Seq(Plain)) /\ Len(blank) = n /\ blank[n] = <<>>
          /\ \A i \in 1 .. n - 1 : blank[i] = lines[i]
      <4>1. <<>> \in Seq(Plain)
        BY EmptySeq
      <4>2. Len(lines) \in Nat
        BY LenProperties DEF Lines
      <4>. QED BY <4>1, <4>2, AppendProperties DEF Lines
    <3>6. /\ more \in Seq(Seq(Plain)) /\ Len(more) = n /\ more[n] = line
          /\ \A i \in 1 .. n - 1 : more[i] = lines[i]
      <4>2. Len(lines) \in Nat
        BY LenProperties DEF Lines
      <4>. QED BY <4>2, AppendProperties DEF Lines
    <3>7. <<>> \o line = line
      BY ConcatEmptySeq
    <3>8. n \in 1 .. n
      <4>1. Len(lines) \in Nat
        BY LenProperties DEF Lines
      <4>. QED BY <4>1
    <3>. DEFINE filled == [blank EXCEPT ![n] = line]
    <3>9. Split(Joined(more)) = filled
      BY <3>2, <3>3, <3>4, <3>5, <3>7
    <3>. HIDE DEF blank, more, n
    <3>10. /\ filled \in Seq(Seq(Plain)) /\ Len(filled) = n
           /\ \A i \in 1 .. n : filled[i] = IF i = n THEN line ELSE blank[i]
      BY <3>5, <3>8, ExceptSeq
    <3>. HIDE DEF filled
    <3>11. \A i \in 1 .. n : filled[i] = more[i]
      <4>1. ASSUME NEW i \in 1 .. n PROVE filled[i] = more[i]
        <5>1. i = n \/ i \in 1 .. n - 1
          BY <2>1
        <5>. QED BY <5>1, <2>1, <3>5, <3>6, <3>10
      <4>. QED BY <4>1
    <3>12. filled = more
      BY <3>6, <3>10, <3>11, SeqEqual
    <3>13. more \in T
      BY <2>1, <3>9, <3>12
    <3>. QED BY <3>13 DEF more
  <2>. QED BY <2>3, <2>4
<1>. HIDE DEF T
<1>3. \A lines \in Lines : lines \in T
  BY <1>1, <1>2, AppendInduction DEF Lines
<1>. QED BY <1>3 DEF T, NonEmpty

-----------------------------------------------------------------------------
(* Chopping a line. *)

Room == MaxChars \in Nat \ {0} /\ MaxLines \in Nat \ {0}

\* The display has a line and a column.
LEMMA HasRoom == Room
BY LayoutAssumption DEF Room

Pieces(line) == (Len(line) + MaxChars - 1) \div MaxChars
Piece(line, k) == SubSeq(line, (k - 1) * MaxChars + 1, Min({k * MaxChars, Len(line)}))

\* The pieces of a line that is not empty.
LEMMA ChoppedIs ==
  ASSUME NEW line, line # <<>>
  PROVE  Chopped(line) = [k \in 1 .. Pieces(line) |-> Piece(line, k)]
BY DEF Chopped, Pieces, Piece

\* The smaller of two numbers.
LEMMA MinIs ==
  ASSUME NEW a \in Int, NEW b \in Int
  PROVE  Min({a, b}) = IF a <= b THEN a ELSE b
<1>1. \A x : (x \in {a, b} /\ \A y \in {a, b} : x <= y) <=> x = (IF a <= b THEN a ELSE b)
  OBVIOUS
<1>. QED BY <1>1 DEF Min

\* One more divisor is one more in the quotient.
LEMMA OneMore ==
  ASSUME NEW M \in Nat \ {0}, NEW a \in Nat
  PROVE  (a + M) \div M = (a \div M) + 1
OBVIOUS

\* How many pieces a line has, and what the first takes away.
LEMMA Counts ==
  ASSUME NEW M \in Nat \ {0}, NEW n \in Nat \ {0}
  PROVE  /\ (n + M - 1) \div M \in Nat \ {0}
         /\ n <= M => (n + M - 1) \div M = 1
         /\ n > M => (n + M - 1) \div M = 1 + (n - M + M - 1) \div M
<1>1. (n + M - 1) \div M = ((n - 1) \div M) + 1 /\ (n - 1) \div M \in Nat
  <2>1. n - 1 \in Nat
    OBVIOUS
  <2>2. ASSUME NEW a \in Nat PROVE (a + M) \div M = (a \div M) + 1 /\ a \div M \in Nat
    <3>1. a \div M \in Nat
      OBVIOUS
    <3>2. (a + M) \div M = (a \div M) + 1
      BY OneMore
    <3>. QED BY <3>1, <3>2
  <2>3. n + M - 1 = (n - 1) + M
    OBVIOUS
  <2>. QED BY <2>1, <2>2, <2>3
<1>2. n <= M => (n - 1) \div M = 0
  OBVIOUS
<1>3. n - M + M - 1 = n - 1
  OBVIOUS
<1>. QED BY <1>1, <1>2, <1>3

\* A piece is of the characters of its line.
LEMMA PieceType ==
  ASSUME NEW S, NEW line \in Seq(S), NEW k \in Nat \ {0}
  PROVE  Piece(line, k) \in Seq(S)
<1>. DEFINE m == (k - 1) * MaxChars
            n == k * MaxChars
            L == Len(line)
<1>0. m \in Nat /\ n \in Nat /\ L \in Nat /\ line \in [1 .. L -> S]
  <2>1. k - 1 \in Nat /\ MaxChars \in Nat
    BY HasRoom DEF Room
  <2>2. \A i, j \in Nat : i * j \in Nat
    OBVIOUS
  <2>. QED BY <2>1, <2>2, LenProperties
<1>. HIDE DEF m, n, L
<1>1. Min({n, L}) \in Int /\ Min({n, L}) <= L
  BY <1>0, MinIs
<1>. DEFINE b == Min({n, L})
            a == m + 1
<1>2. b \in Int /\ a \in Nat \ {0} /\ b <= Len(line)
  BY <1>0, <1>1 DEF L
<1>. HIDE DEF a, b
<1>3. SubSeq(line, a, b) \in Seq(S)
  BY <1>2, SubSeqType
<1>. QED BY <1>3 DEF Piece, m, n, L, a, b

\* A piece of what follows the first M elements.
LEMMA SubSeqOfTail ==
  ASSUME NEW S, NEW s \in Seq(S), NEW M \in Nat, M <= Len(s),
         NEW a \in Nat \ {0}, NEW b \in Int, b <= Len(s) - M
  PROVE  SubSeq(SubSeq(s, M + 1, Len(s)), a, b) = SubSeq(s, a + M, b + M)
<1>. DEFINE tail == SubSeq(s, M + 1, Len(s))
            lhs == SubSeq(tail, a, b)
            rhs == SubSeq(s, a + M, b + M)
            n == IF a <= b THEN b - a + 1 ELSE 0
<1>0. Len(s) \in Nat
  BY LenProperties
<1>1. /\ tail \in Seq(S) /\ Len(tail) = Len(s) - M
      /\ \A i \in 1 .. Len(s) - M : tail[i] = s[M + i]
  <2>. DEFINE first == M + 1
  <2>1. first \in Nat \ {0} /\ Len(s) \in Int /\ Len(s) <= Len(s)
    BY <1>0
  <2>2. (IF first <= Len(s) THEN Len(s) - first + 1 ELSE 0) = Len(s) - M
    BY <1>0
  <2>3. \A i \in 1 .. Len(s) - M : i \in 1 .. Len(s) - first + 1 /\ first + i - 1 = M + i
    BY <1>0
  <2>. HIDE DEF first
  <2>4. /\ SubSeq(s, first, Len(s)) \in Seq(S)
        /\ Len(SubSeq(s, first, Len(s))) = IF first <= Len(s) THEN Len(s) - first + 1 ELSE 0
        /\ \A i \in 1 .. Len(s) - first + 1 : SubSeq(s, first, Len(s))[i] = s[first + i - 1]
    BY <2>1, SubSeqType
  <2>5. \A i \in 1 .. Len(s) - M : SubSeq(s, first, Len(s))[i] = s[M + i]
    BY <2>3, <2>4
  <2>. QED BY <2>2, <2>4, <2>5 DEF first
<1>. HIDE DEF tail
<1>2. /\ lhs \in Seq(S) /\ Len(lhs) = n
      /\ \A i \in 1 .. b - a + 1 : lhs[i] = tail[a + i - 1]
  BY <1>0, <1>1, SubSeqType
<1>3. /\ rhs \in Seq(S) /\ Len(rhs) = n
      /\ \A i \in 1 .. b - a + 1 : rhs[i] = s[M + (a + i - 1)]
  <2>. DEFINE a2 == a + M
              b2 == b + M
  <2>1. a2 \in Nat \ {0} /\ b2 \in Int /\ b2 <= Len(s)
    BY <1>0
  <2>2. n = (IF a2 <= b2 THEN b2 - a2 + 1 ELSE 0) /\ b2 - a2 + 1 = b - a + 1
    OBVIOUS
  <2>3. \A i \in 1 .. b - a + 1 : a2 + i - 1 = M + (a + i - 1)
    OBVIOUS
  <2>. HIDE DEF a2, b2, n
  <2>4. /\ SubSeq(s, a2, b2) \in Seq(S)
        /\ Len(SubSeq(s, a2, b2)) = IF a2 <= b2 THEN b2 - a2 + 1 ELSE 0
        /\ \A i \in 1 .. b2 - a2 + 1 : SubSeq(s, a2, b2)[i] = s[a2 + i - 1]
    BY <2>1, SubSeqType
  <2>5. SubSeq(s, a2, b2) \in Seq(S) /\ Len(SubSeq(s, a2, b2)) = n
    BY <2>2, <2>4
  <2>6. \A i \in 1 .. b - a + 1 : SubSeq(s, a2, b2)[i] = s[M + (a + i - 1)]
    BY <2>2, <2>3, <2>4
  <2>. QED BY <2>5, <2>6 DEF a2, b2
<1>. HIDE DEF lhs, rhs
<1>4. ASSUME NEW i \in 1 .. n PROVE lhs[i] = rhs[i]
  <2>1. i \in 1 .. b - a + 1 /\ a + i - 1 \in 1 .. Len(s) - M
    BY <1>0
  <2>2. tail[a + i - 1] = s[M + (a + i - 1)]
    BY <2>1, <1>1
  <2>. QED BY <2>1, <2>2, <1>2, <1>3
<1>. HIDE DEF n
<1>5. lhs = rhs
  BY <1>2, <1>3, <1>4, SeqEqual
<1>. QED BY <1>5 DEF lhs, rhs, tail

\* The pieces of a line are lines.
LEMMA PiecesAre ==
  ASSUME NEW line \in Seq(Plain), line # <<>>
  PROVE  /\ Chopped(line) \in Lines
         /\ Len(Chopped(line)) = Pieces(line) /\ Pieces(line) \in Nat \ {0}
         /\ \A k \in 1 .. Pieces(line) : Chopped(line)[k] = Piece(line, k)
<1>. DEFINE C == Pieces(line)
<1>1. Len(line) \in Nat \ {0}
  BY EmptySeq
<1>2. C \in Nat \ {0}
  BY <1>1, HasRoom, Counts DEF Pieces, Room
<1>. HIDE DEF C
<1>3. Chopped(line) = [k \in 1 .. C |-> Piece(line, k)]
  BY ChoppedIs DEF C
<1>4. \A k \in 1 .. C : Piece(line, k) \in Seq(Plain)
  BY PieceType
<1>5. Chopped(line) \in [1 .. C -> Seq(Plain)]
  BY <1>3, <1>4
<1>6. Chopped(line) \in Lines /\ Len(Chopped(line)) = C
  BY <1>2, <1>5 DEF Lines
<1>7. \A k \in 1 .. C : Chopped(line)[k] = Piece(line, k)
  BY <1>3
<1>. QED BY <1>2, <1>6, <1>7 DEF C

\* A line is chopped into one piece at least.
LEMMA ChoppedType ==
  ASSUME NEW line \in Seq(Plain)
  PROVE  Chopped(line) \in NonEmpty /\ Len(Chopped(line)) \in Nat \ {0}
<1>1. CASE line = <<>>
  <2>1. Chopped(line) = <<<<>>>>
    BY <1>1 DEF Chopped
  <2>. QED BY <2>1, OneBlank
<1>2. CASE line # <<>>
  <2>1. Chopped(line) \in Lines /\ Len(Chopped(line)) \in Nat \ {0}
    BY <1>2, PiecesAre
  <2>. QED BY <2>1, EmptySeq DEF NonEmpty
<1>. QED BY <1>1, <1>2

\* The first piece of a line.
LEMMA FirstPiece ==
  ASSUME NEW line \in Seq(Plain)
  PROVE  Piece(line, 1) = IF Len(line) <= MaxChars THEN line ELSE SubSeq(line, 1, MaxChars)
<1>1. MaxChars \in Nat /\ Len(line) \in Nat
  BY HasRoom, LenProperties DEF Room
<1>2. (1 - 1) * MaxChars + 1 = 1 /\ 1 * MaxChars = MaxChars
  BY <1>1
<1>3. Min({MaxChars, Len(line)}) = IF MaxChars <= Len(line) THEN MaxChars ELSE Len(line)
  BY <1>1, MinIs
<1>4. Piece(line, 1) = SubSeq(line, 1, Min({MaxChars, Len(line)}))
  BY <1>2 DEF Piece
<1>5. SubSeq(line, 1, Len(line)) = line
  BY SubSeqFull
<1>6. CASE Len(line) <= MaxChars
  <2>1. Min({MaxChars, Len(line)}) = Len(line)
    BY <1>1, <1>3, <1>6
  <2>. QED BY <2>1, <1>4, <1>5, <1>6
<1>7. CASE ~(Len(line) <= MaxChars)
  <2>1. Min({MaxChars, Len(line)}) = MaxChars
    BY <1>1, <1>3, <1>7
  <2>. QED BY <2>1, <1>4, <1>7
<1>. QED BY <1>6, <1>7

\* A line that fits is one piece.
LEMMA ChoppedShort ==
  ASSUME NEW line \in Seq(Plain), line # <<>>, Len(line) <= MaxChars
  PROVE  Chopped(line) = <<line>>
<1>1. Len(line) \in Nat \ {0}
  BY EmptySeq
<1>2. Pieces(line) = 1
  BY <1>1, HasRoom, Counts DEF Pieces, Room
<1>3. Chopped(line) = [k \in 1 .. 1 |-> Piece(line, k)]
  BY <1>2, ChoppedIs
<1>4. Piece(line, 1) = line
  BY FirstPiece
<1>5. [k \in 1 .. 1 |-> Piece(line, k)] = <<Piece(line, 1)>>
  OBVIOUS
<1>. QED BY <1>3, <1>4, <1>5

\* A product, one factor less.
LEMMA Times ==
  ASSUME NEW M \in Nat, NEW j \in Int
  PROVE  (j + 1) * M = j * M + M /\ j * M \in Int
OBVIOUS

\* A product of naturals is one.
LEMMA TimesNat ==
  ASSUME NEW M \in Nat, NEW j \in Nat
  PROVE  j * M \in Nat
OBVIOUS

\* A piece by the products in it.
LEMMA PieceWith ==
  ASSUME NEW line, NEW k, NEW m, NEW n, (k - 1) * MaxChars = m, k * MaxChars = n
  PROVE  Piece(line, k) = SubSeq(line, m + 1, Min({n, Len(line)}))
BY Zenon DEF Piece

\* Each further piece is a piece of what the first leaves.
LEMMA NextPiece ==
  ASSUME NEW line \in Seq(Plain), Len(line) > MaxChars, NEW k \in Nat \ {0}
  PROVE  Piece(line, k + 1) = Piece(SubSeq(line, MaxChars + 1, Len(line)), k)
<1>. DEFINE M == MaxChars
            L == Len(line)
            m == (k - 1) * M
            n == k * M
            tail == SubSeq(line, M + 1, L)
            b == Min({n, L - M})
<1>1. M \in Nat \ {0} /\ L \in Nat /\ L > M
  BY HasRoom, LenProperties DEF Room
<1>. HIDE DEF M
<1>2. m \in Nat /\ n \in Nat /\ n = m + M /\ (k + 1) * M = n + M /\ (k + 1 - 1) * M = n
  <2>1. k - 1 \in Nat /\ k - 1 + 1 = k /\ k + 1 - 1 = k
    OBVIOUS
  <2>2. (k - 1) * M \in Nat /\ k * M \in Nat
    BY <2>1, <1>1, TimesNat
  <2>3. (k - 1 + 1) * M = (k - 1) * M + M
    BY <2>1, <1>1, Times
  <2>4. (k + 1) * M = k * M + M
    BY <1>1, Times
  <2>. QED BY <2>1, <2>2, <2>3, <2>4
<1>3. Len(tail) = L - M
  <2>. DEFINE first == M + 1
  <2>1. first \in Nat \ {0} /\ L \in Int /\ L <= L
        /\ (IF first <= L THEN L - first + 1 ELSE 0) = L - M
    BY <1>1
  <2>2. tail = SubSeq(line, first, L)
    OBVIOUS
  <2>. HIDE DEF first, tail
  <2>3. Len(SubSeq(line, first, L)) = IF first <= L THEN L - first + 1 ELSE 0
    BY <2>1, SubSeqType
  <2>. QED BY <2>1, <2>2, <2>3
<1>4. Piece(line, k + 1) = SubSeq(line, n + 1, Min({n + M, L}))
  <2>1. (k + 1 - 1) * M = n /\ (k + 1) * M = n + M
    BY <1>2
  <2>. DEFINE nm == n + M
              kk == k + 1
  <2>2. (kk - 1) * MaxChars = n /\ kk * MaxChars = nm
    BY <2>1 DEF M
  <2>. HIDE DEF nm, n, kk
  <2>3. Piece(line, kk) = SubSeq(line, n + 1, Min({nm, L}))
    BY <2>2, PieceWith
  <2>. QED BY <2>3 DEF nm, kk
<1>5. Piece(tail, k) = SubSeq(tail, m + 1, b)
  BY <1>3 DEF Piece, M
<1>6. b \in Int /\ b <= L - M /\ Min({n + M, L}) = b + M
  <2>. HIDE DEF n, L
  <2>1. b = IF n <= L - M THEN n ELSE L - M
    BY <1>1, <1>2, MinIs
  <2>2. Min({n + M, L}) = IF n + M <= L THEN n + M ELSE L
    BY <1>1, <1>2, MinIs
  <2>. QED BY <2>1, <2>2, <1>1, <1>2
<1>. HIDE DEF m, n, b
<1>7. SubSeq(tail, m + 1, b) = SubSeq(line, (m + 1) + M, b + M)
  <2>. DEFINE a == m + 1
  <2>1. a \in Nat \ {0}
    BY <1>2
  <2>. HIDE DEF a
  <2>2. SubSeq(SubSeq(line, M + 1, Len(line)), a, b) = SubSeq(line, a + M, b + M)
    BY <2>1, <1>1, <1>6, SubSeqOfTail
  <2>. QED BY <2>2 DEF a
<1>8. (m + 1) + M = n + 1
  BY <1>1, <1>2
<1>. QED BY <1>4, <1>5, <1>6, <1>7, <1>8 DEF tail, M

\* What is left of a line after its first piece.
Rest(line) == SubSeq(line, MaxChars + 1, Len(line))
FirstOf(line) == SubSeq(line, 1, MaxChars)

\* What the first piece leaves is a shorter line.
LEMMA RestType ==
  ASSUME NEW line \in Seq(Plain), Len(line) > MaxChars
  PROVE  /\ Rest(line) \in Seq(Plain) /\ Rest(line) # <<>>
         /\ Len(Rest(line)) = Len(line) - MaxChars /\ Len(Rest(line)) < Len(line)
         /\ FirstOf(line) \in Seq(Plain) /\ Len(FirstOf(line)) = MaxChars
<1>1. MaxChars \in Nat \ {0} /\ Len(line) \in Nat
  BY HasRoom, LenProperties DEF Room
<1>. DEFINE first == MaxChars + 1
            L == Len(line)
<1>2. /\ first \in Nat \ {0} /\ L \in Int /\ L <= Len(line)
      /\ (IF first <= L THEN L - first + 1 ELSE 0) = L - MaxChars
  BY <1>1
<1>. HIDE DEF first, L
<1>3. SubSeq(line, first, L) \in Seq(Plain) /\ Len(SubSeq(line, first, L)) = L - MaxChars
  BY <1>2, SubSeqType
<1>4. SubSeq(line, 1, MaxChars) \in Seq(Plain) /\ Len(SubSeq(line, 1, MaxChars)) = MaxChars
  <2>. DEFINE M == MaxChars
              o == 1
  <2>1. M \in Int /\ M <= Len(line) /\ o \in Nat \ {0} /\ (IF o <= M THEN M - o + 1 ELSE 0) = M
    BY <1>1
  <2>. HIDE DEF M, o
  <2>2. SubSeq(line, o, M) \in Seq(Plain) /\ Len(SubSeq(line, o, M)) = M
    BY <2>1, SubSeqType
  <2>. QED BY <2>2 DEF M, o
<1>5. Rest(line) \in Seq(Plain) /\ Len(Rest(line)) = Len(line) - MaxChars
  BY <1>3 DEF Rest, first, L
<1>6. Rest(line) # <<>>
  <2>1. Len(line) - MaxChars # 0 /\ Len(<<>>) = 0
    BY <1>1, EmptySeq
  <2>. QED BY <2>1, <1>5
<1>7. Len(line) - MaxChars < Len(line)
  BY <1>1
<1>. QED BY <1>4, <1>5, <1>6, <1>7 DEF FirstOf

\* A long line is its first piece and the pieces of the rest.
LEMMA ChoppedLong ==
  ASSUME NEW line \in Seq(Plain), Len(line) > MaxChars
  PROVE  Chopped(line) = <<FirstOf(line)>> \o Chopped(Rest(line))
<1>. DEFINE tail == Rest(line)
            C == Pieces(line)
            D == Pieces(tail)
            want == <<FirstOf(line)>> \o Chopped(tail)
            S == Seq(Plain)
<1>1. MaxChars \in Nat \ {0} /\ Len(line) \in Nat \ {0} /\ line # <<>>
  <2>1. MaxChars \in Nat \ {0} /\ Len(line) \in Nat
    BY HasRoom, LenProperties DEF Room
  <2>. QED BY <2>1, EmptySeq
<1>2. tail \in Seq(Plain) /\ tail # <<>> /\ Len(tail) = Len(line) - MaxChars /\ FirstOf(line) \in S
  BY RestType
<1>3. C = 1 + D
  <2>1. Len(line) > MaxChars => (Len(line) + MaxChars - 1) \div MaxChars
                                 = 1 + (Len(line) - MaxChars + MaxChars - 1) \div MaxChars
    BY <1>1, Counts
  <2>. QED BY <2>1, <1>2 DEF Pieces
<1>4. /\ Chopped(line) \in Seq(S) /\ Len(Chopped(line)) = C
      /\ \A k \in 1 .. C : Chopped(line)[k] = Piece(line, k)
  BY <1>1, PiecesAre DEF Lines
<1>5. /\ Chopped(tail) \in Seq(S) /\ Len(Chopped(tail)) = D /\ D \in Nat \ {0}
      /\ \A k \in 1 .. D : Chopped(tail)[k] = Piece(tail, k)
  <2>. HIDE DEF tail
  <2>. QED BY <1>2, PiecesAre DEF Lines
<1>. HIDE DEF C, D, S
<1>6. /\ want \in Seq(S) /\ Len(want) = C
      /\ want[1] = FirstOf(line) /\ \A k \in 1 .. D : want[k + 1] = Chopped(tail)[k]
  <2>. DEFINE one == FirstOf(line)
  <2>. HIDE DEF one, tail
  <2>1. one \in S
    BY <1>2 DEF one
  <2>2. /\ <<one>> \o Chopped(tail) \in Seq(S)
        /\ Len(<<one>> \o Chopped(tail)) = Len(Chopped(tail)) + 1
        /\ (<<one>> \o Chopped(tail))[1] = one
        /\ \A k \in 1 .. Len(Chopped(tail)) : (<<one>> \o Chopped(tail))[k + 1] = Chopped(tail)[k]
    BY <2>1, <1>5, ConsProperties
  <2>3. D + 1 = C
    BY <1>3, <1>5
  <2>. QED BY <2>2, <2>3, <1>5 DEF one
<1>7. ~(Len(line) <= MaxChars)
  BY <1>1
<1>8. Piece(line, 1) = FirstOf(line)
  BY <1>7, FirstPiece DEF FirstOf
<1>. HIDE DEF want
<1>9. ASSUME NEW i \in 1 .. C PROVE Chopped(line)[i] = want[i]
  <2>1. CASE i = 1
    BY <2>1, <1>4, <1>6, <1>8
  <2>2. CASE i # 1
    <3>1. PICK k \in 1 .. D : i = k + 1
      <4>1. i - 1 \in 1 .. D /\ i = (i - 1) + 1
        BY <2>2, <1>3, <1>5
      <4>. QED BY <4>1
    <3>2. k \in Nat \ {0}
      OBVIOUS
    <3>3. Piece(line, k + 1) = Piece(tail, k)
      BY <3>2, NextPiece DEF Rest
    <3>. HIDE DEF tail
    <3>. QED BY <3>1, <3>3, <1>4, <1>5, <1>6
  <2>. QED BY <2>1, <2>2
<1>10. Chopped(line) = want
  BY <1>4, <1>6, <1>9, SeqEqual
<1>. QED BY <1>10 DEF want, tail

-----------------------------------------------------------------------------
(* Where a text is cut. *)

Ending(line) ==
  IF EndsWith(line, "ellipsis") THEN line
  ELSE Append(SubSeq(line, 1, Min({Len(line), MaxChars - 1})), "ellipsis")
Cut(lines) == Append(SubSeq(lines, 1, MaxLines - 1), Ending(lines[MaxLines]))
Ellipsed(line) == Append(SubSeq(line, 1, MaxChars - 1), "ellipsis")

\* A first part of a first part.
LEMMA Prefix ==
  ASSUME NEW S, NEW s \in Seq(S), NEW m \in Nat, m <= Len(s)
  PROVE  /\ SubSeq(s, 1, m) \in Seq(S) /\ Len(SubSeq(s, 1, m)) = m
         /\ \A i \in 1 .. m : SubSeq(s, 1, m)[i] = s[i]
<1>. DEFINE o == 1
<1>1. o \in Nat \ {0} /\ m \in Int /\ (IF o <= m THEN m - o + 1 ELSE 0) = m /\ m - o + 1 = m
      /\ \A i \in 1 .. m : o + i - 1 = i
  OBVIOUS
<1>. HIDE DEF o
<1>2. /\ SubSeq(s, o, m) \in Seq(S)
      /\ Len(SubSeq(s, o, m)) = IF o <= m THEN m - o + 1 ELSE 0
      /\ \A i \in 1 .. m - o + 1 : SubSeq(s, o, m)[i] = s[o + i - 1]
  BY <1>1, SubSeqType
<1>3. \A i \in 1 .. m : SubSeq(s, o, m)[i] = s[i]
  BY <1>1, <1>2
<1>. QED BY <1>1, <1>2, <1>3 DEF o

\* A first part of a first part is one of the whole.
LEMMA PrefixOfPrefix ==
  ASSUME NEW S, NEW s \in Seq(S), NEW m \in Nat, NEW n \in Nat, m <= n, n <= Len(s)
  PROVE  SubSeq(SubSeq(s, 1, n), 1, m) = SubSeq(s, 1, m)
<1>. DEFINE t == SubSeq(s, 1, n)
            a == SubSeq(t, 1, m)
            b == SubSeq(s, 1, m)
<1>0. Len(s) \in Nat
  BY LenProperties
<1>1. t \in Seq(S) /\ Len(t) = n /\ \A i \in 1 .. n : t[i] = s[i]
  BY Prefix
<1>. HIDE DEF t
<1>2. a \in Seq(S) /\ Len(a) = m /\ \A i \in 1 .. m : a[i] = t[i]
  BY <1>1, Prefix
<1>3. b \in Seq(S) /\ Len(b) = m /\ \A i \in 1 .. m : b[i] = s[i]
  <2>1. m <= Len(s)
    BY <1>0
  <2>. QED BY <2>1, Prefix
<1>. HIDE DEF a, b
<1>4. \A i \in 1 .. m : a[i] = b[i]
  BY <1>1, <1>2, <1>3
<1>5. a = b
  BY <1>2, <1>3, <1>4, SeqEqual
<1>. QED BY <1>5 DEF a, b, t

\* A first part is not changed by what follows it.
LEMMA PrefixOfConcat ==
  ASSUME NEW S, NEW s \in Seq(S), NEW t \in Seq(S), NEW m \in Nat, m <= Len(s)
  PROVE  SubSeq(s \o t, 1, m) = SubSeq(s, 1, m)
<1>. DEFINE u == s \o t
            a == SubSeq(u, 1, m)
            b == SubSeq(s, 1, m)
<1>0. Len(s) \in Nat /\ Len(t) \in Nat
  BY LenProperties
<1>1. u \in Seq(S) /\ Len(u) = Len(s) + Len(t) /\ \A i \in 1 .. Len(s) : u[i] = s[i]
  <2>1. /\ u \in Seq(S) /\ Len(u) = Len(s) + Len(t)
        /\ \A i \in 1 .. Len(s) + Len(t) : u[i] = IF i <= Len(s) THEN s[i] ELSE t[i - Len(s)]
    BY ConcatProperties
  <2>. HIDE DEF u
  <2>. QED BY <2>1, <1>0
<1>. HIDE DEF u
<1>2. a \in Seq(S) /\ Len(a) = m /\ \A i \in 1 .. m : a[i] = u[i]
  <2>1. m <= Len(u)
    BY <1>0, <1>1
  <2>. QED BY <2>1, <1>1, Prefix
<1>3. b \in Seq(S) /\ Len(b) = m /\ \A i \in 1 .. m : b[i] = s[i]
  BY Prefix
<1>. HIDE DEF a, b
<1>4. \A i \in 1 .. m : a[i] = b[i]
  BY <1>0, <1>1, <1>2, <1>3
<1>5. a = b
  BY <1>2, <1>3, <1>4, SeqEqual
<1>. QED BY <1>5 DEF a, b, u

\* What follows the line that is cut, does not matter.
LEMMA CutOfMore ==
  ASSUME NEW all \in Lines, NEW more \in Lines, Len(all) >= MaxLines
  PROVE  Cut(all \o more) = Cut(all)
<1>1. MaxLines \in Nat \ {0} /\ Len(all) \in Nat /\ Len(more) \in Nat
  BY HasRoom, LenProperties DEF Room, Lines
<1>. DEFINE m == MaxLines - 1
<1>2. m \in Nat /\ m <= Len(all)
  BY <1>1
<1>. HIDE DEF m
<1>3. SubSeq(all \o more, 1, m) = SubSeq(all, 1, m)
  BY <1>2, PrefixOfConcat DEF Lines
<1>4. (all \o more)[MaxLines] = all[MaxLines]
  <2>1. \A i \in 1 .. Len(all) + Len(more) :
          (all \o more)[i] = IF i <= Len(all) THEN all[i] ELSE more[i - Len(all)]
    BY ConcatProperties DEF Lines
  <2>2. MaxLines \in 1 .. Len(all) + Len(more) /\ MaxLines <= Len(all)
    BY <1>1
  <2>. QED BY <2>1, <2>2
<1>. QED BY <1>3, <1>4 DEF Cut, m

\* A text cut at its last line ends with the ending of that line.
LEMMA CutOfAppend ==
  ASSUME NEW all \in Lines, NEW line \in Seq(Plain), Len(all) = MaxLines - 1
  PROVE  Cut(Append(all, line)) = Append(all, Ending(line))
<1>1. MaxLines \in Nat \ {0}
  BY HasRoom DEF Room
<1>2. Append(all, line)[MaxLines] = line
  <2>1. Append(all, line)[Len(all) + 1] = line
    BY AppendProperties DEF Lines
  <2>2. Len(all) + 1 = MaxLines
    BY <1>1
  <2>. QED BY <2>1, <2>2
<1>3. SubSeq(Append(all, line), 1, MaxLines - 1) = all
  <2>. DEFINE m == MaxLines - 1
              one == <<line>>
  <2>1. Append(all, line) = all \o one /\ one \in Seq(Seq(Plain))
    BY AppendIsConcat DEF Lines
  <2>2. m \in Nat /\ m <= Len(all)
    BY <1>1
  <2>3. m = Len(all)
    OBVIOUS
  <2>. HIDE DEF m, one
  <2>4. SubSeq(all \o one, 1, m) = SubSeq(all, 1, m)
    BY <2>1, <2>2, PrefixOfConcat DEF Lines
  <2>5. SubSeq(all, 1, m) = all
    BY <2>3, SubSeqFull DEF Lines
  <2>. QED BY <2>1, <2>4, <2>5 DEF m
<1>. QED BY <1>2, <1>3 DEF Cut

\* A line with an ellipsis needs no other.
LEMMA EllipsedType ==
  ASSUME NEW line \in Seq(Plain), Len(line) >= MaxChars
  PROVE  /\ Ellipsed(line) \in Seq(Plain)
         /\ Ending(Ellipsed(line)) = Ellipsed(line)
<1>. DEFINE m == MaxChars - 1
            s == SubSeq(line, 1, m)
<1>1. m \in Nat /\ m <= Len(line)
  BY HasRoom, LenProperties DEF Room
<1>. HIDE DEF m
<1>2. s \in Seq(Plain)
  BY <1>1, Prefix
<1>3. "ellipsis" \in Plain
  BY DEF Plain, Characters
<1>. HIDE DEF s
<1>4. Append(s, "ellipsis") \in Seq(Plain) /\ Append(s, "ellipsis") # <<>>
      /\ Append(s, "ellipsis")[Len(Append(s, "ellipsis"))] = "ellipsis"
  BY <1>2, <1>3, AppendProperties
<1>5. Ellipsed(line) = Append(s, "ellipsis")
  BY DEF Ellipsed, s, m
<1>6. EndsWith(Ellipsed(line), "ellipsis")
  BY <1>4, <1>5 DEF EndsWith, Last
<1>. QED BY <1>4, <1>5, <1>6 DEF Ending

\* The ending of a long line is that of its first piece.
LEMMA EndingOfFirst ==
  ASSUME NEW line \in Seq(Plain), Len(line) > MaxChars
  PROVE  Ending(FirstOf(line)) = Ellipsed(line)
<1>. DEFINE m == MaxChars - 1
            s == SubSeq(line, 1, m)
            f == SubSeq(line, 1, MaxChars)
<1>1. MaxChars \in Nat \ {0} /\ Len(line) \in Nat
  BY HasRoom, LenProperties DEF Room
<1>2. m \in Nat /\ m <= Len(line) /\ m <= MaxChars
  BY <1>1
<1>3. f \in Seq(Plain) /\ Len(f) = MaxChars /\ f[MaxChars] = line[MaxChars] /\ f # <<>>
  <2>1. f \in Seq(Plain) /\ Len(f) = MaxChars /\ \A i \in 1 .. MaxChars : f[i] = line[i]
    BY <1>1, Prefix
  <2>. HIDE DEF f
  <2>2. Len(<<>>) = 0 /\ MaxChars \in 1 .. MaxChars /\ MaxChars # 0
    BY <1>1, EmptySeq
  <2>3. f # <<>>
    BY <2>1, <2>2
  <2>4. f[MaxChars] = line[MaxChars]
    BY <2>1, <2>2
  <2>. QED BY <2>1, <2>3, <2>4
<1>4. Append(s, line[MaxChars]) = f
  <2>1. MaxChars \in 1 .. Len(line)
    BY <1>1
  <2>2. s \in Seq(Plain) /\ line[MaxChars] \in Plain
    BY <2>1, <1>2, Prefix, ElementOfSeq
  <2>. DEFINE o == 1
  <2>3. o \in 1 .. Len(line) /\ MaxChars \in o .. Len(line)
    BY <1>1
  <2>. HIDE DEF o
  <2>4. SubSeq(line, o, MaxChars) = SubSeq(line, o, MaxChars - 1) \o <<line[MaxChars]>>
    BY <2>3, SubSeqRecursiveSecond
  <2>5. f = s \o <<line[MaxChars]>>
    BY <2>4 DEF o
  <2>. HIDE DEF s, f
  <2>6. Append(s, line[MaxChars]) = s \o <<line[MaxChars]>>
    BY <2>2, AppendIsConcat
  <2>. QED BY <2>5, <2>6
<1>5. Min({Len(f), MaxChars - 1}) = m
  <2>1. Min({MaxChars, m}) = IF MaxChars <= m THEN MaxChars ELSE m
    BY <1>1, <1>2, MinIs
  <2>2. ~(MaxChars <= m) /\ Len(f) = MaxChars /\ m = MaxChars - 1
    BY <1>1, <1>3
  <2>. HIDE DEF f, m
  <2>. QED BY <2>1, <2>2
<1>6. SubSeq(f, 1, m) = s
  <2>1. MaxChars <= Len(line) /\ MaxChars \in Nat
    BY <1>1
  <2>. HIDE DEF m
  <2>. QED BY <2>1, <1>2, PrefixOfPrefix
<1>7. Ellipsed(line) = Append(s, "ellipsis") /\ FirstOf(line) = f
  BY DEF Ellipsed, FirstOf
<1>. HIDE DEF m, s, f
<1>8. CASE EndsWith(f, "ellipsis")
  <2>1. line[MaxChars] = "ellipsis"
    BY <1>3, <1>8 DEF EndsWith, Last
  <2>. QED BY <2>1, <1>4, <1>7, <1>8 DEF Ending
<1>9. CASE ~EndsWith(f, "ellipsis")
  BY <1>5, <1>6, <1>7, <1>9 DEF Ending
<1>. QED BY <1>8, <1>9

-----------------------------------------------------------------------------
(* The inner loop. *)

WrapState == [out : Lines, raw : Seq(Plain), truncated : BOOLEAN]

\* The lines so far and those that all of them are: all is what the loop makes
\* of a line where nothing is cut.
Wrapped(out, all) ==
  Len(out) = MaxLines /\ Len(all) > MaxLines /\ Cut(out) = Cut(all)
WrapInv(w, all) ==
  /\ w \in WrapState
  /\ w.truncated => w.raw = <<>> /\ Wrapped(w.out, all)
  /\ ~w.truncated /\ w.raw = <<>> => w.out = all /\ Len(w.out) <= MaxLines
  /\ w.raw # <<>> => Len(w.out) < MaxLines /\ w.out \o Chopped(w.raw) = all

\* Two states of the inner loop with the same fields are the same.
LEMMA SameFields ==
  ASSUME NEW w \in WrapState, NEW v \in WrapState,
         w.out = v.out, w.raw = v.raw, w.truncated = v.truncated
  PROVE  w = v
BY DEF WrapState

\* What updating its fields makes of a state of the inner loop.
LEMMA SetFields ==
  ASSUME NEW w, NEW out \in Lines, NEW raw \in Seq(Plain),
         w = [out |-> out, raw |-> raw, truncated |-> FALSE],
         NEW o \in Lines, NEW r \in Seq(Plain)
  PROVE  [w EXCEPT !.out = o, !.raw = r] = [out |-> o, raw |-> r, truncated |-> FALSE]
<1>. DEFINE v == [w EXCEPT !.out = o, !.raw = r]
            u == [out |-> o, raw |-> r, truncated |-> FALSE]
<1>1. w \in WrapState /\ u \in WrapState
  BY DEF WrapState
<1>2. u.out = o /\ u.raw = r /\ u.truncated = FALSE /\ w.truncated = FALSE
  OBVIOUS
<1>. HIDE DEF u
<1>3. v \in WrapState /\ v.out = o /\ v.raw = r /\ v.truncated = w.truncated
  BY <1>1 DEF WrapState
<1>. HIDE DEF v
<1>4. v = u
  BY <1>1, <1>2, <1>3, SameFields
<1>. QED BY <1>4, Zenon DEF u, v

\* The three fields a round sets.
LEMMA RoundOf ==
  ASSUME NEW w, NEW out \in Lines, NEW raw \in Seq(Plain),
         w = [out |-> out, raw |-> raw, truncated |-> FALSE]
  PROVE  /\ FitsLine(raw) =>
              WrapRound(w) = [out |-> Append(out, raw), raw |-> <<>>, truncated |-> FALSE]
         /\ ~FitsLine(raw) /\ Len(out) = MaxLines - 1 =>
              WrapRound(w) = [out |-> Append(out, Ellipsed(raw)), raw |-> <<>>, truncated |-> TRUE]
         /\ ~FitsLine(raw) /\ Len(out) # MaxLines - 1 =>
              WrapRound(w) = [out |-> Append(out, FirstOf(raw)), raw |-> Rest(raw), truncated |-> FALSE]
<1>1. w.out = out /\ w.raw = raw
  OBVIOUS
<1>2. CASE FitsLine(raw)
  <2>1. Append(out, raw) \in Lines /\ <<>> \in Seq(Plain)
    BY AppendProperties, EmptySeq DEF Lines
  <2>2. [w EXCEPT !.out = Append(out, raw), !.raw = <<>>] =
          [out |-> Append(out, raw), raw |-> <<>>, truncated |-> FALSE]
    BY <2>1, SetFields
  <2>3. WrapRound(w) = [w EXCEPT !.out = Append(w.out, w.raw), !.raw = <<>>]
    BY <1>1, <1>2 DEF WrapRound
  <2>. QED BY <1>1, <1>2, <2>2, <2>3, Zenon
<1>3. CASE ~FitsLine(raw) /\ Len(out) = MaxLines - 1
  BY <1>1, <1>3 DEF WrapRound, Ellipsed
<1>4. CASE ~FitsLine(raw) /\ Len(out) # MaxLines - 1
  <2>1. Len(raw) > MaxChars
    BY <1>4, HasRoom, LenProperties DEF FitsLine, Room
  <2>2. Append(out, FirstOf(raw)) \in Lines /\ Rest(raw) \in Seq(Plain)
    BY <2>1, RestType, AppendProperties DEF Lines
  <2>3. [w EXCEPT !.out = Append(out, FirstOf(raw)), !.raw = Rest(raw)] =
          [out |-> Append(out, FirstOf(raw)), raw |-> Rest(raw), truncated |-> FALSE]
    BY <2>2, SetFields
  <2>4. WrapRound(w) = [w EXCEPT !.out = Append(w.out, FirstOf(w.raw)), !.raw = Rest(w.raw)]
    BY <1>1, <1>4 DEF WrapRound, FirstOf, Rest
  <2>. QED BY <1>1, <1>4, <2>3, <2>4, Zenon
<1>. QED BY <1>2, <1>3, <1>4

\* A round in which what is left fits.
LEMMA RoundFits ==
  ASSUME NEW w, NEW all, WrapInv(w, all), w.raw # <<>>, FitsLine(w.raw)
  PROVE  WrapInv(WrapRound(w), all) /\ Len(WrapRound(w).raw) < Len(w.raw)
<1>. DEFINE out == w.out
            raw == w.raw
            next == [out |-> Append(out, raw), raw |-> <<>>, truncated |-> FALSE]
<1>1. /\ out \in Lines /\ raw \in Seq(Plain) /\ ~w.truncated
      /\ Len(out) < MaxLines /\ out \o Chopped(raw) = all
      /\ w = [out |-> out, raw |-> raw, truncated |-> FALSE]
  BY DEF WrapInv, WrapState
<1>2. WrapRound(w) = next
  BY <1>1, RoundOf
<1>3. Chopped(raw) = <<raw>> /\ Len(raw) \in Nat \ {0}
  <2>1. Len(raw) <= MaxChars
    BY DEF FitsLine
  <2>. HIDE DEF raw
  <2>. QED BY <2>1, <1>1, ChoppedShort, EmptySeq DEF raw
<1>. HIDE DEF out, raw
<1>4. Append(out, raw) \in Lines /\ Len(Append(out, raw)) = Len(out) + 1 /\ <<>> \in Seq(Plain)
  BY <1>1, AppendProperties, EmptySeq DEF Lines
<1>5. Append(out, raw) = all
  BY <1>1, <1>3, AppendIsConcat DEF Lines
<1>6. Len(out) + 1 <= MaxLines
  BY <1>1, HasRoom, LenProperties DEF Room, Lines
<1>7. WrapInv(next, all)
  BY <1>4, <1>5, <1>6 DEF WrapInv, WrapState
<1>8. Len(next.raw) = 0
  BY EmptySeq
<1>. QED BY <1>2, <1>3, <1>7, <1>8 DEF raw

\* A round that reaches the last line of the display.
LEMMA RoundEnds ==
  ASSUME NEW w, NEW all, WrapInv(w, all), w.raw # <<>>, ~FitsLine(w.raw),
         Len(w.out) = MaxLines - 1
  PROVE  WrapInv(WrapRound(w), all) /\ Len(WrapRound(w).raw) < Len(w.raw)
<1>. DEFINE out == w.out
            raw == w.raw
            end == Append(out, Ellipsed(raw))
            next == [out |-> end, raw |-> <<>>, truncated |-> TRUE]
<1>1. /\ out \in Lines /\ raw \in Seq(Plain) /\ raw # <<>> /\ ~w.truncated
      /\ Len(out) = MaxLines - 1 /\ out \o Chopped(raw) = all
  BY DEF WrapInv, WrapState
<1>2. WrapRound(w) = next
  BY DEF WrapRound, Ellipsed
<1>3. MaxLines \in Nat \ {0} /\ MaxChars \in Nat \ {0} /\ Len(raw) \in Nat \ {0}
  BY <1>1, HasRoom, EmptySeq DEF Room
<1>4. Len(raw) > MaxChars /\ Len(raw) >= MaxChars
  BY <1>3 DEF FitsLine
<1>. HIDE DEF out, raw
<1>5. Ellipsed(raw) \in Seq(Plain) /\ Ending(Ellipsed(raw)) = Ellipsed(raw)
  BY <1>1, <1>4, EllipsedType
<1>6. end \in Lines /\ Len(end) = MaxLines /\ <<>> \in Seq(Plain)
  <2>1. end \in Seq(Seq(Plain)) /\ Len(end) = Len(out) + 1
    BY <1>1, <1>5, AppendProperties DEF Lines
  <2>. HIDE DEF end
  <2>. QED BY <2>1, <1>1, <1>3, EmptySeq DEF Lines
<1>7. Cut(end) = end
  BY <1>1, <1>5, CutOfAppend
<1>. HIDE DEF end
<1>. DEFINE first == FirstOf(raw)
            rest == Rest(raw)
            tail == Chopped(rest)
<1>8. first \in Seq(Plain) /\ rest \in Seq(Plain) /\ Ending(first) = Ellipsed(raw)
  BY <1>1, <1>4, RestType, EndingOfFirst
<1>9. tail \in Lines /\ Len(tail) \in Nat \ {0}
  BY <1>8, ChoppedType DEF NonEmpty
<1>10. all = out \o (<<first>> \o tail)
  BY <1>1, <1>4, ChoppedLong
<1>. HIDE DEF first, rest, tail
<1>11. all = Append(out, first) \o tail
  <2>1. out \in Seq(Seq(Plain)) /\ tail \in Seq(Seq(Plain)) /\ first \in Seq(Plain)
    BY <1>1, <1>8, <1>9 DEF Lines
  <2>2. out \o (<<first>> \o tail) = Append(out, first) \o tail
    BY <2>1, ConcatMiddle
  <2>. QED BY <2>2, <1>10
<1>. DEFINE part == Append(out, first)
<1>12. part \in Lines /\ Len(part) = MaxLines
  <2>1. part \in Seq(Seq(Plain)) /\ Len(part) = Len(out) + 1
    BY <1>1, <1>8, AppendProperties DEF Lines
  <2>. HIDE DEF part
  <2>. QED BY <2>1, <1>1, <1>3 DEF Lines
<1>13. Cut(part) = end
  BY <1>1, <1>8, CutOfAppend DEF end
<1>. HIDE DEF part
<1>14. Len(all) > MaxLines
  <2>1. Len(part \o tail) = Len(part) + Len(tail)
    BY <1>9, <1>12, ConcatProperties DEF Lines
  <2>. QED BY <2>1, <1>3, <1>9, <1>11, <1>12 DEF part
<1>15. Cut(all) = Cut(part)
  <2>1. Len(part) >= MaxLines
    BY <1>3, <1>12
  <2>2. Cut(part \o tail) = Cut(part)
    BY <2>1, <1>9, <1>12, CutOfMore
  <2>. QED BY <2>2, <1>11 DEF part
<1>16. WrapInv(next, all)
  BY <1>6, <1>7, <1>13, <1>14, <1>15 DEF WrapInv, WrapState, Wrapped
<1>17. Len(next.raw) = 0
  BY EmptySeq
<1>. QED BY <1>2, <1>3, <1>16, <1>17 DEF raw

\* A round that takes a full line.
LEMMA RoundChops ==
  ASSUME NEW w, NEW all, WrapInv(w, all), w.raw # <<>>, ~FitsLine(w.raw),
         Len(w.out) # MaxLines - 1
  PROVE  WrapInv(WrapRound(w), all) /\ Len(WrapRound(w).raw) < Len(w.raw)
<1>. DEFINE out == w.out
            raw == w.raw
            more == Append(out, FirstOf(raw))
            next == [out |-> more, raw |-> Rest(raw), truncated |-> FALSE]
<1>1. /\ out \in Lines /\ raw \in Seq(Plain) /\ raw # <<>> /\ ~w.truncated
      /\ Len(out) < MaxLines /\ Len(out) # MaxLines - 1 /\ out \o Chopped(raw) = all
      /\ w = [out |-> out, raw |-> raw, truncated |-> FALSE]
  BY DEF WrapInv, WrapState
<1>2. WrapRound(w) = next
  BY <1>1, RoundOf
<1>3. MaxLines \in Nat \ {0} /\ MaxChars \in Nat \ {0} /\ Len(raw) \in Nat \ {0}
  BY <1>1, HasRoom, EmptySeq DEF Room
<1>4. Len(raw) > MaxChars
  BY <1>3 DEF FitsLine
<1>. HIDE DEF out, raw
<1>. DEFINE first == FirstOf(raw)
            rest == Rest(raw)
            tail == Chopped(rest)
<1>5. first \in Seq(Plain) /\ rest \in Seq(Plain) /\ rest # <<>> /\ Len(rest) < Len(raw)
  BY <1>1, <1>4, RestType
<1>6. tail \in Lines
  BY <1>5, ChoppedType DEF NonEmpty
<1>7. all = out \o (<<first>> \o tail)
  BY <1>1, <1>4, ChoppedLong
<1>. HIDE DEF first, rest, tail
<1>8. all = Append(out, first) \o tail
  <2>1. out \in Seq(Seq(Plain)) /\ tail \in Seq(Seq(Plain)) /\ first \in Seq(Plain)
    BY <1>1, <1>5, <1>6 DEF Lines
  <2>2. out \o (<<first>> \o tail) = Append(out, first) \o tail
    BY <2>1, ConcatMiddle
  <2>. QED BY <2>2, <1>7
<1>9. more \in Lines /\ Len(more) < MaxLines
  <2>. DEFINE part == Append(out, first)
  <2>1. part \in Seq(Seq(Plain)) /\ Len(part) = Len(out) + 1
    BY <1>1, <1>5, AppendProperties DEF Lines
  <2>2. Len(out) \in Nat
    BY <1>1, LenProperties DEF Lines
  <2>. HIDE DEF part
  <2>3. part \in Lines /\ Len(part) < MaxLines
    BY <2>1, <2>2, <1>1, <1>3 DEF Lines
  <2>. QED BY <2>3 DEF part, first
<1>10. next \in WrapState /\ ~next.truncated /\ next.raw = rest /\ next.out = more
  BY <1>5, <1>9 DEF WrapState, rest
<1>11. next.out \o Chopped(next.raw) = all
  BY <1>8, <1>10 DEF tail, first
<1>12. WrapInv(next, all)
  <2>. HIDE DEF next, more
  <2>. QED BY <1>5, <1>9, <1>10, <1>11 DEF WrapInv
<1>13. Len(next.raw) < Len(raw)
  BY <1>5 DEF rest
<1>. QED BY <1>2, <1>12, <1>13 DEF raw

\* A round keeps the invariant, and takes a character at least.
LEMMA RoundKeeps ==
  ASSUME NEW w, NEW all, WrapInv(w, all), w.raw # <<>>
  PROVE  WrapInv(WrapRound(w), all) /\ Len(WrapRound(w).raw) < Len(w.raw)
BY RoundFits, RoundEnds, RoundChops

LineStep(w) == IF w.raw = <<>> THEN w ELSE WrapRound(w)
Start(out, raw) == [out |-> out, raw |-> raw, truncated |-> FALSE]
IsWrapLine(f, out, raw) ==
  f = [k \in 0 .. Len(raw) |->
        IF k = 0 THEN [out |-> out, raw |-> raw, truncated |-> FALSE]
        ELSE LET w == f[k - 1] IN IF w.raw = <<>> THEN w ELSE WrapRound(w)]

\* The recursive function of WrapLine, by name.
LEMMA IsWrapLineIs ==
  ASSUME NEW f, NEW out, NEW raw
  PROVE  IsWrapLine(f, out, raw) <=>
           f = [k \in 0 .. Len(raw) |-> IF k = 0 THEN Start(out, raw) ELSE LineStep(f[k - 1])]
BY DEF IsWrapLine, LineStep, Start

\* The invariant of the inner loop holds at its start.
LEMMA StartKeeps ==
  ASSUME NEW out \in Lines, Len(out) < MaxLines, NEW raw \in Seq(Plain), raw # <<>>
  PROVE  WrapInv(Start(out, raw), out \o Chopped(raw))
BY DEF WrapInv, WrapState, Start

\* A step keeps it, also when nothing is left.
LEMMA StepKeeps ==
  ASSUME NEW w, NEW all, WrapInv(w, all)
  PROVE  WrapInv(LineStep(w), all)
BY RoundKeeps DEF LineStep

\* What WrapLine is taken from, and where it ends.
LEMMA WrapLineExists ==
  ASSUME NEW out \in Lines, Len(out) < MaxLines, NEW raw \in Seq(Plain), raw # <<>>
  PROVE  \E f : IsWrapLine(f, out, raw)
<1>. DEFINE N == Len(raw)
            all == out \o Chopped(raw)
            S == {w \in WrapState : WrapInv(w, all)}
            step == [k \in 1 .. N |-> [w \in S |-> LineStep(w)]]
            first == Start(out, raw)
<1>1. N \in Nat
  BY LenProperties
<1>2. first \in S
  BY StartKeeps DEF WrapInv
<1>3. ASSUME NEW w \in S PROVE LineStep(w) \in S
  <2>1. WrapInv(LineStep(w), all)
    BY StepKeeps
  <2>. QED BY <2>1 DEF WrapInv
<1>. HIDE DEF N, S, first
<1>4. \A k \in 1 .. N, w \in S : step[k][w] = LineStep(w)
  OBVIOUS
<1>. HIDE DEF step
<1>5. Stepper(S, N, first, step)
  BY <1>1, <1>2, <1>3, <1>4 DEF Stepper
<1>6. PICK g : Iterates(g, S, N, first, step)
  BY <1>5, Recursion
<1>7. /\ g \in [0 .. N -> S] /\ g[0] = first
      /\ \A k \in 1 .. N : g[k] = step[k][g[k - 1]]
  BY <1>6 DEF Iterates
<1>8. ASSUME NEW k \in 0 .. N PROVE g[k] = IF k = 0 THEN first ELSE LineStep(g[k - 1])
  <2>1. CASE k = 0
    BY <2>1, <1>7
  <2>2. CASE k # 0
    <3>1. k \in 1 .. N /\ k - 1 \in 0 .. N
      BY <2>2, <1>1
    <3>2. g[k - 1] \in S
      BY <3>1, <1>7
    <3>. QED BY <2>2, <3>1, <3>2, <1>4, <1>7
  <2>. QED BY <2>1, <2>2
<1>9. g = [k \in 0 .. N |-> IF k = 0 THEN first ELSE LineStep(g[k - 1])]
  BY <1>7, <1>8
<1>10. IsWrapLine(g, out, raw)
  BY <1>9, IsWrapLineIs DEF N, first
<1>. QED BY <1>10

\* A line is wrapped until nothing of it is left.
LEMMA WrapLineDoes ==
  ASSUME NEW out \in Lines, Len(out) < MaxLines, NEW raw \in Seq(Plain), raw # <<>>
  PROVE  /\ WrapInv(WrapLine(out, raw), out \o Chopped(raw))
         /\ WrapLine(out, raw).raw = <<>>
<1>. DEFINE f == CHOOSE f : IsWrapLine(f, out, raw)
            N == Len(raw)
            all == out \o Chopped(raw)
<1>1. IsWrapLine(f, out, raw)
  BY WrapLineExists
<1>2. WrapLine(out, raw) = f[N]
  BY DEF WrapLine, IsWrapLine
<1>. HIDE DEF f
<1>3. N \in Nat
  BY LenProperties
<1>4. f = [k \in 0 .. N |-> IF k = 0 THEN Start(out, raw) ELSE LineStep(f[k - 1])]
  BY <1>1, IsWrapLineIs
<1>5. WrapInv(Start(out, raw), all) /\ Start(out, raw).raw = raw
  BY StartKeeps DEF Start
<1>6. Len(Start(out, raw).raw) = N
  BY <1>5
<1>. HIDE DEF N, all
<1>7. f[0] = Start(out, raw) /\ \A k \in 1 .. N : f[k] = LineStep(f[k - 1])
  BY <1>3, <1>4
<1>. DEFINE T == {k \in 0 .. N : WrapInv(f[k], all) /\ (f[k].raw = <<>> \/ Len(f[k].raw) <= N - k)}
<1>8. 0 \in T
  <2>1. 0 \in 0 .. N /\ N <= N - 0
    BY <1>3
  <2>. QED BY <2>1, <1>5, <1>6, <1>7
<1>9. ASSUME NEW k \in 1 .. N, k - 1 \in T PROVE k \in T
  <2>. DEFINE w == f[k - 1]
              v == f[k]
  <2>1. k \in 0 .. N /\ v = LineStep(w) /\ WrapInv(w, all) /\ (w.raw = <<>> \/ Len(w.raw) <= N - (k - 1))
    BY <1>9, <1>3, <1>7
  <2>2. WrapInv(v, all)
    BY <2>1, StepKeeps
  <2>. HIDE DEF w, v
  <2>3. CASE w.raw = <<>>
    <3>1. v.raw = <<>>
      BY <2>1, <2>3 DEF LineStep
    <3>. QED BY <2>1, <2>2, <3>1 DEF v
  <2>4. CASE w.raw # <<>>
    <3>1. Len(v.raw) < Len(w.raw)
      BY <2>1, <2>4, RoundKeeps DEF LineStep
    <3>2. Len(v.raw) \in Nat /\ Len(w.raw) \in Nat
      <4>1. v.raw \in Seq(Plain) /\ w.raw \in Seq(Plain)
        BY <2>1, <2>2 DEF WrapInv, WrapState
      <4>. QED BY <4>1, LenProperties
    <3>3. Len(v.raw) <= N - k
      BY <1>3, <2>1, <2>4, <3>1, <3>2
    <3>. QED BY <2>1, <2>2, <3>3 DEF v
  <2>. QED BY <2>3, <2>4
<1>. HIDE DEF T
<1>10. \A k \in 0 .. N : k \in T
  BY <1>3, <1>8, <1>9, UpTo
<1>11. WrapInv(f[N], all) /\ (f[N].raw = <<>> \/ Len(f[N].raw) <= N - N)
  <2>1. N \in T
    BY <1>3, <1>10
  <2>. QED BY <2>1 DEF T
<1>12. f[N].raw \in Seq(Plain)
  BY <1>11 DEF WrapInv, WrapState
<1>13. f[N].raw = <<>>
  <2>1. N - N = 0
    BY <1>3
  <2>2. f[N].raw # <<>> => Len(f[N].raw) \in Nat \ {0}
    BY <1>12, EmptySeq
  <2>. QED BY <2>1, <2>2, <1>11
<1>. QED BY <1>2, <1>11, <1>13 DEF all

-----------------------------------------------------------------------------
(* The outer loop. *)

NextState == [out : Lines, truncated : BOOLEAN]

\* The lines so far, when all of them are known but for those that follow.
NextInv(w, all, more) ==
  /\ w \in NextState
  /\ ~w.truncated => w.out = all /\ Len(w.out) <= MaxLines
  /\ w.truncated => /\ Len(w.out) = MaxLines /\ Cut(w.out) = Cut(all)
                    /\ Len(all) >= MaxLines /\ (~more => Len(all) > MaxLines)

\* A line for which no room is left.
LEMMA NextFull ==
  ASSUME NEW out \in Lines, Len(out) <= MaxLines, Len(out) >= MaxLines,
         NEW raw \in Seq(Plain), NEW more \in BOOLEAN
  PROVE  NextInv(WrapNext(out, raw, more), out \o Chopped(raw), more)
<1>. DEFINE tail == Chopped(raw)
            all == out \o tail
            w == [out |-> out, truncated |-> TRUE]
<1>1. MaxLines \in Nat \ {0} /\ Len(out) \in Nat
  BY HasRoom, LenProperties DEF Room, Lines
<1>2. tail \in Lines /\ Len(tail) \in Nat \ {0}
  BY ChoppedType DEF NonEmpty
<1>. HIDE DEF tail
<1>3. Len(all) = Len(out) + Len(tail)
  BY <1>2, ConcatProperties DEF Lines
<1>4. Cut(all) = Cut(out)
  BY <1>2, CutOfMore
<1>. HIDE DEF all
<1>5. Len(out) = MaxLines /\ Len(all) > MaxLines /\ Len(all) >= MaxLines
  BY <1>1, <1>2, <1>3
<1>6. WrapNext(out, raw, more) = w
  BY DEF WrapNext
<1>7. NextInv(w, all, more)
  BY <1>4, <1>5 DEF NextInv, NextState
<1>. QED BY <1>6, <1>7 DEF all, tail

\* A blank line.
LEMMA NextBlank ==
  ASSUME NEW out \in Lines, Len(out) < MaxLines, NEW more \in BOOLEAN
  PROVE  NextInv(WrapNext(out, <<>>, more), out \o Chopped(<<>>), more)
<1>. DEFINE w == [out |-> Append(out, <<>>), truncated |-> FALSE]
            blank == <<>>
<1>1. MaxLines \in Nat \ {0} /\ Len(out) \in Nat
  BY HasRoom, LenProperties DEF Room, Lines
<1>2. blank \in Seq(Plain)
  BY EmptySeq
<1>3. Chopped(<<>>) = <<blank>>
  BY DEF Chopped
<1>4. WrapNext(out, <<>>, more) = w
  BY <1>1 DEF WrapNext
<1>. HIDE DEF blank
<1>5. /\ Append(out, blank) \in Lines /\ Len(Append(out, blank)) = Len(out) + 1
      /\ Append(out, blank) = out \o <<blank>>
  BY <1>2, AppendProperties, AppendIsConcat DEF Lines
<1>6. Len(out) + 1 <= MaxLines
  BY <1>1
<1>7. w = [out |-> Append(out, blank), truncated |-> FALSE]
  BY DEF blank
<1>. HIDE DEF w
<1>8. w \in NextState /\ ~w.truncated /\ w.out = Append(out, blank)
  BY <1>5, <1>7 DEF NextState
<1>9. NextInv(w, out \o <<blank>>, more)
  BY <1>5, <1>6, <1>8 DEF NextInv
<1>. QED BY <1>3, <1>4, <1>9

\* A line that is chopped.
LEMMA NextLine ==
  ASSUME NEW out \in Lines, Len(out) < MaxLines, NEW raw \in Seq(Plain), raw # <<>>,
         NEW more \in BOOLEAN
  PROVE  NextInv(WrapNext(out, raw, more), out \o Chopped(raw), more)
<1>. DEFINE w == WrapLine(out, raw)
            all == out \o Chopped(raw)
            v == [out |-> w.out, truncated |-> w.truncated \/ (more /\ Len(w.out) >= MaxLines)]
<1>1. MaxLines \in Nat \ {0} /\ Len(out) \in Nat
  BY HasRoom, LenProperties DEF Room, Lines
<1>2. WrapInv(w, all) /\ w.raw = <<>>
  BY WrapLineDoes
<1>3. WrapNext(out, raw, more) = v
  BY <1>1 DEF WrapNext
<1>. HIDE DEF w, all
<1>4. w.out \in Lines /\ w.truncated \in BOOLEAN
  BY <1>2 DEF WrapInv, WrapState
<1>5. v \in NextState /\ v.out = w.out
      /\ (v.truncated <=> w.truncated \/ (more /\ Len(w.out) >= MaxLines))
  BY <1>4 DEF NextState
<1>. HIDE DEF v
<1>6. Len(w.out) \in Nat
  BY <1>4, LenProperties DEF Lines
<1>7. w.truncated => Len(w.out) = MaxLines /\ Len(all) > MaxLines /\ Cut(w.out) = Cut(all)
  BY <1>2 DEF WrapInv, Wrapped
<1>8. ~w.truncated => w.out = all /\ Len(w.out) <= MaxLines
  BY <1>2 DEF WrapInv
<1>9. CASE w.truncated
  <2>1. all \in Lines
    BY ChoppedType, ConcatProperties DEF all, Lines, NonEmpty
  <2>2. Len(all) \in Nat
    BY <2>1, LenProperties DEF Lines
  <2>3. Len(all) >= MaxLines
    BY <1>1, <1>7, <1>9, <2>2
  <2>4. NextInv(v, all, more)
    BY <1>5, <1>7, <1>9, <2>3 DEF NextInv
  <2>. QED BY <1>3, <2>4 DEF all
<1>10. CASE ~w.truncated /\ ~(more /\ Len(w.out) >= MaxLines)
  <2>1. NextInv(v, all, more)
    BY <1>5, <1>8, <1>10 DEF NextInv
  <2>. QED BY <1>3, <2>1 DEF all
<1>11. CASE ~w.truncated /\ more /\ Len(w.out) >= MaxLines
  <2>1. Len(w.out) = MaxLines
    BY <1>1, <1>6, <1>8, <1>11
  <2>2. NextInv(v, all, more)
    BY <1>5, <1>8, <1>11, <2>1 DEF NextInv
  <2>. QED BY <1>3, <2>2 DEF all
<1>. QED BY <1>9, <1>10, <1>11

\* A round of the outer loop keeps its invariant.
LEMMA NextKeeps ==
  ASSUME NEW out \in Lines, Len(out) <= MaxLines, NEW raw \in Seq(Plain), NEW more \in BOOLEAN
  PROVE  NextInv(WrapNext(out, raw, more), out \o Chopped(raw), more)
<1>1. MaxLines \in Nat \ {0} /\ Len(out) \in Nat
  BY HasRoom, LenProperties DEF Room, Lines
<1>2. CASE Len(out) >= MaxLines
  BY <1>2, NextFull
<1>3. CASE Len(out) < MaxLines /\ raw = <<>>
  BY <1>3, NextBlank
<1>4. CASE Len(out) < MaxLines /\ raw # <<>>
  BY <1>4, NextLine
<1>. QED BY <1>1, <1>2, <1>3, <1>4

\* A text that is cut already, stays cut where it is.
LEMMA CutKeeps ==
  ASSUME NEW w, NEW all \in Lines, NEW line \in Seq(Plain), NEW more \in BOOLEAN,
         NextInv(w, all, TRUE), w.truncated
  PROVE  NextInv(w, all \o Chopped(line), more)
<1>. DEFINE tail == Chopped(line)
            longer == all \o tail
<1>1. MaxLines \in Nat \ {0} /\ Len(all) \in Nat
  BY HasRoom, LenProperties DEF Room, Lines
<1>2. tail \in Lines /\ Len(tail) \in Nat \ {0}
  BY ChoppedType DEF NonEmpty
<1>3. /\ w \in NextState /\ Len(w.out) = MaxLines /\ Cut(w.out) = Cut(all)
      /\ Len(all) >= MaxLines
  BY DEF NextInv
<1>. HIDE DEF tail
<1>4. Len(longer) = Len(all) + Len(tail)
  BY <1>2, ConcatProperties DEF Lines
<1>5. Cut(longer) = Cut(all)
  BY <1>2, <1>3, CutOfMore
<1>. HIDE DEF longer
<1>6. Len(longer) > MaxLines /\ Len(longer) >= MaxLines
  BY <1>1, <1>2, <1>3, <1>4
<1>7. NextInv(w, longer, more)
  BY <1>3, <1>5, <1>6 DEF NextInv
<1>. QED BY <1>7 DEF longer, tail

AllStep(w, lines, i) ==
  IF w.truncated THEN w ELSE WrapNext(w.out, lines[i], i < Len(lines))
Nothing == [out |-> <<>>, truncated |-> FALSE]
IsWrapAll(f, lines) ==
  f = [i \in 0 .. Len(lines) |->
        IF i = 0 THEN [out |-> <<>>, truncated |-> FALSE]
        ELSE LET w == f[i - 1]
             IN  IF w.truncated THEN w
                 ELSE WrapNext(w.out, lines[i], i < Len(lines))]

\* The recursive function of WrapAll, by name.
LEMMA IsWrapAllIs ==
  ASSUME NEW f, NEW lines
  PROVE  IsWrapAll(f, lines) <=>
           f = [i \in 0 .. Len(lines) |-> IF i = 0 THEN Nothing ELSE AllStep(f[i - 1], lines, i)]
BY DEF IsWrapAll, AllStep, Nothing

\* What the first i lines are chopped into.
Chops(lines) == [i \in DOMAIN lines |-> Chopped(lines[i])]
AllOf(lines, i) == FlattenSeq(SubSeq(Chops(lines), 1, i))

\* The pieces of each line are lines.
LEMMA ChopsType ==
  ASSUME NEW lines \in Lines
  PROVE  /\ Chops(lines) \in Seq(Lines) /\ Len(Chops(lines)) = Len(lines)
         /\ \A i \in 1 .. Len(lines) : Chops(lines)[i] = Chopped(lines[i])
<1>. DEFINE N == Len(lines)
<1>1. N \in Nat /\ DOMAIN lines = 1 .. N
  BY LenProperties DEF Lines
<1>2. \A i \in 1 .. N : lines[i] \in Seq(Plain)
  BY ElementOfSeq DEF Lines
<1>3. \A i \in 1 .. N : Chopped(lines[i]) \in Lines
  BY <1>2, ChoppedType DEF NonEmpty
<1>4. Chops(lines) = [i \in 1 .. N |-> Chopped(lines[i])]
  BY <1>1 DEF Chops
<1>. HIDE DEF N
<1>5. Chops(lines) \in [1 .. N -> Lines]
  BY <1>3, <1>4
<1>6. Chops(lines) \in Seq(Lines) /\ Len(Chops(lines)) = N
  BY <1>1, <1>5
<1>7. \A i \in 1 .. N : Chops(lines)[i] = Chopped(lines[i])
  BY <1>4
<1>. QED BY <1>6, <1>7 DEF N

\* The pieces of one more line follow the others.
LEMMA AllGrows ==
  ASSUME NEW lines \in Lines
  PROVE  /\ AllOf(lines, 0) = <<>>
         /\ \A i \in 1 .. Len(lines) :
              /\ AllOf(lines, i - 1) \in Lines
              /\ AllOf(lines, i) = AllOf(lines, i - 1) \o Chopped(lines[i])
         /\ AllOf(lines, Len(lines)) = FlattenSeq(Chops(lines))
<1>. DEFINE chops == Chops(lines)
            N == Len(lines)
<1>1. /\ chops \in Seq(Seq(Seq(Plain))) /\ Len(chops) = N /\ N \in Nat
      /\ \A i \in 1 .. N : chops[i] = Chopped(lines[i])
  BY ChopsType, LenProperties DEF Lines
<1>. HIDE DEF chops, N
<1>2. SubSeq(chops, 1, 0) = <<>>
  BY SubSeqEmpty
<1>3. SubSeq(chops, 1, N) = chops
  BY <1>1, SubSeqFull
<1>4. ASSUME NEW i \in 1 .. N
      PROVE  /\ FlattenSeq(SubSeq(chops, 1, i - 1)) \in Lines
             /\ FlattenSeq(SubSeq(chops, 1, i)) =
                  FlattenSeq(SubSeq(chops, 1, i - 1)) \o Chopped(lines[i])
  <2>. DEFINE before == SubSeq(chops, 1, i - 1)
              j == i - 1
  <2>0. j \in Nat /\ j <= Len(chops)
    BY <1>1
  <2>1. before \in Seq(Seq(Seq(Plain)))
    <3>. HIDE DEF j
    <3>. QED BY <2>0, <1>1, Prefix DEF j
  <2>2. chops[i] \in Seq(Seq(Plain)) /\ chops[i] = Chopped(lines[i])
    BY <1>1, ElementOfSeq
  <2>. DEFINE o == 1
  <2>3. o \in 1 .. Len(chops) /\ i \in o .. Len(chops)
    BY <1>1
  <2>. HIDE DEF o
  <2>4. SubSeq(chops, o, i) = SubSeq(chops, o, i - 1) \o <<chops[i]>>
    BY <1>1, <2>3, SubSeqRecursiveSecond
  <2>5. SubSeq(chops, 1, i) = before \o <<chops[i]>>
    BY <2>4 DEF o
  <2>. HIDE DEF before
  <2>6. SubSeq(chops, 1, i) = Append(before, chops[i])
    BY <2>1, <2>2, <2>5, AppendIsConcat
  <2>7. /\ FlattenSeq(before) \in Seq(Seq(Plain))
        /\ FlattenSeq(Append(before, chops[i])) = FlattenSeq(before) \o chops[i]
    BY <2>1, <2>2, FlattenAppend
  <2>8. FlattenSeq(SubSeq(chops, 1, i)) = FlattenSeq(before) \o Chopped(lines[i])
    BY <2>2, <2>6, <2>7
  <2>. QED BY <2>7, <2>8 DEF before, Lines
<1>5. AllOf(lines, 0) = <<>>
  BY <1>2, FlattenEmpty DEF AllOf, chops
<1>6. AllOf(lines, N) = FlattenSeq(chops)
  BY <1>3 DEF AllOf, chops
<1>7. \A i \in 1 .. N : AllOf(lines, i - 1) \in Lines
        /\ AllOf(lines, i) = AllOf(lines, i - 1) \o Chopped(lines[i])
  BY <1>4 DEF AllOf, chops
<1>. QED BY <1>5, <1>6, <1>7 DEF N, chops

\* A step of the outer loop keeps its invariant.
LEMMA AllStepKeeps ==
  ASSUME NEW lines \in Lines, NEW i \in 1 .. Len(lines), NEW w,
         NextInv(w, AllOf(lines, i - 1), TRUE)
  PROVE  NextInv(AllStep(w, lines, i), AllOf(lines, i), i < Len(lines))
<1>. DEFINE all == AllOf(lines, i - 1)
            line == lines[i]
            more == i < Len(lines)
<1>1. line \in Seq(Plain) /\ more \in BOOLEAN
  BY ElementOfSeq DEF Lines
<1>2. all \in Lines /\ AllOf(lines, i) = all \o Chopped(line)
  BY AllGrows
<1>. HIDE DEF all, line, more
<1>3. NextInv(w, all, TRUE)
  BY DEF all
<1>4. CASE w.truncated
  <2>1. NextInv(w, all \o Chopped(line), more)
    BY <1>1, <1>2, <1>3, <1>4, CutKeeps
  <2>2. AllStep(w, lines, i) = w
    BY <1>4 DEF AllStep
  <2>. QED BY <2>1, <2>2, <1>2 DEF more
<1>5. CASE ~w.truncated
  <2>1. w.out = all /\ Len(w.out) <= MaxLines
    BY <1>3, <1>5 DEF NextInv
  <2>2. NextInv(WrapNext(all, line, more), all \o Chopped(line), more)
    BY <2>1, <1>1, <1>2, NextKeeps
  <2>3. AllStep(w, lines, i) = WrapNext(all, line, more)
    BY <2>1, <1>5 DEF AllStep, line, more
  <2>. QED BY <2>2, <2>3, <1>2 DEF more
<1>. QED BY <1>4, <1>5

\* The invariant of the outer loop holds at its start.
LEMMA NothingKeeps == ASSUME NEW lines \in Lines, NEW more PROVE NextInv(Nothing, AllOf(lines, 0), more)
<1>1. AllOf(lines, 0) = <<>>
  BY AllGrows
<1>2. <<>> \in Lines /\ Len(<<>>) = 0 /\ MaxLines \in Nat
  BY EmptySeq, HasRoom DEF Room, Lines
<1>. QED BY <1>1, <1>2 DEF NextInv, NextState, Nothing

\* What holds whether or not a line follows.
LEMMA MoreKeeps ==
  ASSUME NEW w, NEW all, NEW more, NextInv(w, all, more)
  PROVE  NextInv(w, all, TRUE)
BY DEF NextInv

\* The function of WrapAll exists, and each value keeps the invariant.
LEMMA WrapAllExists ==
  ASSUME NEW lines \in Lines
  PROVE  \E f : IsWrapAll(f, lines)
<1>. DEFINE N == Len(lines)
            S == {w \in NextState : \E all \in Lines : NextInv(w, all, TRUE)}
            step == [i \in 1 .. N |-> [w \in S |-> AllStep(w, lines, i)]]
<1>1. N \in Nat
  BY LenProperties DEF Lines
<1>2. Nothing \in S
  <2>1. NextInv(Nothing, <<>>, TRUE)
    BY NothingKeeps, AllGrows
  <2>2. <<>> \in Lines
    BY EmptySeq DEF Lines
  <2>. QED BY <2>1, <2>2 DEF NextInv
<1>3. ASSUME NEW i \in 1 .. N, NEW w \in S PROVE AllStep(w, lines, i) \in S
  <2>1. PICK all \in Lines : NextInv(w, all, TRUE)
    OBVIOUS
  <2>2. CASE w.truncated
    BY <2>2 DEF AllStep
  <2>3. CASE ~w.truncated
    <3>1. lines[i] \in Seq(Plain) /\ w.out = all /\ Len(all) <= MaxLines
      BY <2>1, <2>3, ElementOfSeq DEF Lines, NextInv
    <3>. DEFINE more == i < Len(lines)
    <3>2. more \in BOOLEAN
      OBVIOUS
    <3>. HIDE DEF more
    <3>3. NextInv(WrapNext(all, lines[i], more), all \o Chopped(lines[i]), more)
      BY <3>1, <3>2, NextKeeps
    <3>4. AllStep(w, lines, i) = WrapNext(all, lines[i], more)
      BY <2>3, <3>1 DEF AllStep, more
    <3>5. NextInv(AllStep(w, lines, i), all \o Chopped(lines[i]), TRUE)
      BY <3>3, <3>4, MoreKeeps
    <3>6. all \o Chopped(lines[i]) \in Lines
      BY <3>1, ChoppedType, ConcatProperties DEF NonEmpty, Lines
    <3>. QED BY <3>5, <3>6 DEF NextInv
  <2>. QED BY <2>2, <2>3
<1>. HIDE DEF N, S
<1>4. \A i \in 1 .. N, w \in S : step[i][w] = AllStep(w, lines, i)
  OBVIOUS
<1>. HIDE DEF step
<1>5. Stepper(S, N, Nothing, step)
  BY <1>1, <1>2, <1>3, <1>4 DEF Stepper
<1>6. PICK g : Iterates(g, S, N, Nothing, step)
  BY <1>5, Recursion
<1>7. /\ g \in [0 .. N -> S] /\ g[0] = Nothing
      /\ \A k \in 1 .. N : g[k] = step[k][g[k - 1]]
  BY <1>6 DEF Iterates
<1>8. ASSUME NEW k \in 0 .. N PROVE g[k] = IF k = 0 THEN Nothing ELSE AllStep(g[k - 1], lines, k)
  <2>1. CASE k = 0
    BY <2>1, <1>7
  <2>2. CASE k # 0
    <3>1. k \in 1 .. N /\ k - 1 \in 0 .. N
      BY <2>2, <1>1
    <3>2. g[k - 1] \in S
      BY <3>1, <1>7
    <3>. QED BY <2>2, <3>1, <3>2, <1>4, <1>7
  <2>. QED BY <2>1, <2>2
<1>9. g = [k \in 0 .. N |-> IF k = 0 THEN Nothing ELSE AllStep(g[k - 1], lines, k)]
  BY <1>7, <1>8
<1>10. IsWrapAll(g, lines)
  BY <1>9, IsWrapAllIs DEF N
<1>. QED BY <1>10

\* The outer loop keeps all pieces, or as many as fit and an ellipsis.
LEMMA WrapAllDoes ==
  ASSUME NEW lines \in NonEmpty
  PROVE  NextInv(WrapAll(lines), FlattenSeq(Chops(lines)), FALSE)
<1>. DEFINE f == CHOOSE f : IsWrapAll(f, lines)
            N == Len(lines)
<1>0. lines \in Lines /\ N \in Nat \ {0}
  BY EmptySeq DEF NonEmpty, Lines
<1>1. IsWrapAll(f, lines)
  BY <1>0, WrapAllExists
<1>2. WrapAll(lines) = f[N]
  BY DEF WrapAll, IsWrapAll
<1>. HIDE DEF f
<1>3. f = [i \in 0 .. N |-> IF i = 0 THEN Nothing ELSE AllStep(f[i - 1], lines, i)]
  BY <1>1, IsWrapAllIs
<1>4. f[0] = Nothing /\ \A i \in 1 .. N : f[i] = AllStep(f[i - 1], lines, i)
  BY <1>0, <1>3
<1>. DEFINE T == {i \in 0 .. N : NextInv(f[i], AllOf(lines, i), i < N)}
<1>5. 0 \in T
  <2>1. NextInv(f[0], AllOf(lines, 0), 0 < N)
    BY <1>0, <1>4, NothingKeeps
  <2>2. 0 \in 0 .. N
    BY <1>0
  <2>. QED BY <2>1, <2>2
<1>6. ASSUME NEW i \in 1 .. N, i - 1 \in T PROVE i \in T
  <2>1. NextInv(f[i - 1], AllOf(lines, i - 1), TRUE)
    BY <1>6, MoreKeeps
  <2>. DEFINE w == f[i - 1]
  <2>2. NextInv(w, AllOf(lines, i - 1), TRUE)
    BY <2>1
  <2>. HIDE DEF w
  <2>3. NextInv(AllStep(w, lines, i), AllOf(lines, i), i < N)
    BY <2>2, <1>0, AllStepKeeps
  <2>4. f[i] = AllStep(w, lines, i) /\ i \in 0 .. N
    BY <1>0, <1>4 DEF w
  <2>. QED BY <2>3, <2>4
<1>. HIDE DEF T, N
<1>7. \A i \in 0 .. N : i \in T
  BY <1>0, <1>5, <1>6, UpTo
<1>8. NextInv(f[N], AllOf(lines, N), N < N)
  <2>1. N \in T
    BY <1>0, <1>7
  <2>. QED BY <2>1 DEF T
<1>9. (N < N) = FALSE
  BY <1>0
<1>10. AllOf(lines, N) = FlattenSeq(Chops(lines))
  BY <1>0, AllGrows DEF N
<1>. QED BY <1>2, <1>8, <1>9, <1>10

AllLines(t) == FlattenSeq(Chops(Split(t)))
Fit(all) == IF Len(all) <= MaxLines THEN all ELSE Cut(all)

\* The last line of a text that is cut, with its ellipsis.
LEMMA LastLine ==
  ASSUME NEW lines \in Lines, Len(lines) = MaxLines
  PROVE  LET end == lines[MaxLines]
         IN  (IF EndsWith(end, "ellipsis") THEN lines
              ELSE [lines EXCEPT ![MaxLines] =
                     Append(IF Len(end) >= MaxChars THEN SubSeq(end, 1, MaxChars - 1) ELSE end,
                            "ellipsis")])
             = Cut(lines)
<1>. DEFINE n == MaxLines
            end == lines[n]
            before == SubSeq(lines, 1, n - 1)
            new == Append(IF Len(end) >= MaxChars THEN SubSeq(end, 1, MaxChars - 1) ELSE end,
                          "ellipsis")
<1>1. n \in Nat \ {0} /\ MaxChars \in Nat \ {0} /\ n \in 1 .. Len(lines)
  BY HasRoom DEF Room
<1>2. end \in Seq(Plain) /\ Len(end) \in Nat
  <2>1. lines[n] \in Seq(Plain)
    BY <1>1, ElementOfSeq DEF Lines
  <2>. QED BY <2>1, LenProperties
<1>3. /\ before \in Seq(Seq(Plain)) /\ Len(before) = n - 1
      /\ \A i \in 1 .. n - 1 : before[i] = lines[i]
  <2>. DEFINE m == n - 1
  <2>1. m \in Nat /\ m <= Len(lines)
    BY <1>1
  <2>. HIDE DEF m
  <2>2. /\ SubSeq(lines, 1, m) \in Seq(Seq(Plain)) /\ Len(SubSeq(lines, 1, m)) = m
        /\ \A i \in 1 .. m : SubSeq(lines, 1, m)[i] = lines[i]
    BY <2>1, Prefix DEF Lines
  <2>. QED BY <2>2 DEF m
<1>4. new = Append(SubSeq(end, 1, Min({Len(end), MaxChars - 1})), "ellipsis") /\ new \in Seq(Plain)
  <2>. DEFINE m == MaxChars - 1
              L == Len(end)
  <2>1. m \in Nat /\ L \in Nat
    BY <1>1, <1>2
  <2>2. Min({L, m}) = IF L <= m THEN L ELSE m
    BY <2>1, MinIs
  <2>3. "ellipsis" \in Plain
    BY DEF Plain, Characters
  <2>4. SubSeq(end, 1, L) = end
    BY <1>2, SubSeqFull
  <2>5. CASE L >= MaxChars
    <3>1. ~(L <= m) /\ m <= Len(end)
      BY <1>1, <2>1, <2>5
    <3>2. Min({L, m}) = m
      BY <2>2, <3>1
    <3>. HIDE DEF m
    <3>3. SubSeq(end, 1, m) \in Seq(Plain)
      BY <1>2, <2>1, <3>1, Prefix
    <3>4. Append(SubSeq(end, 1, m), "ellipsis") \in Seq(Plain)
      BY <2>3, <3>3, AppendProperties
    <3>5. new = Append(SubSeq(end, 1, m), "ellipsis")
      BY <2>5 DEF m
    <3>. HIDE DEF new, end
    <3>. QED BY <3>2, <3>4, <3>5 DEF m
  <2>6. CASE ~(L >= MaxChars)
    <3>1. L <= m
      BY <1>1, <2>1, <2>6
    <3>2. Min({L, m}) = L
      BY <2>2, <3>1
    <3>3. new = Append(end, "ellipsis")
      BY <2>6
    <3>. HIDE DEF new, end, m
    <3>4. Append(end, "ellipsis") \in Seq(Plain)
      BY <1>2, <2>3, AppendProperties
    <3>. QED BY <2>4, <3>2, <3>3, <3>4 DEF m
  <2>. QED BY <2>5, <2>6
<1>5. CASE EndsWith(end, "ellipsis")
  <2>. DEFINE want == Append(before, end)
  <2>0. n - 1 \in Nat
    BY <1>1
  <2>. HIDE DEF before
  <2>1. /\ want \in Seq(Seq(Plain)) /\ Len(want) = n /\ want[n] = end
        /\ \A i \in 1 .. n - 1 : want[i] = before[i]
    <3>1. /\ want \in Seq(Seq(Plain)) /\ Len(want) = Len(before) + 1 /\ want[Len(before) + 1] = end
          /\ \A i \in 1 .. Len(before) : want[i] = before[i]
      BY <1>2, <1>3, AppendProperties
    <3>2. n - 1 + 1 = n
      BY <1>1
    <3>. HIDE DEF want, end
    <3>. QED BY <1>3, <3>1, <3>2
  <2>. HIDE DEF want
  <2>2. ASSUME NEW i \in 1 .. n PROVE want[i] = lines[i]
    <3>1. i = n \/ i \in 1 .. n - 1
      BY <1>1
    <3>. QED BY <3>1, <2>1, <1>3
  <2>3. want = lines
    BY <2>1, <2>2, SeqEqual DEF Lines
  <2>4. Cut(lines) = want
    BY <1>5 DEF Cut, Ending, want, before
  <2>. QED BY <2>3, <2>4, <1>5
<1>6. CASE ~EndsWith(end, "ellipsis")
  <2>. DEFINE want == Append(before, new)
              filled == [lines EXCEPT ![n] = new]
  <2>0. new \in Seq(Plain) /\ lines \in Seq(Seq(Plain))
    BY <1>4 DEF Lines
  <2>. HIDE DEF before, new
  <2>1. /\ want \in Seq(Seq(Plain)) /\ Len(want) = n /\ want[n] = new
        /\ \A i \in 1 .. n - 1 : want[i] = before[i]
    <3>1. /\ want \in Seq(Seq(Plain)) /\ Len(want) = Len(before) + 1 /\ want[Len(before) + 1] = new
          /\ \A i \in 1 .. Len(before) : want[i] = before[i]
      BY <2>0, <1>3, AppendProperties
    <3>2. n - 1 + 1 = n
      BY <1>1
    <3>. HIDE DEF want
    <3>. QED BY <1>3, <3>1, <3>2
  <2>2. /\ filled \in Seq(Seq(Plain)) /\ Len(filled) = Len(lines)
        /\ \A i \in 1 .. Len(lines) : filled[i] = IF i = n THEN new ELSE lines[i]
    BY <2>0, <1>1, ExceptSeq
  <2>. HIDE DEF want, filled
  <2>3. ASSUME NEW i \in 1 .. n PROVE want[i] = filled[i]
    <3>1. i = n \/ (i \in 1 .. n - 1 /\ i # n)
      BY <1>1
    <3>2. i \in 1 .. Len(lines)
      OBVIOUS
    <3>. QED BY <3>1, <3>2, <2>1, <2>2, <1>3
  <2>4. want = filled
    BY <2>1, <2>2, <2>3, SeqEqual
  <2>5. Cut(lines) = want
    BY <1>4, <1>6 DEF Cut, Ending, want, before
  <2>6. Cut(lines) = filled
    BY <2>4, <2>5
  <2>. QED BY <2>6, <1>6 DEF filled, new
<1>. QED BY <1>5, <1>6

\* _fit_oled gives the pieces of all lines, cut to the display.
LEMMA FitsIs ==
  ASSUME NEW t \in Seq(Characters)
  PROVE  FitOled(t) = Fit(AllLines(t))
<1>. DEFINE w == WrapAll(Split(t))
            all == AllLines(t)
            lines == w.out
            end == Last(lines)
            ended == IF EndsWith(end, "ellipsis") THEN lines
                     ELSE [lines EXCEPT ![Len(lines)] =
                            Append(IF Len(end) >= MaxChars THEN SubSeq(end, 1, MaxChars - 1) ELSE end,
                                   "ellipsis")]
<1>1. NextInv(w, all, FALSE)
  <2>1. Split(t) \in NonEmpty
    BY SplitType DEF NonEmpty
  <2>. QED BY <2>1, WrapAllDoes DEF AllLines
<1>2. FitOled(t) = IF w.truncated THEN ended ELSE lines
  BY DEF FitOled
<1>3. MaxLines \in Nat \ {0}
  BY HasRoom DEF Room
<1>. HIDE DEF w, all
<1>4. lines \in Lines /\ w.truncated \in BOOLEAN
  BY <1>1 DEF NextInv, NextState
<1>7. Len(all) \in Nat
  <2>1. Split(t) \in Lines
    BY SplitType
  <2>2. AllLines(t) \in Lines
    BY <2>1, ChopsType, FlattenAppend DEF AllLines, Lines
  <2>. QED BY <2>2, LenProperties DEF all, Lines
<1>5. CASE ~w.truncated
  <2>1. lines = all /\ Len(all) <= MaxLines
    BY <1>1, <1>5 DEF NextInv
  <2>. QED BY <2>1, <1>2, <1>4, <1>5, <1>7 DEF Fit, all
<1>6. CASE w.truncated
  <2>1. Len(lines) = MaxLines /\ Cut(lines) = Cut(all) /\ Len(all) > MaxLines /\ Len(all) >= MaxLines
    BY <1>1, <1>6 DEF NextInv
  <2>2. ~(Len(all) <= MaxLines)
    BY <2>1, <1>3, <1>7
  <2>3. ended = Cut(lines)
    BY <2>1, <1>4, LastLine DEF Last
  <2>. HIDE DEF ended, lines
  <2>. QED BY <2>1, <2>2, <2>3, <1>2, <1>6 DEF Fit, all
<1>. QED BY <1>4, <1>5, <1>6

\* An ending is a line.
LEMMA EndingType == ASSUME NEW line \in Seq(Plain) PROVE Ending(line) \in Seq(Plain)
<1>. DEFINE m == Min({Len(line), MaxChars - 1})
<1>1. Len(line) \in Nat /\ MaxChars - 1 \in Nat
  BY HasRoom, LenProperties DEF Room
<1>2. m = IF Len(line) <= MaxChars - 1 THEN Len(line) ELSE MaxChars - 1
  BY <1>1, MinIs
<1>. HIDE DEF m
<1>3. m \in Nat /\ m <= Len(line)
  BY <1>1, <1>2
<1>4. SubSeq(line, 1, m) \in Seq(Plain) /\ "ellipsis" \in Plain
  BY <1>3, Prefix DEF Plain, Characters
<1>5. Append(SubSeq(line, 1, m), "ellipsis") \in Seq(Plain)
  BY <1>4, AppendProperties
<1>. QED BY <1>5 DEF Ending, m

\* What fits is lines, one at least and no more than there is room for.
LEMMA FitType ==
  ASSUME NEW all \in NonEmpty
  PROVE  Fit(all) \in NonEmpty /\ Len(Fit(all)) <= MaxLines
<1>1. all \in Seq(Seq(Plain)) /\ Len(all) \in Nat \ {0} /\ MaxLines \in Nat \ {0}
  BY HasRoom, EmptySeq DEF Room, NonEmpty, Lines
<1>2. CASE Len(all) <= MaxLines
  BY <1>2 DEF Fit
<1>3. CASE ~(Len(all) <= MaxLines)
  <2>. DEFINE m == MaxLines - 1
              before == SubSeq(all, 1, m)
              end == Ending(all[MaxLines])
  <2>1. m \in Nat /\ m <= Len(all) /\ MaxLines \in 1 .. Len(all) /\ m + 1 = MaxLines
    BY <1>1, <1>3
  <2>2. end \in Seq(Plain)
    BY <2>1, <1>1, ElementOfSeq, EndingType
  <2>3. Cut(all) = Append(before, end)
    BY DEF Cut
  <2>. HIDE DEF m, end
  <2>4. before \in Seq(Seq(Plain)) /\ Len(before) = m
    BY <2>1, <1>1, Prefix
  <2>. HIDE DEF before
  <2>5. Append(before, end) \in Seq(Seq(Plain)) /\ Len(Append(before, end)) = m + 1
        /\ Append(before, end) # <<>>
    BY <2>2, <2>4, AppendProperties
  <2>6. MaxLines <= MaxLines
    BY <1>1
  <2>. QED BY <2>1, <2>3, <2>5, <2>6, <1>3 DEF Fit, NonEmpty, Lines
<1>. QED BY <1>2, <1>3

\* Every text has a piece.
LEMMA AllLinesType == ASSUME NEW t \in Seq(Characters) PROVE AllLines(t) \in NonEmpty
<1>. DEFINE lines == Split(t)
            n == Len(lines)
<1>1. lines \in Seq(Seq(Plain)) /\ lines \in Lines /\ n \in Nat \ {0}
  BY SplitType, EmptySeq DEF Lines
<1>. HIDE DEF lines, n
<1>2. n \in 1 .. n
  BY <1>1
<1>3. lines[n] \in Seq(Plain)
  BY <1>1, <1>2, ElementOfSeq DEF n
<1>. DEFINE last == Chopped(lines[n])
            before == AllOf(lines, n - 1)
<1>4. last \in Seq(Seq(Plain)) /\ Len(last) \in Nat \ {0}
  BY <1>3, ChoppedType DEF NonEmpty, Lines
<1>5. before \in Seq(Seq(Plain)) /\ AllLines(t) = before \o last
  <2>1. /\ \A i \in 1 .. n : /\ AllOf(lines, i - 1) \in Lines
                             /\ AllOf(lines, i) = AllOf(lines, i - 1) \o Chopped(lines[i])
        /\ AllOf(lines, n) = FlattenSeq(Chops(lines))
    BY <1>1, AllGrows DEF n
  <2>. QED BY <2>1, <1>2 DEF Lines, AllLines, lines
<1>. HIDE DEF last, before
<1>6. before \o last \in Seq(Seq(Plain)) /\ Len(before \o last) = Len(before) + Len(last)
  BY <1>4, <1>5, ConcatProperties
<1>7. Len(before) \in Nat
  BY <1>5, LenProperties
<1>8. before \o last # <<>>
  <2>1. Len(before) + Len(last) # 0 /\ Len(<<>>) = 0
    BY <1>4, <1>7, EmptySeq
  <2>. QED BY <2>1, <1>6
<1>. QED BY <1>5, <1>6, <1>8 DEF NonEmpty, Lines

-----------------------------------------------------------------------------
(* Texts without a backslash. *)

Kept == Characters \ {"backslash"}

\* A line without a backslash.
LEMMA KeptLine ==
  ASSUME NEW line \in Seq(Plain), "backslash" \notin Range(line)
  PROVE  line \in Seq(Kept)
<1>1. Len(line) \in Nat /\ line \in [1 .. Len(line) -> Plain]
  BY LenProperties
<1>2. \A i \in 1 .. Len(line) : line[i] \in Range(line)
  BY RangeEquality
<1>3. \A i \in 1 .. Len(line) : line[i] \in Kept
  BY <1>1, <1>2 DEF Kept, Plain
<1>4. line \in [1 .. Len(line) -> Kept]
  BY <1>1, <1>3
<1>. QED BY <1>1, <1>4

\* Lines without a backslash join to a text without one.
LEMMA JoinedKept ==
  \A lines \in Lines :
    "backslash" \notin Range(FlattenSeq(lines)) => Joined(lines) \in Seq(Kept)
<1>. DEFINE T == {lines \in Lines :
                   "backslash" \notin Range(FlattenSeq(lines)) => Joined(lines) \in Seq(Kept)}
<1>1. <<>> \in T
  <2>1. <<>> \in Seq(Kept) /\ <<>> \in Lines
    BY EmptySeq DEF Lines
  <2>2. JoinParts(<<>>) = <<>>
    <3>1. JoinParts(<<>>) \in Seq(Seq(Characters)) /\ Len(JoinParts(<<>>)) = 0
      BY <2>1, JoinPartsType, EmptySeq
    <3>. QED BY <3>1, EmptySeq
  <2>3. Joined(<<>>) = <<>>
    BY <2>2, JoinedIs, FlattenEmpty
  <2>. QED BY <2>1, <2>3
<1>2. ASSUME NEW lines \in Lines, NEW line \in Seq(Plain), lines \in T
      PROVE  Append(lines, line) \in T
  <2>. DEFINE more == Append(lines, line)
  <2>1. more \in Lines
    BY AppendProperties DEF Lines
  <2>2. FlattenSeq(lines) \in Seq(Plain) /\ FlattenSeq(more) = FlattenSeq(lines) \o line
    BY FlattenAppend DEF Lines
  <2>3. Range(FlattenSeq(more)) = Range(FlattenSeq(lines)) \cup Range(line)
    BY <2>2, RangeConcatenation
  <2>4. ASSUME "backslash" \notin Range(FlattenSeq(more)) PROVE Joined(more) \in Seq(Kept)
    <3>1. Joined(lines) \in Seq(Kept) /\ line \in Seq(Kept)
      BY <2>3, <2>4, <1>2, KeptLine
    <3>2. "newline" \in Kept
      BY DEF Kept, Characters
    <3>3. CASE lines = <<>>
      BY <3>1, <3>3, JoinedAppend
    <3>4. CASE lines # <<>>
      <4>1. Append(Joined(lines), "newline") \in Seq(Kept)
        BY <3>1, <3>2, AppendProperties
      <4>2. Append(Joined(lines), "newline") \o line \in Seq(Kept)
        BY <3>1, <4>1, ConcatProperties
      <4>. QED BY <3>4, <4>2, JoinedAppend
    <3>. QED BY <3>3, <3>4
  <2>. QED BY <2>1, <2>4
<1>. HIDE DEF T
<1>3. \A lines \in Lines : lines \in T
  BY <1>1, <1>2, AppendInduction DEF Lines
<1>. QED BY <1>3 DEF T

-----------------------------------------------------------------------------
(* Replacing each element of a sequence by a sequence. *)

Single(one, x) == one = <<x>>

Expander(e, A, B) == e \in [A -> Seq(B)]
SpreadParts(e, s) == [j \in 1 .. Len(s) |-> e[s[j]]]
Spread(e, s) == FlattenSeq(SpreadParts(e, s))

\* Each element is replaced by its sequence.
LEMMA SpreadPartsType ==
  ASSUME NEW A, NEW B, NEW e, Expander(e, A, B), NEW s \in Seq(A)
  PROVE  /\ SpreadParts(e, s) \in Seq(Seq(B)) /\ Len(SpreadParts(e, s)) = Len(s)
         /\ \A j \in 1 .. Len(s) : SpreadParts(e, s)[j] = e[s[j]]
<1>. DEFINE N == Len(s)
<1>1. N \in Nat /\ \A j \in 1 .. N : s[j] \in A
  BY LenProperties, ElementOfSeq
<1>2. SpreadParts(e, s) = [j \in 1 .. N |-> e[s[j]]]
  BY DEF SpreadParts
<1>. HIDE DEF N
<1>3. SpreadParts(e, s) \in [1 .. N -> Seq(B)]
  BY <1>1, <1>2 DEF Expander
<1>4. SpreadParts(e, s) \in Seq(Seq(B)) /\ Len(SpreadParts(e, s)) = N
  BY <1>1, <1>3
<1>5. \A j \in 1 .. N : SpreadParts(e, s)[j] = e[s[j]]
  BY <1>2
<1>. QED BY <1>4, <1>5 DEF N

\* One more element at the end.
LEMMA SpreadAppend ==
  ASSUME NEW A, NEW B, NEW e, Expander(e, A, B), NEW s \in Seq(A), NEW x \in A
  PROVE  /\ Spread(e, s) \in Seq(B)
         /\ Spread(e, Append(s, x)) = Spread(e, s) \o e[x]
<1>. DEFINE more == Append(s, x)
            n == Len(s)
            want == Append(SpreadParts(e, s), e[x])
            S == Seq(B)
<1>1. /\ more \in Seq(A) /\ Len(more) = n + 1 /\ more[n + 1] = x
      /\ \A j \in 1 .. n : more[j] = s[j]
  BY AppendProperties
<1>2. n \in Nat /\ e[x] \in S
  BY LenProperties DEF Expander
<1>. HIDE DEF more
<1>3. /\ SpreadParts(e, s) \in Seq(S) /\ Len(SpreadParts(e, s)) = n
      /\ \A j \in 1 .. n : SpreadParts(e, s)[j] = e[s[j]]
  BY SpreadPartsType
<1>4. /\ SpreadParts(e, more) \in Seq(S) /\ Len(SpreadParts(e, more)) = n + 1
      /\ \A j \in 1 .. n + 1 : SpreadParts(e, more)[j] = e[more[j]]
  <2>1. /\ SpreadParts(e, more) \in Seq(S) /\ Len(SpreadParts(e, more)) = Len(more)
        /\ \A j \in 1 .. Len(more) : SpreadParts(e, more)[j] = e[more[j]]
    BY <1>1, SpreadPartsType
  <2>. QED BY <2>1, <1>1
<1>. HIDE DEF n, S
<1>5. /\ want \in Seq(S) /\ Len(want) = n + 1 /\ want[n + 1] = e[x]
      /\ \A j \in 1 .. n : want[j] = SpreadParts(e, s)[j]
  BY <1>2, <1>3, AppendProperties
<1>. HIDE DEF want
<1>6. ASSUME NEW j \in 1 .. n + 1 PROVE SpreadParts(e, more)[j] = want[j]
  <2>1. CASE j = n + 1
    BY <2>1, <1>1, <1>4, <1>5
  <2>2. CASE j # n + 1
    <3>1. j \in 1 .. n
      BY <2>2, <1>2
    <3>. QED BY <3>1, <1>1, <1>3, <1>4, <1>5
  <2>. QED BY <2>1, <2>2
<1>7. SpreadParts(e, more) = want
  BY <1>4, <1>5, <1>6, SeqEqual
<1>8. /\ FlattenSeq(SpreadParts(e, s)) \in S
      /\ FlattenSeq(Append(SpreadParts(e, s), e[x])) = FlattenSeq(SpreadParts(e, s)) \o e[x]
  BY <1>2, <1>3, FlattenAppend DEF S
<1>. QED BY <1>7, <1>8 DEF Spread, want, more, S

\* The same, as an equation alone.
LEMMA SpreadNext ==
  ASSUME NEW A, NEW B, NEW e, Expander(e, A, B), NEW s, s \in Seq(A), NEW x, x \in A
  PROVE  Spread(e, Append(s, x)) = Spread(e, s) \o e[x]
BY SpreadAppend

\* What replaces elements is of the other kind.
LEMMA SpreadType ==
  ASSUME NEW A, NEW B, NEW e, Expander(e, A, B), NEW s \in Seq(A), NEW x \in A
  PROVE  Spread(e, s) \in Seq(B) /\ e[x] \in Seq(B)
<1>1. e[x] \in Seq(B)
  BY DEF Expander
<1>2. Spread(e, s) \in Seq(B)
  BY SpreadAppend
<1>. QED BY <1>1, <1>2

\* Nothing is replaced in nothing.
LEMMA SpreadEmpty == ASSUME NEW e PROVE Spread(e, <<>>) = <<>>
<1>1. Len(<<>>) = 0
  BY EmptySeq
<1>2. SpreadParts(e, <<>>) = <<>>
  BY <1>1 DEF SpreadParts
<1>. QED BY <1>2, FlattenEmpty DEF Spread

\* One more element at the start.
LEMMA SpreadCons ==
  ASSUME NEW A, NEW B, NEW e, Expander(e, A, B), NEW x \in A,
         NEW one, Single(one, x)
  PROVE  \A s \in Seq(A) : Spread(e, one \o s) = e[x] \o Spread(e, s)
<1>. DEFINE T == {s \in Seq(A) : Spread(e, one \o s) = e[x] \o Spread(e, s)}
<1>one. one = <<x>>
  BY DEF Single
<1>0. one \in Seq(A) /\ <<>> \in Seq(A) /\ e[x] \in Seq(B)
  BY <1>one, EmptySeq DEF Expander
<1>1. Spread(e, one) = e[x]
  <2>1. one = Append(<<>>, x)
    BY <1>one
  <2>2. Spread(e, Append(<<>>, x)) = Spread(e, <<>>) \o e[x]
    <3>. DEFINE none == <<>>
    <3>1. none \in Seq(A)
      BY <1>0
    <3>. HIDE DEF none
    <3>2. Spread(e, Append(none, x)) = Spread(e, none) \o e[x]
      BY <3>1, SpreadNext
    <3>. QED BY <3>2 DEF none
  <2>3. <<>> \o e[x] = e[x]
    BY <1>0, ConcatEmptySeq
  <2>. QED BY <2>1, <2>2, <2>3, SpreadEmpty
<1>2. <<>> \in T
  <2>1. one \o <<>> = one /\ e[x] \o <<>> = e[x]
    BY <1>0, ConcatEmptySeq
  <2>. QED BY <2>1, <1>0, <1>1, SpreadEmpty
<1>3. ASSUME NEW s \in Seq(A), NEW y \in A, s \in T PROVE Append(s, y) \in T
  <2>1. one \o s \in Seq(A) /\ one \o Append(s, y) = Append(one \o s, y)
    BY <1>0, ConcatAppend
  <2>2. Spread(e, Append(one \o s, y)) = Spread(e, one \o s) \o e[y]
    <3>. DEFINE u == one \o s
    <3>1. u \in Seq(A)
      BY <2>1
    <3>. HIDE DEF u
    <3>2. Spread(e, Append(u, y)) = Spread(e, u) \o e[y]
      BY <3>1, SpreadNext
    <3>. QED BY <3>2 DEF u
  <2>3. Spread(e, one \o s) = e[x] \o Spread(e, s)
    BY <1>3
  <2>4. Spread(e, s) \in Seq(B) /\ Spread(e, Append(s, y)) = Spread(e, s) \o e[y] /\ e[y] \in Seq(B)
    <3>1. e[y] \in Seq(B) /\ Spread(e, s) \in Seq(B)
      BY SpreadType
    <3>2. Spread(e, Append(s, y)) = Spread(e, s) \o e[y]
      BY SpreadNext
    <3>. QED BY <3>1, <3>2
  <2>5. (e[x] \o Spread(e, s)) \o e[y] = e[x] \o (Spread(e, s) \o e[y])
    <3>. DEFINE a == e[x]
                b == Spread(e, s)
                c == e[y]
    <3>1. a \in Seq(B) /\ b \in Seq(B) /\ c \in Seq(B)
      BY <1>0, <2>4
    <3>. HIDE DEF a, b, c
    <3>2. (a \o b) \o c = a \o (b \o c)
      BY <3>1, ConcatAssociative
    <3>. QED BY <3>2 DEF a, b, c
  <2>6. Spread(e, one \o Append(s, y)) = e[x] \o Spread(e, Append(s, y))
    BY <2>1, <2>2, <2>3, <2>4, <2>5
  <2>7. Append(s, y) \in Seq(A)
    BY AppendProperties
  <2>. QED BY <2>6, <2>7
<1>. HIDE DEF T
<1>4. \A s \in Seq(A) : s \in T
  BY <1>2, <1>3, AppendInduction
<1>. QED BY <1>4 DEF T

-----------------------------------------------------------------------------
(* Replacing pairs. *)

\* What becomes of the last n elements, when one knows what becomes of the
\* last n - 2 and n - 1.
Replaced(s, pair, by, n, a, b) ==
  IF n < 2 THEN SubSeq(s, Len(s) - n + 1, Len(s))
  ELSE IF SubSeq(s, Len(s) - n + 1, Len(s) - n + 1 + 1) = pair THEN <<by>> \o a
  ELSE <<s[Len(s) - n + 1]>> \o b

IsReplacing(f, s, pair, by) ==
  f = [n \in 0 .. Len(s) |->
        LET at == Len(s) - n + 1
        IN  IF n < 2 THEN SubSeq(s, at, Len(s))
            ELSE IF SubSeq(s, at, at + 1) = pair THEN <<by>> \o f[n - 2]
            ELSE <<s[at]>> \o f[n - 1]]

\* The recursive function of ReplacePairs, by name.
LEMMA IsReplacingIs ==
  ASSUME NEW f, NEW s, NEW pair, NEW by
  PROVE  IsReplacing(f, s, pair, by) <=>
           f = [n \in 0 .. Len(s) |-> Replaced(s, pair, by, n, f[n - 2], f[n - 1])]
BY DEF IsReplacing, Replaced

\* One step of it gives a sequence.
LEMMA ReplacedType ==
  ASSUME NEW C, NEW s \in Seq(C), NEW pair, NEW by \in C, NEW n \in 0 .. Len(s),
         NEW a, NEW b, n >= 2 => a \in Seq(C) /\ b \in Seq(C)
  PROVE  Replaced(s, pair, by, n, a, b) \in Seq(C)
<1>. DEFINE at == Len(s) - n + 1
            L == Len(s)
<1>1. L \in Nat
  BY LenProperties
<1>2. CASE n < 2
  <2>1. at \in Nat \ {0} /\ L \in Int /\ L <= Len(s)
    BY <1>1
  <2>2. Replaced(s, pair, by, n, a, b) = SubSeq(s, at, L)
    BY <1>2 DEF Replaced
  <2>. HIDE DEF at, L
  <2>3. SubSeq(s, at, L) \in Seq(C)
    BY <2>1, SubSeqType
  <2>. QED BY <2>2, <2>3
<1>3. CASE ~(n < 2)
  <2>1. n >= 2 /\ at \in 1 .. Len(s)
    BY <1>1, <1>3
  <2>2. a \in Seq(C) /\ b \in Seq(C)
    BY <2>1
  <2>3. Replaced(s, pair, by, n, a, b) \in {<<by>> \o a, <<s[at]>> \o b}
    BY <1>3 DEF Replaced
  <2>. DEFINE c == s[at]
  <2>4. c \in C
    BY <2>1, ElementOfSeq
  <2>. HIDE DEF c
  <2>5. <<by>> \o a \in Seq(C) /\ <<c>> \o b \in Seq(C)
    BY <2>2, <2>4, ConsProperties
  <2>. QED BY <2>3, <2>5 DEF c
<1>. QED BY <1>2, <1>3

\* That function exists.
LEMMA ReplacingExists ==
  ASSUME NEW C, NEW s \in Seq(C), NEW pair, NEW by \in C
  PROVE  \E f : IsReplacing(f, s, pair, by)
<1>. DEFINE N == Len(s)
            S == Seq(C) \X Seq(C)
            step == [n \in 1 .. N |-> [w \in S |-> <<w[2], Replaced(s, pair, by, n, w[1], w[2])>>]]
            first == <<(<<>>), (<<>>)>>
<1>1. N \in Nat /\ first \in S
  BY LenProperties, EmptySeq
<1>2. ASSUME NEW n \in 1 .. N, NEW w \in S
      PROVE  <<w[2], Replaced(s, pair, by, n, w[1], w[2])>> \in S
  <2>1. w[1] \in Seq(C) /\ w[2] \in Seq(C) /\ n \in 0 .. N
    BY <1>1
  <2>2. Replaced(s, pair, by, n, w[1], w[2]) \in Seq(C)
    BY <2>1, ReplacedType
  <2>. QED BY <2>1, <2>2
<1>3. \A n \in 1 .. N, w \in S : step[n][w] = <<w[2], Replaced(s, pair, by, n, w[1], w[2])>>
  OBVIOUS
<1>. HIDE DEF step, N, first
<1>4. Stepper(S, N, first, step)
  <2>1. \A n \in 1 .. N, w \in S : step[n][w] \in S
    BY <1>2, <1>3
  <2>. HIDE DEF S
  <2>. QED BY <1>1, <2>1 DEF Stepper
<1>5. PICK g : Iterates(g, S, N, first, step)
  <2>. HIDE DEF S
  <2>. QED BY <1>4, Recursion
<1>6. /\ g \in [0 .. N -> S] /\ g[0] = first
      /\ \A n \in 1 .. N : g[n] = step[n][g[n - 1]]
  BY <1>5 DEF Iterates
<1>. DEFINE f == [n \in 0 .. N |-> g[n][2]]
<1>7. ASSUME NEW n \in 1 .. N
      PROVE  /\ g[n][1] = g[n - 1][2]
             /\ g[n][2] = Replaced(s, pair, by, n, g[n - 1][1], g[n - 1][2])
  <2>1. n - 1 \in 0 .. N
    BY <1>1
  <2>2. g[n - 1] \in S
    BY <2>1, <1>6
  <2>3. g[n] = <<g[n - 1][2], Replaced(s, pair, by, n, g[n - 1][1], g[n - 1][2])>>
    BY <2>2, <1>3, <1>6
  <2>. QED BY <2>3
<1>8. ASSUME NEW n \in 0 .. N
      PROVE  f[n] = Replaced(s, pair, by, n, f[n - 2], f[n - 1])
  <2>1. CASE n = 0
    <3>1. SubSeq(s, N - 0 + 1, N) = <<>>
      BY <1>1, SubSeqEmpty
    <3>2. Replaced(s, pair, by, 0, f[n - 2], f[n - 1]) = <<>>
      BY <3>1 DEF Replaced, N
    <3>3. g[0][2] = <<>>
      BY <1>6 DEF first
    <3>4. f[0] = g[0][2]
      BY <1>1
    <3>. QED BY <2>1, <3>2, <3>3, <3>4
  <2>2. CASE n = 1
    <3>1. \A a, b, c, d : Replaced(s, pair, by, 1, a, b) = Replaced(s, pair, by, 1, c, d)
      BY DEF Replaced
    <3>2. n \in 1 .. N
      BY <2>2, <1>1
    <3>3. f[n] = g[n][2]
      OBVIOUS
    <3>. HIDE DEF f
    <3>. QED BY <2>2, <3>1, <3>2, <3>3, <1>7
  <2>3. CASE n # 0 /\ n # 1
    <3>1. n \in 1 .. N /\ n - 1 \in 1 .. N /\ n - 1 \in 0 .. N /\ n - 2 \in 0 .. N /\ n - 1 - 1 = n - 2
      BY <2>3, <1>1
    <3>2. f[n] = g[n][2] /\ f[n - 1] = g[n - 1][2] /\ f[n - 2] = g[n - 2][2]
      BY <3>1
    <3>3. g[n][2] = Replaced(s, pair, by, n, g[n - 1][1], g[n - 1][2])
      BY <3>1, <1>7
    <3>4. g[n - 1][1] = g[n - 2][2]
      BY <3>1, <1>7
    <3>. QED BY <3>2, <3>3, <3>4
  <2>. QED BY <2>1, <2>2, <2>3
<1>9. f = [n \in 0 .. N |-> Replaced(s, pair, by, n, f[n - 2], f[n - 1])]
  BY <1>8
<1>10. IsReplacing(f, s, pair, by)
  BY <1>9, IsReplacingIs DEF N
<1>. QED BY <1>10

\* The function ReplacePairs takes its result from.
LEMMA ReplacingIs ==
  ASSUME NEW C, NEW s \in Seq(C), NEW pair, NEW by \in C
  PROVE  \E f : /\ ReplacePairs(s, pair, by) = f[Len(s)]
                /\ \A n \in 0 .. Len(s) :
                     f[n] = Replaced(s, pair, by, n, f[n - 2], f[n - 1])
                /\ \A n \in 0 .. Len(s) : f[n] \in Seq(C)
<1>. DEFINE f == CHOOSE f : IsReplacing(f, s, pair, by)
            N == Len(s)
<1>1. IsReplacing(f, s, pair, by)
  BY ReplacingExists
<1>2. ReplacePairs(s, pair, by) = f[N]
  BY DEF ReplacePairs, IsReplacing
<1>. HIDE DEF f
<1>3. N \in Nat
  BY LenProperties
<1>4. f = [n \in 0 .. N |-> Replaced(s, pair, by, n, f[n - 2], f[n - 1])]
  BY <1>1, IsReplacingIs
<1>5. \A n \in 0 .. N : f[n] = Replaced(s, pair, by, n, f[n - 2], f[n - 1])
  BY <1>4
<1>. DEFINE T == {n \in 0 .. N : f[n] \in Seq(C) /\ (n > 0 => f[n - 1] \in Seq(C))}
<1>6. 0 \in T
  <2>1. 0 \in 0 .. N
    BY <1>3
  <2>. DEFINE a == f[0 - 2]
              b == f[0 - 1]
  <2>2. f[0] = Replaced(s, pair, by, 0, a, b)
    BY <2>1, <1>5
  <2>. HIDE DEF a, b
  <2>3. Replaced(s, pair, by, 0, a, b) \in Seq(C)
    BY <2>1, ReplacedType
  <2>. QED BY <2>1, <2>2, <2>3
<1>7. ASSUME NEW n \in 1 .. N, n - 1 \in T PROVE n \in T
  <2>. DEFINE a == f[n - 2]
              b == f[n - 1]
  <2>1. b \in Seq(C) /\ n \in 0 .. N /\ (n - 1 > 0 => f[n - 1 - 1] \in Seq(C)) /\ n - 1 - 1 = n - 2
    BY <1>7, <1>3
  <2>2. n >= 2 => a \in Seq(C) /\ b \in Seq(C)
    BY <2>1
  <2>3. f[n] = Replaced(s, pair, by, n, a, b)
    BY <2>1, <1>5
  <2>. HIDE DEF a
  <2>4. Replaced(s, pair, by, n, a, b) \in Seq(C)
    <3>. HIDE DEF b
    <3>. QED BY <2>1, <2>2, ReplacedType
  <2>. QED BY <2>1, <2>3, <2>4
<1>. HIDE DEF T, N
<1>8. \A n \in 0 .. N : n \in T
  BY <1>3, <1>6, <1>7, UpTo
<1>9. \A n \in 0 .. N : f[n] \in Seq(C)
  BY <1>8 DEF T
<1>. QED BY <1>2, <1>5, <1>9 DEF N

\* A part of a sequence with an element before it.
LEMMA SubSeqOfCons ==
  ASSUME NEW S, NEW s \in Seq(S), NEW e \in S, NEW a \in Nat \ {0}, NEW b \in Int, b <= Len(s)
  PROVE  SubSeq(<<e>> \o s, a + 1, b + 1) = SubSeq(s, a, b)
<1>. DEFINE u == <<e>> \o s
            a2 == a + 1
            b2 == b + 1
            lhs == SubSeq(u, a2, b2)
            rhs == SubSeq(s, a, b)
            n == IF a <= b THEN b - a + 1 ELSE 0
<1>1. u \in Seq(S) /\ Len(u) = Len(s) + 1 /\ \A k \in 1 .. Len(s) : u[k + 1] = s[k]
  BY ConsProperties
<1>. HIDE DEF u
<1>2. Len(s) \in Nat /\ a2 \in Nat \ {0} /\ b2 \in Int /\ b2 <= Len(u)
      /\ n = (IF a2 <= b2 THEN b2 - a2 + 1 ELSE 0) /\ b2 - a2 + 1 = b - a + 1
  BY <1>1, LenProperties
<1>3. \A i \in 1 .. n : /\ i \in 1 .. b - a + 1 /\ i \in 1 .. b2 - a2 + 1
                        /\ a + i - 1 \in 1 .. Len(s) /\ a2 + i - 1 = (a + i - 1) + 1
  BY <1>2
<1>4. rhs \in Seq(S) /\ Len(rhs) = n /\ \A i \in 1 .. b - a + 1 : rhs[i] = s[a + i - 1]
  BY SubSeqType
<1>. HIDE DEF a2, b2, n
<1>5. lhs \in Seq(S) /\ Len(lhs) = n /\ \A i \in 1 .. b2 - a2 + 1 : lhs[i] = u[a2 + i - 1]
  <2>1. /\ lhs \in Seq(S) /\ Len(lhs) = IF a2 <= b2 THEN b2 - a2 + 1 ELSE 0
        /\ \A i \in 1 .. b2 - a2 + 1 : lhs[i] = u[a2 + i - 1]
    BY <1>1, <1>2, SubSeqType
  <2>. QED BY <2>1, <1>2
<1>. HIDE DEF lhs, rhs
<1>6. ASSUME NEW i \in 1 .. n PROVE lhs[i] = rhs[i]
  <2>. DEFINE k == a + i - 1
  <2>1. /\ i \in 1 .. b - a + 1 /\ i \in 1 .. b2 - a2 + 1
        /\ k \in 1 .. Len(s) /\ a2 + i - 1 = k + 1
    BY <1>3
  <2>2. lhs[i] = u[a2 + i - 1] /\ rhs[i] = s[k]
    BY <2>1, <1>4, <1>5
  <2>. HIDE DEF k
  <2>3. u[k + 1] = s[k]
    BY <2>1, <1>1
  <2>. QED BY <2>1, <2>2, <2>3
<1>7. lhs = rhs
  BY <1>4, <1>5, <1>6, SeqEqual
<1>. QED BY <1>7 DEF lhs, rhs, u, a2, b2

\* The last n elements do not change by what is in front of them.
LEMMA ReplacedOfCons ==
  ASSUME NEW C, NEW s \in Seq(C), NEW c \in C, NEW pair, NEW by,
         NEW n \in 0 .. Len(s), NEW a, NEW b
  PROVE  Replaced(<<c>> \o s, pair, by, n, a, b) = Replaced(s, pair, by, n, a, b)
<1>. DEFINE u == <<c>> \o s
            at == Len(s) - n + 1
            L == Len(s)
<1>1. L \in Nat /\ at \in Nat \ {0} /\ L \in Int /\ L <= Len(s)
  BY LenProperties
<1>2. Len(u) = L + 1 /\ \A k \in 1 .. L : u[k + 1] = s[k]
  BY ConsProperties
<1>3. Len(u) - n + 1 = at + 1
  BY <1>1, <1>2
<1>4. SubSeq(u, at + 1, Len(u)) = SubSeq(s, at, L)
  <2>. HIDE DEF at, L
  <2>1. SubSeq(<<c>> \o s, at + 1, L + 1) = SubSeq(s, at, L)
    BY <1>1, SubSeqOfCons
  <2>. QED BY <2>1, <1>2
<1>5. n >= 2 => SubSeq(u, at + 1, at + 1 + 1) = SubSeq(s, at, at + 1)
  <2>. SUFFICES ASSUME n >= 2 PROVE SubSeq(u, at + 1, at + 1 + 1) = SubSeq(s, at, at + 1)
    OBVIOUS
  <2>. DEFINE b2 == at + 1
  <2>1. b2 \in Int /\ b2 <= Len(s)
    BY <1>1
  <2>. HIDE DEF at, b2
  <2>2. SubSeq(<<c>> \o s, at + 1, b2 + 1) = SubSeq(s, at, b2)
    BY <2>1, <1>1, SubSeqOfCons
  <2>. QED BY <2>2 DEF b2
<1>6. n >= 2 => u[at + 1] = s[at]
  <2>. SUFFICES ASSUME n >= 2 PROVE u[at + 1] = s[at]
    OBVIOUS
  <2>1. at \in 1 .. L
    BY <1>1
  <2>. HIDE DEF at, L, u
  <2>. QED BY <2>1, <1>2
<1>. HIDE DEF u
<1>7. CASE n < 2
  <2>1. Replaced(u, pair, by, n, a, b) = SubSeq(u, at + 1, Len(u))
    BY <1>3, <1>7 DEF Replaced
  <2>2. Replaced(s, pair, by, n, a, b) = SubSeq(s, at, L)
    BY <1>7 DEF Replaced
  <2>. QED BY <2>1, <2>2, <1>4 DEF u
<1>8. CASE ~(n < 2)
  <2>0. n >= 2
    BY <1>8
  <2>1. Replaced(u, pair, by, n, a, b) =
          IF SubSeq(u, at + 1, at + 1 + 1) = pair THEN <<by>> \o a ELSE <<u[at + 1]>> \o b
    BY <1>3, <1>8 DEF Replaced
  <2>2. Replaced(s, pair, by, n, a, b) =
          IF SubSeq(s, at, at + 1) = pair THEN <<by>> \o a ELSE <<s[at]>> \o b
    BY <1>8 DEF Replaced
  <2>3. SubSeq(u, at + 1, at + 1 + 1) = SubSeq(s, at, at + 1) /\ u[at + 1] = s[at]
    BY <2>0, <1>5, <1>6
  <2>4. Replaced(u, pair, by, n, a, b) = Replaced(s, pair, by, n, a, b)
    <3>1. ASSUME NEW x, NEW y, NEW v, NEW w, x = SubSeq(s, at, at + 1), v = s[at],
                 y = SubSeq(u, at + 1, at + 1 + 1), w = u[at + 1]
          PROVE  Replaced(u, pair, by, n, a, b) = Replaced(s, pair, by, n, a, b)
      <4>1. x = y /\ v = w
        BY <3>1, <2>3
      <4>2. Replaced(u, pair, by, n, a, b) = IF y = pair THEN <<by>> \o a ELSE <<w>> \o b
        BY <3>1, <2>1, Zenon
      <4>3. Replaced(s, pair, by, n, a, b) = IF x = pair THEN <<by>> \o a ELSE <<v>> \o b
        BY <3>1, <2>2, Zenon
      <4>. QED BY <4>1, <4>2, <4>3
    <3>. QED BY <3>1
  <2>. QED BY <2>4 DEF u
<1>. QED BY <1>7, <1>8

Recurs(f, s, pair, by) ==
  \A n \in 0 .. Len(s) : f[n] = Replaced(s, pair, by, n, f[n - 2], f[n - 1])

\* What becomes of the end does not depend on what is before it.
LEMMA ReplacingAgrees ==
  ASSUME NEW C, NEW s \in Seq(C), NEW c \in C, NEW pair, NEW by, NEW f, NEW g,
         Recurs(f, <<c>> \o s, pair, by), Recurs(g, s, pair, by)
  PROVE  \A n \in 0 .. Len(s) : f[n] = g[n]
<1>. DEFINE u == <<c>> \o s
            N == Len(s)
            T == {n \in 0 .. N : f[n] = g[n] /\ (n > 0 => f[n - 1] = g[n - 1])}
<1>1. N \in Nat /\ Len(u) = N + 1
  BY LenProperties, ConsProperties
<1>2. \A n \in 0 .. N : n \in 0 .. Len(u)
  BY <1>1
<1>3. \A n \in 0 .. N : /\ f[n] = Replaced(u, pair, by, n, f[n - 2], f[n - 1])
                        /\ g[n] = Replaced(s, pair, by, n, g[n - 2], g[n - 1])
  BY <1>2 DEF Recurs
<1>4. ASSUME NEW n \in 0 .. N
      PROVE  f[n] = Replaced(s, pair, by, n, f[n - 2], f[n - 1])
  <2>. DEFINE a == f[n - 2]
              b == f[n - 1]
  <2>1. f[n] = Replaced(u, pair, by, n, a, b)
    BY <1>3
  <2>. HIDE DEF a, b
  <2>2. Replaced(<<c>> \o s, pair, by, n, a, b) = Replaced(s, pair, by, n, a, b)
    BY ReplacedOfCons
  <2>. QED BY <2>1, <2>2 DEF a, b
<1>5. \A m, w, x, y, z : m < 2 => Replaced(s, pair, by, m, w, x) = Replaced(s, pair, by, m, y, z)
  BY DEF Replaced
<1>. HIDE DEF N, u
<1>6. 0 \in T
  <2>1. 0 \in 0 .. N /\ 0 < 2
    BY <1>1
  <2>2. f[0] = Replaced(s, pair, by, 0, f[0 - 2], f[0 - 1]) /\ g[0] = Replaced(s, pair, by, 0, g[0 - 2], g[0 - 1])
    BY <2>1, <1>3, <1>4
  <2>. QED BY <2>1, <2>2, <1>5
<1>7. ASSUME NEW n \in 1 .. N, n - 1 \in T PROVE n \in T
  <2>1. n \in 0 .. N /\ f[n - 1] = g[n - 1] /\ (n >= 2 => f[n - 1 - 1] = g[n - 1 - 1]) /\ n - 1 - 1 = n - 2
    BY <1>7, <1>1
  <2>2. f[n] = Replaced(s, pair, by, n, f[n - 2], f[n - 1]) /\ g[n] = Replaced(s, pair, by, n, g[n - 2], g[n - 1])
    BY <2>1, <1>3, <1>4
  <2>3. CASE n < 2
    BY <2>1, <2>2, <2>3, <1>5
  <2>4. CASE ~(n < 2)
    <3>1. f[n - 2] = g[n - 2]
      BY <2>1, <2>4
    <3>. QED BY <2>1, <2>2, <3>1
  <2>. QED BY <2>3, <2>4
<1>. HIDE DEF T
<1>8. \A n \in 0 .. N : n \in T
  BY <1>1, <1>6, <1>7, UpTo
<1>. QED BY <1>8 DEF T, N

\* What is replaced is a sequence.
LEMMA ReplaceType ==
  ASSUME NEW C, NEW s \in Seq(C), NEW pair, NEW by \in C
  PROVE  ReplacePairs(s, pair, by) \in Seq(C)
<1>1. Len(s) \in 0 .. Len(s)
  BY LenProperties
<1>. QED BY <1>1, ReplacingIs

\* ReplacePairs by a function that recurs.
LEMMA ReplacingRecurs ==
  ASSUME NEW C, NEW s \in Seq(C), NEW pair, NEW by \in C
  PROVE  \E f : ReplacePairs(s, pair, by) = f[Len(s)] /\ Recurs(f, s, pair, by)
BY ReplacingIs DEF Recurs

\* Nothing is replaced in nothing.
LEMMA ReplaceEmpty ==
  ASSUME NEW pair, NEW by
  PROVE  ReplacePairs(<<>>, pair, by) = <<>>
<1>. DEFINE s == <<>>
            C == {by}
<1>1. s \in Seq(C) /\ Len(s) = 0 /\ by \in C
  BY EmptySeq
<1>. HIDE DEF s, C
<1>2. PICK f : ReplacePairs(s, pair, by) = f[Len(s)] /\ Recurs(f, s, pair, by)
  BY <1>1, ReplacingRecurs
<1>3. f[0] = Replaced(s, pair, by, 0, f[0 - 2], f[0 - 1])
  BY <1>1, <1>2 DEF Recurs
<1>4. f[0] = SubSeq(s, 0 - 0 + 1, 0)
  BY <1>1, <1>3 DEF Replaced
<1>5. SubSeq(s, 0 - 0 + 1, 0) = <<>>
  BY SubSeqEmpty
<1>. QED BY <1>1, <1>2, <1>4, <1>5 DEF s

Apart(s, c, p, q) == s = <<>> \/ c # p \/ s[1] # q
Paired(pair, p, q) == pair = <<p, q>>

\* An element that starts no pair stays.
LEMMA ReplaceSkips ==
  ASSUME NEW C, NEW s \in Seq(C), NEW c \in C, NEW p, NEW q, NEW by \in C,
         Apart(s, c, p, q), NEW one, Single(one, c),
         NEW pair, Paired(pair, p, q)
  PROVE  ReplacePairs(one \o s, pair, by) = one \o ReplacePairs(s, pair, by)
<1>0. one = <<c>> /\ pair = <<p, q>>
  BY DEF Single, Paired
<1>. DEFINE u == <<c>> \o s
            N == Len(s)
            M == N + 1
<1>1. /\ u \in Seq(C) /\ Len(u) = M /\ u[1] = c /\ N \in Nat
      /\ \A k \in 1 .. N : u[k + 1] = s[k]
  BY ConsProperties, LenProperties
<1>. HIDE DEF u
<1>2. PICK f : ReplacePairs(u, pair, by) = f[Len(u)] /\ Recurs(f, u, pair, by)
  <2>. QED BY <1>1, ReplacingRecurs
<1>3. PICK g : ReplacePairs(s, pair, by) = g[N] /\ Recurs(g, s, pair, by)
  <2>. QED BY ReplacingRecurs
<1>4. \A n \in 0 .. N : f[n] = g[n]
  <2>. QED BY <1>2, <1>3, ReplacingAgrees DEF u
<1>5. f[N] = g[N] /\ M \in 0 .. Len(u) /\ M - 1 = N
  BY <1>1, <1>4
<1>6. f[M] = Replaced(u, pair, by, M, f[M - 2], g[N])
  BY <1>2, <1>5 DEF Recurs
<1>7. M = Len(u) /\ Len(u) - M + 1 = 1
  BY <1>1
<1>8. CASE N = 0
  <2>1. s = <<>>
    BY <1>8, EmptySeq
  <2>2. u = <<c>>
    BY <2>1 DEF u
  <2>3. Replaced(u, pair, by, M, f[M - 2], g[N]) = SubSeq(u, 1, Len(u))
    <3>1. M < 2
      BY <1>8
    <3>. HIDE DEF M
    <3>2. Replaced(u, pair, by, M, f[M - 2], g[N]) = SubSeq(u, Len(u) - M + 1, Len(u))
      BY <3>1 DEF Replaced
    <3>. QED BY <3>2, <1>7
  <2>4. SubSeq(u, 1, Len(u)) = u
    BY <1>1, SubSeqFull
  <2>5. ReplacePairs(s, pair, by) = <<>>
    BY <2>1, ReplaceEmpty
  <2>6. <<c>> \o <<>> = <<c>>
    OBVIOUS
  <2>. QED BY <1>2, <1>6, <1>7, <2>2, <2>3, <2>4, <2>5, <2>6, <1>0 DEF u
<1>9. CASE N # 0
  <2>1. s # <<>> /\ ~(M < 2) /\ 1 \in 1 .. N
    BY <1>1, <1>9, EmptySeq
  <2>2. u[1] = c /\ u[1 + 1] = s[1]
    BY <1>1, <2>1
  <2>3. SubSeq(u, 1, 1 + 1) # pair
    <3>. DEFINE v == SubSeq(u, 1, 2)
    <3>1. 1 + 1 <= Len(u) /\ 1 + 1 = 2
      BY <1>1, <1>9
    <3>2. v[1] = u[1] /\ v[2] = u[2]
      <4>1. \A i \in 1 .. 2 : v[i] = u[i]
        BY <3>1, <1>1, Prefix
      <4>. HIDE DEF v
      <4>. QED BY <4>1
    <3>. HIDE DEF v
    <3>3. v[1] # p \/ v[2] # q
      <4>1. v[1] = c /\ v[2] = s[1]
        BY <2>2, <3>2
      <4>2. c # p \/ s[1] # q
        BY <2>1 DEF Apart
      <4>. QED BY <4>1, <4>2
    <3>4. v # <<p, q>>
      BY <3>3
    <3>. QED BY <1>0, <3>1, <3>4 DEF v
  <2>4. Replaced(u, pair, by, M, f[M - 2], g[N]) = <<u[1]>> \o g[N]
    <3>. DEFINE x == SubSeq(u, 1, 1 + 1)
    <3>1. Replaced(u, pair, by, M, f[M - 2], g[N]) =
            IF x = pair THEN <<by>> \o f[M - 2] ELSE <<u[1]>> \o g[N]
      BY <1>7, <2>1 DEF Replaced
    <3>2. x # pair
      BY <2>3
    <3>. HIDE DEF x
    <3>. QED BY <3>1, <3>2
  <2>5. ReplacePairs(u, pair, by) = <<c>> \o ReplacePairs(s, pair, by)
    BY <1>1, <1>2, <1>3, <1>6, <1>7, <2>4
  <2>. QED BY <1>0, <2>5, Zenon DEF u
<1>. QED BY <1>8, <1>9

\* A pair is replaced.
LEMMA ReplaceTakes ==
  ASSUME NEW C, NEW s \in Seq(C), NEW p \in C, NEW q \in C, NEW by \in C,
         NEW pair, Paired(pair, p, q),
         NEW a, Single(a, p), NEW b, Single(b, q), NEW r, Single(r, by)
  PROVE  ReplacePairs(a \o (b \o s), pair, by) = r \o ReplacePairs(s, pair, by)
<1>0. a = <<p>> /\ b = <<q>> /\ r = <<by>> /\ pair = <<p, q>>
  BY DEF Single, Paired
<1>. DEFINE v == <<q>> \o s
            u == <<p>> \o v
            N == Len(s)
            M == N + 2
<1>1. /\ v \in Seq(C) /\ Len(v) = N + 1 /\ v[1] = q /\ N \in Nat
  BY ConsProperties, LenProperties
<1>. HIDE DEF v
<1>2. /\ u \in Seq(C) /\ Len(u) = M /\ u[1] = p
      /\ \A k \in 1 .. Len(v) : u[k + 1] = v[k]
  <2>1. /\ u \in Seq(C) /\ Len(u) = Len(v) + 1 /\ u[1] = p
        /\ \A k \in 1 .. Len(v) : u[k + 1] = v[k]
    BY <1>1, ConsProperties
  <2>. HIDE DEF u
  <2>. QED BY <2>1, <1>1
<1>. HIDE DEF u
<1>3. PICK f : ReplacePairs(u, pair, by) = f[Len(u)] /\ Recurs(f, u, pair, by)
  BY <1>2, ReplacingRecurs
<1>4. PICK g : Recurs(g, v, pair, by)
  BY <1>1, ReplacingRecurs
<1>5. PICK h : ReplacePairs(s, pair, by) = h[N] /\ Recurs(h, s, pair, by)
  BY ReplacingRecurs
<1>6. \A n \in 0 .. Len(v) : f[n] = g[n]
  BY <1>1, <1>3, <1>4, ReplacingAgrees DEF u
<1>7. \A n \in 0 .. N : g[n] = h[n]
  BY <1>4, <1>5, ReplacingAgrees DEF v
<1>8. f[N] = h[N] /\ M \in 0 .. Len(u) /\ M - 2 = N
  BY <1>1, <1>2, <1>6, <1>7
<1>9. f[M] = Replaced(u, pair, by, M, h[N], f[M - 1])
  BY <1>3, <1>8 DEF Recurs
<1>10. M = Len(u) /\ Len(u) - M + 1 = 1 /\ ~(M < 2)
  BY <1>1, <1>2
<1>11. SubSeq(u, 1, 1 + 1) = pair
  <2>. DEFINE w == SubSeq(u, 1, 2)
  <2>1. 2 <= Len(u) /\ 1 \in 1 .. Len(v)
    BY <1>1, <1>2
  <2>2. u[1] = p /\ u[1 + 1] = q
    BY <2>1, <1>1, <1>2
  <2>3. w \in Seq(C) /\ Len(w) = 2 /\ w[1] = u[1] /\ w[2] = u[2]
    <3>1. w \in Seq(C) /\ Len(w) = 2 /\ \A i \in 1 .. 2 : w[i] = u[i]
      BY <2>1, <1>2, Prefix
    <3>. HIDE DEF w
    <3>. QED BY <3>1
  <2>. HIDE DEF w
  <2>4. w = <<p, q>>
    BY <2>2, <2>3
  <2>. QED BY <1>0, <2>4 DEF w
<1>12. Replaced(u, pair, by, M, h[N], f[M - 1]) = <<by>> \o h[N]
  BY <1>10, <1>11 DEF Replaced
<1>13. ReplacePairs(u, pair, by) = <<by>> \o ReplacePairs(s, pair, by)
  BY <1>3, <1>5, <1>9, <1>10, <1>12
<1>. QED BY <1>0, <1>13, Zenon DEF u, v

-----------------------------------------------------------------------------
(* What json.dumps writes and jsonStringValue reads. *)

Letters == Characters \cup {"n"}
Escapes == [ch \in Characters |-> Escape(ch)]
LineEnds == [ch \in Characters |-> IF ch = "newline" THEN <<"backslash", "n">> ELSE <<ch>>]

\* What a character is escaped to.
LEMMA EscapeType == ASSUME NEW ch \in Characters PROVE Escape(ch) \in Seq(Letters)
<1>1. /\ "backslash" \in Letters /\ "n" \in Letters /\ "quote" \in Letters /\ ch \in Letters
  BY DEF Letters, Characters
<1>2. /\ <<"backslash", "n">> \in Seq(Letters) /\ <<"backslash", "quote">> \in Seq(Letters)
      /\ <<"backslash", "backslash">> \in Seq(Letters) /\ <<ch>> \in Seq(Letters)
  BY <1>1
<1>3. Escape(ch) \in {<<"backslash", "n">>, <<"backslash", "quote">>, <<"backslash", "backslash">>, <<ch>>}
  BY DEF Escape
<1>. QED BY <1>2, <1>3

\* Escapes and line ends replace characters by sequences.
LEMMA EscapesAre == Expander(Escapes, Characters, Letters) /\ Expander(LineEnds, Characters, Letters)
<1>1. Escapes \in [Characters -> Seq(Letters)]
  BY EscapeType DEF Escapes
<1>2. "backslash" \in Letters /\ "n" \in Letters /\ Characters \subseteq Letters
  BY DEF Letters, Characters
<1>3. <<"backslash", "n">> \in Seq(Letters) /\ \A ch \in Characters : <<ch>> \in Seq(Letters)
  BY <1>2
<1>4. LineEnds \in [Characters -> Seq(Letters)]
  BY <1>3 DEF LineEnds
<1>. QED BY <1>1, <1>4 DEF Expander

\* json.dumps replaces each character.
LEMMA DumpedIs == ASSUME NEW t \in Seq(Characters) PROVE Dumped(t) = Spread(Escapes, t)
<1>1. \A j \in 1 .. Len(t) : t[j] \in Characters
  BY ElementOfSeq
<1>2. [j \in 1 .. Len(t) |-> Escape(t[j])] = [j \in 1 .. Len(t) |-> Escapes[t[j]]]
  BY <1>1 DEF Escapes
<1>. QED BY <1>2 DEF Dumped, Spread, SpreadParts

\* A text without a backslash is a text.
LEMMA KeptIs == ASSUME NEW s \in Seq(Kept) PROVE s \in Seq(Characters)
BY SeqMonotonic DEF Kept

\* Without a backslash in the text, every quote of what is dumped follows one,
\* and what is dumped does not end with one.
Guarded(v) ==
  /\ v \in Seq(Letters)
  /\ \A k \in 1 .. Len(v) : v[k] = "quote" => k # 1 /\ v[k - 1] = "backslash"
  /\ v # <<>> => v[Len(v)] # "backslash"

\* One more character that is not a quote.
LEMMA GuardedOne ==
  ASSUME NEW v, Guarded(v), NEW ch \in Letters, ch # "quote", ch # "backslash"
  PROVE  Guarded(Append(v, ch))
<1>. DEFINE w == Append(v, ch)
            N == Len(v)
<1>1. v \in Seq(Letters) /\ N \in Nat
  BY LenProperties DEF Guarded
<1>2. w \in Seq(Letters) /\ Len(w) = N + 1 /\ w[N + 1] = ch /\ \A k \in 1 .. N : w[k] = v[k]
  BY <1>1, AppendProperties
<1>3. \A k \in 1 .. N : v[k] = "quote" => k # 1 /\ v[k - 1] = "backslash"
  BY DEF Guarded
<1>. HIDE DEF w, N
<1>4. ASSUME NEW k \in 1 .. N + 1, w[k] = "quote" PROVE k # 1 /\ w[k - 1] = "backslash"
  <2>1. k # N + 1
    BY <1>2, <1>4
  <2>2. k \in 1 .. N
    BY <1>1, <2>1
  <2>3. k # 1 /\ v[k - 1] = "backslash"
    BY <1>2, <1>3, <1>4, <2>2
  <2>4. k - 1 \in 1 .. N
    BY <1>1, <2>2, <2>3
  <2>. QED BY <1>2, <2>3, <2>4
<1>5. Guarded(w)
  BY <1>2, <1>4 DEF Guarded
<1>. QED BY <1>5 DEF w

\* One more escaped character.
LEMMA GuardedTwo ==
  ASSUME NEW v, Guarded(v), NEW ch \in Letters, ch # "backslash"
  PROVE  Guarded(Append(Append(v, "backslash"), ch))
<1>. DEFINE u == Append(v, "backslash")
            w == Append(u, ch)
            N == Len(v)
<1>0. "backslash" \in Letters
  BY DEF Letters, Characters
<1>1. v \in Seq(Letters) /\ N \in Nat
  BY LenProperties DEF Guarded
<1>2. u \in Seq(Letters) /\ Len(u) = N + 1 /\ u[N + 1] = "backslash" /\ \A k \in 1 .. N : u[k] = v[k]
  BY <1>0, <1>1, AppendProperties
<1>. HIDE DEF u
<1>3. /\ w \in Seq(Letters) /\ Len(w) = N + 2 /\ w[N + 2] = ch
      /\ \A k \in 1 .. N + 1 : w[k] = u[k]
  <2>1. /\ w \in Seq(Letters) /\ Len(w) = Len(u) + 1 /\ w[Len(u) + 1] = ch
        /\ \A k \in 1 .. Len(u) : w[k] = u[k]
    BY <1>2, AppendProperties
  <2>2. N + 1 + 1 = N + 2
    BY <1>1
  <2>. HIDE DEF w, N
  <2>. QED BY <2>1, <2>2, <1>2
<1>4. \A k \in 1 .. N : v[k] = "quote" => k # 1 /\ v[k - 1] = "backslash"
  BY DEF Guarded
<1>. HIDE DEF w, N
<1>5. w[N + 1] = "backslash" /\ \A k \in 1 .. N : w[k] = v[k]
  <2>1. N + 1 \in 1 .. N + 1 /\ \A k \in 1 .. N : k \in 1 .. N + 1
    BY <1>1
  <2>. QED BY <2>1, <1>2, <1>3
<1>6. ASSUME NEW k \in 1 .. N + 2, w[k] = "quote" PROVE k # 1 /\ w[k - 1] = "backslash"
  <2>1. CASE k = N + 2
    <3>1. k # 1 /\ k - 1 = N + 1
      BY <2>1, <1>1
    <3>. QED BY <3>1, <1>5
  <2>2. CASE k # N + 2
    <3>1. k # N + 1
      BY <1>5, <1>6
    <3>2. k \in 1 .. N
      BY <1>1, <2>2, <3>1
    <3>3. k # 1 /\ v[k - 1] = "backslash"
      BY <1>4, <1>5, <1>6, <3>2
    <3>4. k - 1 \in 1 .. N
      BY <1>1, <3>2, <3>3
    <3>. QED BY <1>5, <3>3, <3>4
  <2>. QED BY <2>1, <2>2
<1>7. Guarded(w)
  BY <1>3, <1>6 DEF Guarded
<1>. QED BY <1>7 DEF w, u

\* Two more elements.
LEMMA AppendTwo ==
  ASSUME NEW S, NEW s \in Seq(S), NEW a \in S, NEW b \in S
  PROVE  s \o <<a, b>> = Append(Append(s, a), b)
<1>1. <<a>> \in Seq(S) /\ <<a, b>> = Append(<<a>>, b)
  OBVIOUS
<1>2. s \o Append(<<a>>, b) = Append(s \o <<a>>, b)
  BY <1>1, ConcatAppend
<1>3. s \o <<a>> = Append(s, a)
  BY AppendIsConcat
<1>. QED BY <1>1, <1>2, <1>3, Zenon

\* In what is dumped, every quote is escaped.
LEMMA DumpedGuarded == \A s \in Seq(Kept) : Guarded(Spread(Escapes, s))
<1>. DEFINE T == {s \in Seq(Kept) : Guarded(Spread(Escapes, s))}
<1>1. <<>> \in T
  <2>1. <<>> \in Seq(Kept) /\ <<>> \in Seq(Letters) /\ Len(<<>>) = 0
    BY EmptySeq
  <2>2. Guarded(<<>>)
    BY <2>1 DEF Guarded
  <2>. QED BY <2>1, <2>2, SpreadEmpty
<1>2. ASSUME NEW s \in Seq(Kept), NEW ch \in Kept, s \in T PROVE Append(s, ch) \in T
  <2>. DEFINE v == Spread(Escapes, s)
  <2>1. s \in Seq(Characters) /\ ch \in Characters /\ ch # "backslash"
    BY KeptIs DEF Kept
  <2>2. Spread(Escapes, Append(s, ch)) = v \o Escapes[ch] /\ Escapes[ch] = Escape(ch)
    <3>1. Spread(Escapes, Append(s, ch)) = v \o Escapes[ch]
      BY <2>1, EscapesAre, SpreadNext
    <3>. QED BY <3>1, <2>1 DEF Escapes
  <2>3. Guarded(v) /\ v \in Seq(Letters)
    BY <1>2 DEF Guarded
  <2>. HIDE DEF v
  <2>4. /\ "backslash" \in Letters /\ "n" \in Letters /\ "quote" \in Letters /\ ch \in Letters
        /\ "n" # "quote" /\ "n" # "backslash" /\ "quote" # "backslash"
    BY <2>1 DEF Letters, Characters
  <2>5. Guarded(v \o Escape(ch))
    <3>1. CASE ch = "newline"
      <4>1. Escape(ch) = <<"backslash", "n">>
        BY <3>1 DEF Escape
      <4>2. v \o <<"backslash", "n">> = Append(Append(v, "backslash"), "n")
        BY <2>3, <2>4, AppendTwo
      <4>. QED BY <4>1, <4>2, <2>3, <2>4, GuardedTwo
    <3>2. CASE ch = "quote"
      <4>1. Escape(ch) = <<"backslash", "quote">>
        BY <3>2 DEF Escape
      <4>2. v \o <<"backslash", "quote">> = Append(Append(v, "backslash"), "quote")
        BY <2>3, <2>4, AppendTwo
      <4>. QED BY <4>1, <4>2, <2>3, <2>4, GuardedTwo
    <3>3. CASE ch # "newline" /\ ch # "quote"
      <4>1. Escape(ch) = <<ch>>
        BY <3>3, <2>1 DEF Escape
      <4>2. v \o <<ch>> = Append(v, ch)
        BY <2>3, <2>4, AppendIsConcat
      <4>. QED BY <4>1, <4>2, <2>1, <2>3, <2>4, <3>3, GuardedOne
    <3>. QED BY <3>1, <3>2, <3>3
  <2>6. Append(s, ch) \in Seq(Kept)
    BY AppendProperties
  <2>. QED BY <2>2, <2>5, <2>6
<1>. HIDE DEF T
<1>3. \A s \in Seq(Kept) : s \in T
  BY <1>1, <1>2, AppendInduction
<1>. QED BY <1>3 DEF T

\* Two conversions of one character and the rest.
LEMMA TwoAndRest ==
  ASSUME NEW S, NEW a \in S, NEW b \in S, NEW s \in Seq(S)
  PROVE  <<a, b>> \o s = <<a>> \o (<<b>> \o s)
<1>. DEFINE x == <<a>>
            y == <<b>>
            xy == <<a, b>>
<1>1. x \in Seq(S) /\ y \in Seq(S)
  OBVIOUS
<1>2. xy = Append(x, b)
  OBVIOUS
<1>3. Append(x, b) = x \o y
  <2>. HIDE DEF x
  <2>. QED BY <1>1, AppendIsConcat
<1>4. xy \o s = x \o (y \o s)
  <2>. HIDE DEF x, y, xy
  <2>1. (x \o y) \o s = x \o (y \o s)
    BY <1>1, ConcatAssociative
  <2>. QED BY <2>1, <1>2, <1>3
<1>. QED BY <1>4, Zenon

\* What replaces the characters of a text is of Letters.
LEMMA SpreadLetters ==
  ASSUME NEW s \in Seq(Kept)
  PROVE  Spread(Escapes, s) \in Seq(Letters) /\ Spread(LineEnds, s) \in Seq(Letters)
<1>. "letter" \in Characters
  BY DEF Characters
<1>. QED BY KeptIs, EscapesAre, SpreadType

\* The first character of a text and the rest.
LEMMA SpreadOne ==
  ASSUME NEW s \in Seq(Kept), NEW ch \in Kept
  PROVE  /\ Spread(Escapes, <<ch>> \o s) = Escape(ch) \o Spread(Escapes, s)
         /\ Spread(LineEnds, <<ch>> \o s)
              = (IF ch = "newline" THEN <<"backslash", "n">> ELSE <<ch>>) \o Spread(LineEnds, s)
<1>1. s \in Seq(Characters) /\ ch \in Characters
  BY KeptIs DEF Kept
<1>2. Spread(Escapes, <<ch>> \o s) = Escapes[ch] \o Spread(Escapes, s)
  <2>. DEFINE e == Escapes
  <2>0. Expander(e, Characters, Letters)
    BY EscapesAre
  <2>. DEFINE one == <<ch>>
  <2>1. Single(one, ch)
    BY DEF Single
  <2>. HIDE DEF e, one
  <2>2. \A r \in Seq(Characters) : Spread(e, one \o r) = e[ch] \o Spread(e, r)
    BY <1>1, <2>0, <2>1, SpreadCons
  <2>. QED BY <1>1, <2>2, Zenon DEF e, one
<1>3. Spread(LineEnds, <<ch>> \o s) = LineEnds[ch] \o Spread(LineEnds, s)
  <2>. DEFINE e == LineEnds
  <2>0. Expander(e, Characters, Letters)
    BY EscapesAre
  <2>. DEFINE one == <<ch>>
  <2>1. Single(one, ch)
    BY DEF Single
  <2>. HIDE DEF e, one
  <2>2. \A r \in Seq(Characters) : Spread(e, one \o r) = e[ch] \o Spread(e, r)
    BY <1>1, <2>0, <2>1, SpreadCons
  <2>. QED BY <1>1, <2>2, Zenon DEF e, one
<1>4. Escapes[ch] = Escape(ch)
  BY <1>1 DEF Escapes
<1>5. LineEnds[ch] = IF ch = "newline" THEN <<"backslash", "n">> ELSE <<ch>>
  BY <1>1 DEF LineEnds
<1>. QED BY <1>2, <1>3, <1>4, <1>5

\* The first pass of jsonStringValue brings every quote back.
LEMMA QuotesBack ==
  \A s \in Seq(Kept) :
    ReplacePairs(Spread(Escapes, s), <<"backslash", "quote">>, "quote") = Spread(LineEnds, s)
<1>. DEFINE RP(v) == ReplacePairs(v, <<"backslash", "quote">>, "quote")
            T == {s \in Seq(Kept) : RP(Spread(Escapes, s)) = Spread(LineEnds, s)}
<1>0. /\ "backslash" \in Letters /\ "n" \in Letters /\ "quote" \in Letters
      /\ "n" # "quote" /\ "n" # "backslash"
  BY DEF Letters, Characters
<1>takes. \A d \in Seq(Letters) : RP(<<"backslash">> \o (<<"quote">> \o d)) = <<"quote">> \o RP(d)
  <2>. DEFINE p == "backslash"
              q == "quote"
              by == "quote"
              pair == <<p, q>>
              a == <<p>>
              b == <<q>>
              r == <<by>>
  <2>1. p \in Letters /\ q \in Letters /\ by \in Letters
    BY <1>0
  <2>2. Single(a, p) /\ Single(b, q) /\ Single(r, by) /\ Paired(pair, p, q)
    BY DEF Single, Paired
  <2>. HIDE DEF p, q, by, a, b, r, pair
  <2>3. ASSUME NEW d \in Seq(Letters)
        PROVE  ReplacePairs(a \o (b \o d), pair, by) = r \o ReplacePairs(d, pair, by)
    BY <2>1, <2>2, ReplaceTakes
  <2>. QED BY <2>3, Zenon DEF p, q, by, a, b, r, pair, RP
<1>skips. \A d \in Seq(Letters), c \in Letters :
        d = <<>> \/ c # "backslash" \/ d[1] # "quote" => RP(<<c>> \o d) = <<c>> \o RP(d)
  <2>. DEFINE p == "backslash"
              q == "quote"
              by == "quote"
              pair == <<p, q>>
  <2>1. by \in Letters
    BY <1>0
  <2>2. Paired(pair, p, q)
    BY DEF Paired
  <2>. HIDE DEF p, q, by, pair
  <2>3. ASSUME NEW d \in Seq(Letters), NEW c \in Letters, d = <<>> \/ c # p \/ d[1] # q
        PROVE  ReplacePairs(<<c>> \o d, pair, by) = <<c>> \o ReplacePairs(d, pair, by)
    <3>. DEFINE one == <<c>>
    <3>apart. Apart(d, c, p, q)
      BY <2>3 DEF Apart
    <3>1. Single(one, c)
      BY DEF Single
    <3>. HIDE DEF one
    <3>2. ReplacePairs(one \o d, pair, by) = one \o ReplacePairs(d, pair, by)
      BY <2>1, <2>2, <3>1, <3>apart, ReplaceSkips
    <3>. QED BY <3>2, Zenon DEF one
  <2>. QED BY <2>3, Zenon DEF p, q, by, pair, RP
<1>1. <<>> \in T
  <2>1. <<>> \in Seq(Kept)
    BY EmptySeq
  <2>. QED BY <2>1, SpreadEmpty, ReplaceEmpty
<1>holds. \A s \in T : s \in Seq(Kept) /\ RP(Spread(Escapes, s)) = Spread(LineEnds, s)
  OBVIOUS
<1>. HIDE DEF RP
<1>2. ASSUME NEW s \in Seq(Kept), NEW ch \in Kept, s \in T PROVE <<ch>> \o s \in T
  <2>. DEFINE D == Spread(Escapes, s)
              E == Spread(LineEnds, s)
              u == <<ch>> \o s
  <2>1. D \in Seq(Letters) /\ ch \in Letters /\ ch # "backslash" /\ RP(D) = E
    BY <1>2, <1>holds, SpreadLetters DEF Kept, Letters
  <2>2. /\ Spread(Escapes, u) = Escape(ch) \o D
        /\ Spread(LineEnds, u)
             = (IF ch = "newline" THEN <<"backslash", "n">> ELSE <<ch>>) \o E
    BY SpreadOne
  <2>3. u \in Seq(Kept)
    <3>1. <<ch>> \in Seq(Kept)
      OBVIOUS
    <3>. QED BY <3>1, ConcatProperties
  <2>4. E \in Seq(Letters)
    BY SpreadLetters
  <2>. HIDE DEF D, E, u
  <2>5. RP(Spread(Escapes, u)) = Spread(LineEnds, u)
    <3>1. CASE ch = "quote"
      <4>1. Escape(ch) = <<"backslash", "quote">> /\ ch # "newline"
        BY <3>1 DEF Escape
      <4>2. <<"backslash", "quote">> \o D = <<"backslash">> \o (<<"quote">> \o D)
        BY <1>0, <2>1, TwoAndRest
      <4>3. RP(<<"backslash">> \o (<<"quote">> \o D)) = <<"quote">> \o RP(D)
        BY <1>takes, <2>1, Zenon
      <4>5. Spread(Escapes, u) = <<"backslash">> \o (<<"quote">> \o D)
        BY <4>1, <4>2, <2>2, Zenon
      <4>6. Spread(LineEnds, u) = <<"quote">> \o E
        BY <4>1, <2>2, <3>1, Zenon
      <4>. QED BY <4>3, <4>5, <4>6, <2>1, Zenon
    <3>2. CASE ch = "newline"
      <4>. DEFINE v == <<"n">> \o D
      <4>1. Escape(ch) = <<"backslash", "n">>
        BY <3>2 DEF Escape
      <4>2. /\ <<"backslash", "n">> \o D = <<"backslash">> \o v
            /\ <<"backslash", "n">> \o E = <<"backslash">> \o (<<"n">> \o E)
        BY <1>0, <2>1, <2>4, TwoAndRest
      <4>3. v \in Seq(Letters) /\ v[1] = "n"
        BY <1>0, <2>1, ConsProperties
      <4>4. RP(v) = <<"n">> \o RP(D)
        BY <1>0, <1>skips, <2>1
      <4>. HIDE DEF v
      <4>5. RP(<<"backslash">> \o v) = <<"backslash">> \o RP(v)
        BY <1>0, <1>skips, <4>3
      <4>6. Spread(Escapes, u) = <<"backslash">> \o v
        BY <4>1, <4>2, <2>2, Zenon
      <4>7. Spread(LineEnds, u) = <<"backslash">> \o (<<"n">> \o E)
        BY <4>2, <2>2, <3>2, Zenon
      <4>. QED BY <4>4, <4>5, <4>6, <4>7, <2>1, Zenon
    <3>3. CASE ch # "quote" /\ ch # "newline"
      <4>1. Escape(ch) = <<ch>>
        BY <3>3, <2>1 DEF Escape
      <4>2. RP(<<ch>> \o D) = <<ch>> \o RP(D)
        BY <1>0, <1>skips, <2>1
      <4>. QED BY <4>1, <4>2, <2>1, <2>2, <3>3
    <3>. QED BY <3>1, <3>2, <3>3
  <2>6. u \in T
    BY <2>3, <2>5
  <2>. QED BY <2>6 DEF u
<1>. HIDE DEF T
<1>3. \A s \in Seq(Kept) : s \in T
  <2>1. ConsClosed(Kept, T)
    BY <1>2 DEF ConsClosed
  <2>. QED BY <1>1, <2>1, ConsInduction
<1>. QED BY <1>3, Zenon DEF T, RP

\* The second brings every line end back.
LEMMA LineEndsBack ==
  \A s \in Seq(Kept) :
    ReplacePairs(Spread(LineEnds, s), <<"backslash", "n">>, "newline") = s
<1>. DEFINE RP(v) == ReplacePairs(v, <<"backslash", "n">>, "newline")
            T == {s \in Seq(Kept) : RP(Spread(LineEnds, s)) = s}
<1>0. "backslash" \in Letters /\ "n" \in Letters /\ "newline" \in Letters
  BY DEF Letters, Characters
<1>takes. \A d \in Seq(Letters) : RP(<<"backslash">> \o (<<"n">> \o d)) = <<"newline">> \o RP(d)
  <2>. DEFINE p == "backslash"
              q == "n"
              by == "newline"
              pair == <<p, q>>
              a == <<p>>
              b == <<q>>
              r == <<by>>
  <2>1. p \in Letters /\ q \in Letters /\ by \in Letters
    BY <1>0
  <2>2. Single(a, p) /\ Single(b, q) /\ Single(r, by) /\ Paired(pair, p, q)
    BY DEF Single, Paired
  <2>. HIDE DEF p, q, by, a, b, r, pair
  <2>3. ASSUME NEW d \in Seq(Letters)
        PROVE  ReplacePairs(a \o (b \o d), pair, by) = r \o ReplacePairs(d, pair, by)
    BY <2>1, <2>2, ReplaceTakes
  <2>. QED BY <2>3, Zenon DEF p, q, by, a, b, r, pair, RP
<1>skips. \A d \in Seq(Letters), c \in Letters :
        d = <<>> \/ c # "backslash" \/ d[1] # "n" => RP(<<c>> \o d) = <<c>> \o RP(d)
  <2>. DEFINE p == "backslash"
              q == "n"
              by == "newline"
              pair == <<p, q>>
  <2>1. by \in Letters
    BY <1>0
  <2>2. Paired(pair, p, q)
    BY DEF Paired
  <2>. HIDE DEF p, q, by, pair
  <2>3. ASSUME NEW d \in Seq(Letters), NEW c \in Letters, d = <<>> \/ c # p \/ d[1] # q
        PROVE  ReplacePairs(<<c>> \o d, pair, by) = <<c>> \o ReplacePairs(d, pair, by)
    <3>. DEFINE one == <<c>>
    <3>apart. Apart(d, c, p, q)
      BY <2>3 DEF Apart
    <3>1. Single(one, c)
      BY DEF Single
    <3>. HIDE DEF one
    <3>2. ReplacePairs(one \o d, pair, by) = one \o ReplacePairs(d, pair, by)
      BY <2>1, <2>2, <3>1, <3>apart, ReplaceSkips
    <3>. QED BY <3>2, Zenon DEF one
  <2>. QED BY <2>3, Zenon DEF p, q, by, pair, RP
<1>1. <<>> \in T
  <2>1. <<>> \in Seq(Kept)
    BY EmptySeq
  <2>. QED BY <2>1, SpreadEmpty, ReplaceEmpty
<1>holds. \A s \in T : s \in Seq(Kept) /\ RP(Spread(LineEnds, s)) = s
  OBVIOUS
<1>. HIDE DEF RP
<1>2. ASSUME NEW s \in Seq(Kept), NEW ch \in Kept, s \in T PROVE <<ch>> \o s \in T
  <2>. DEFINE E == Spread(LineEnds, s)
              u == <<ch>> \o s
  <2>1. E \in Seq(Letters) /\ ch \in Letters /\ ch # "backslash" /\ RP(E) = s
    BY <1>2, <1>holds, SpreadLetters DEF Kept, Letters
  <2>2. Spread(LineEnds, u) = (IF ch = "newline" THEN <<"backslash", "n">> ELSE <<ch>>) \o E
    BY SpreadOne
  <2>3. u \in Seq(Kept)
    <3>1. <<ch>> \in Seq(Kept)
      OBVIOUS
    <3>. QED BY <3>1, ConcatProperties
  <2>. HIDE DEF E, u
  <2>4. RP(Spread(LineEnds, u)) = u
    <3>1. CASE ch = "newline"
      <4>1. <<"backslash", "n">> \o E = <<"backslash">> \o (<<"n">> \o E)
        BY <1>0, <2>1, TwoAndRest
      <4>2. RP(<<"backslash">> \o (<<"n">> \o E)) = <<"newline">> \o RP(E)
        BY <1>takes, <2>1, Zenon
      <4>3. Spread(LineEnds, u) = <<"backslash">> \o (<<"n">> \o E)
        BY <4>1, <2>2, <3>1, Zenon
      <4>. QED BY <4>2, <4>3, <2>1, <3>1, Zenon DEF u
    <3>2. CASE ch # "newline"
      <4>1. RP(<<ch>> \o E) = <<ch>> \o RP(E)
        BY <1>0, <1>skips, <2>1
      <4>2. Spread(LineEnds, u) = <<ch>> \o E
        BY <2>2, <3>2, Zenon
      <4>. QED BY <4>1, <4>2, <2>1, Zenon DEF u
    <3>. QED BY <3>1, <3>2
  <2>5. u \in T
    BY <2>3, <2>4
  <2>. QED BY <2>5 DEF u
<1>. HIDE DEF T
<1>3. \A s \in Seq(Kept) : s \in T
  <2>1. ConsClosed(Kept, T)
    BY <1>2 DEF ConsClosed
  <2>. QED BY <1>1, <2>1, ConsInduction
<1>. QED BY <1>3, Zenon DEF T, RP

\* What jsonStringValue finds in what json.dumps wrote.
LEMMA ValueIsRead ==
  ASSUME NEW s \in Seq(Kept)
  PROVE  JsonStringValue(Append(Dumped(s), "quote")) = s
<1>. DEFINE v == Spread(Escapes, s)
            json == Append(v, "quote")
            n == Len(v)
            ends == {k \in DOMAIN json :
                      json[k] = "quote" /\ (k = 1 \/ json[k - 1] # "backslash")}
<1>1. Dumped(s) = v
  BY KeptIs, DumpedIs
<1>2. Guarded(v) /\ v \in Seq(Letters) /\ "quote" \in Letters
  BY DumpedGuarded DEF Guarded, Letters, Characters
<1>3. ReplacePairs(ReplacePairs(v, <<"backslash", "quote">>, "quote"),
                   <<"backslash", "n">>, "newline") = s
  BY QuotesBack, LineEndsBack
<1>. HIDE DEF v
<1>4. /\ json \in Seq(Letters) /\ Len(json) = n + 1 /\ json[n + 1] = "quote"
      /\ \A k \in 1 .. n : json[k] = v[k]
  BY <1>2, AppendProperties
<1>5. n \in Nat /\ DOMAIN json = 1 .. n + 1
  BY <1>2, <1>4, LenProperties
<1>6. SubSeq(json, 1, n) = v
  <2>1. json = v \o <<"quote">>
    BY <1>2, AppendIsConcat
  <2>2. <<"quote">> \in Seq(Letters)
    BY <1>2
  <2>3. n <= Len(v)
    BY <1>5
  <2>4. SubSeq(v \o <<"quote">>, 1, n) = SubSeq(v, 1, n)
    <3>. DEFINE q == <<"quote">>
    <3>1. q \in Seq(Letters)
      BY <2>2
    <3>. HIDE DEF q, n
    <3>2. SubSeq(v \o q, 1, n) = SubSeq(v, 1, n)
      BY <3>1, <2>3, <1>2, <1>5, PrefixOfConcat
    <3>. QED BY <3>2 DEF q
  <2>5. SubSeq(v, 1, n) = v
    BY <1>2, SubSeqFull
  <2>. QED BY <2>1, <2>4, <2>5
<1>7. v # <<>> => v[n] # "backslash"
  BY <1>2 DEF Guarded
<1>8. \A k \in 1 .. n : v[k] = "quote" => k # 1 /\ v[k - 1] = "backslash"
  BY <1>2 DEF Guarded
<1>9. n = 0 \/ (n \in 1 .. n /\ v # <<>>)
  BY <1>2, <1>5, EmptySeq
<1>. HIDE DEF json, n
<1>10. n + 1 \in ends
  <2>1. n + 1 \in DOMAIN json
    BY <1>5
  <2>2. n + 1 = 1 \/ json[(n + 1) - 1] # "backslash"
    <3>1. CASE n = 0
      BY <3>1
    <3>2. CASE n \in 1 .. n /\ v # <<>>
      <4>1. (n + 1) - 1 = n
        BY <1>5
      <4>. QED BY <4>1, <3>2, <1>4, <1>7
    <3>. QED BY <3>1, <3>2, <1>9
  <2>. QED BY <2>1, <2>2, <1>4
<1>11. \A k \in ends : k = n + 1
  <2>1. SUFFICES ASSUME NEW k \in ends, k # n + 1 PROVE FALSE
    OBVIOUS
  <2>2. k \in 1 .. n /\ json[k] = "quote" /\ (k = 1 \/ json[k - 1] # "backslash")
    BY <2>1, <1>5
  <2>3. k # 1 /\ v[k - 1] = "backslash"
    BY <2>2, <1>4, <1>8
  <2>4. k - 1 \in 1 .. n
    BY <2>2, <2>3, <1>5
  <2>. QED BY <2>2, <2>3, <2>4, <1>4
<1>12. ends = {n + 1}
  BY <1>10, <1>11
<1>13. Min(ends) = n + 1 /\ ends # {}
  <2>1. Min({n + 1}) = n + 1
    <3>1. n + 1 \in Int
      BY <1>5
    <3>. DEFINE m == n + 1
    <3>. HIDE DEF m
    <3>2. m \in Int => Min({m}) = m
      <4>1. ASSUME m \in Int PROVE \A x \in {m} : m <= x
        BY <4>1
      <4>. QED BY <4>1 DEF Min
    <3>. QED BY <3>1, <3>2 DEF m
  <2>. HIDE DEF ends
  <2>. QED BY <2>1, <1>12
<1>14. Min(ends) - 1 = n
  BY <1>5, <1>13
<1>15. JsonStringValue(json)
         = IF ends = {} THEN <<>>
           ELSE ReplacePairs(ReplacePairs(SubSeq(json, 1, Min(ends) - 1),
                                          <<"backslash", "quote">>, "quote"),
                             <<"backslash", "n">>, "newline")
  BY DEF JsonStringValue
<1>. HIDE DEF ends
<1>16. JsonStringValue(json) = s
  BY <1>3, <1>6, <1>13, <1>14, <1>15
<1>. QED BY <1>1, <1>16 DEF json

-----------------------------------------------------------------------------
(* The lines that are drawn. *)

Visible == [line \in Seq(Plain) |-> IF line = <<>> THEN <<>> ELSE <<line>>]

\* A line is drawn or it is blank.
LEMMA VisibleIs ==
  /\ Expander(Visible, Seq(Plain), Seq(Plain))
  /\ \A line \in Seq(Plain) : Len(Visible[line]) <= 1
<1>. DEFINE S == Seq(Plain)
<1>. HIDE DEF S
<1>1. <<>> \in Seq(S) /\ Len(<<>>) = 0 /\ \A line \in S : <<line>> \in Seq(S) /\ Len(<<line>>) = 1
  BY EmptySeq
<1>2. Visible = [line \in S |-> IF line = <<>> THEN <<>> ELSE <<line>>]
  BY DEF Visible, S
<1>3. Visible \in [S -> Seq(S)]
  BY <1>1, <1>2
<1>4. \A line \in S : Visible[line] = <<>> \/ Visible[line] = <<line>>
  BY <1>2
<1>5. ASSUME NEW line \in S PROVE Len(Visible[line]) <= 1
  <2>1. CASE Visible[line] = <<>>
    <3>1. Len(Visible[line]) = 0
      BY <1>1, <2>1
    <3>. QED BY <3>1
  <2>2. CASE Visible[line] = <<line>>
    <3>1. Len(Visible[line]) = 1
      BY <1>1, <2>2
    <3>. QED BY <3>1
  <2>. QED BY <1>4, <2>1, <2>2
<1>. QED BY <1>3, <1>5 DEF Expander, S

\* The lines that are not blank, line by line.
LEMMA NotBlankIs == ASSUME NEW lines \in Lines PROVE NotBlank(lines) = Spread(Visible, lines)
<1>1. \A i \in 1 .. Len(lines) : lines[i] \in Seq(Plain)
  BY ElementOfSeq DEF Lines
<1>2. DOMAIN lines = 1 .. Len(lines)
  BY LenProperties DEF Lines
<1>3. [i \in DOMAIN lines |-> IF lines[i] = <<>> THEN <<>> ELSE <<lines[i]>>]
        = [i \in 1 .. Len(lines) |-> Visible[lines[i]]]
  BY <1>1, <1>2 DEF Visible
<1>. QED BY <1>3 DEF NotBlank, Spread, SpreadParts

\* No more lines are drawn than there are.
LEMMA NotBlankFits ==
  \A lines \in Lines : NotBlank(lines) \in Lines /\ Len(NotBlank(lines)) <= Len(lines)
<1>. DEFINE S == Seq(Plain)
            e == Visible
            T == {lines \in Seq(S) : Len(Spread(e, lines)) <= Len(lines)}
<1>0. Expander(e, S, S) /\ (\A line \in S : Len(e[line]) <= 1) /\ Lines = Seq(S)
  BY VisibleIs DEF Lines
<1>9. \A lines \in Lines : NotBlank(lines) = Spread(e, lines)
  BY NotBlankIs
<1>. HIDE DEF S, e
<1>1. <<>> \in T
  <2>1. <<>> \in Seq(S) /\ Len(<<>>) = 0
    BY EmptySeq
  <2>2. Spread(e, <<>>) = <<>>
    BY SpreadEmpty
  <2>. QED BY <2>1, <2>2
<1>2. ASSUME NEW lines \in Seq(S), NEW line \in S, lines \in T PROVE Append(lines, line) \in T
  <2>. DEFINE more == Append(lines, line)
              a == Spread(e, lines)
              b == e[line]
  <2>1. more \in Seq(S) /\ Len(more) = Len(lines) + 1 /\ Len(lines) \in Nat
    BY AppendProperties, LenProperties
  <2>2. a \in Seq(S) /\ b \in Seq(S) /\ Spread(e, more) = a \o b
    BY <1>0, SpreadAppend, SpreadType
  <2>3. Len(a) <= Len(lines) /\ Len(b) <= 1
    BY <1>0, <1>2
  <2>. HIDE DEF more, a, b
  <2>4. Len(a \o b) = Len(a) + Len(b) /\ Len(a) \in Nat /\ Len(b) \in Nat
    BY <2>2, ConcatProperties, LenProperties
  <2>5. Len(Spread(e, more)) <= Len(more)
    BY <2>1, <2>2, <2>3, <2>4
  <2>6. more \in T
    BY <2>1, <2>5
  <2>. QED BY <2>6 DEF more
<1>3. \A lines \in Seq(S) : lines \in T
  <2>. HIDE DEF T
  <2>. QED BY <1>1, <1>2, AppendInduction
<1>4. ASSUME NEW lines \in Seq(S) PROVE Spread(e, lines) \in Seq(S)
  <2>1. <<>> \in S
    BY EmptySeq DEF S
  <2>. QED BY <1>0, <2>1, SpreadType
<1>. QED BY <1>0, <1>3, <1>4, <1>9

\* A text of no more than MaxLines lines is drawn line by line.
LEMMA DrawnIs ==
  ASSUME NEW lines \in NonEmpty, Len(lines) <= MaxLines
  PROVE  Drawn(Joined(lines)) = NotBlank(lines)
<1>. DEFINE seen == NotBlank(lines)
            n == Len(seen)
<1>1. Split(Joined(lines)) = lines
  BY SplitJoined
<1>2. seen \in Seq(Seq(Plain)) /\ n <= Len(lines) /\ Len(lines) \in Nat
  BY NotBlankFits, LenProperties DEF NonEmpty, Lines
<1>. HIDE DEF seen
<1>3. n \in Nat /\ MaxLines \in Nat
  BY <1>2, LenProperties, HasRoom DEF Room
<1>4. n <= MaxLines
  BY <1>2, <1>3
<1>5. Min({n, MaxLines}) = n
  BY <1>3, <1>4, MinIs
<1>6. SubSeq(seen, 1, n) = seen
  BY <1>2, SubSeqFull
<1>. HIDE DEF n
<1>7. Drawn(Joined(lines)) = SubSeq(seen, 1, Min({n, MaxLines}))
  BY <1>1 DEF Drawn, seen, n
<1>. QED BY <1>5, <1>6, <1>7 DEF seen

\* A laid out reply without a backslash is drawn as it was laid out.
LEMMA ShownIs ==
  ASSUME NEW t \in Seq(Characters), "backslash" \notin Range(FlattenSeq(FitOled(t)))
  PROVE  Shown(t) = NotBlank(FitOled(t))
<1>. DEFINE fit == FitOled(t)
<1>1. fit \in NonEmpty /\ Len(fit) <= MaxLines
  BY FitsIs, AllLinesType, FitType
<1>. HIDE DEF fit
<1>2. Joined(fit) \in Seq(Kept)
  BY <1>1, JoinedKept DEF NonEmpty, fit
<1>3. JsonStringValue(Append(Dumped(Joined(fit)), "quote")) = Joined(fit)
  BY <1>2, ValueIsRead
<1>4. Drawn(Joined(fit)) = NotBlank(fit)
  BY <1>1, DrawnIs
<1>. QED BY <1>3, <1>4 DEF Shown, fit

\* The invariant says that the reply is shown.
LEMMA ReplyFollows == IInv => ReplyIsShown
<1>. SUFFICES ASSUME IInv PROVE ReplyIsShown
  OBVIOUS
<1>1. text \in Seq(Characters)
  BY DEF IInv, TypeOK
<1>. DEFINE all == AllLines(text)
<1>2. FitOled(text) = Fit(all)
  BY <1>1, FitsIs
<1>3. "backslash" \notin Range(FlattenSeq(Fit(all))) => Shown(text) = NotBlank(Fit(all))
  BY <1>1, <1>2, ShownIs
<1>4. all = FlattenSeq([i \in DOMAIN Split(text) |-> Chopped(Split(text)[i])])
  BY DEF AllLines, Chops
<1>. HIDE DEF all
<1>5. Fit(all) = IF Len(all) <= MaxLines THEN all
                 ELSE Append(SubSeq(all, 1, MaxLines - 1),
                             IF EndsWith(all[MaxLines], "ellipsis") THEN all[MaxLines]
                             ELSE Append(SubSeq(all[MaxLines], 1,
                                                Min({Len(all[MaxLines]), MaxChars - 1})),
                                         "ellipsis"))
  BY DEF Fit, Cut, Ending
<1>. DEFINE fit == Fit(all)
<1>. HIDE DEF fit
<1>6. ReplyIsShown = (phase = "reply" =>
        /\ FitOled(text) = fit
        /\ "backslash" \notin Range(FlattenSeq(fit)) => Shown(text) = NotBlank(fit))
  BY <1>4, <1>5, Zenon DEF ReplyIsShown, fit
<1>. QED BY <1>2, <1>3, <1>6 DEF fit

\* Every reply is laid out as it should be and shown as it was laid out.
THEOREM ReplyIsFaithful == Spec => []ReplyIsShown
BY InductiveInvariant, ReplyFollows, PTL
=============================================================================
