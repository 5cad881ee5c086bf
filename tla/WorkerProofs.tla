----------------------------- MODULE WorkerProofs -----------------------------
(* Theorems about what a model worker runs.                                     *)
(* Of CotMasking and DpActor, for sequences and delimiters of any length and    *)
(* any order of calls: the regions of a sequence and the attention within it,   *)
(* the masking of updates and the perturbation of prompts.                      *)
(* Of RingEngine and BroadcastEngine, for any number of receivers and tensors   *)
(* and any bucket size: both hand each receiver the tensors of the generator,   *)
(* in order and whole; they implement WeightStream.  StreamType, HoldInv and    *)
(* HandedInv are what they have in common; RingInv and BroadcastInv add what is *)
(* between the ranks.                                                           *)
EXTENDS DpActor, RingEngine, BroadcastEngine, SequenceTheorems,
        WellFoundedInduction, TLAPS

Sequences == [Position -> Word \cup {Pad}]

-----------------------------------------------------------------------------
(* Numbers *)

LEMMA LeastExists ==
  ASSUME NEW S \in SUBSET Nat, S # {}
  PROVE  \E i \in S : \A j \in S : i <= j
<1> DEFINE R == OpToRel(<, Nat)
<1>1. IsWellFoundedOn(R, Nat)
  BY NatLessThanWellFounded
<1>2. \A x, y \in Nat : x < y => <<x, y>> \in R
  BY DEF OpToRel
<1> HIDE DEF R
<1>3. PICK x \in S : \A y \in S : ~(<<y, x>> \in R)
  BY <1>1, WFMin
<1>4. ASSUME NEW y \in S PROVE x <= y
  <2>1. x \in Nat /\ y \in Nat
    OBVIOUS
  <2>2. ~(y < x)
    BY <2>1, <1>2, <1>3
  <2> QED BY <2>1, <2>2
<1> QED BY <1>4

LEMMA GreatestExists ==
  ASSUME NEW n \in Nat, NEW S \in SUBSET (1..n), S # {}
  PROVE  \E i \in S : \A j \in S : j <= i
<1> DEFINE T == {t \in Nat : t <= n /\ n - t \in S}
<1>1. \A j \in S : j \in Int /\ j <= n /\ n - j \in T
  <2> TAKE j \in S
  <2>1. j \in 1..n /\ n - (n - j) = j
    OBVIOUS
  <2> QED BY <2>1
<1>2. T \in SUBSET Nat /\ T # {}
  BY <1>1
<1> HIDE DEF T
<1>3. PICK t \in T : \A u \in T : t <= u
  BY <1>2, LeastExists
<1>4. t \in Nat /\ n - t \in S
  BY <1>3 DEF T
<1>5. \A j \in S : j <= n - t
  BY <1>1, <1>3, <1>4
<1> QED BY <1>4, <1>5

LEMMA Lengths ==
  /\ PromptLength \in Nat \ {0} /\ ResponseLength \in Nat \ {0} /\ SeqLen \in Nat
  /\ SeqLen = PromptLength + ResponseLength
BY MaskingAssumption DEF SeqLen
-----------------------------------------------------------------------------
(* Where the delimiter is *)

LEMMA SequenceType ==
  ASSUME NEW s \in Sequences
  PROVE  s \in Seq(Word \cup {Pad}) /\ Len(s) = SeqLen
BY Lengths DEF Sequences, Position

(* _find_subsequence_in_sequence returns the last occurrence, if there is one. *)
LEMMA LastOccurrenceIsLast ==
  ASSUME NEW S, NEW s \in Seq(S), NEW d
  PROVE  \/ /\ LastOccurrence(s, d) = 0
            /\ \A i \in 1..Len(s) : ~OccursAt(s, d, i)
         \/ /\ LastOccurrence(s, d) \in 1..Len(s)
            /\ OccursAt(s, d, LastOccurrence(s, d))
            /\ \A i \in 1..Len(s) : OccursAt(s, d, i) => i <= LastOccurrence(s, d)
<1> DEFINE found == {i \in 1..Len(s) : OccursAt(s, d, i)}
<1>1. CASE found = {}
  BY <1>1 DEF LastOccurrence
<1>2. CASE found # {}
  <2>1. \E i \in found : \A j \in found : j <= i
    <3>1. Len(s) \in Nat /\ found \in SUBSET (1..Len(s))
      OBVIOUS
    <3> HIDE DEF found
    <3> QED BY <1>2, <3>1, GreatestExists
  <2>2. LastOccurrence(s, d) = CHOOSE i \in found : \A j \in found : j <= i
    BY <1>2 DEF LastOccurrence
  <2>3. LastOccurrence(s, d) \in found /\ \A j \in found : j <= LastOccurrence(s, d)
    BY <2>1, <2>2
  <2> QED BY <2>3
<1> QED BY <1>1, <1>2

(* What occurs in the response occurs in the sequence, PromptLength further. *)
LEMMA ResponseOccurrence ==
  ASSUME NEW s \in Sequences, NEW d \in Seq(Word), d # <<>>, NEW i \in 1..ResponseLength
  PROVE  OccursAt(Response(s), d, i) <=> OccursAt(s, d, PromptLength + i)
<1> USE Lengths, SequenceType
<1> DEFINE last == i + Len(d) - 1
<1>1. Len(Response(s)) = ResponseLength
  BY SubSeqProperties DEF Response, Sequences, Position
<1>2. Len(d) \in Nat \ {0}
  BY EmptySeq
<1>3. last \in Int /\ (last <= Len(Response(s)) <=> PromptLength + i + Len(d) - 1 <= Len(s))
  BY <1>1, <1>2
<1>4. ASSUME last <= Len(Response(s))
      PROVE  SubSeq(Response(s), i, last) = SubSeq(s, PromptLength + i, PromptLength + i + Len(d) - 1)
  <2>1. last \in 1..ResponseLength
    BY <1>1, <1>2, <1>4
  <2>2. /\ PromptLength + 1 \in 1..Len(s) /\ SeqLen \in 1..Len(s)
        /\ i \in 1..(SeqLen - (PromptLength + 1) + 1)
        /\ last \in 1..(SeqLen - (PromptLength + 1) + 1)
    BY <2>1
  <2>3. SubSeq(SubSeq(s, PromptLength + 1, SeqLen), i, last)
        = SubSeq(s, PromptLength + 1 + i - 1, PromptLength + 1 + last - 1)
    BY <2>2, SubSeqOfSubSeq
  <2>4. /\ PromptLength + 1 + i - 1 = PromptLength + i
        /\ PromptLength + 1 + last - 1 = PromptLength + i + Len(d) - 1
    BY <1>2
  <2> QED BY <2>3, <2>4 DEF Response
<1> QED BY <1>3, <1>4 DEF OccursAt

(* The delimiters and their lengths *)
LEMMA DelimiterType ==
  /\ 1 \in DOMAIN Delimiters /\ DOMAIN Delimiters \subseteq Nat \ {0}
  /\ Len(Base) \in Nat \ {0} /\ DelimiterLength = Len(Base)
  /\ \A d \in Delimiting : Len(d) = Len(Base)
  /\ substring => \A n \in DOMAIN Delimiters :
                    Delimiters[n] \in Seq(Word) /\ Delimiters[n] # <<>> /\ Delimiters[n] \in Delimiting
<1>1. Delimiters \in Seq(Seq(Word) \ {<<>>}) /\ Delimiters # <<>>
  BY MaskingAssumption
<1>2. DOMAIN Delimiters = 1..Len(Delimiters) /\ Len(Delimiters) \in Nat \ {0}
  BY <1>1, LenProperties, EmptySeq
<1>3. CASE substring
  BY <1>2, <1>3, MaskingAssumption, EmptySeq DEF Base, Delimiting, DelimiterLength, Range
<1>4. CASE ~substring
  BY <1>2, <1>4 DEF Base, Delimiting, DelimiterLength
<1> QED BY <1>3, <1>4

(* The delimiter that is found is one, and in the response unless it is the       *)
(* special token.                                                                   *)
LEMMA DelimiterFound ==
  ASSUME NEW s \in Sequences
  PROVE  \/ DelimiterAt(s) = 0
         \/ /\ DelimiterAt(s) \in Position
            /\ substring => DelimiterAt(s) \in ResponsePart
            /\ \E d \in Delimiting : OccursAt(s, d, DelimiterAt(s))
<1> USE Lengths
<1>1. s \in Seq(Word \cup {Pad}) /\ Len(s) = SeqLen
  BY SequenceType
<1>2. CASE substring
  <2> DEFINE r == Response(s)
             matching == {n \in DOMAIN Delimiters : LastOccurrence(r, Delimiters[n]) > 0}
  <2>1. CASE matching = {}
    BY <1>2, <2>1 DEF DelimiterAt, SubstringAt
  <2>2. CASE matching # {}
    <3> DEFINE n == CHOOSE n \in matching : \A m \in matching : n <= m
    <3>1. n \in matching
      <4>1. matching \in SUBSET Nat
        BY DelimiterType
      <4> HIDE DEF matching
      <4> QED BY <2>2, <4>1, LeastExists
    <3>2. DelimiterAt(s) = PromptLength + LastOccurrence(r, Delimiters[n])
      BY <1>2, <2>2 DEF DelimiterAt, SubstringAt
    <3> HIDE DEF n
    <3>3. r \in Seq(Word \cup {Pad}) /\ Len(r) = ResponseLength
      BY <1>1, SubSeqProperties, SMTT(20) DEF Response, Sequences, Position
    <3>4. /\ LastOccurrence(r, Delimiters[n]) \in 1..ResponseLength
          /\ OccursAt(r, Delimiters[n], LastOccurrence(r, Delimiters[n]))
      BY <3>1, <3>3, LastOccurrenceIsLast
    <3>5. OccursAt(s, Delimiters[n], DelimiterAt(s)) /\ Delimiters[n] \in Delimiting
      BY <1>1, <1>2, <3>1, <3>2, <3>4, DelimiterType, ResponseOccurrence
    <3> QED BY <3>2, <3>4, <3>5 DEF ResponsePart, Position
  <2> QED BY <2>1, <2>2
<1>3. CASE ~substring
  <2> DEFINE i == LastOccurrence(s, <<EndThink>>)
  <2>1. DelimiterAt(s) = i
    BY <1>3 DEF DelimiterAt, SpecialTokenAt
  <2>2. i = 0 \/ (i \in 1..SeqLen /\ OccursAt(s, <<EndThink>>, i))
    BY <1>1, LastOccurrenceIsLast
  <2> QED BY <1>3, <2>1, <2>2 DEF Delimiting, Position
<1> QED BY <1>2, <1>3

(* No base delimiter of the response begins after it. *)
LEMMA DelimiterLast ==
  ASSUME NEW s \in Sequences, NEW i \in ResponsePart, OccursAt(s, Base, i)
  PROVE  DelimiterAt(s) >= i
<1> USE Lengths
<1>1. s \in Seq(Word \cup {Pad}) /\ Len(s) = SeqLen
  BY SequenceType
<1>2. i \in 1..SeqLen /\ i - PromptLength \in 1..ResponseLength /\ i = PromptLength + (i - PromptLength)
  BY DEF ResponsePart
<1>3. CASE substring
  <2> DEFINE r == Response(s)
             matching == {n \in DOMAIN Delimiters : LastOccurrence(r, Delimiters[n]) > 0}
  <2>1. r \in Seq(Word \cup {Pad}) /\ Len(r) = ResponseLength
    BY <1>1, SubSeqProperties, SMTT(30) DEF Response, Sequences, Position
  <2>2. OccursAt(r, Delimiters[1], i - PromptLength)
    BY <1>1, <1>2, <1>3, DelimiterType, ResponseOccurrence DEF Base
  <2>3. /\ LastOccurrence(r, Delimiters[1]) \in Nat
        /\ LastOccurrence(r, Delimiters[1]) >= i - PromptLength
    BY <1>2, <2>1, <2>2, LastOccurrenceIsLast
  <2>4. 1 \in matching /\ \A m \in matching : 1 <= m
    BY <1>2, <2>3, DelimiterType
  <2>5. (CHOOSE n \in matching : \A m \in matching : n <= m) = 1
    <3>1. matching \subseteq Nat
      BY DelimiterType
    <3> HIDE DEF matching
    <3>2. \A n \in matching : (\A m \in matching : n <= m) <=> n = 1
      BY <2>4, <3>1
    <3> QED BY <2>4, <3>2
  <2>6. DelimiterAt(s) = PromptLength + LastOccurrence(r, Delimiters[1])
    BY <1>3, <2>4, <2>5 DEF DelimiterAt, SubstringAt
  <2> QED BY <1>2, <2>3, <2>6
<1>4. CASE ~substring
  BY <1>1, <1>2, <1>4, LastOccurrenceIsLast DEF Base, DelimiterAt, SpecialTokenAt
<1> QED BY <1>3, <1>4

LEMMA SpecialTokenOccurs ==
  ASSUME NEW s \in Sequences, NEW i \in Position
  PROVE  OccursAt(s, <<EndThink>>, i) <=> s[i] = EndThink
<1> USE Lengths DEF Position
<1>1. s \in Seq(Word \cup {Pad}) /\ Len(s) = SeqLen
  BY SequenceType
<1>2. Len(<<EndThink>>) = 1 /\ i + 1 - 1 = i /\ <<EndThink>>[1] = EndThink
  OBVIOUS
<1>3. SubSeq(s, i, i) = <<s[i]>>
  <2>1. /\ i \in Int /\ s[i] \in Word \cup {Pad}
        /\ \A k \in i..i : s[k] \in Word \cup {Pad}
    BY <1>1
  <2>2. /\ SubSeq(s, i, i) \in Seq(Word \cup {Pad}) /\ Len(SubSeq(s, i, i)) = 1
        /\ SubSeq(s, i, i)[1] = s[i]
    <3>1. i <= i /\ i - i + 1 = 1 /\ i + 1 - 1 = i /\ 1 \in 1..i - i + 1
      BY <2>1
    <3>2. /\ SubSeq(s, i, i) \in Seq(Word \cup {Pad})
          /\ Len(SubSeq(s, i, i)) = IF i <= i THEN i - i + 1 ELSE 0
          /\ \A k \in 1..i - i + 1 : SubSeq(s, i, i)[k] = s[i + k - 1]
      BY <2>1, SubSeqProperties
    <3> QED
      BY <3>1, <3>2
  <2>3. <<s[i]>> \in Seq(Word \cup {Pad}) /\ Len(<<s[i]>>) = 1 /\ <<s[i]>>[1] = s[i]
    BY <2>1
  <2>4. \A k \in 1..Len(SubSeq(s, i, i)) : SubSeq(s, i, i)[k] = <<s[i]>>[k]
    BY <2>2, <2>3
  <2> QED
    BY <2>2, <2>3, <2>4, SeqEqual
<1>4. OccursAt(s, <<EndThink>>, i) <=> <<s[i]>> = <<EndThink>>
  BY <1>1, <1>2, <1>3 DEF OccursAt
<1> QED BY <1>4
-----------------------------------------------------------------------------
(* Regions and attention *)

InputInv == input \in Sequences /\ substring \in BOOLEAN /\ valid \subseteq Position

LEMMA InputInitHolds ==
  ASSUME InputInit
  PROVE  InputInv
<1>1. PICK from \in PromptPart, to \in ResponsePart :
        input \in {s \in Sequences : \A p \in Position : s[p] = Pad <=> p \notin from..to}
  BY DEF InputInit, Inputs, Sequences
<1>2. substring \in BOOLEAN
  BY MaskingAssumption DEF InputInit
<1> QED BY <1>1, <1>2 DEF InputInit, InputInv

LEMMA EndOfDelimiter ==
  ASSUME NEW s \in Sequences, DelimiterAt(s) > 0
  PROVE  /\ DelimiterAt(s) \in Position /\ DelimiterAt(s) \in Nat
         /\ DelimiterEnd(s) \in Nat /\ DelimiterEnd(s) >= DelimiterAt(s)
         /\ substring => DelimiterAt(s) > PromptLength
         /\ ~substring => DelimiterEnd(s) = DelimiterAt(s)
<1>1. /\ DelimiterAt(s) \in Position /\ DelimiterAt(s) \in Nat
      /\ substring => DelimiterAt(s) > PromptLength
  BY Lengths, DelimiterFound DEF ResponsePart, Position
<1>2. DelimiterLength \in Nat \ {0} /\ (~substring => DelimiterLength = 1)
  BY DelimiterType DEF DelimiterLength
<1> QED BY <1>1, <1>2 DEF DelimiterEnd

(* The prompt tokens that are taken for answer are the strays. *)
LEMMA PromptAnswer ==
  ASSUME InputInv, NEW p \in PromptPart
  PROVE  p \in AnswerMask(input) <=> p \in Strays
<1> USE Lengths
<1>1. /\ p \in Position /\ p \in Nat /\ p <= PromptLength /\ input \in Sequences
      /\ \A i \in Position : i \in Nat
  BY DEF PromptPart, Position, InputInv
<1>2. CASE substring
  <2>1. p \notin Strays
    BY <1>2 DEF Strays
  <2>2. CASE DelimiterAt(input) > 0
    BY <1>1, <1>2, <2>1, <2>2, EndOfDelimiter DEF AnswerMask
  <2>3. CASE ~(DelimiterAt(input) > 0)
    BY <1>1, <2>1, <2>3 DEF AnswerMask
  <2> QED BY <2>2, <2>3
<1>3. CASE ~substring
  <2> DEFINE m == LastOccurrence(input, <<EndThink>>)
  <2>1. DelimiterAt(input) = m
    BY <1>3 DEF DelimiterAt, SpecialTokenAt
  <2>2. input \in Seq(Word \cup {Pad}) /\ Len(input) = SeqLen
    BY <1>1, SequenceType
  <2>3. \/ m = 0 /\ \A i \in Position : input[i] # EndThink
        \/ /\ m \in Position /\ input[m] = EndThink
           /\ \A i \in Position : input[i] = EndThink => i <= m
    <3>1. \A i \in Position : OccursAt(input, <<EndThink>>, i) <=> input[i] = EndThink
      BY <1>1, SpecialTokenOccurs
    <3>2. Position = 1..Len(input)
      BY <2>2 DEF Position
    <3> QED BY <2>2, <3>1, <3>2, LastOccurrenceIsLast
  <2> HIDE DEF m
  <2>4. CASE m = 0
    <3>1. p \notin AnswerMask(input)
      BY <1>1, <2>1, <2>4 DEF AnswerMask
    <3>2. \A i \in 1..p - 1 : i \in Position
      BY <1>1 DEF Position
    <3>3. \A i \in Position : input[i] # EndThink
      BY <2>3, <2>4 DEF Position
    <3> QED BY <3>1, <3>2, <3>3 DEF Strays
  <2>5. CASE m # 0
    <3>1. /\ m \in Position /\ m \in Nat /\ m > 0 /\ input[m] = EndThink
          /\ \A i \in Position : input[i] = EndThink => i <= m
      BY <2>3, <2>5, <1>1 DEF Position
    <3>2. DelimiterEnd(input) = m
      BY <1>1, <1>3, <2>1, <3>1, EndOfDelimiter
    <3>3. p \in AnswerMask(input) <=> m < p
      BY <1>1, <2>1, <3>1, <3>2 DEF AnswerMask
    <3>4. ASSUME m < p PROVE p \in Strays
      <4>1. m \in 1..p - 1
        BY <1>1, <3>1, <3>4
      <4>2. \A i \in p..SeqLen : i \in Position /\ ~(i <= m)
        BY <1>1, <3>1, <3>4 DEF Position
      <4> QED BY <1>3, <3>1, <4>1, <4>2 DEF Strays
    <3>5. ASSUME ~(m < p) PROVE p \notin Strays
      <4>1. m \in p..SeqLen
        BY <1>1, <3>1, <3>5 DEF Position
      <4> QED BY <3>1, <4>1 DEF Strays
    <3> QED BY <3>3, <3>4, <3>5
  <2> QED BY <2>4, <2>5
<1> QED BY <1>2, <1>3

LEMMA Partition ==
  ASSUME InputInv
  PROVE  RegionsPartition
<1>1. PromptLength \in Nat /\ \A p \in Position : p \in Nat
  BY Lengths DEF Position
<1>2. PromptMask(input) \cap AnswerMask(input) = Strays
  <2>1. PromptMask(input) = PromptPart /\ Strays \subseteq PromptPart
    BY Lengths DEF PromptMask, PromptPart, Position, Strays
  <2> QED BY <2>1, PromptAnswer
<1>3. /\ PromptMask(input) \cup CotMask(input) \cup AnswerMask(input) = Position
      /\ CotMask(input) \cap (PromptMask(input) \cup AnswerMask(input)) = {}
  <2>1. CASE DelimiterAt(input) > 0
    <3>1. DelimiterEnd(input) \in Nat
      BY <2>1, EndOfDelimiter DEF InputInv
    <3> HIDE DEF DelimiterEnd
    <3> QED BY <1>1, <2>1, <3>1 DEF PromptMask, CotMask, AnswerMask
  <2>2. CASE ~(DelimiterAt(input) > 0)
    BY <1>1, <2>2 DEF PromptMask, CotMask, AnswerMask
  <2> QED BY <2>1, <2>2
<1> QED BY <1>2, <1>3 DEF RegionsPartition

LEMMA GradientHolds ==
  ASSUME InputInv
  PROVE  GradientIsCot
BY Partition DEF RegionsPartition, GradientIsCot, Flowing

(* A token past all delimiters is a token of the answer, *)
LEMMA PastIsAnswer ==
  ASSUME InputInv, NEW q \in ResponsePart, PastDelimiters(q)
  PROVE  q \in AnswerMask(input)
<1> USE Lengths DEF ResponsePart, Position
<1>1. CASE DelimiterAt(input) > 0
  <2>1. PICK d \in Delimiting : OccursAt(input, d, DelimiterAt(input))
    BY <1>1, DelimiterFound DEF InputInv
  <2>2. /\ DelimiterAt(input) \in Position /\ DelimiterEnd(input) \in Nat
        /\ substring => DelimiterAt(input) > PromptLength
        /\ ~substring => DelimiterEnd(input) = DelimiterAt(input)
    BY <1>1, EndOfDelimiter DEF InputInv
  <2>3. CASE DelimiterAt(input) \in ResponsePart
    <3>1. q > DelimiterAt(input) + Len(d) - 1
      BY <2>1, <2>3 DEF PastDelimiters
    <3>2. q > DelimiterEnd(input)
      BY <2>2, <2>3, <3>1, DelimiterType DEF DelimiterEnd
    <3> QED BY <1>1, <3>2 DEF AnswerMask
  <2>4. CASE DelimiterAt(input) \notin ResponsePart
    <3>1. DelimiterEnd(input) <= PromptLength
      BY <2>2, <2>4
    <3>2. q > DelimiterEnd(input)
      BY <2>2, <3>1
    <3> QED BY <1>1, <3>2 DEF AnswerMask
  <2> QED BY <2>3, <2>4
<1>2. CASE ~(DelimiterAt(input) > 0)
  BY <1>2 DEF AnswerMask
<1> QED BY <1>1, <1>2

(* and one of the prompt, or up to a base delimiter, is not. *)
LEMMA ChainIsNoAnswer ==
  ASSUME InputInv, NEW q \in Position,
         \/ q \in PromptPart \ Strays
         \/ \E i \in ResponsePart : OccursAt(input, Base, i) /\ q <= i + Len(Base) - 1
  PROVE  q \notin AnswerMask(input)
<1> USE Lengths
<1>1. CASE q \in PromptPart \ Strays
  BY <1>1, PromptAnswer
<1>2. ASSUME NEW i \in ResponsePart, OccursAt(input, Base, i), q <= i + Len(Base) - 1
      PROVE  q \notin AnswerMask(input)
  <2>1. DelimiterAt(input) >= i
    BY <1>2, DelimiterLast DEF InputInv
  <2>2. DelimiterAt(input) \in ResponsePart
    BY <2>1, DelimiterFound DEF InputInv, ResponsePart, Position
  <2>3. DelimiterAt(input) > 0 /\ q <= DelimiterEnd(input)
    BY <1>2, <2>1, <2>2, DelimiterType DEF DelimiterEnd, ResponsePart, Position
  <2>4. q \in Nat /\ DelimiterEnd(input) \in Nat
    BY <2>3, EndOfDelimiter DEF InputInv, Position
  <2> QED BY <2>3, <2>4 DEF AnswerMask
<1> QED BY <1>1, <1>2

(* What attention a call of the model may have been made with *)
ForwardInv ==
  /\ forward.masked \in BOOLEAN
  /\ forward.masked => forward.attention = CotAttention(input, valid)
  /\ ~forward.masked => forward = NoForward \/ forward.attention = PlainAttention(valid)

LEMMA MasksFollow ==
  ASSUME InputInv, ForwardInv
  PROVE  MasksAgree
<1> USE DEF InputInv
<1>1. AnswerBlind
  <2> SUFFICES ASSUME forward.masked, NEW e \in forward.attention,
                      e[1] \in ResponsePart, PastDelimiters(e[1]), e[2] \in PromptPart
               PROVE  FALSE
    BY DEF AnswerBlind
  <2>1. e \in Position \X Position /\ e \notin Blocked(input)
    BY DEF ForwardInv, CotAttention, Causal
  <2>2. e[1] \in AnswerMask(input)
    BY PastIsAnswer
  <2>3. e[2] \in PromptMask(input)
    BY <2>1, Lengths DEF PromptPart, PromptMask
  <2> QED BY <2>1, <2>2, <2>3 DEF Blocked
<1>2. ChainSees
  <2> SUFFICES ASSUME forward.masked, NEW q \in Position, NEW k \in valid, k <= q,
                      \/ q \in PromptPart \ Strays
                      \/ \E i \in ResponsePart : OccursAt(input, Base, i) /\ q <= i + Len(Base) - 1
               PROVE  <<q, k>> \in forward.attention
    BY DEF ChainSees
  <2>1. <<q, k>> \in Causal
    BY DEF Causal
  <2>2. <<q, k>> \notin Blocked(input)
    BY ChainIsNoAnswer DEF Blocked
  <2> QED BY <2>1, <2>2 DEF ForwardInv, CotAttention
<1>3. NoEmptyRow
  <2> SUFFICES ASSUME forward # NoForward, NEW q \in valid, ~(forward.masked /\ q \in Strays)
               PROVE  <<q, q>> \in forward.attention
    BY DEF NoEmptyRow
  <2>1. <<q, q>> \in Causal
    BY Lengths DEF Causal, Position
  <2>2. <<q, q>> \notin Blocked(input) \/ ~forward.masked
    BY Partition DEF RegionsPartition, Blocked
  <2> QED BY <2>1, <2>2 DEF ForwardInv, CotAttention, PlainAttention
<1> QED BY <1>1, <1>2, <1>3, Partition, GradientHolds DEF MasksAgree

MasksInv == InputInv /\ ForwardInv

LEMMA MasksInvInductive == Spec => []MasksInv
<1>1. Init => MasksInv
  <2>1. Init => InputInv
    BY InputInitHolds DEF Init
  <2>2. Init => ForwardInv
    BY DEF Init, ForwardInv, NoForward
  <2> QED BY <2>1, <2>2 DEF MasksInv
<1>2. MasksInv /\ [Next]_vars => MasksInv'
  <2> SUFFICES ASSUME MasksInv, [Next]_vars PROVE MasksInv'
    OBVIOUS
  <2>1. InputInv'
    <3>1. UNCHANGED inputVars
      BY DEF Next, vars, ComputeLogProb, UpdatePolicy, RegisterHook, CallModel, Return
    <3> QED BY <3>1 DEF inputVars, MasksInv, InputInv
  <2>2. CASE CallModel
    <3>1. Masking \in BOOLEAN /\ UNCHANGED <<substring, input, valid>>
      BY <2>2, ActorAssumption DEF CallModel, inputVars, Masking
    <3>2. CotAttention(input, valid)' = CotAttention(input, valid)
      BY <3>1 DEF CotAttention, Blocked, AnswerMask, PromptMask, DelimiterEnd, DelimiterAt,
                  DelimiterLength, SubstringAt, SpecialTokenAt
    <3>3. PlainAttention(valid)' = PlainAttention(valid)
      BY <3>1 DEF PlainAttention
    <3>4. /\ forward'.masked = Masking
          /\ forward'.attention = IF Masking THEN CotAttention(input, valid) ELSE PlainAttention(valid)
      BY <2>2 DEF CallModel
    <3> QED BY <2>1, <3>1, <3>2, <3>3, <3>4 DEF MasksInv, ForwardInv
  <2>3. CASE UNCHANGED <<inputVars, forward>>
    <3>1. UNCHANGED <<substring, input, valid, forward>>
      BY <2>3 DEF inputVars
    <3> QED BY <2>1, <3>1 DEF MasksInv, ForwardInv, CotAttention, Blocked, AnswerMask, PromptMask,
              DelimiterEnd, DelimiterAt, DelimiterLength, SubstringAt, SpecialTokenAt, PlainAttention
  <2> QED BY <2>2, <2>3 DEF Next, vars, ComputeLogProb, UpdatePolicy, RegisterHook, Return
<1> QED BY <1>1, <1>2, PTL DEF Spec

(* For any lengths, delimiters and sequences, the regions partition a sequence *)
(* and both masks follow them; only in special token mode, when the prompt has  *)
(* the token and the response has not, are the prompt's tokens past it taken for  *)
(* answer, and no others (find_special_token_positions,                            *)
(* create_cot_attention_mask, update_policy).                                  *)
THEOREM MasksAlwaysAgree == Spec => []MasksAgree
BY MasksInvInductive, MasksFollow, PTL DEF MasksInv
-----------------------------------------------------------------------------
(* The actor's calls *)

(* What the methods leave behind and what they may find: the override is on    *)
(* only within a call that asked for it, the module is in training mode in an  *)
(* update and in no other call, and the hook on the layer is that of the pass  *)
(* to come.                                                                    *)
CallInv ==
  /\ call \in {"idle", "logProb", "update"} /\ disable \in BOOLEAN /\ pep \in Perturbations
  /\ passes \in Nat
  /\ saved = "unset"
  /\ override = IF call = "logProb" /\ disable /\ UseCotMasking THEN "off" ELSE "unset"
  /\ call = "update" => training = TRUE
  /\ call = "logProb" => training = FALSE
HookInv ==
  /\ hooks \subseteq {NextPass}
  /\ hooks # {} => call = "update" /\ pep.on /\ Hooked(NextPass)

(* What a perturbed call of the model was for *)
PassInv ==
  /\ UpdatePerturbed
  /\ forward.perturbed # {} =>
       /\ forward.by = "update" /\ pep.on
       /\ forward.kind = "main" => ~pep.dual
       /\ forward.perturbed = PromptPart

ActorInv == CallInv /\ HookInv /\ PassInv

LEMMA ActorInvInductive ==
  ASSUME RemovePadding = FALSE
  PROVE  Spec => []ActorInv
<1> USE DEF Kind
<1>1. Init => ActorInv
  <2>1. ASSUME Init PROVE CallInv
    <3>1. call = "idle" /\ disable \in BOOLEAN /\ passes \in Nat
      BY <2>1 DEF Init
    <3>2. call # "logProb" /\ call # "update"
      BY <3>1
    <3>3. pep \in Perturbations /\ saved = "unset" /\ override = "unset"
      BY <2>1 DEF Init
    <3> QED BY <3>1, <3>2, <3>3 DEF CallInv
  <2>2. Init => HookInv
    BY DEF Init, HookInv
  <2>3. Init => PassInv
    <3>1. NoForward.by = "none" /\ NoForward.perturbed = {}
      BY DEF NoForward
    <3> QED BY <3>1 DEF Init, PassInv, UpdatePerturbed
  <2> QED BY <2>1, <2>2, <2>3 DEF ActorInv
<1>2. ActorInv /\ [Next]_vars => ActorInv'
  <2> SUFFICES ASSUME ActorInv, [Next]_vars PROVE ActorInv'
    OBVIOUS
  <2> USE DEF ActorInv
  <2>0. \A p \in Perturbations : p.on \in BOOLEAN /\ p.dual \in BOOLEAN /\ p.steps \in Nat
    BY ActorAssumption
  <2>1. ASSUME NEW d \in BOOLEAN, ComputeLogProb(d) PROVE ActorInv'
    <3>1. CallInv'
      BY <2>1 DEF ComputeLogProb, Evaluating, CallInv
    <3>2. hooks' = {}
      BY <2>1 DEF ComputeLogProb, HookInv
    <3>3. PassInv'
      BY <2>1 DEF ComputeLogProb, PassInv, UpdatePerturbed
    <3> QED BY <3>1, <3>2, <3>3 DEF HookInv
  <2>2. CASE UpdatePolicy
    <3>1. CallInv'
      BY <2>2 DEF UpdatePolicy, CallInv
    <3>2. hooks' = {}
      BY <2>2 DEF UpdatePolicy, HookInv
    <3>3. PassInv'
      BY <2>2 DEF UpdatePolicy, PassInv, UpdatePerturbed
    <3> QED BY <3>1, <3>2, <3>3 DEF HookInv
  <2>3. CASE RegisterHook
    <3>1. CallInv'
      BY <2>3 DEF RegisterHook, CallInv, callVars
    <3>2. NextPass' = NextPass /\ (Hooked(NextPass) <=> Hooked(NextPass)')
      BY <2>3 DEF RegisterHook, callVars, NextPass, Hooked, Perturbing
    <3>3. call = "update" /\ pep.on /\ Hooked(NextPass)
      BY <2>3 DEF RegisterHook, CallInv, Hooked, Perturbing
    <3>4. HookInv'
      BY <2>3, <3>2, <3>3 DEF RegisterHook, HookInv, callVars
    <3>5. PassInv'
      BY <2>3 DEF RegisterHook, PassInv, UpdatePerturbed
    <3> QED BY <3>1, <3>4, <3>5
  <2>4. CASE CallModel
    <3>1. CallInv'
      BY <2>4 DEF CallModel, CallInv, callVars
    <3>2. hooks' = {}
      BY <2>4 DEF CallModel, Removed, HookInv
    <3>3. /\ forward'.by = call /\ forward'.kind = NextPass /\ pep' = pep
          /\ forward'.perturbed = IF hooks = {} THEN {} ELSE PromptPart
          /\ Hooked(NextPass) => hooks # {}
      BY <2>4 DEF CallModel
    <3>4. PromptPart # {}
      BY Lengths DEF PromptPart
    <3>5. UpdatePerturbed'
      BY <3>3, <3>4, <2>0 DEF UpdatePerturbed, Hooked, Perturbing, CallInv
    <3>6. PassInv'
      BY <3>3, <3>5 DEF PassInv, HookInv, Hooked
    <3> QED BY <3>1, <3>2, <3>6 DEF HookInv
  <2>5. CASE Return
    <3>1. CallInv'
      BY <2>5 DEF Return, Restored, CallInv
    <3>2. hooks' = {}
      BY <2>5 DEF Return, Removed, HookInv
    <3>3. PassInv'
      BY <2>5 DEF Return, PassInv, UpdatePerturbed
    <3> QED BY <3>1, <3>2, <3>3 DEF HookInv
  <2>6. CASE UNCHANGED vars
    BY <2>6 DEF vars, callVars, CallInv, HookInv, PassInv, UpdatePerturbed, NextPass, Hooked, Perturbing
  <2> QED BY <2>1, <2>2, <2>3, <2>4, <2>5, <2>6 DEF Next
<1> QED BY <1>1, <1>2, PTL DEF Spec

(* Without use_remove_padding every policy update is masked, and no forward    *)
(* pass that asked for no mask, in any order of calls that may raise           *)
(* (compute_log_prob, update_policy).                                          *)
THEOREM UpdatesMasked ==
  ASSUME RemovePadding = FALSE
  PROVE  Spec => UpdateMasked
<1>1. ActorInv /\ [Next]_vars =>
        [ forward' # forward => /\ call = "update" => forward'.masked = UseCotMasking
                                /\ call = "logProb" /\ disable => ~forward'.masked ]_vars
  <2> SUFFICES ASSUME ActorInv, Next, forward' # forward
               PROVE  /\ call = "update" => forward'.masked = UseCotMasking
                      /\ call = "logProb" /\ disable => ~forward'.masked
    BY DEF vars
  <2>1. CallModel
    BY DEF Next, ComputeLogProb, UpdatePolicy, RegisterHook, Return
  <2>2. forward'.masked = Masking
    BY <2>1 DEF CallModel
  <2> QED BY <2>2, ActorAssumption DEF Masking, ActorInv, CallInv
<1> QED BY <1>1, ActorInvInductive, PTL DEF Spec, UpdateMasked

(* Without use_remove_padding a pass that an update trains on is perturbed,    *)
(* but beside an auxiliary loss; no other is, and only the prompt is; no hook  *)
(* outlives a call (_forward_micro_batch).                                     *)
THEOREM PerturbationsConfined ==
  ASSUME RemovePadding = FALSE
  PROVE  Spec => []PerturbationConfined
<1>1. ActorInv => PerturbationConfined
  <2> SUFFICES ASSUME ActorInv PROVE PerturbationConfined
    OBVIOUS
  <2>2. PromptPart \cap ResponsePart = {}
    BY Lengths DEF PromptPart, ResponsePart
  <2>3. call = "idle" => hooks = {}
    BY DEF ActorInv, HookInv
  <2> QED BY <2>2, <2>3 DEF ActorInv, PassInv, PerturbationConfined
<1> QED BY <1>1, ActorInvInductive, PTL
-----------------------------------------------------------------------------
SenderPlaces == {"fill", "wait", "done"}
ReceiverPlaces == {"first", "next", "yield", "read", "done"}
Meta == [from : Nat, upto : Nat, last : BOOLEAN]
Message == [meta : Meta, half : 0..1]
Contents == [1..Count -> Nat]

(* What both engines share *)
StreamType ==
  /\ taken \in 0..Count
  /\ place \in [Rank -> SenderPlaces \cup ReceiverPlaces]
  /\ bucket \in [Rank -> Meta]
  /\ half \in [Rank -> 0..1]
  /\ buffers \in [Rank -> [0..1 -> Contents]]
  /\ offset \in [Rank -> Nat]
  /\ handed = [r \in Receiver |-> handed[r]]
  /\ \A r \in Punctual : handed[r] \in Seq([name : Nat, tensor : Nat])

RingType ==
  /\ taken \in 0..Count
  /\ place \in [Rank -> SenderPlaces \cup ReceiverPlaces]
  /\ place[0] \in SenderPlaces /\ \A r \in Receiver : place[r] \in ReceiverPlaces
  /\ bucket \in [Rank -> Meta]
  /\ half \in [Rank -> 0..1]
  /\ buffers \in [Rank -> [0..1 -> Contents]]
  /\ offset \in [Rank -> Nat]
  /\ handed \in [Receiver -> Seq([name : Nat, tensor : Nat])]
  /\ inbox \in [Receiver -> Seq(Message)]
  /\ incoming \in [Receiver -> Message]
  /\ reading \in [Receiver -> BOOLEAN]
  /\ copied \in [Receiver -> Nat]
  /\ announced \in [Rank -> Nat] /\ notified \in [Rank -> Nat]

(* A bucket of tensors taken, maybe an empty one *)
Sound(b) == 1 <= b.from /\ b.from <= b.upto + 1 /\ b.upto <= taken

(* Its tensors are in the buffer, up to the one before `end'. *)
InBuffer(r, h, b, end) ==
  \A t \in b.from..b.upto : t < end => buffers[r][h][t - b.from + 1] = t

Whole(r, h, b) == InBuffer(r, h, b, b.upto + 1)

(* Both the sender's bucket and the one a receiver hands out are in send_buf. *)
HoldInv(r) ==
  /\ Sound(bucket[r]) /\ Whole(r, half[r], bucket[r])
  /\ r = 0 => bucket[0].upto = taken

(* A bucket is on its way into recv_buf, or there and not swapped in. *)
Pending(r) == place[r] = "read" \/ (place[r] = "yield" /\ ~bucket[r].last)

CopyInv(r) ==
  /\ reading[r] => Pending(r)
  /\ place[r] = "next" => ~bucket[r].last
  /\ Pending(r) =>
       /\ Sound(Incoming(r)) /\ Incoming(r).from = bucket[r].upto + 1
       /\ Incoming(r).from + copied[r] <= Incoming(r).upto + 1
       /\ ~reading[r] => CopiedAll(r)
       /\ InBuffer(r, 1 - half[r], Incoming(r), Incoming(r).from + copied[r])

(* What a rank has announced and its next one has not read stays in its       *)
(* buffer: a receiver goes on handing it out, the sender fills the other one.  *)
Kept(r, m) ==
  /\ m \in Message /\ Sound(m.meta) /\ Whole(r, m.half, m.meta)
  /\ IF r = 0 THEN m.half = 1 - half[0]
     ELSE m.half = half[r] /\ m.meta = bucket[r] /\ place[r] \in {"next", "yield"}

(* The last tensor a rank has announced, and the last one it has asked for *)
Out(r) == IF r = 0 THEN bucket[0].from - 1 ELSE bucket[r].upto
Got(r) == IF Pending(r) THEN Incoming(r).upto ELSE bucket[r].upto

Quiet(r) == notified[r] = announced[r] /\ inbox[r + 1] = <<>> /\ ~reading[r + 1]
Posted(r) ==
  /\ notified[r] + 1 = announced[r] /\ ~reading[r + 1]
  /\ inbox[r + 1] = << Head(inbox[r + 1]) >>
  /\ Kept(r, Head(inbox[r + 1]))
  /\ Head(inbox[r + 1]).meta.from = Got(r + 1) + 1
  /\ Head(inbox[r + 1]).meta.upto = Out(r)
UnderWay(r) ==
  /\ notified[r] + 1 = announced[r] /\ inbox[r + 1] = <<>> /\ reading[r + 1]
  /\ Kept(r, incoming[r + 1])

(* Between a rank and the next one at most one bucket is on its way. *)
LinkInv(r) ==
  /\ Quiet(r) \/ Posted(r) \/ UnderWay(r)
  /\ inbox[r + 1] = <<>> => Got(r + 1) = Out(r)

HandedInv(r) ==
  /\ Len(handed[r]) = bucket[r].from + offset[r] - 1
  /\ bucket[r].from + offset[r] <= bucket[r].upto + 1
  /\ place[r] \in {"first", "read", "done"} => HandedOut(r)
  /\ \A i \in 1..Len(handed[r]) : handed[r][i] = [name |-> i, tensor |-> i]

RingInv ==
  /\ RingType
  /\ \A r \in Rank : HoldInv(r)
  /\ \A r \in Receiver : CopyInv(r) /\ HandedInv(r)
  /\ \A r \in 0..(Receivers - 1) : LinkInv(r)

-----------------------------------------------------------------------------
LEMMA RankFacts ==
  /\ Count \in Nat /\ Receivers \in Nat
  /\ 0 \in Rank /\ 0 \in 0..(Receivers - 1)
  /\ 1 \in Receiver /\ 0 \notin Receiver /\ Receiver \subseteq Rank
  /\ 0 \notin Late /\ Punctual \subseteq Receiver
BY StreamingAssumption DEF Rank, Receiver, Punctual, Count

LEMMA LinkEnds ==
  ASSUME NEW r \in 0..(Receivers - 1)
  PROVE  r \in Rank /\ r + 1 \in Receiver /\ (r # 0 => r \in Receiver)
BY StreamingAssumption DEF Rank, Receiver

LEMMA InitHolds == RingInit => RingInv
<1> SUFFICES ASSUME RingInit PROVE RingInv
  OBVIOUS
<1> USE RankFacts DEF RingInit, StreamInit, RingIdle, NoBucket, NoMessage, Sound
<1>1. RingType
  BY DEF RingType, SenderPlaces, ReceiverPlaces, Meta, Message, Contents, Zeros, Garbage
<1>2. \A r \in Rank : HoldInv(r)
  BY DEF HoldInv, Whole, InBuffer
<1>3. \A r \in Receiver : CopyInv(r) /\ HandedInv(r)
  BY DEF CopyInv, HandedInv, HandedOut, Pending
<1>4. \A r \in 0..(Receivers - 1) : LinkInv(r)
  BY LinkEnds DEF LinkInv, Quiet, Got, Out, Pending
<1> QED
  BY <1>1, <1>2, <1>3, <1>4 DEF RingInv

LEMMA ContentsPut ==
  ASSUME NEW B \in [0..1 -> Contents], NEW h \in 0..1, NEW o, NEW v \in Nat
  PROVE  /\ B[h] \in [1..Count -> Nat]
         /\ [B EXCEPT ![h][o] = v] \in [0..1 -> Contents]
<1>1. B[h] \in [1..Count -> Nat] /\ [B[h] EXCEPT ![o] = v] \in Contents
  BY DEF Contents
<1> QED
  BY <1>1

(* A tensor is put behind those in the sender's bucket. *)
LEMMA FillHolds ==
  ASSUME StreamType, HoldInv(0), Fill
  PROVE  /\ StreamType' /\ HoldInv(0)' /\ taken' = taken + 1
         /\ bucket'[0].from = bucket[0].from
         /\ buffers'[0][1 - half[0]] = buffers[0][1 - half[0]]
         /\ \A r \in Receiver : bucket'[r] = bucket[r] /\ buffers'[r] = buffers[r]
<1> USE RankFacts
<1> DEFINE b == bucket[0]  h == half[0]  o == taken + 2 - bucket[0].from
<1>0. /\ taken \in 0..Count /\ taken < Count /\ b \in Meta /\ h \in 0..1 /\ HoldInv(0)
      /\ buffers \in [Rank -> [0..1 -> Contents]] /\ bucket \in [Rank -> Meta]
  BY DEF StreamType, Fill, Left
<1>1. b.upto = taken /\ b.from \in 1..(taken + 1) /\ o \in 1..Count
  BY <1>0 DEF HoldInv, Sound, Meta
<1>2. taken' = taken + 1 /\ buffers' = [buffers EXCEPT ![0][h][o] = taken + 1]
      /\ bucket' = [bucket EXCEPT ![0].upto = taken + 1]
  BY DEF Fill
<1>3. /\ bucket'[0] = [from |-> b.from, upto |-> taken + 1, last |-> b.last]
      /\ \A r \in Receiver : bucket'[r] = bucket[r] /\ buffers'[r] = buffers[r]
  BY <1>0, <1>2 DEF Meta
<1>4. /\ buffers'[0][h] = [buffers[0][h] EXCEPT ![o] = taken + 1]
      /\ buffers'[0][1 - h] = buffers[0][1 - h]
  BY <1>0, <1>2
<1>5. StreamType'
  <2>1. bucket' \in [Rank -> Meta]
    BY <1>0, <1>2 DEF Meta
  <2>2. buffers' \in [Rank -> [0..1 -> Contents]]
    <3>1. buffers[0] \in [0..1 -> Contents] /\ taken + 1 \in Nat
      BY <1>0
    <3>2. [buffers[0] EXCEPT ![h][o] = taken + 1] \in [0..1 -> Contents]
      BY <1>0, <3>1, ContentsPut
    <3> QED
      BY <1>0, <1>2, <3>2
  <2> QED
    <3>1. UNCHANGED <<place, half, offset, handed>> /\ taken' \in 0..Count
      BY <1>0, <1>2 DEF Fill
    <3> QED
      BY <2>1, <2>2, <3>1 DEF StreamType
<1>6. HoldInv(0)'
  <2>1. half'[0] = h /\ place' = place
    BY DEF Fill
  <2>2. Sound(bucket[0])'
    BY <1>0, <1>1, <1>2, <1>3 DEF Sound
  <2>3. ASSUME NEW t \in b.from..(taken + 1) PROVE buffers'[0][h][t - b.from + 1] = t
    <3>1. CASE t = taken + 1
      <4>1. buffers[0][h] \in [1..Count -> Nat]
        BY <1>0 DEF Contents
      <4>2. t - b.from + 1 = o
        BY <1>0, <1>1, <3>1 DEF Meta
      <4> QED
        BY <1>1, <1>4, <3>1, <4>1, <4>2
    <3>2. CASE t # taken + 1
      <4>1. buffers[0][h][t - b.from + 1] = t
        BY <1>0, <1>1, <3>2 DEF HoldInv, Whole, InBuffer
      <4>2. t - b.from + 1 # o
        BY <1>0, <1>1, <3>2
      <4> QED
        BY <1>0, <1>4, <4>1, <4>2 DEF Contents
    <3> QED
      BY <3>1, <3>2
  <2> QED
    BY <1>2, <1>3, <2>1, <2>2, <2>3 DEF HoldInv, Whole, InBuffer
<1> QED
  BY <1>2, <1>3, <1>4, <1>5, <1>6

(* A receiver hands out the tensor whose name is next.  Whether it counts for *)
(* what is promised or not, it keeps its word.                                *)
LEMMA YieldHolds ==
  ASSUME StreamType, NEW s \in Receiver, HoldInv(s), HandedInv(s), Yield(s),
         handed[s] \in Seq([name : Nat, tensor : Nat])
  PROVE  /\ StreamType' /\ HandedInv(s)' /\ offset'[s] \in Nat
         /\ handed'[s] \in Seq([name : Nat, tensor : Nat])
         /\ s \in Punctual => Promised!Hand(s)
         /\ \A r \in Receiver : r # s => handed'[r] = handed[r] /\ offset'[r] = offset[r]
<1> USE RankFacts
<1> DEFINE n == bucket[s].from + offset[s]
<1>v. PICK v : v = [name |-> n, tensor |-> buffers[s][half[s]][offset[s] + 1]]
  OBVIOUS
<1>s. s \in Rank /\ bucket[s] \in Meta /\ handed[s] \in Seq([name : Nat, tensor : Nat])
      /\ taken \in 0..Count /\ taken \in Nat
  BY DEF StreamType
<1>t. bucket[s].from \in Nat /\ bucket[s].upto \in Nat /\ offset[s] \in Nat
  BY <1>s DEF Meta, StreamType
<1>0. /\ place[s] = "yield" /\ n <= bucket[s].upto /\ n \in Nat
      /\ handed' = [handed EXCEPT ![s] = Append(@, v)]
      /\ offset' = [offset EXCEPT ![s] = @ + 1]
      /\ UNCHANGED <<place, taken, bucket, half, buffers>>
  <2>1. ~(n > bucket[s].upto) => n <= bucket[s].upto
    BY <1>t
  <2>2. /\ place[s] = "yield" /\ ~(n > bucket[s].upto)
        /\ handed' = [handed EXCEPT ![s] = Append(@, v)]
        /\ offset' = [offset EXCEPT ![s] = @ + 1]
        /\ UNCHANGED <<place, taken, bucket, half, buffers>>
    BY <1>v DEF Yield, HandedOut
  <2>3. n \in Nat
    BY <1>t
  <2> QED
    BY ONLY <2>1, <2>2, <2>3
<1>1. v = [name |-> n, tensor |-> n] /\ Len(handed[s]) = n - 1 /\ n \in 1..taken
  <2>1. n \in bucket[s].from..bucket[s].upto /\ n < bucket[s].upto + 1
        /\ n - bucket[s].from + 1 = offset[s] + 1
    <3>1. n <= bucket[s].upto
      BY <1>0
    <3> QED
      BY ONLY <1>t, <3>1
  <2>2. buffers[s][half[s]][n - bucket[s].from + 1] = n
    BY <2>1 DEF HoldInv, Whole, InBuffer
  <2>3. Len(handed[s]) = n - 1
    <3>1. HandedInv(s)
      OBVIOUS
    <3>2. Len(handed[s]) = bucket[s].from + offset[s] - 1
      BY <3>1 DEF HandedInv
    <3> QED
      BY <1>t, <3>2
  <2>4. n \in 1..taken
    <3>1. 1 <= bucket[s].from /\ bucket[s].upto <= taken
      BY DEF HoldInv, Sound
    <3> QED
      BY <1>0, <1>s, <1>t, <3>1
  <2> QED
    BY <1>v, <2>1, <2>2, <2>3, <2>4
<1>2. /\ handed'[s] = Append(handed[s], v) /\ offset'[s] = offset[s] + 1
      /\ \A r \in Receiver : r # s => handed'[r] = handed[r] /\ offset'[r] = offset[r]
  BY <1>0, RankFacts DEF StreamType
<1>3. v \in [name : Nat, tensor : Nat]
  BY <1>0, <1>1
<1>6. handed'[s] \in Seq([name : Nat, tensor : Nat])
  BY <1>2, <1>3, <1>s
<1>4. StreamType'
  <2>1. /\ handed' = [r \in Receiver |-> handed'[r]]
        /\ \A r \in Punctual : handed'[r] \in Seq([name : Nat, tensor : Nat])
    <3>1. handed'[s] \in Seq([name : Nat, tensor : Nat])
      BY <1>6
    <3>2. handed' = [r \in Receiver |-> handed'[r]]
      BY <1>0 DEF StreamType
    <3>3. ASSUME NEW r \in Punctual PROVE handed'[r] \in Seq([name : Nat, tensor : Nat])
      BY <1>2, <3>1 DEF StreamType
    <3> QED
      BY <3>2, <3>3
  <2>2. offset' \in [Rank -> Nat]
    <3>1. offset[s] + 1 \in Nat /\ offset \in [Rank -> Nat]
      BY <1>t DEF StreamType
    <3> QED
      BY <1>0, <3>1
  <2> QED
    BY <1>0, <2>1, <2>2 DEF StreamType
<1>7. HandedInv(s)'
  <2>1. Len(handed'[s]) = n /\ \A i \in 1..n : handed'[s][i] = IF i = n THEN v ELSE handed[s][i]
    BY <1>0, <1>1, <1>2, <1>3
  <2>2. \A i \in 1..(n - 1) : handed[s][i] = [name |-> i, tensor |-> i]
    <3>1. HandedInv(s)
      OBVIOUS
    <3> QED
      BY <1>1, <3>1 DEF HandedInv
  <2>3. \A i \in 1..n : handed'[s][i] = [name |-> i, tensor |-> i]
    <3> SUFFICES ASSUME NEW i \in 1..n PROVE handed'[s][i] = [name |-> i, tensor |-> i]
      OBVIOUS
    <3>1. CASE i = n
      BY <1>1, <2>1, <3>1
    <3>2. CASE i # n
      <4>1. i \in 1..(n - 1)
        BY <1>0, <3>2
      <4> QED
        BY <2>1, <2>2, <3>2, <4>1
    <3> QED
      BY <3>1, <3>2
  <2>4. bucket'[s].from + offset'[s] - 1 = n /\ bucket'[s].from + offset'[s] <= bucket'[s].upto + 1
    <3>1. bucket' = bucket /\ offset'[s] = offset[s] + 1
      BY <1>0, <1>2
    <3> QED
      BY <1>0, <1>t, <3>1, SMTT(30)
  <2>5. place'[s] = "yield"
    BY <1>0
  <2> QED
    BY <2>1, <2>3, <2>4, <2>5 DEF HandedInv
<1>13. s \in Punctual => Promised!Hand(s)
  <2>1. taken <= Count /\ Count \in Nat
    BY <1>s, RankFacts
  <2>2. [t \in 1..Count |-> [name |-> t, tensor |-> t]][Len(handed[s]) + 1] = v
    <3>1. Len(handed[s]) + 1 = n /\ n \in 1..Count
      BY <1>0, <1>1, <1>s, <2>1
    <3> QED
      BY <1>1, <3>1
  <2>3. Len(handed[s]) < taken
    BY <1>1, <1>s
  <2>4. ASSUME s \in Punctual
        PROVE  /\ HandedPunctual[s] = handed[s]
               /\ HandedPunctual' = [HandedPunctual EXCEPT ![s] = Append(handed[s], v)]
    <3>1. \A r \in Punctual : handed'[r] = IF r = s THEN Append(handed[s], v) ELSE handed[r]
      BY <1>2
    <3> QED
      BY <2>4, <3>1 DEF HandedPunctual
  <2> QED
    BY <1>0, <2>2, <2>3, <2>4 DEF Promised!Hand
<1> QED
  BY <1>2, <1>4, <1>6, <1>7, <1>13, <1>t

-----------------------------------------------------------------------------
(* Frames: what a step has to leave alone for each part of the invariant. *)

SameEnd(r) ==
  place'[r] = place[r] /\ bucket'[r] = bucket[r] /\ half'[r] = half[r] /\ buffers'[r] = buffers[r]
SameReceiver(r) ==
  /\ SameEnd(r) /\ offset'[r] = offset[r] /\ handed'[r] = handed[r]
  /\ incoming'[r] = incoming[r] /\ reading'[r] = reading[r] /\ copied'[r] = copied[r]
SameLink(r) ==
  inbox'[r + 1] = inbox[r + 1] /\ announced'[r] = announced[r] /\ notified'[r] = notified[r]

LEMMA ReceiverFrame ==
  ASSUME RingInv, NEW r \in Receiver, SameReceiver(r), taken' \in Nat, taken' >= taken
  PROVE  HoldInv(r)' /\ CopyInv(r)' /\ HandedInv(r)'
<1> USE RankFacts DEF SameReceiver, SameEnd
<1>0. /\ HoldInv(r) /\ CopyInv(r) /\ HandedInv(r) /\ r \in Rank /\ r # 0
      /\ taken \in Nat /\ bucket[r] \in Meta /\ incoming[r].meta \in Meta
  BY SMTT(30) DEF RingInv, RingType, Message
<1>1. HoldInv(r)'
  BY <1>0 DEF HoldInv, Sound, Whole, InBuffer, Meta
<1>2. CopyInv(r)'
  <2>1. Pending(r)' = Pending(r)
    BY DEF Pending
  <2>2. Incoming(r)' = Incoming(r) /\ CopiedAll(r)' = CopiedAll(r)
    BY DEF Incoming, CopiedAll
  <2>3. Pending(r) => Sound(Incoming(r))'
    BY <1>0, <2>2 DEF CopyInv, Sound, Incoming, Meta
  <2>4. Pending(r) => InBuffer(r, 1 - half[r], Incoming(r), Incoming(r).from + copied[r])'
    BY <1>0, <2>2 DEF CopyInv, InBuffer
  <2> QED
    BY <1>0, <2>1, <2>2, <2>3, <2>4 DEF CopyInv
<1>3. HandedInv(r)'
  BY <1>0 DEF HandedInv, HandedOut
<1> QED
  BY <1>1, <1>2, <1>3

LEMMA SenderFrame ==
  ASSUME RingInv, SameEnd(0), taken' = taken
  PROVE  HoldInv(0)'
BY RankFacts DEF RingInv, RingType, SameEnd, HoldInv, Sound, Whole, InBuffer

LEMMA KeptFrame ==
  ASSUME RingInv, NEW r \in Rank, NEW m, Kept(r, m), taken' \in Nat, taken' >= taken,
         half'[r] = half[r], buffers'[r][m.half] = buffers[r][m.half],
         r # 0 => bucket'[r] = bucket[r] /\ place'[r] \in {"next", "yield"}
  PROVE  Kept(r, m)'
<1>1. m \in Message /\ m.meta \in Meta /\ taken \in Nat
  BY DEF Kept, Message, RingInv, RingType
<1>2. Sound(m.meta)'
  BY <1>1 DEF Kept, Sound, Meta
<1>3. Whole(r, m.half, m.meta)'
  BY DEF Kept, Whole, InBuffer
<1> QED
  BY <1>1, <1>2, <1>3 DEF Kept

LEMMA LinkFrame ==
  ASSUME RingInv, NEW r \in 0..(Receivers - 1), SameLink(r),
         incoming'[r + 1] = incoming[r + 1], reading'[r + 1] = reading[r + 1],
         Got(r + 1)' = Got(r + 1), Out(r)' = Out(r),
         \A m : Kept(r, m) => Kept(r, m)'
  PROVE  LinkInv(r)'
<1>1. LinkInv(r)
  BY DEF RingInv
<1>2. inbox'[r + 1] = <<>> => Got(r + 1)' = Out(r)'
  BY <1>1 DEF LinkInv, SameLink
<1>3. CASE Quiet(r)
  BY <1>2, <1>3 DEF LinkInv, Quiet, SameLink
<1>4. CASE Posted(r)
  BY <1>2, <1>4 DEF LinkInv, Posted, SameLink
<1>5. CASE UnderWay(r)
  BY <1>2, <1>5 DEF LinkInv, UnderWay, SameLink
<1> QED
  BY <1>1, <1>3, <1>4, <1>5 DEF LinkInv

LEMMA LinkSame ==
  ASSUME RingInv, NEW r \in 0..(Receivers - 1), SameLink(r), SameReceiver(r + 1), SameEnd(r),
         taken' \in Nat, taken' >= taken
  PROVE  LinkInv(r)'
<1> USE LinkEnds DEF SameEnd, SameReceiver
<1>1. \A m : Kept(r, m) => Kept(r, m)'
  <2> SUFFICES ASSUME NEW m, Kept(r, m) PROVE Kept(r, m)'
    OBVIOUS
  <2>1. r # 0 => place[r] \in {"next", "yield"}
    BY DEF Kept
  <2> QED
    BY <2>1, KeptFrame
<1>2. Got(r + 1)' = Got(r + 1) /\ Out(r)' = Out(r)
  BY DEF Got, Out, Pending, Incoming
<1> QED
  BY <1>1, <1>2, LinkFrame

-----------------------------------------------------------------------------
(* Every step preserves the invariant. *)

(* Only the sender's end of the first link is touched. *)
LEMMA SenderStep ==
  ASSUME RingInv, RingType', HoldInv(0)', LinkInv(0)', taken' >= taken,
         \A r \in Receiver : SameReceiver(r),
         \A r \in 1..(Receivers - 1) : SameLink(r)
  PROVE  RingInv'
<1>0. taken' \in Nat /\ \A r \in Rank : r # 0 => r \in Receiver
  BY RankFacts DEF RingType, Rank, Receiver
<1>1. \A r \in Receiver : HoldInv(r)' /\ CopyInv(r)' /\ HandedInv(r)'
  BY <1>0, ReceiverFrame
<1>2. ASSUME NEW r \in 0..(Receivers - 1), r # 0 PROVE LinkInv(r)'
  <2>1. r \in Receiver /\ r + 1 \in Receiver /\ r \in 1..(Receivers - 1)
    BY <1>2, StreamingAssumption DEF Receiver
  <2>2. SameEnd(r)
    BY <2>1 DEF SameReceiver
  <2> QED
    BY <1>0, <2>1, <2>2, LinkSame
<1>3. \A r \in Rank : HoldInv(r)'
  BY <1>0, <1>1
<1> QED
  BY <1>1, <1>2, <1>3 DEF RingInv

LEMMA FillKeeps == RingInv /\ Fill /\ UNCHANGED ringVars => RingInv'
<1> SUFFICES ASSUME RingInv, Fill, UNCHANGED ringVars PROVE RingInv'
  OBVIOUS
<1> USE RankFacts
<1>0. taken \in 0..Count /\ half[0] \in 0..1 /\ StreamType /\ HoldInv(0)
  BY DEF RingInv, RingType, StreamType
<1>1. /\ StreamType' /\ HoldInv(0)' /\ taken' = taken + 1
      /\ bucket'[0].from = bucket[0].from
      /\ buffers'[0][1 - half[0]] = buffers[0][1 - half[0]]
      /\ \A r \in Receiver : bucket'[r] = bucket[r] /\ buffers'[r] = buffers[r]
  BY <1>0, FillHolds
<1>2. RingType'
  BY <1>1 DEF RingInv, RingType, StreamType, Fill, ringVars
<1>3. LinkInv(0)'
  <2>1. ASSUME NEW m, Kept(0, m) PROVE Kept(0, m)'
    BY <1>0, <1>1, <2>1, KeptFrame DEF Kept, Fill
  <2>2. Got(1)' = Got(1) /\ Out(0)' = Out(0)
    BY <1>1, StreamingAssumption DEF Got, Out, Pending, Incoming, Fill, ringVars, Receiver
  <2> QED
    BY <2>1, <2>2, LinkFrame, StreamingAssumption DEF SameLink, ringVars
<1>4. \A r \in Receiver : SameReceiver(r) /\ SameLink(r)
  BY <1>1 DEF SameReceiver, SameEnd, SameLink, Fill, ringVars
<1> QED
  BY <1>0, <1>1, <1>2, <1>3, <1>4, SenderStep, StreamingAssumption DEF Receiver

LEMMA RingSendKeeps == RingInv /\ RingSend => RingInv'
<1> SUFFICES ASSUME RingInv, RingSend PROVE RingInv'
  OBVIOUS
<1> USE RankFacts
<1>0. /\ taken \in 0..Count /\ bucket[0] \in Meta /\ half[0] \in 0..1 /\ HoldInv(0)
      /\ bucket \in [Rank -> Meta] /\ half \in [Rank -> 0..1] /\ announced \in [Rank -> Nat]
      /\ place \in [Rank -> SenderPlaces \cup ReceiverPlaces]
      /\ inbox \in [Receiver -> Seq(Message)] /\ 1 \in Receiver
  BY StreamingAssumption DEF RingInv, RingType, Receiver
<1>m. PICK m : m = [meta |-> BucketMeta, half |-> half[0]]
  OBVIOUS
<1>1. Quiet(0) /\ Got(1) = Out(0)
  <2>1. LinkInv(0) /\ notified[0] = announced[0] /\ announced[0] \in Nat
    BY StreamingAssumption DEF RingInv, RingType, RingSend, ReadByNext
  <2>2. Quiet(0)
    BY <2>1 DEF LinkInv, Posted, UnderWay
  <2> QED
    BY <2>1, <2>2 DEF LinkInv, Quiet
<1>2. /\ BucketMeta = [from |-> bucket[0].from, upto |-> taken, last |-> ~Left]
      /\ m \in Message /\ Sound(BucketMeta) /\ Whole(0, half[0], BucketMeta)
  <2>1. BucketMeta = [from |-> bucket[0].from, upto |-> taken, last |-> ~Left]
    BY <1>0 DEF BucketMeta, HoldInv
  <2>2. Sound(BucketMeta) /\ Whole(0, half[0], BucketMeta)
    BY <1>0, <2>1 DEF HoldInv, Sound, Whole, InBuffer, Meta
  <2> QED
    BY <1>0, <1>m, <2>1, <2>2 DEF Message, Meta, Left
<1>3. /\ inbox' = [inbox EXCEPT ![1] = Append(@, m)]
      /\ announced' = [announced EXCEPT ![0] = @ + 1]
      /\ half' = [half EXCEPT ![0] = 1 - @]
      /\ bucket' = [bucket EXCEPT ![0].from = taken + 1]
      /\ place' = [place EXCEPT ![0] = IF Left THEN "fill" ELSE "wait"]
      /\ UNCHANGED <<taken, buffers, offset, handed, incoming, reading, copied, notified>>
  BY <1>m DEF RingSend, Announce, SwapSender
<1>4. /\ bucket'[0] = [from |-> taken + 1, upto |-> taken, last |-> bucket[0].last]
      /\ half'[0] = 1 - half[0] /\ announced'[0] = announced[0] + 1 /\ inbox'[1] = <<m>>
  <2>1. bucket'[0] = [from |-> taken + 1, upto |-> taken, last |-> bucket[0].last]
    BY <1>0, <1>3 DEF HoldInv, Meta
  <2>2. inbox[1] = <<>>
    BY <1>1 DEF Quiet
  <2>3. Append(<<>>, m) = <<m>>
    OBVIOUS
  <2>4. inbox'[1] = <<m>>
    BY <1>0, <1>3, <2>2, <2>3
  <2> QED
    BY <1>0, <1>3, <2>1, <2>4
<1>5. RingType'
  <2>1. bucket' \in [Rank -> Meta]
    <3>1. bucket'[0] \in Meta
      BY <1>0, <1>4 DEF Meta
    <3> QED
      BY <1>0, <1>3, <3>1
  <2>2. inbox' \in [Receiver -> Seq(Message)]
    BY <1>0, <1>2, <1>3
  <2>3. place' \in [Rank -> SenderPlaces \cup ReceiverPlaces] /\ place'[0] \in SenderPlaces
        /\ \A r \in Receiver : place'[r] = place[r]
    BY <1>0, <1>3 DEF SenderPlaces
  <2>4. half' \in [Rank -> 0..1] /\ announced' \in [Rank -> Nat]
    <3>1. 1 - half[0] \in 0..1 /\ announced[0] + 1 \in Nat
      BY <1>0
    <3> QED
      BY <1>0, <1>3, <3>1
  <2> QED
    BY <1>3, <2>1, <2>2, <2>3, <2>4 DEF RingInv, RingType
<1>6. HoldInv(0)'
  <2>1. bucket'[0].from = taken + 1 /\ bucket'[0].upto = taken /\ taken' = taken
    BY <1>3, <1>4
  <2> QED
    BY <1>0, <2>1 DEF HoldInv, Sound, Whole, InBuffer
<1>7. \A r \in Receiver : SameReceiver(r)
  BY <1>0, <1>3 DEF SameReceiver, SameEnd
<1>8. \A r \in 1..(Receivers - 1) : SameLink(r)
  BY <1>0, <1>3 DEF SameLink, Receiver, Rank
<1>9. LinkInv(0)'
  <2>1. Kept(0, m)'
    <3>1. m.half = half[0] /\ m.meta = BucketMeta /\ half'[0] = 1 - half[0]
      BY <1>4, <1>m
    <3>2. m.half = 1 - half'[0]
      BY <1>0, <3>1
    <3>3. Sound(m.meta)' /\ Whole(0, m.half, m.meta)'
      BY <1>2, <1>3, <3>1 DEF Sound, Whole, InBuffer
    <3> QED
      BY <1>2, <3>2, <3>3 DEF Kept
  <2>2. Got(1)' = Got(1)
    BY <1>0, <1>7 DEF SameReceiver, SameEnd, Got, Pending, Incoming
  <2>3. Out(0)' = taken /\ m.meta.upto = taken
    BY <1>0, <1>2, <1>4, <1>m DEF Out
  <2>4. m.meta.from = Got(1) + 1
    <3>1. Got(1) = bucket[0].from - 1 /\ m.meta.from = bucket[0].from /\ bucket[0].from \in Nat
      BY <1>0, <1>1, <1>2, <1>m DEF Out, Meta
    <3> QED
      BY <3>1
  <2>5. Head(inbox'[1]) = m /\ inbox'[1] # <<>>
    BY <1>4
  <2> QED
    <3>1. notified'[0] + 1 = announced'[0] /\ ~reading'[1] /\ inbox'[1] = <<m>>
      BY <1>1, <1>3, <1>4 DEF Quiet
    <3>2. Posted(0)'
      BY <2>1, <2>2, <2>3, <2>4, <2>5, <3>1 DEF Posted
    <3> QED
      BY <2>5, <3>2 DEF LinkInv
<1> QED
  BY <1>0, <1>3, <1>5, <1>6, <1>7, <1>8, <1>9, SenderStep

LEMMA RingSentKeeps == RingInv /\ RingSent => RingInv'
<1> SUFFICES ASSUME RingInv, RingSent PROVE RingInv'
  OBVIOUS
<1> USE RankFacts
<1>1. /\ place' = [place EXCEPT ![0] = "done"] /\ place \in [Rank -> SenderPlaces \cup ReceiverPlaces]
      /\ UNCHANGED <<taken, bucket, half, buffers, offset, handed, ringVars>>
      /\ taken \in Nat
  BY DEF RingSent, RingInv, RingType
<1>2. RingType'
  BY <1>1 DEF RingInv, RingType, SenderPlaces, ringVars
<1>3. HoldInv(0)'
  BY <1>1 DEF RingInv, HoldInv, Sound, Whole, InBuffer
<1>4. \A r \in Receiver : SameReceiver(r) /\ SameLink(r)
  BY <1>1 DEF SameReceiver, SameEnd, SameLink, ringVars
<1>5. LinkInv(0)'
  <2>1. \A x : Kept(0, x) => Kept(0, x)'
    BY <1>1 DEF Kept, Sound, Whole, InBuffer
  <2>2. Got(1)' = Got(1) /\ Out(0)' = Out(0)
    BY <1>1, <1>4, StreamingAssumption DEF Got, Out, Pending, Incoming, SameReceiver, SameEnd, Receiver
  <2> QED
    BY <1>1, <2>1, <2>2, LinkFrame, StreamingAssumption DEF SameLink, ringVars
<1> QED
  BY <1>1, <1>2, <1>3, <1>4, <1>5, SenderStep, StreamingAssumption DEF Receiver

(* A step of receiver s touches its own state and the links on its two sides. *)
LEMMA ReceiverStep ==
  ASSUME RingInv, NEW p \in 0..(Receivers - 1), NEW s, s = p + 1,
         RingType', taken' = taken, SameEnd(0),
         HoldInv(s)', CopyInv(s)', HandedInv(s)',
         \A r \in Receiver : r # s => SameReceiver(r),
         \A r \in 0..(Receivers - 1) : r \notin {p, s} => SameLink(r),
         LinkInv(p)', s < Receivers => LinkInv(s)'
  PROVE  RingInv'
<1>0. taken' \in Nat /\ taken' >= taken /\ \A r \in Rank : r # 0 => r \in Receiver
  BY RankFacts DEF RingInv, RingType, Rank, Receiver
<1>1. \A r \in Receiver : HoldInv(r)' /\ CopyInv(r)' /\ HandedInv(r)'
  BY <1>0, ReceiverFrame
<1>2. HoldInv(0)'
  BY SenderFrame
<1>3. ASSUME NEW r \in 0..(Receivers - 1), r \notin {p, s} PROVE LinkInv(r)'
  <2>1. r \in Rank /\ r + 1 \in Receiver /\ (r # 0 => r \in Receiver)
    BY LinkEnds
  <2>2. r + 1 # s
    BY <1>3
  <2>3. SameEnd(r) /\ SameReceiver(r + 1) /\ SameLink(r)
    BY <1>3, <2>1, <2>2 DEF SameReceiver
  <2> QED
    BY <1>0, <2>3, LinkSame
<1>4. ASSUME NEW r \in 0..(Receivers - 1) PROVE LinkInv(r)'
  <2>1. CASE r = p
    BY <2>1
  <2>2. CASE r = s
    BY <2>2, RankFacts
  <2> QED
    BY <1>3, <2>1, <2>2
<1>5. \A r \in Rank : HoldInv(r)'
  BY <1>0, <1>1, <1>2
<1> QED
  BY <1>1, <1>4, <1>5 DEF RingInv

(* The link behind s, whose own bucket and buffer stay as they are *)
LEMMA LinkBehind ==
  ASSUME RingInv, NEW s \in Receiver, s < Receivers, SameLink(s), SameReceiver(s + 1),
         taken' = taken, bucket'[s] = bucket[s], half'[s] = half[s],
         buffers'[s][half[s]] = buffers[s][half[s]],
         place[s] \in {"next", "yield"} => place'[s] \in {"next", "yield"}
  PROVE  LinkInv(s)'
<1>0. s \in 0..(Receivers - 1) /\ s \in Rank /\ s # 0 /\ taken \in Nat
  BY RankFacts DEF Receiver, Rank, RingInv, RingType
<1>1. ASSUME NEW m, Kept(s, m) PROVE Kept(s, m)'
  <2>1. m.half = half[s] /\ place[s] \in {"next", "yield"}
    BY <1>0, <1>1 DEF Kept
  <2> QED
    BY <1>0, <1>1, <2>1, KeptFrame
<1>2. Got(s + 1)' = Got(s + 1) /\ Out(s)' = Out(s)
  BY <1>0 DEF Got, Out, Pending, Incoming, SameReceiver, SameEnd
<1> QED
  BY <1>0, <1>1, <1>2, LinkFrame DEF SameReceiver

(* What the rank before s keeps is not touched by a step of s. *)
LEMMA KeptBefore ==
  ASSUME RingInv, NEW p \in 0..(Receivers - 1), SameEnd(p), taken' = taken
  PROVE  \A m : Kept(p, m) => Kept(p, m)'
<1> SUFFICES ASSUME NEW m, Kept(p, m) PROVE Kept(p, m)'
  OBVIOUS
<1>1. p \in Rank /\ taken \in Nat
  BY LinkEnds DEF RingInv, RingType
<1>2. p # 0 => place[p] \in {"next", "yield"}
  BY DEF Kept
<1> QED
  BY <1>1, <1>2, KeptFrame DEF SameEnd

LEMMA LocalTypes ==
  ASSUME RingInv, NEW p \in 0..(Receivers - 1), NEW s, s = p + 1
  PROVE  /\ s \in Receiver /\ s \in Rank /\ s # 0 /\ s # p /\ p \in Rank /\ s - 1 = p
         /\ taken \in 0..Count /\ taken \in Nat
         /\ place[s] \in ReceiverPlaces /\ bucket[s] \in Meta /\ half[s] \in 0..1
         /\ buffers[s] \in [0..1 -> Contents] /\ buffers[p] \in [0..1 -> Contents]
         /\ offset[s] \in Nat /\ copied[s] \in Nat /\ reading[s] \in BOOLEAN
         /\ handed[s] \in Seq([name : Nat, tensor : Nat]) /\ inbox[s] \in Seq(Message)
         /\ incoming[s] \in Message /\ Incoming(s) \in Meta
         /\ announced[s] \in Nat /\ notified[s] \in Nat
         /\ announced[p] \in Nat /\ notified[p] \in Nat
         /\ HoldInv(s) /\ CopyInv(s) /\ HandedInv(s) /\ LinkInv(p)
         /\ (s < Receivers => s \in 0..(Receivers - 1) /\ LinkInv(s))
<1>1. s \in Receiver /\ s \in Rank /\ s # 0 /\ s # p /\ p \in Rank /\ s - 1 = p
  BY StreamingAssumption DEF Receiver, Rank
<1>2. s < Receivers => s \in 0..(Receivers - 1)
  BY <1>1, RankFacts DEF Receiver
<1>3. incoming[s] \in Message /\ Incoming(s) \in Meta
  BY <1>1 DEF RingInv, RingType, Incoming, Message
<1>4. taken \in 0..Count /\ taken \in Nat
  BY RankFacts DEF RingInv, RingType
<1> QED
  BY <1>1, <1>2, <1>3, <1>4 DEF RingInv, RingType

LEMMA PlaceStep ==
  ASSUME RingInv, NEW s \in Receiver, NEW x \in ReceiverPlaces, place' = [place EXCEPT ![s] = x]
  PROVE  /\ place' \in [Rank -> SenderPlaces \cup ReceiverPlaces]
         /\ place'[0] \in SenderPlaces /\ \A r \in Receiver : place'[r] \in ReceiverPlaces
         /\ place'[s] = x
BY RankFacts DEF RingInv, RingType

LEMMA BeginReadKeeps ==
  ASSUME RingInv, NEW p \in 0..(Receivers - 1), NEW s, s = p + 1, BeginRead(s)
  PROVE  RingInv'
<1> USE LocalTypes
<1>m. PICK m : m = Head(inbox[s])
  OBVIOUS
<1>0. /\ place[s] \in {"first", "next"} /\ inbox[s] # <<>>
      /\ incoming' = [incoming EXCEPT ![s] = m]
      /\ inbox' = [inbox EXCEPT ![s] = Tail(@)]
      /\ reading' = [reading EXCEPT ![s] = TRUE]
      /\ copied' = [copied EXCEPT ![s] = 0]
      /\ place' = [place EXCEPT ![s] = IF @ = "first" THEN "read" ELSE "yield"]
      /\ UNCHANGED <<taken, bucket, half, buffers, offset, handed, announced, notified>>
  BY <1>m DEF BeginRead
<1>1. /\ notified[p] + 1 = announced[p] /\ ~reading[s] /\ inbox[s] = <<m>> /\ Kept(p, m)
      /\ m.meta.from = Got(s) + 1 /\ m.meta.upto = Out(p)
  BY <1>0, <1>m DEF LinkInv, Quiet, Posted, UnderWay
<1>2. ~Pending(s) /\ Got(s) = bucket[s].upto
  BY <1>0 DEF Pending, Got
<1>3. m \in Message /\ m.meta \in Meta /\ Sound(m.meta)
  BY <1>1 DEF Kept, Message
<1>4. /\ incoming'[s] = m /\ inbox'[s] = <<>> /\ reading'[s] /\ copied'[s] = 0
      /\ place'[s] = IF place[s] = "first" THEN "read" ELSE "yield"
  <2>1. Tail(<<m>>) = <<>>
    OBVIOUS
  <2> QED
    BY <1>0, <1>1, <2>1 DEF RingInv, RingType
<1>5. RingType'
  <2>1. incoming' \in [Receiver -> Message] /\ reading' \in [Receiver -> BOOLEAN]
        /\ copied' \in [Receiver -> Nat]
    BY <1>0, <1>3 DEF RingInv, RingType
  <2>2. inbox' \in [Receiver -> Seq(Message)]
    <3>1. \A r \in Receiver : inbox'[r] \in Seq(Message)
      BY <1>0, <1>4 DEF RingInv, RingType
    <3>2. inbox' = [r \in Receiver |-> inbox'[r]]
      BY <1>0 DEF RingInv, RingType
    <3> QED
      BY <3>1, <3>2
  <2>3. /\ place' \in [Rank -> SenderPlaces \cup ReceiverPlaces]
        /\ place'[0] \in SenderPlaces /\ \A r \in Receiver : place'[r] \in ReceiverPlaces
    <3>1. (IF place[s] = "first" THEN "read" ELSE "yield") \in ReceiverPlaces
      BY DEF ReceiverPlaces
    <3> QED
      BY <1>0, <3>1, PlaceStep
  <2> QED
    BY <1>0, <2>1, <2>2, <2>3 DEF RingInv, RingType
<1>6. Pending(s)' /\ Incoming(s)' = m.meta /\ Got(s)' = Out(p)
  BY <1>0, <1>1, <1>4 DEF Pending, Incoming, CopyInv, Got
<1>7. HoldInv(s)'
  BY <1>0 DEF HoldInv, Sound, Whole, InBuffer
<1>8. CopyInv(s)'
  <2>1. Sound(Incoming(s))' /\ Incoming(s)'.from = bucket[s].upto + 1
    BY <1>0, <1>1, <1>2, <1>3, <1>6 DEF Sound
  <2>2. Incoming(s)'.from + copied'[s] <= Incoming(s)'.upto + 1
    BY <1>3, <1>4, <1>6 DEF Sound, Meta
  <2>3. InBuffer(s, 1 - half[s], Incoming(s), Incoming(s).from + copied[s])'
    BY <1>3, <1>4, <1>6 DEF InBuffer, Meta
  <2>4. place'[s] # "next"
    BY <1>4
  <2> QED
    BY <1>0, <1>4, <1>6, <2>1, <2>2, <2>3, <2>4 DEF CopyInv
<1>9. HandedInv(s)'
  <2>1. HandedInv(s) /\ UNCHANGED <<bucket, offset, handed>>
    BY <1>0
  <2>2. place'[s] \in {"first", "read", "done"} => place[s] = "first"
    BY <1>0, <1>4
  <2> QED
    BY <2>1, <2>2 DEF HandedInv, HandedOut
<1>10. (\A r \in Receiver : r # s => SameReceiver(r)) /\ SameEnd(0) /\ SameEnd(p)
  BY <1>0, RankFacts DEF SameReceiver, SameEnd, RingInv, RingType
<1>11. \A r \in 0..(Receivers - 1) : r \notin {p, s} => SameLink(r)
  BY <1>0, LinkEnds DEF SameLink, RingInv, RingType
<1>12. LinkInv(p)'
  <2>1. Kept(p, m)'
    BY <1>0, <1>1, <1>10, KeptBefore
  <2>2. Out(p)' = Out(p)
    BY <1>10 DEF Out, SameEnd
  <2> QED
    BY <1>0, <1>1, <1>4, <1>6, <2>1, <2>2 DEF LinkInv, UnderWay
<1>13. s < Receivers => LinkInv(s)'
  <2> SUFFICES ASSUME s < Receivers PROVE LinkInv(s)'
    OBVIOUS
  <2>1. s + 1 \in Receiver /\ s + 1 # s
    BY LinkEnds
  <2>2. SameLink(s)
    BY <1>0, <2>1 DEF SameLink, RingInv, RingType
  <2>3. place'[s] \in {"next", "yield"} \/ place[s] = "first"
    BY <1>0, <1>4
  <2> QED
    BY <1>0, <1>10, <2>1, <2>2, <2>3, LinkBehind
<1> QED
  BY <1>0, <1>5, <1>7, <1>8, <1>9, <1>10, <1>11, <1>12, <1>13, ReceiverStep

(* The test of a copied tensor against its bucket's end, the other way round *)
LEMMA NotAbove ==
  ASSUME NEW i \in Nat, NEW j \in Nat, NEW k \in Nat
  PROVE  ~(i + j > k) => i + j <= k
OBVIOUS

LEMMA CopyTensorKeeps ==
  ASSUME RingInv, NEW p \in 0..(Receivers - 1), NEW s, s = p + 1, CopyTensor(s)
  PROVE  RingInv'
<1> USE LocalTypes
<1> DEFINE b == Incoming(s)  h == 1 - half[s]  o == copied[s] + 1
<1>v. PICK v : v = buffers[p][incoming[s].half][copied[s] + 1]
  OBVIOUS
<1>t. b.from \in Nat /\ b.upto \in Nat /\ copied[s] \in Nat /\ half[s] \in 0..1
  BY DEF Meta
<1>0. /\ reading[s] /\ b.from + copied[s] <= b.upto
      /\ buffers' = [buffers EXCEPT ![s][h][o] = v]
      /\ copied' = [copied EXCEPT ![s] = @ + 1]
      /\ UNCHANGED <<place, taken, bucket, half, offset, handed, inbox, incoming, reading,
                     announced, notified>>
  <2>1. ~(b.from + copied[s] > b.upto) => b.from + copied[s] <= b.upto
    BY <1>t, NotAbove
  <2> QED
    BY <1>v, <2>1 DEF CopyTensor, CopiedAll
<1>1. /\ Pending(s) /\ Sound(b) /\ h \in 0..1 /\ h # half[s] /\ o \in 1..Count /\ b \in Meta
      /\ InBuffer(s, h, b, b.from + copied[s])
  <2>1. Pending(s) /\ Sound(b) /\ InBuffer(s, h, b, b.from + copied[s])
    BY <1>0 DEF CopyInv
  <2>2. h \in 0..1 /\ h # half[s]
    BY <1>t
  <2>3. 1 <= b.from /\ b.upto <= taken
    BY <2>1 DEF Sound
  <2>4. o \in 1..Count
    BY <1>0, <1>t, <2>3, RankFacts
  <2> QED
    BY <2>1, <2>2, <2>4
<1>2. Kept(p, incoming[s]) /\ b = incoming[s].meta
  <2>1. ~Quiet(p) /\ ~Posted(p)
    BY <1>0 DEF Quiet, Posted
  <2>2. Kept(p, incoming[s])
    BY <2>1 DEF LinkInv, UnderWay
  <2> QED
    BY <2>2 DEF Incoming
<1>3. v = b.from + copied[s] /\ v \in Nat
  <2>1. \A t \in b.from..b.upto : buffers[p][incoming[s].half][t - b.from + 1] = t
    <3>1. Whole(p, incoming[s].half, b)
      BY <1>2 DEF Kept
    <3>2. \A t \in b.from..b.upto : t < b.upto + 1
      BY <1>t
    <3> HIDE LocalTypes DEF b
    <3> QED
      BY <3>1, <3>2 DEF Whole, InBuffer
  <2>2. b.from + copied[s] \in b.from..b.upto /\ (b.from + copied[s]) - b.from + 1 = o
    BY <1>0, <1>t
  <2> QED
    <3>1. buffers[p][incoming[s].half][o] = b.from + copied[s]
      BY <2>1, <2>2
    <3> QED
      BY <1>v, <1>t, <3>1
<1>4. /\ buffers'[s][h] = [buffers[s][h] EXCEPT ![o] = v]
      /\ buffers'[s][half[s]] = buffers[s][half[s]] /\ copied'[s] = o
      /\ \A r \in Rank : r # s => buffers'[r] = buffers[r]
  <2>1. buffers \in [Rank -> [0..1 -> Contents]] /\ copied \in [Receiver -> Nat]
    BY DEF RingInv, RingType
  <2>2. buffers'[s] = [buffers[s] EXCEPT ![h][o] = v]
    BY <1>0, <2>1
  <2>3. buffers'[s][h] = [buffers[s][h] EXCEPT ![o] = v] /\ buffers'[s][half[s]] = buffers[s][half[s]]
    BY <1>1, <1>t, <2>2
  <2>4. copied'[s] = o
    BY <1>0, <2>1
  <2>5. \A r \in Rank : r # s => buffers'[r] = buffers[r]
    BY <1>0, <2>1
  <2> QED
    BY <2>3, <2>4, <2>5
<1>5. RingType'
  <2>1. buffers' \in [Rank -> [0..1 -> Contents]]
    <3>1. [buffers[s] EXCEPT ![h][o] = v] \in [0..1 -> Contents]
      BY <1>1, <1>3, ContentsPut
    <3> QED
      BY <1>0, <3>1 DEF RingInv, RingType
  <2>2. copied' \in [Receiver -> Nat]
    <3>1. copied[s] + 1 \in Nat /\ copied' = [copied EXCEPT ![s] = copied[s] + 1]
      BY <1>0, <1>t
    <3>2. copied \in [Receiver -> Nat]
      BY DEF RingInv, RingType
    <3> QED
      BY ONLY <3>1, <3>2
  <2> QED
    BY <1>0, <2>1, <2>2 DEF RingInv, RingType
<1>6. HoldInv(s)'
  BY <1>0, <1>4 DEF HoldInv, Sound, Whole, InBuffer
<1>7. CopyInv(s)'
  <2>1. Pending(s)' /\ Incoming(s)' = b /\ half'[s] = half[s] /\ reading'[s] = reading[s]
    BY <1>0, <1>1 DEF Pending, Incoming
  <2>2. ASSUME NEW t \in b.from..b.upto, t < b.from + o PROVE buffers'[s][h][t - b.from + 1] = t
    <3>a. buffers[s] \in [0..1 -> Contents] /\ h \in 0..1
      BY <1>1
    <3>0. buffers[s][h] \in [1..Count -> Nat]
      BY ONLY <3>a DEF Contents
    <3>1. CASE t = b.from + copied[s]
      <4>1. t - b.from + 1 = o
        BY <1>t, <3>1
      <4>2. [buffers[s][h] EXCEPT ![o] = v][o] = v
        BY <1>1, <3>0
      <4> QED
        BY <1>3, <1>4, <3>1, <4>1, <4>2
    <3>2. CASE t # b.from + copied[s]
      <4>0. t \in Int /\ t < b.from + (copied[s] + 1)
        BY <1>t, <2>2
      <4>1. t < b.from + copied[s] /\ t - b.from + 1 # copied[s] + 1
        <5> HIDE LocalTypes DEF b
        <5> QED
          BY <1>t, <3>2, <4>0
      <4>2. buffers[s][h][t - b.from + 1] = t
        BY <1>1, <4>1 DEF InBuffer
      <4> QED
        BY <1>4, <3>0, <4>1, <4>2
    <3> QED
      BY <3>1, <3>2
  <2>3. InBuffer(s, 1 - half[s], Incoming(s), Incoming(s).from + copied[s])'
    BY <1>4, <2>1, <2>2 DEF InBuffer
  <2>4. Sound(Incoming(s))' /\ Incoming(s)'.from = bucket'[s].upto + 1
    BY <1>0, <1>1, <2>1 DEF CopyInv, Sound
  <2>5. Incoming(s)'.from + copied'[s] <= Incoming(s)'.upto + 1
    BY <1>0, <1>1, <1>4, <2>1 DEF Meta
  <2>6. place'[s] = place[s] /\ bucket' = bucket
    BY <1>0
  <2>7. reading'[s] /\ (place'[s] = "next" => ~bucket'[s].last)
    BY <1>0, <2>1, <2>6 DEF CopyInv
  <2> QED
    BY <2>1, <2>3, <2>4, <2>5, <2>7 DEF CopyInv
<1>8. HandedInv(s)'
  BY <1>0 DEF HandedInv, HandedOut
<1>9. (\A r \in Receiver : r # s => SameReceiver(r)) /\ SameEnd(0) /\ SameEnd(p)
  BY <1>0, <1>4, RankFacts DEF SameReceiver, SameEnd, RingInv, RingType
<1>10. \A r \in 0..(Receivers - 1) : SameLink(r)
  BY <1>0 DEF SameLink
<1>11. LinkInv(p)'
  <2>1. Got(s)' = Got(s) /\ Out(p)' = Out(p)
    BY <1>0 DEF Got, Out, Pending, Incoming
  <2> QED
    BY <1>0, <1>9, <1>10, <2>1, KeptBefore, LinkFrame
<1>12. s < Receivers => LinkInv(s)'
  <2> SUFFICES ASSUME s < Receivers PROVE LinkInv(s)'
    OBVIOUS
  <2>1. s + 1 \in Receiver /\ s + 1 # s
    BY LinkEnds
  <2> QED
    BY <1>0, <1>4, <1>9, <1>10, <2>1, LinkBehind
<1> QED
  BY <1>0, <1>5, <1>6, <1>7, <1>8, <1>9, <1>10, <1>11, <1>12, ReceiverStep

LEMMA EndReadKeeps ==
  ASSUME RingInv, NEW p \in 0..(Receivers - 1), NEW s, s = p + 1, EndRead(s)
  PROVE  RingInv'
<1> USE LocalTypes
<1>0. /\ reading[s] /\ CopiedAll(s)
      /\ reading' = [reading EXCEPT ![s] = FALSE]
      /\ notified' = [notified EXCEPT ![p] = @ + 1]
      /\ UNCHANGED <<place, taken, bucket, half, buffers, offset, handed, inbox, incoming,
                     copied, announced>>
  BY DEF EndRead, streamVars
<1>1. /\ notified[p] + 1 = announced[p] /\ inbox[s] = <<>> /\ Got(s) = Out(p)
  BY <1>0 DEF LinkInv, Quiet, Posted, UnderWay
<1>2. ~reading'[s] /\ notified'[p] = announced'[p] /\ inbox'[s] = <<>>
  BY <1>0, <1>1 DEF RingInv, RingType
<1>3. RingType'
  <2>1. reading' \in [Receiver -> BOOLEAN] /\ notified' \in [Rank -> Nat]
    BY <1>0, SMTT(20) DEF RingInv, RingType
  <2> QED
    BY <1>0, <2>1, SMTT(20) DEF RingInv, RingType
<1>4. HoldInv(s)'
  BY <1>0 DEF HoldInv, Sound, Whole, InBuffer
<1>5. CopyInv(s)'
  BY <1>0, <1>2 DEF CopyInv, Pending, Incoming, CopiedAll, Sound, InBuffer
<1>6. HandedInv(s)'
  BY <1>0 DEF HandedInv, HandedOut
<1>7. (\A r \in Receiver : r # s => SameReceiver(r)) /\ SameEnd(0) /\ SameEnd(p)
  BY <1>0 DEF SameReceiver, SameEnd, RingInv, RingType
<1>8. \A r \in 0..(Receivers - 1) : r \notin {p, s} => SameLink(r)
  BY <1>0, LinkEnds DEF SameLink, RingInv, RingType
<1>9. LinkInv(p)'
  <2>1. Got(s)' = Got(s) /\ Out(p)' = Out(p)
    BY <1>0 DEF Got, Out, Pending, Incoming
  <2> QED
    BY <1>1, <1>2, <2>1 DEF LinkInv, Quiet
<1>10. s < Receivers => LinkInv(s)'
  <2> SUFFICES ASSUME s < Receivers PROVE LinkInv(s)'
    OBVIOUS
  <2>1. s + 1 \in Receiver /\ s + 1 # s
    BY LinkEnds
  <2>2. SameLink(s)
    BY <1>0 DEF SameLink, RingInv, RingType
  <2> QED
    BY <1>0, <1>7, <2>1, <2>2, LinkBehind
<1> QED
  BY <1>0, <1>3, <1>4, <1>5, <1>6, <1>7, <1>8, <1>9, <1>10, ReceiverStep

LEMMA YieldKeeps ==
  ASSUME RingInv, NEW p \in 0..(Receivers - 1), NEW s, s = p + 1, Yield(s), UNCHANGED ringVars
  PROVE  RingInv' /\ (s \in Punctual => Promised!Hand(s))
<1> USE LocalTypes
<1>0. /\ place[s] = "yield"
      /\ UNCHANGED <<place, taken, bucket, half, buffers, inbox, incoming, reading, copied,
                     announced, notified>>
  BY DEF Yield, ringVars
<1>1. /\ StreamType' /\ HandedInv(s)' /\ (s \in Punctual => Promised!Hand(s))
      /\ handed'[s] \in Seq([name : Nat, tensor : Nat])
      /\ \A r \in Receiver : r # s => handed'[r] = handed[r] /\ offset'[r] = offset[r]
  <2>1. StreamType /\ handed[s] \in Seq([name : Nat, tensor : Nat])
    BY RankFacts DEF RingInv, RingType, StreamType
  <2> QED
    BY <2>1, YieldHolds
<1>4. RingType'
  <2>1. \A r \in Receiver : handed'[r] \in Seq([name : Nat, tensor : Nat])
    BY <1>1 DEF RingInv, RingType
  <2>2. handed' \in [Receiver -> Seq([name : Nat, tensor : Nat])]
    BY <1>1, <2>1 DEF StreamType
  <2> QED
    BY <1>0, <1>1, <2>2 DEF RingInv, RingType, StreamType
<1>5. HoldInv(s)'
  BY <1>0 DEF HoldInv, Sound, Whole, InBuffer
<1>6. CopyInv(s)'
  BY <1>0 DEF CopyInv, Pending, Incoming, CopiedAll, Sound, InBuffer
<1>8. (\A r \in Receiver : r # s => SameReceiver(r)) /\ SameEnd(0) /\ SameEnd(p)
  BY <1>0, <1>1 DEF SameReceiver, SameEnd
<1>9. \A r \in 0..(Receivers - 1) : SameLink(r)
  BY <1>0 DEF SameLink
<1>10. LinkInv(p)'
  <2>1. Got(s)' = Got(s) /\ Out(p)' = Out(p)
    BY <1>0 DEF Got, Out, Pending, Incoming
  <2> QED
    BY <1>0, <1>8, <1>9, <2>1, KeptBefore, LinkFrame
<1>11. s < Receivers => LinkInv(s)'
  <2> SUFFICES ASSUME s < Receivers PROVE LinkInv(s)'
    OBVIOUS
  <2>1. s + 1 \in Receiver /\ s + 1 # s
    BY LinkEnds
  <2> QED
    BY <1>0, <1>8, <1>9, <2>1, LinkBehind
<1> QED
  BY <1>0, <1>1, <1>4, <1>5, <1>6, <1>8, <1>9, <1>10, <1>11, ReceiverStep

LEMMA ArrivedKeeps ==
  ASSUME RingInv, NEW p \in 0..(Receivers - 1), NEW s, s = p + 1, Arrived(s)
  PROVE  RingInv'
<1>b. PICK b, h : b = Incoming(s) /\ h = 1 - half[s]
  OBVIOUS
<1>0. /\ place[s] = "read" /\ ~reading[s]
      /\ half' = [half EXCEPT ![s] = h]
      /\ bucket' = [bucket EXCEPT ![s] = b]
      /\ offset' = [offset EXCEPT ![s] = 0]
      /\ place' = [place EXCEPT ![s] = IF b.last THEN "yield" ELSE "next"]
      /\ UNCHANGED <<taken, buffers, handed, incoming, reading, copied, notified>>
  BY <1>b DEF Arrived, SwapReceiver, BufferSwapped
<1>a. /\ s < Receivers => Announce(s, b, h)
      /\ ~(s < Receivers) => UNCHANGED <<inbox, announced>>
  BY <1>b DEF Arrived
<1>1. /\ s \in Receiver /\ s \in Rank /\ s # 0 /\ s # p /\ p \in Rank
      /\ b \in Meta /\ h \in 0..1 /\ half[s] \in 0..1 /\ h # half[s]
      /\ taken \in Nat /\ bucket[s] \in Meta /\ offset[s] \in Nat /\ copied[s] \in Nat
      /\ CopyInv(s) /\ HandedInv(s) /\ LinkInv(p) /\ inbox[s] \in Seq(Message)
      /\ (s < Receivers => s \in 0..(Receivers - 1) /\ LinkInv(s))
  BY <1>b, LocalTypes
<1>t. /\ b.from \in Nat /\ b.upto \in Nat /\ b.last \in BOOLEAN
      /\ copied[s] \in Nat /\ offset[s] \in Nat
      /\ bucket[s].from \in Nat /\ bucket[s].upto \in Nat
  BY <1>1 DEF Meta
<1>2. Pending(s) /\ Sound(b) /\ b.from = bucket[s].upto + 1 /\ Whole(s, h, b)
  <2>1. Pending(s)
    BY <1>0 DEF Pending
  <2>2. /\ Sound(b) /\ b.from = bucket[s].upto + 1 /\ b.from + copied[s] <= b.upto + 1
        /\ b.from + copied[s] > b.upto /\ InBuffer(s, h, b, b.from + copied[s])
    BY <1>0, <1>1, <1>b, <2>1 DEF CopyInv, CopiedAll
  <2>3. b.from + copied[s] = b.upto + 1
    BY <1>t, <2>2
  <2> QED
    BY <2>1, <2>2, <2>3 DEF Whole
<1>3. bucket'[s] = b /\ half'[s] = h /\ offset'[s] = 0 /\ ~reading'[s]
      /\ place'[s] = IF b.last THEN "yield" ELSE "next"
  BY <1>0, <1>1 DEF RingInv, RingType
<1>4. ASSUME s < Receivers
      PROVE  /\ inbox' = [inbox EXCEPT ![s + 1] = Append(@, [meta |-> b, half |-> h])]
             /\ announced' = [announced EXCEPT ![s] = @ + 1]
             /\ s + 1 \in Receiver /\ s + 1 # s
             /\ Quiet(s) /\ Got(s + 1) = bucket[s].upto
  <2>1. s + 1 \in Receiver /\ s + 1 # s
    BY <1>1, <1>4, LinkEnds
  <2>2. Quiet(s)
    BY <1>0, <1>1, <1>4 DEF LinkInv, Posted, UnderWay, Kept
  <2>3. Got(s + 1) = bucket[s].upto
    BY <1>1, <1>4, <2>2 DEF LinkInv, Quiet, Out
  <2> QED
    BY <1>a, <1>4, <2>1, <2>2, <2>3 DEF Announce
<1>5. RingType'
  <2>1. bucket' \in [Rank -> Meta] /\ half' \in [Rank -> 0..1] /\ offset' \in [Rank -> Nat]
    BY <1>0, <1>1 DEF RingInv, RingType
  <2>2. /\ place' \in [Rank -> SenderPlaces \cup ReceiverPlaces]
        /\ place'[0] \in SenderPlaces /\ \A r \in Receiver : place'[r] \in ReceiverPlaces
    <3>1. (IF b.last THEN "yield" ELSE "next") \in ReceiverPlaces
      BY DEF ReceiverPlaces
    <3> QED
      BY <1>0, <1>1, <3>1, PlaceStep
  <2>3. inbox' \in [Receiver -> Seq(Message)] /\ announced' \in [Rank -> Nat]
    <3>1. CASE s < Receivers
      <4>1. inbox \in [Receiver -> Seq(Message)] /\ announced \in [Rank -> Nat]
        BY DEF RingInv, RingType
      <4>2. [meta |-> b, half |-> h] \in Message
        BY <1>1 DEF Message
      <4>3. inbox[s + 1] \in Seq(Message)
        BY <1>4, <3>1, <4>1
      <4>4. Append(inbox[s + 1], [meta |-> b, half |-> h]) \in Seq(Message)
        BY <4>2, <4>3
      <4> QED
        <5>1. inbox' \in [Receiver -> Seq(Message)]
          BY <1>4, <3>1, <4>1, <4>4
        <5>2. announced[s] + 1 \in Nat
          BY <1>1, <4>1
        <5>3. announced' \in [Rank -> Nat]
          BY <1>4, <3>1, <4>1, <5>2
        <5> QED
          BY <5>1, <5>3
    <3>2. CASE ~(s < Receivers)
      BY <1>a, <3>2 DEF RingInv, RingType
    <3> QED
      BY <3>1, <3>2
  <2> QED
    BY <1>0, <2>1, <2>2, <2>3 DEF RingInv, RingType
<1>6. HoldInv(s)'
  BY <1>0, <1>1, <1>2, <1>3 DEF HoldInv, Sound, Whole, InBuffer
<1>7. ~Pending(s)'
  BY <1>3, <1>t DEF Pending
<1>8. CopyInv(s)'
  BY <1>3, <1>7 DEF CopyInv
<1>9. HandedInv(s)'
  <2>1. HandedInv(s) /\ handed' = handed /\ HandedOut(s)
    BY <1>0, <1>1 DEF HandedInv
  <2>2. Len(handed[s]) = bucket[s].upto
    <3>1. /\ Len(handed[s]) = bucket[s].from + offset[s] - 1
          /\ bucket[s].from + offset[s] <= bucket[s].upto + 1
          /\ bucket[s].from + offset[s] > bucket[s].upto
      BY <2>1 DEF HandedInv, HandedOut
    <3>2. \A x, y, z \in Nat : x + y <= z + 1 /\ x + y > z => x + y - 1 = z
      OBVIOUS
    <3> QED
      BY <1>t, <3>1, <3>2, Zenon
  <2>3. bucket'[s].from + offset'[s] - 1 = bucket[s].upto
        /\ bucket'[s].from + offset'[s] <= bucket'[s].upto + 1
    BY <1>2, <1>3, <1>t DEF Sound
  <2>4. place'[s] \notin {"first", "read", "done"}
    BY <1>3
  <2> QED
    BY <2>1, <2>2, <2>3, <2>4 DEF HandedInv
<1>10. (\A r \in Receiver : r # s => SameReceiver(r)) /\ SameEnd(0) /\ SameEnd(p)
  BY <1>0, <1>1, RankFacts DEF SameReceiver, SameEnd, RingInv, RingType
<1>11. \A r \in 0..(Receivers - 1) : r # s => SameLink(r)
  <2> SUFFICES ASSUME NEW r \in 0..(Receivers - 1), r # s PROVE SameLink(r)
    OBVIOUS
  <2>1. r + 1 # s + 1 /\ r \in Rank /\ r + 1 \in Receiver
    BY <1>1, LinkEnds DEF Rank
  <2>2. CASE s < Receivers
    BY <1>0, <1>4, <2>1, <2>2 DEF SameLink, RingInv, RingType
  <2>3. CASE ~(s < Receivers)
    BY <1>0, <1>a, <2>3 DEF SameLink
  <2> QED
    BY <2>2, <2>3
<1>12. LinkInv(p)'
  <2>1. Got(s)' = Got(s) /\ Out(p)' = Out(p)
    BY <1>2, <1>3, <1>7, <1>10, <1>b DEF Got, Out, SameEnd
  <2> QED
    BY <1>0, <1>1, <1>10, <1>11, <2>1, KeptBefore, LinkFrame
<1>13. s < Receivers => LinkInv(s)'
  <2> SUFFICES ASSUME s < Receivers PROVE LinkInv(s)'
    OBVIOUS
  <2>m. PICK m : m = [meta |-> b, half |-> h]
    OBVIOUS
  <2>1. inbox'[s + 1] = <<m>> /\ Head(inbox'[s + 1]) = m /\ ~reading'[s + 1]
        /\ notified'[s] + 1 = announced'[s]
    <3>1. inbox'[s + 1] = Append(inbox[s + 1], m) /\ announced'[s] = announced[s] + 1
      BY <1>1, <1>4, <2>m DEF RingInv, RingType
    <3>2. inbox[s + 1] = <<>> /\ ~reading[s + 1] /\ notified[s] = announced[s]
      BY <1>4 DEF Quiet
    <3>3. Append(<<>>, m) = <<m>> /\ Head(<<m>>) = m
      OBVIOUS
    <3> QED
      BY <1>0, <3>1, <3>2, <3>3
  <2>2. Kept(s, m)'
    <3>1. m \in Message /\ m.meta = b /\ m.half = h
      BY <1>1, <2>m DEF Message
    <3>2. Sound(m.meta)' /\ Whole(s, m.half, m.meta)'
      BY <1>0, <1>2, <3>1 DEF Sound, Whole, InBuffer
    <3>3. place'[s] \in {"next", "yield"}
      BY <1>3
    <3> QED
      BY <1>1, <1>3, <3>1, <3>2, <3>3 DEF Kept
  <2>3. Got(s + 1)' = bucket[s].upto /\ Out(s)' = b.upto
    <3>1. SameReceiver(s + 1)
      BY <1>4, <1>10
    <3>2. Got(s + 1)' = Got(s + 1)
      BY <3>1 DEF Got, Pending, Incoming, SameReceiver, SameEnd
    <3> QED
      BY <1>1, <1>3, <1>4, <3>2 DEF Out
  <2>4. m.meta.from = bucket[s].upto + 1 /\ m.meta.upto = b.upto
    BY <1>2, <2>m
  <2>5. Posted(s)'
    BY <2>1, <2>2, <2>3, <2>4 DEF Posted
  <2> QED
    BY <2>1, <2>5 DEF LinkInv
<1>14. HoldInv(s)' /\ SameEnd(0) /\ \A r \in Receiver : r # s => SameReceiver(r)
  BY <1>6, <1>10
<1> QED
  BY <1>0, <1>5, <1>8, <1>9, <1>11, <1>12, <1>13, <1>14, ReceiverStep

LEMMA PassedKeeps ==
  ASSUME RingInv, NEW p \in 0..(Receivers - 1), NEW s, s = p + 1, Passed(s)
  PROVE  RingInv'
<1> USE LocalTypes
<1>0. /\ place[s] = "yield" /\ HandedOut(s) /\ notified[s] = announced[s]
      /\ place' = [place EXCEPT ![s] = IF bucket[s].last THEN "done" ELSE "read"]
      /\ UNCHANGED <<taken, bucket, half, buffers, offset, handed, inbox, incoming, reading,
                     copied, announced, notified>>
  BY DEF Passed, ringVars, ReadByNext
<1>1. place'[s] = IF bucket[s].last THEN "done" ELSE "read"
  BY <1>0 DEF RingInv, RingType
<1>2. RingType'
  <2>1. (IF bucket[s].last THEN "done" ELSE "read") \in ReceiverPlaces
    BY DEF ReceiverPlaces
  <2>2. /\ place' \in [Rank -> SenderPlaces \cup ReceiverPlaces]
        /\ place'[0] \in SenderPlaces /\ \A r \in Receiver : place'[r] \in ReceiverPlaces
    BY <1>0, <2>1, PlaceStep
  <2> QED
    BY <1>0, <2>2 DEF RingInv, RingType
<1>3. Pending(s)' = Pending(s)
  BY <1>0, <1>1 DEF Pending
<1>4. HoldInv(s)'
  BY <1>0 DEF HoldInv, Sound, Whole, InBuffer
<1>5. CopyInv(s)'
  BY <1>0, <1>1, <1>3 DEF CopyInv, Incoming, CopiedAll, Sound, InBuffer
<1>6. HandedInv(s)'
  <2>1. HandedInv(s) /\ HandedOut(s) /\ UNCHANGED <<bucket, offset, handed>>
    BY <1>0
  <2> QED
    BY <2>1 DEF HandedInv, HandedOut
<1>7. (\A r \in Receiver : r # s => SameReceiver(r)) /\ SameEnd(0) /\ SameEnd(p)
  BY <1>0, RankFacts DEF SameReceiver, SameEnd, RingInv, RingType
<1>8. \A r \in 0..(Receivers - 1) : SameLink(r)
  BY <1>0 DEF SameLink
<1>9. LinkInv(p)'
  <2>1. Got(s)' = Got(s) /\ Out(p)' = Out(p)
    BY <1>0, <1>3 DEF Got, Out, Incoming
  <2> QED
    BY <1>0, <1>7, <1>8, <2>1, KeptBefore, LinkFrame
<1>10. s < Receivers => LinkInv(s)'
  <2> SUFFICES ASSUME s < Receivers PROVE LinkInv(s)'
    OBVIOUS
  <2>1. s + 1 \in Receiver /\ s + 1 # s
    BY LinkEnds
  <2>2. Quiet(s) /\ LinkInv(s)
    BY <1>0 DEF LinkInv, Posted, UnderWay
  <2>3. Got(s + 1)' = Got(s + 1) /\ Out(s)' = Out(s)
    BY <1>0, <1>7, <2>1 DEF Got, Out, Pending, Incoming, SameReceiver, SameEnd
  <2> QED
    BY <1>0, <2>2, <2>3 DEF LinkInv, Quiet
<1> QED
  BY <1>0, <1>2, <1>4, <1>5, <1>6, <1>7, <1>8, <1>9, <1>10, ReceiverStep

-----------------------------------------------------------------------------
LEMMA StepKeeps == RingInv /\ [RingNext]_ringEngineVars => RingInv'
<1> SUFFICES ASSUME RingInv, [RingNext]_ringEngineVars PROVE RingInv'
  OBVIOUS
<1>1. CASE UNCHANGED ringEngineVars
  <2> USE <1>1 DEF ringEngineVars, streamVars, ringVars
  <2>1. RingType'
    BY DEF RingInv, RingType
  <2>2. \A r \in Rank : SameEnd(r) /\ HoldInv(r)'
    BY DEF RingInv, SameEnd, HoldInv, Sound, Whole, InBuffer
  <2>3. taken' \in Nat /\ taken' >= taken
    BY DEF RingInv, RingType
  <2>4. ASSUME NEW r \in Receiver PROVE SameReceiver(r) /\ CopyInv(r)' /\ HandedInv(r)'
    <3>1. SameReceiver(r)
      BY DEF SameReceiver, SameEnd
    <3> QED
      BY <2>3, <3>1, ReceiverFrame
  <2>5. ASSUME NEW r \in 0..(Receivers - 1) PROVE LinkInv(r)'
    <3>1. SameLink(r) /\ SameEnd(r) /\ SameReceiver(r + 1) /\ r + 1 \in Receiver
      BY <2>2, <2>4, LinkEnds DEF SameLink
    <3> QED
      BY <2>3, <3>1, LinkSame
  <2> QED
    BY <2>1, <2>2, <2>4, <2>5 DEF RingInv
<1>2. CASE RingSender
  BY <1>2, FillKeeps, RingSendKeeps, RingSentKeeps DEF RingSender
<1>3. ASSUME NEW s \in Receiver, RingReceiver(s) \/ RingWire(s) PROVE RingInv'
  <2>1. s - 1 \in 0..(Receivers - 1) /\ s = (s - 1) + 1
    BY StreamingAssumption DEF Receiver
  <2> QED
    BY <1>3, <2>1, BeginReadKeeps, ArrivedKeeps, PassedKeeps, YieldKeeps, CopyTensorKeeps,
       EndReadKeeps DEF RingReceiver, RingWire
<1> QED
  BY <1>1, <1>2, <1>3 DEF RingNext

LEMMA FillTakes ==
  ASSUME Fill PROVE Promised!Next
<1>1. taken < Len([t \in 1..Count |-> [name |-> t, tensor |-> t]])
  BY RankFacts DEF Fill, Left
<1> QED
  BY <1>1 DEF Fill, HandedPunctual, Promised!Next, Promised!Take

(* What a late receiver hands out is nobody else's business. *)
LEMMA LateHandsUnseen ==
  ASSUME NEW s \in Late, Yield(s) PROVE UNCHANGED <<taken, HandedPunctual>>
<1>1. \A r \in Punctual : handed'[r] = handed[r]
  BY DEF Yield, Punctual
<1> QED
  BY <1>1 DEF Yield, HandedPunctual

(* A step fills a tensor in, hands one out, or shows nothing of itself. *)
LEMMA StepRefines ==
  RingInv /\ [RingNext]_ringEngineVars => [Promised!Next]_<<taken, HandedPunctual>>
<1> SUFFICES ASSUME RingInv, [RingNext]_ringEngineVars, ~UNCHANGED <<taken, HandedPunctual>>
             PROVE  Promised!Next
  OBVIOUS
<1>1. CASE Fill
  BY <1>1, FillTakes
<1>2. ASSUME NEW s \in Receiver, Yield(s), UNCHANGED ringVars PROVE Promised!Next
  <2>1. s - 1 \in 0..(Receivers - 1) /\ s = (s - 1) + 1
    BY StreamingAssumption DEF Receiver
  <2>2. s \in Late => UNCHANGED <<taken, HandedPunctual>>
    BY <1>2, LateHandsUnseen
  <2>3. s \in Punctual
    BY <2>2 DEF Punctual
  <2> QED
    BY <1>2, <2>1, <2>3, YieldKeeps DEF Promised!Next
<1>0. ~UNCHANGED <<taken, handed>>
  BY DEF HandedPunctual
<1>3. RingNext
  BY <1>0 DEF ringEngineVars, streamVars
<1>4. CASE RingSender
  BY <1>0, <1>1, <1>4 DEF RingSender, RingSend, RingSent
<1>5. ASSUME NEW s \in Receiver, RingReceiver(s) \/ RingWire(s) PROVE Promised!Next
  BY <1>0, <1>2, <1>5 DEF RingReceiver, RingWire, BeginRead, Arrived, Passed, CopyTensor, EndRead,
     streamVars
<1> QED
  BY <1>3, <1>4, <1>5 DEF RingNext

(* However buckets are cut, copied from rank to rank and handed out at the     *)
(* same time, each receiver of the chain is handed the tensors of the          *)
(* generator, in order, each under its name with its contents: the chain       *)
(* implements what CheckpointEngine promises (nixl_checkpoint_engine.py).  No  *)
(* rank of a chain is late: Late is any set here, and empty for all of them.   *)
THEOREM RingHandsInOrder == RingSpec => HandedInOrder
<1>1. RingInit => Promised!Init
  BY RankFacts DEF RingInit, StreamInit, HandedPunctual, Promised!Init
<1>2. RingSpec => []RingInv
  BY InitHolds, StepKeeps, PTL DEF RingSpec
<1> QED
  BY <1>1, <1>2, StepRefines, PTL DEF RingSpec, HandedInOrder, Promised!Spec

-----------------------------------------------------------------------------
(* The broadcast engine.  M stands for the buckets rank 0 has sent so far; the *)
(* state keeps only what of them is still on its way.                          *)

Op == [state : {"meta", "data", "done"}, half : 0..1, meta : Meta]

BroadcastType ==
  /\ StreamType
  /\ op \in [Rank -> Op]
  /\ missed \in [Receiver -> Nat] /\ \A r \in Punctual : missed[r] = 0
  /\ metas \in [Receiver -> Seq(Meta)]
  /\ wire \in Seq(Contents)
  /\ joined \in [Receiver -> Nat]

Upto(M, k) == IF k = 0 THEN 0 ELSE M[k].upto

(* The buckets sent follow each other; the next one goes on behind them. *)
BucketsInv(M) ==
  /\ \A k \in 1..Len(M) : Sound(M[k]) /\ M[k].from = Upto(M, k - 1) + 1
  /\ bucket[0].from = Upto(M, Len(M)) + 1

(* All but the one under way have been broadcast; that one is in the buffer    *)
(* which is not being filled.                                                   *)
SourceInv(M) ==
  /\ Len(M) = Len(wire) + (IF op[0].state = "done" THEN 0 ELSE 1)
  /\ op[0].state # "done" =>
       op[0].meta = M[Len(M)] /\ op[0].half = 1 - half[0] /\ Whole(0, op[0].half, op[0].meta)
  /\ \A k \in 1..Len(wire) : \A t \in M[k].from..M[k].upto : wire[k][t - M[k].from + 1] = t

Published == Len(wire) + (IF op[0].state = "data" THEN 1 ELSE 0)
Named(r) == joined[r] + (IF op[r].state = "data" THEN 1 ELSE 0)

(* A receiver has the names of the bucket it asks for next, or of the one it   *)
(* is getting, and later ones wait in its socket.                               *)
SocketInv(r, M) ==
  /\ joined[r] <= Len(wire) /\ Len(metas[r]) = Published - Named(r)
  /\ \A i \in 1..Len(metas[r]) : metas[r][i] = M[Named(r) + i]
  /\ op[r].state = "data" => op[r].meta = M[joined[r] + 1]

(* The bucket under way goes into recv_buf; once it is there, it is the next   *)
(* to be handed out.                                                            *)
ArrivalInv(r, M) ==
  /\ op[r].state # "done" => Pending(r)
  /\ Pending(r) => op[r].half = 1 - half[r]
  /\ IF Pending(r) /\ op[r].state = "done"
     THEN /\ joined[r] > 0 /\ op[r].meta = M[joined[r]]
          /\ Whole(r, op[r].half, op[r].meta)
          /\ bucket[r].upto = Upto(M, joined[r] - 1)
     ELSE bucket[r].upto = Upto(M, joined[r])

(* Of a late receiver nothing holds; the others need nothing of it. *)
BroadcastHolds(M) ==
  /\ BucketsInv(M) /\ SourceInv(M)
  /\ \A r \in Rank \ Late : HoldInv(r)
  /\ \A r \in Punctual : HandedInv(r) /\ SocketInv(r, M) /\ ArrivalInv(r, M)

BroadcastInv == BroadcastType /\ \E M \in Seq(Meta) : BroadcastHolds(M)

-----------------------------------------------------------------------------
LEMMA BroadcastInitHolds == BroadcastInit => BroadcastInv
<1> SUFFICES ASSUME BroadcastInit PROVE BroadcastInv
  OBVIOUS
<1> USE RankFacts DEF BroadcastInit, StreamInit, BroadcastIdle, NoBucket, NoOp
<1>1. BroadcastType
  <2>1. StreamType
    BY DEF StreamType, SenderPlaces, ReceiverPlaces, Meta, Contents, Zeros, Garbage
  <2>2. op \in [Rank -> Op]
    BY DEF Op, Meta
  <2>3. missed \in [Receiver -> Nat]
    BY BroadcastAssumption
  <2> QED
    BY <2>1, <2>2, <2>3 DEF BroadcastType
<1>2. <<>> \in Seq(Meta) /\ Len(<<>>) = 0
  BY EmptySeq
<1>3. BucketsInv(<<>>) /\ SourceInv(<<>>)
  BY <1>2 DEF BucketsInv, SourceInv, Upto
<1>4. \A r \in Rank : HoldInv(r)
  BY DEF HoldInv, Sound, Whole, InBuffer
<1>5. \A r \in Receiver : HandedInv(r) /\ SocketInv(r, <<>>) /\ ArrivalInv(r, <<>>)
  BY <1>2 DEF HandedInv, HandedOut, SocketInv, ArrivalInv, Published, Named, Pending, Upto
<1> QED
  BY <1>1, <1>2, <1>3, <1>4, <1>5 DEF BroadcastInv, BroadcastHolds

LEMMA Local ==
  ASSUME BroadcastType, NEW r \in Receiver
  PROVE  /\ r \in Rank /\ r # 0 /\ 0 \in Rank /\ taken \in Nat
         /\ place[r] \in SenderPlaces \cup ReceiverPlaces
         /\ bucket[r] \in Meta /\ half[r] \in 0..1 /\ buffers[r] \in [0..1 -> Contents]
         /\ offset[r] \in Nat /\ op[r] \in Op /\ metas[r] \in Seq(Meta) /\ joined[r] \in Nat
         /\ Len(metas[r]) \in Nat /\ Len(wire) \in Nat /\ wire \in Seq(Contents)
         /\ bucket[r].from \in Nat /\ bucket[r].upto \in Nat
<1>1. r \in Rank /\ r # 0 /\ 0 \in Rank
  BY RankFacts
<1>2. /\ taken \in Nat /\ place[r] \in SenderPlaces \cup ReceiverPlaces
      /\ bucket[r] \in Meta /\ half[r] \in 0..1 /\ buffers[r] \in [0..1 -> Contents]
      /\ offset[r] \in Nat
  BY <1>1, RankFacts DEF BroadcastType, StreamType
<1>3. /\ op[r] \in Op /\ metas[r] \in Seq(Meta) /\ joined[r] \in Nat /\ wire \in Seq(Contents)
  BY <1>1 DEF BroadcastType
<1>4. Len(metas[r]) \in Nat /\ Len(wire) \in Nat
  BY <1>3
<1>5. bucket[r].from \in Nat /\ bucket[r].upto \in Nat
  BY <1>2 DEF Meta
<1> QED
  BY <1>1, <1>2, <1>3, <1>4, <1>5

(* What a step leaves alone of a rank, and of a receiver *)
SameSocket(r) == op'[r] = op[r] /\ metas'[r] = metas[r] /\ joined'[r] = joined[r]
SameHands(r) == offset'[r] = offset[r] /\ handed'[r] = handed[r]

LEMMA HoldFrame ==
  ASSUME NEW r \in Rank, HoldInv(r), SameEnd(r), bucket[r] \in Meta, taken \in Nat, taken' \in Nat,
         taken' >= taken, r = 0 => taken' = taken
  PROVE  HoldInv(r)'
BY DEF HoldInv, SameEnd, Sound, Whole, InBuffer, Meta

LEMMA SoundGrows ==
  ASSUME NEW b \in Meta, Sound(b), taken \in Nat, taken' \in Nat, taken' >= taken
  PROVE  Sound(b)'
BY DEF Sound, Meta

(* The buckets and the source, where rank 0's operation and what has been      *)
(* broadcast stay                                                               *)
LEMMA SourceFrame ==
  ASSUME BroadcastType, NEW M \in Seq(Meta), BucketsInv(M), SourceInv(M),
         taken' \in Nat, taken' >= taken, bucket'[0].from = bucket[0].from,
         op'[0] = op[0], wire' = wire, half'[0] = half[0],
         op[0].state # "done" => buffers'[0][1 - half[0]] = buffers[0][1 - half[0]]
  PROVE  BucketsInv(M)' /\ SourceInv(M)'
<1>1. taken \in Nat
  BY RankFacts DEF BroadcastType, StreamType
<1>2. BucketsInv(M)'
  <2>1. \A k \in 1..Len(M) : M[k] \in Meta
    OBVIOUS
  <2> QED
    BY <1>1, <2>1, SoundGrows DEF BucketsInv
<1>3. SourceInv(M)'
  BY DEF SourceInv, Whole, InBuffer
<1> QED
  BY <1>2, <1>3

LEMMA SocketFrame ==
  ASSUME BroadcastType, NEW M \in Seq(Meta), NEW r \in Receiver,
         HandedInv(r), SocketInv(r, M), ArrivalInv(r, M),
         SameEnd(r), SameHands(r), SameSocket(r), Len(wire)' = Len(wire), Published' = Published
  PROVE  HandedInv(r)' /\ SocketInv(r, M)' /\ ArrivalInv(r, M)'
<1> USE DEF SameEnd, SameHands, SameSocket
<1>1. HandedInv(r)'
  BY DEF HandedInv, HandedOut
<1>2. SocketInv(r, M)'
  BY DEF SocketInv, Named
<1>3. ArrivalInv(r, M)'
  BY DEF ArrivalInv, Pending, Whole, InBuffer
<1> QED
  BY <1>1, <1>2, <1>3

LEMMA SourceStep ==
  ASSUME BroadcastType, NEW M \in Seq(Meta), BroadcastHolds(M), NEW N \in Seq(Meta),
         taken' \in Nat, taken' >= taken, HoldInv(0)', BucketsInv(N)', SourceInv(N)',
         \A r \in Punctual : SameEnd(r) /\ SameHands(r) /\ SocketInv(r, N)' /\ ArrivalInv(r, N)'
  PROVE  BroadcastHolds(N)'
<1>1. ASSUME NEW r \in Punctual PROVE HoldInv(r)' /\ HandedInv(r)'
  <2>1. HoldInv(r)'
    <3>1. r \in Receiver /\ r \in Rank \ Late
      BY RankFacts DEF Punctual
    <3> QED
      BY <3>1, Local, HoldFrame DEF BroadcastHolds
  <2>2. HandedInv(r) /\ SameEnd(r) /\ SameHands(r)
    BY DEF BroadcastHolds
  <2>3. HandedInv(r)'
    BY <2>2 DEF HandedInv, HandedOut, SameEnd, SameHands
  <2> QED
    BY <2>1, <2>3
<1>2. \A r \in Rank \ Late : r = 0 \/ r \in Punctual
  BY RankFacts DEF Rank, Receiver, Punctual
<1>3. \A r \in Rank \ Late : HoldInv(r)'
  BY <1>1, <1>2
<1> QED
  BY <1>1, <1>3 DEF BroadcastHolds

LEMMA SocketStep ==
  ASSUME BroadcastType, NEW M \in Seq(Meta), BroadcastHolds(M), NEW s \in Receiver,
         taken' = taken, wire' = wire, op'[0] = op[0], SameEnd(0),
         \A r \in Receiver : r # s => SameEnd(r) /\ SameHands(r) /\ SameSocket(r),
         s \notin Late => HoldInv(s)' /\ HandedInv(s)' /\ SocketInv(s, M)' /\ ArrivalInv(s, M)'
  PROVE  BroadcastHolds(M)'
<1>1. BucketsInv(M)' /\ SourceInv(M)'
  BY Local, SourceFrame DEF BroadcastHolds, SameEnd
<1>2. \A r \in Rank : r = 0 \/ r \in Receiver
  BY RankFacts DEF Rank, Receiver
<1>3. ASSUME NEW r \in Rank \ Late, r # s PROVE HoldInv(r)'
  <2>1. SameEnd(r) /\ bucket[r] \in Meta /\ taken \in Nat
    BY <1>2, <1>3, Local DEF BroadcastType, StreamType
  <2> QED
    BY <2>1, HoldFrame DEF BroadcastHolds
<1>4. ASSUME NEW r \in Punctual, r # s PROVE HandedInv(r)' /\ SocketInv(r, M)' /\ ArrivalInv(r, M)'
  <2>1. r \in Receiver
    BY RankFacts
  <2> QED
    BY <1>4, <2>1, SocketFrame DEF BroadcastHolds, Published
<1> QED
  BY <1>1, <1>3, <1>4 DEF BroadcastHolds, Punctual

-----------------------------------------------------------------------------
LEMMA FillBroadcast ==
  ASSUME BroadcastType, NEW M \in Seq(Meta), BroadcastHolds(M), Fill, UNCHANGED broadcastVars
  PROVE  BroadcastType' /\ BroadcastHolds(M)'
<1> USE RankFacts
<1>0. taken \in 0..Count /\ StreamType /\ HoldInv(0)
  BY DEF BroadcastType, StreamType, BroadcastHolds
<1>1. /\ StreamType' /\ HoldInv(0)' /\ bucket'[0].from = bucket[0].from
      /\ buffers'[0][1 - half[0]] = buffers[0][1 - half[0]]
      /\ \A r \in Receiver : bucket'[r] = bucket[r] /\ buffers'[r] = buffers[r]
  BY <1>0, FillHolds
<1>2. /\ UNCHANGED <<place, half, offset, handed, op, missed, metas, wire, joined>>
      /\ taken' = taken + 1
  BY DEF Fill, broadcastVars
<1>3. BroadcastType'
  BY <1>1, <1>2 DEF BroadcastType
<1>5. BucketsInv(M)' /\ SourceInv(M)'
  BY <1>0, <1>1, <1>2, SourceFrame DEF BroadcastHolds
<1>6. \A r \in Punctual : SameEnd(r) /\ SameHands(r) /\ SocketInv(r, M)' /\ ArrivalInv(r, M)'
  <2>1. \A r \in Punctual : SameEnd(r) /\ SameHands(r) /\ SameSocket(r)
    BY <1>1, <1>2 DEF SameEnd, SameHands, SameSocket
  <2>2. Len(wire)' = Len(wire) /\ Published' = Published
    BY <1>2 DEF Published
  <2> QED
    BY <2>1, <2>2, SocketFrame DEF BroadcastHolds
<1> QED
  BY <1>0, <1>1, <1>2, <1>3, <1>5, <1>6, SourceStep

(* The bucket being filled becomes the one under way. *)
LEMMA SendBroadcast ==
  ASSUME BroadcastType, NEW M \in Seq(Meta), BroadcastHolds(M), BroadcastSend
  PROVE  BroadcastType' /\ \E N \in Seq(Meta) : BroadcastHolds(N)'
<1> USE RankFacts
<1>1. /\ taken \in 0..Count /\ bucket[0] \in Meta /\ half[0] \in 0..1 /\ HoldInv(0)
      /\ bucket \in [Rank -> Meta] /\ half \in [Rank -> 0..1] /\ op \in [Rank -> Op]
      /\ place \in [Rank -> SenderPlaces \cup ReceiverPlaces]
      /\ BucketsInv(M) /\ SourceInv(M) /\ wire \in Seq(Contents)
  BY DEF BroadcastType, StreamType, BroadcastHolds
<1>m. PICK m, N : m = BucketMeta /\ N = Append(M, m)
  OBVIOUS
<1>2. /\ m = [from |-> bucket[0].from, upto |-> taken, last |-> ~Left] /\ bucket[0].upto = taken
      /\ m \in Meta /\ Sound(m) /\ Whole(0, half[0], m)
  <2>1. m = [from |-> bucket[0].from, upto |-> taken, last |-> ~Left] /\ bucket[0].upto = taken
    BY <1>1, <1>m DEF BucketMeta, HoldInv
  <2>2. Sound(m) /\ Whole(0, half[0], m)
    BY <1>1, <2>1 DEF HoldInv, Sound, Whole, InBuffer, Meta
  <2> QED
    BY <1>1, <2>1, <2>2 DEF Meta, Left
<1>3. /\ op[0].state = "done" /\ UNCHANGED <<taken, buffers, offset, handed, missed, metas, wire, joined>>
      /\ op' = [op EXCEPT ![0] = Started(half[0], m)]
      /\ half' = [half EXCEPT ![0] = 1 - @]
      /\ bucket' = [bucket EXCEPT ![0].from = taken + 1]
      /\ place' = [place EXCEPT ![0] = IF Left THEN "fill" ELSE "wait"]
  BY <1>m DEF BroadcastSend, OpDone, SwapSender
<1>4. /\ bucket'[0] = [from |-> taken + 1, upto |-> taken, last |-> bucket[0].last]
      /\ half'[0] = 1 - half[0] /\ op'[0] = Started(half[0], m)
  <2>1. bucket'[0] = [from |-> taken + 1, upto |-> taken, last |-> bucket[0].last]
    BY <1>1, <1>2, <1>3 DEF Meta
  <2> QED
    BY <1>1, <1>3, <2>1
<1>5. \A r \in Receiver : SameEnd(r) /\ SameHands(r) /\ SameSocket(r)
  BY <1>1, <1>3 DEF SameEnd, SameHands, SameSocket
<1>6. BroadcastType'
  <2>1. bucket'[0] \in Meta /\ Started(half[0], m) \in Op /\ 1 - half[0] \in 0..1
    BY <1>1, <1>2, <1>4 DEF Meta, Started, Op
  <2>2. bucket' \in [Rank -> Meta] /\ op' \in [Rank -> Op] /\ half' \in [Rank -> 0..1]
    BY <1>1, <1>3, <2>1
  <2>3. place' \in [Rank -> SenderPlaces \cup ReceiverPlaces]
    BY <1>1, <1>3 DEF SenderPlaces
  <2> QED
    BY <1>3, <2>2, <2>3 DEF BroadcastType, StreamType
<1>7. /\ N \in Seq(Meta) /\ Len(N) = Len(M) + 1 /\ N[Len(M) + 1] = m /\ Len(M) \in Nat
      /\ \A k \in 1..Len(M) : N[k] = M[k]
  BY <1>2, <1>m
<1>8. HoldInv(0)'
  <2>1. bucket'[0].from = taken + 1 /\ bucket'[0].upto = taken /\ taken' = taken
    BY <1>3, <1>4
  <2> QED
    BY <1>1, <2>1 DEF HoldInv, Sound, Whole, InBuffer
<1>9. Len(M) = Len(wire) /\ Len(wire) \in Nat
  BY <1>1, <1>3 DEF SourceInv
<1>u. \A k \in 0..Len(M) : Upto(N, k) = Upto(M, k)
  BY <1>7 DEF Upto
<1>10. BucketsInv(N)'
  <2>1. ASSUME NEW k \in 1..Len(N) PROVE Sound(N[k]) /\ N[k].from = Upto(N, k - 1) + 1
    <3>1. CASE k = Len(M) + 1
      <4>1. k - 1 \in 0..Len(M) /\ k - 1 = Len(M)
        BY <1>7, <3>1
      <4>2. m.from = Upto(M, Len(M)) + 1
        BY <1>1, <1>2 DEF BucketsInv
      <4> QED
        BY <1>2, <1>7, <1>u, <3>1, <4>1, <4>2
    <3>2. CASE k # Len(M) + 1
      <4>1. k \in 1..Len(M) /\ k - 1 \in 0..Len(M)
        BY <1>7, <3>2
      <4> QED
        BY <1>1, <1>7, <1>u, <4>1 DEF BucketsInv
    <3> QED
      BY <3>1, <3>2
  <2>2. bucket'[0].from = Upto(N, Len(N)) + 1
    BY <1>2, <1>4, <1>7 DEF Upto
  <2> QED
    BY <1>3, <2>1, <2>2 DEF BucketsInv, Sound, Upto
<1>11. SourceInv(N)'
  <2>1. op'[0].state = "meta" /\ op'[0].meta = m /\ op'[0].half = half[0]
    BY <1>4 DEF Started
  <2>2. op'[0].half = 1 - half'[0]
    BY <1>1, <1>4, <2>1
  <2>3. Whole(0, op[0].half, op[0].meta)'
    BY <1>2, <1>3, <2>1 DEF Whole, InBuffer
  <2>4. \A k \in 1..Len(wire) : \A t \in N[k].from..N[k].upto : wire[k][t - N[k].from + 1] = t
    BY <1>1, <1>7, <1>9 DEF SourceInv
  <2> QED
    BY <1>3, <1>7, <1>9, <2>1, <2>2, <2>3, <2>4 DEF SourceInv
<1>12. ASSUME NEW r \in Punctual PROVE SocketInv(r, N)' /\ ArrivalInv(r, N)'
  <2>0. r \in Receiver
    OBVIOUS
  <2>1. SocketInv(r, M)' /\ ArrivalInv(r, M)' /\ Published' = Len(wire) /\ Published = Len(wire)
    <3>1. op'[0].state = "meta"
      BY <1>4 DEF Started
    <3>2. Published' = Published /\ Published = Len(wire) /\ Len(wire)' = Len(wire)
      BY <1>3, <1>9, <3>1 DEF Published
    <3> QED
      BY <1>5, <3>2, SocketFrame DEF BroadcastHolds
  <2>2. /\ joined'[r] \in Nat /\ joined'[r] <= Len(wire) /\ Len(metas[r])' \in Nat
        /\ Named(r)' + Len(metas[r])' = Len(wire) /\ Named(r)' \in Nat
        /\ (op'[r].state = "data" => Named(r)' = joined'[r] + 1)
    <3>1. SocketInv(r, M)' /\ joined'[r] \in Nat /\ Len(metas[r])' \in Nat /\ wire' = wire
      BY <1>3, <1>5, <2>1, Local DEF SameSocket
    <3>2. Named(r)' \in Nat /\ (op'[r].state = "data" => Named(r)' = joined'[r] + 1)
      BY <3>1 DEF Named
    <3> QED
      BY <1>9, <2>1, <3>1, <3>2 DEF SocketInv
  <2>3. SocketInv(r, N)'
    <3>1. \A i \in 1..Len(metas[r])' : Named(r)' + i \in 1..Len(M)
      BY <1>9, <2>2
    <3>2. op'[r].state = "data" => joined'[r] + 1 \in 1..Len(M)
      BY <1>9, <2>2
    <3> QED
      BY <1>7, <2>1, <3>1, <3>2 DEF SocketInv
  <2>4. ArrivalInv(r, N)'
    <3>1. joined'[r] \in 0..Len(M) /\ (joined'[r] > 0 => joined'[r] - 1 \in 0..Len(M) /\ joined'[r] \in 1..Len(M))
      BY <1>9, <2>2
    <3>2. /\ Upto(N, joined'[r]) = Upto(M, joined'[r])
          /\ joined'[r] > 0 => Upto(N, joined'[r] - 1) = Upto(M, joined'[r] - 1) /\ N[joined'[r]] = M[joined'[r]]
      BY <1>7, <1>u, <3>1
    <3> QED
      BY <2>1, <3>2 DEF ArrivalInv, Upto
  <2> QED
    BY <2>3, <2>4
<1>13. BroadcastHolds(N)'
  BY <1>1, <1>3, <1>5, <1>7, <1>8, <1>10, <1>11, <1>12, SourceStep, Z3T(30)
<1> QED
  BY <1>6, <1>7, <1>13

(* The steps of rank 0's operation *)
LEMMA PublishBroadcast ==
  ASSUME BroadcastType, NEW M \in Seq(Meta), BroadcastHolds(M), Publish
  PROVE  BroadcastType' /\ BroadcastHolds(M)'
<1> USE RankFacts
<1>1. /\ op[0].state = "meta" /\ op[0] \in Op /\ op \in [Rank -> Op]
      /\ missed \in [Receiver -> Nat] /\ \A r \in Punctual : missed[r] = 0
      /\ metas \in [Receiver -> Seq(Meta)] /\ taken \in 0..Count
      /\ UNCHANGED <<streamVars, wire, joined>>
  BY DEF Publish, BroadcastType, StreamType
<1>2. /\ metas' = [r \in Receiver |-> IF missed[r] > 0 THEN metas[r] ELSE Append(metas[r], op[0].meta)]
      /\ missed' = [r \in Receiver |-> IF missed[r] > 0 THEN missed[r] - 1 ELSE 0]
      /\ op' = [op EXCEPT ![0].state = "data"]
  BY DEF Publish
<1>3. /\ op'[0] = [state |-> "data", half |-> op[0].half, meta |-> op[0].meta]
      /\ op[0].meta \in Meta /\ op'[0] \in Op
      /\ \A r \in Receiver : op'[r] = op[r]
      /\ \A r \in Punctual : metas'[r] = Append(metas[r], op[0].meta)
  BY <1>1, <1>2 DEF Op
<1>4. BroadcastType'
  <2>1. StreamType'
    BY <1>1 DEF BroadcastType, StreamType, streamVars
  <2>2. op' \in [Rank -> Op]
    BY <1>1, <1>2, <1>3
  <2>3. metas' \in [Receiver -> Seq(Meta)]
    <3>1. \A r \in Receiver : metas[r] \in Seq(Meta) /\ Append(metas[r], op[0].meta) \in Seq(Meta)
      BY <1>1, <1>3
    <3> QED
      BY <1>2, <3>1
  <2>4. missed' \in [Receiver -> Nat] /\ \A r \in Punctual : missed'[r] = 0
    BY <1>1, <1>2
  <2> QED
    BY <1>1, <2>1, <2>2, <2>3, <2>4 DEF BroadcastType
<1>5. BucketsInv(M)' /\ SourceInv(M)'
  <2>1. BucketsInv(M)'
    BY <1>1 DEF BroadcastHolds, BucketsInv, Sound, streamVars
  <2>2. op'[0].state = "data" /\ op'[0].half = op[0].half /\ op'[0].meta = op[0].meta
    BY <1>3
  <2>3. SourceInv(M)'
    BY <1>1, <2>2 DEF BroadcastHolds, SourceInv, Whole, InBuffer, streamVars
  <2> QED
    BY <2>1, <2>3
<1>6. ASSUME NEW r \in Punctual
      PROVE  SameEnd(r) /\ SameHands(r) /\ SocketInv(r, M)' /\ ArrivalInv(r, M)'
  <2>1. /\ SameEnd(r) /\ SameHands(r) /\ op'[r] = op[r] /\ joined' = joined /\ wire' = wire
        /\ Named(r)' = Named(r)
    BY <1>1, <1>3 DEF SameEnd, SameHands, streamVars, Named
  <2>2. ArrivalInv(r, M) /\ SocketInv(r, M) /\ SourceInv(M)
    BY DEF BroadcastHolds
  <2>3. ArrivalInv(r, M)'
    BY <2>1, <2>2 DEF ArrivalInv, Pending, Whole, InBuffer, SameEnd
  <2>4. /\ metas[r] \in Seq(Meta) /\ joined[r] \in Nat /\ Len(wire) \in Nat /\ Len(metas[r]) \in Nat
        /\ Named(r) \in Nat
    BY Local DEF Named
  <2>5. /\ Published = Len(wire) /\ Published' = Len(wire) + 1 /\ Len(M) = Len(wire) + 1
        /\ op[0].meta = M[Len(wire) + 1]
    BY <1>1, <1>3, <2>2, <2>4 DEF Published, SourceInv
  <2>6. Len(metas'[r]) = Published' - Named(r)' /\ Named(r) + Len(metas[r]) = Len(wire)
    BY <1>3, <2>1, <2>2, <2>4, <2>5 DEF SocketInv
  <2>7. ASSUME NEW i \in 1..Len(metas'[r]) PROVE metas'[r][i] = M[Named(r) + i]
    <3>1. Len(metas'[r]) = Len(metas[r]) + 1
      BY <1>3, <2>4
    <3>2. CASE i = Len(metas[r]) + 1
      <4>1. Append(metas[r], op[0].meta)[Len(metas[r]) + 1] = op[0].meta
        BY <1>3, <2>4
      <4>2. Named(r) + i = Len(wire) + 1
        <5>1. Named(r) + Len(metas[r]) = Len(wire)
          BY <2>6
        <5> QED
          BY <2>4, <3>2, <5>1
      <4> QED
        BY <1>3, <2>5, <3>2, <4>1, <4>2
    <3>3. CASE i # Len(metas[r]) + 1
      <4>1. i \in 1..Len(metas[r]) /\ metas'[r][i] = metas[r][i]
        BY <1>3, <2>4, <3>1, <3>3, SMTT(30)
      <4> QED
        BY <2>2, <4>1 DEF SocketInv
    <3> QED
      BY <3>2, <3>3
  <2> QED
    BY <2>1, <2>2, <2>3, <2>6, <2>7 DEF SocketInv
<1>7. SameEnd(0) /\ taken' = taken /\ HoldInv(0) /\ bucket[0] \in Meta
  BY <1>1 DEF SameEnd, streamVars, BroadcastHolds, BroadcastType, StreamType
<1>8. HoldInv(0)' /\ taken \in Nat /\ taken' \in Nat /\ taken' >= taken
  BY <1>1, <1>7, HoldFrame
<1> QED
  BY <1>4, <1>5, <1>6, <1>8, SourceStep

LEMMA DataBroadcast ==
  ASSUME BroadcastType, NEW M \in Seq(Meta), BroadcastHolds(M), BroadcastBucket
  PROVE  BroadcastType' /\ BroadcastHolds(M)'
<1> USE RankFacts
<1> DEFINE c == buffers[0][op[0].half]
<1>1. /\ op[0].state = "data" /\ op[0] \in Op /\ op \in [Rank -> Op] /\ taken \in 0..Count
      /\ buffers \in [Rank -> [0..1 -> Contents]] /\ wire \in Seq(Contents)
      /\ wire' = Append(wire, c) /\ op' = [op EXCEPT ![0].state = "done"]
      /\ UNCHANGED <<streamVars, missed, metas, joined>>
  BY DEF BroadcastBucket, BroadcastType, StreamType
<1>2. /\ op'[0] = [state |-> "done", half |-> op[0].half, meta |-> op[0].meta] /\ op'[0] \in Op
      /\ c \in Contents /\ \A r \in Receiver : op'[r] = op[r]
  BY <1>1 DEF Op
<1> HIDE DEF c
<1>3. /\ Len(wire) \in Nat /\ wire' \in Seq(Contents) /\ Len(wire') = Len(wire) + 1
      /\ wire'[Len(wire) + 1] = c /\ \A k \in 1..Len(wire) : wire'[k] = wire[k]
  BY <1>1, <1>2
<1>4. BroadcastType'
  <2>1. StreamType'
    BY <1>1 DEF BroadcastType, StreamType, streamVars
  <2>2. op' \in [Rank -> Op]
    BY <1>1, <1>2
  <2> QED
    BY <1>1, <1>3, <2>1, <2>2 DEF BroadcastType
<1>5. BucketsInv(M)'
  BY <1>1 DEF BroadcastHolds, BucketsInv, Sound, streamVars
<1>6. SourceInv(M)'
  <2>1. SourceInv(M)
    BY DEF BroadcastHolds
  <2>2. /\ Len(M) = Len(wire) + 1 /\ op[0].meta = M[Len(wire) + 1] /\ Whole(0, op[0].half, op[0].meta)
    BY <1>1, <2>1 DEF SourceInv
  <2>3. \A t \in M[Len(wire) + 1].from..M[Len(wire) + 1].upto : c[t - M[Len(wire) + 1].from + 1] = t
    <3>1. op[0].meta.upto \in Nat /\ op[0].meta.from \in Nat
      BY <1>1 DEF Op, Meta
    <3>2. \A t \in op[0].meta.from..op[0].meta.upto : t < op[0].meta.upto + 1
      BY <3>1
    <3>3. \A t \in op[0].meta.from..op[0].meta.upto : c[t - op[0].meta.from + 1] = t
      BY <2>2, <3>2 DEF Whole, InBuffer, c
    <3> QED
      BY <2>2, <3>3
  <2>4. \A k \in 1..Len(wire') : \A t \in M[k].from..M[k].upto : wire'[k][t - M[k].from + 1] = t
    <3> SUFFICES ASSUME NEW k \in 1..Len(wire'), NEW t \in M[k].from..M[k].upto
                 PROVE  wire'[k][t - M[k].from + 1] = t
      OBVIOUS
    <3>1. CASE k = Len(wire) + 1
      BY <1>3, <2>3, <3>1
    <3>2. CASE k # Len(wire) + 1
      <4>1. k \in 1..Len(wire)
        BY <1>3, <3>2
      <4> QED
        BY <1>3, <2>1, <4>1 DEF SourceInv
    <3> QED
      BY <3>1, <3>2
  <2>5. op'[0].state = "done" /\ Len(M) = Len(wire')
    BY <1>2, <1>3, <2>2
  <2>6. (IF op'[0].state = "done" THEN 0 ELSE 1) = 0 /\ Len(wire') + 0 = Len(wire')
    BY <1>3, <2>5
  <2> QED
    BY <2>4, <2>5, <2>6 DEF SourceInv
<1>7. ASSUME NEW r \in Punctual
      PROVE  SameEnd(r) /\ SameHands(r) /\ SocketInv(r, M)' /\ ArrivalInv(r, M)'
  <2>1. SameEnd(r) /\ SameHands(r) /\ op'[r] = op[r] /\ joined' = joined /\ metas' = metas
    BY <1>1, <1>2 DEF SameEnd, SameHands, streamVars
  <2>2. Named(r)' = Named(r) /\ Published' = Published /\ joined[r] \in Nat
    BY <1>1, <1>2, <1>3, <2>1, Local DEF Named, Published
  <2>3. ArrivalInv(r, M) /\ SocketInv(r, M)
    BY DEF BroadcastHolds
  <2>4. ArrivalInv(r, M)'
    BY <2>1, <2>3 DEF ArrivalInv, Pending, Whole, InBuffer, SameEnd
  <2>5. SocketInv(r, M)'
    <3>1. joined'[r] <= Len(wire')
      BY <1>3, <2>1, <2>2, <2>3 DEF SocketInv
    <3> QED
      BY <2>1, <2>2, <2>3, <3>1 DEF SocketInv
  <2> QED
    BY <2>1, <2>4, <2>5
<1>8. SameEnd(0) /\ taken' = taken /\ HoldInv(0) /\ bucket[0] \in Meta
  BY <1>1 DEF SameEnd, streamVars, BroadcastHolds, BroadcastType, StreamType
<1>9. HoldInv(0)' /\ taken \in Nat /\ taken' \in Nat /\ taken' >= taken
  BY <1>1, <1>8, HoldFrame
<1> QED
  BY <1>4, <1>5, <1>6, <1>7, <1>9, SourceStep

LEMMA SentBroadcast ==
  ASSUME BroadcastType, NEW M \in Seq(Meta), BroadcastHolds(M), BroadcastSent
  PROVE  BroadcastType' /\ BroadcastHolds(M)'
<1> USE RankFacts
<1>1. /\ place' = [place EXCEPT ![0] = "done"]
      /\ place \in [Rank -> SenderPlaces \cup ReceiverPlaces] /\ taken \in 0..Count
      /\ UNCHANGED <<taken, bucket, half, buffers, offset, handed, broadcastVars>>
  BY DEF BroadcastSent, BroadcastType, StreamType
<1>2. BroadcastType'
  BY <1>1 DEF BroadcastType, StreamType, broadcastVars, SenderPlaces
<1>3. BucketsInv(M)' /\ SourceInv(M)' /\ HoldInv(0)'
  BY <1>1 DEF BroadcastHolds, BucketsInv, SourceInv, HoldInv, Sound, Whole, InBuffer, broadcastVars
<1>4. \A r \in Receiver : SameEnd(r) /\ SameHands(r) /\ SameSocket(r)
  BY <1>1 DEF SameEnd, SameHands, SameSocket, broadcastVars
<1>5. Len(wire)' = Len(wire) /\ Published' = Published
  BY <1>1 DEF Published, broadcastVars
<1>6. \A r \in Punctual : SocketInv(r, M)' /\ ArrivalInv(r, M)'
  BY <1>4, <1>5, SocketFrame DEF BroadcastHolds
<1> QED
  BY <1>1, <1>2, <1>3, <1>4, <1>6, SourceStep

-----------------------------------------------------------------------------
(* The steps of a receiver *)

LEMMA MetaBroadcast ==
  ASSUME BroadcastType, NEW M \in Seq(Meta), BroadcastHolds(M), NEW s \in Receiver, ReceiveMeta(s)
  PROVE  BroadcastType' /\ BroadcastHolds(M)'
<1> USE Local
<1> DEFINE m == Head(metas[s])  h == op[s].half
<1>1. /\ op[s].state = "meta" /\ metas[s] # <<>> /\ op \in [Rank -> Op]
      /\ buffers \in [Rank -> [0..1 -> Contents]] /\ metas \in [Receiver -> Seq(Meta)]
      /\ op' = [op EXCEPT ![s].state = "data", ![s].meta = m]
      /\ metas' = [metas EXCEPT ![s] = Tail(@)]
      /\ buffers' = [buffers EXCEPT ![s][h] = Zeros]
      /\ UNCHANGED <<place, taken, bucket, half, offset, handed, missed, wire, joined>>
  BY DEF ReceiveMeta, BroadcastType, StreamType
<1>2. h \in 0..1 /\ m \in Meta /\ Zeros \in Contents
  BY <1>1, RankFacts DEF Op, Zeros, Contents, Garbage
<1>3. /\ op'[s] = [state |-> "data", half |-> h, meta |-> m] /\ op'[s] \in Op
      /\ metas'[s] = Tail(metas[s]) /\ buffers'[s] = [buffers[s] EXCEPT ![h] = Zeros]
      /\ \A r \in Rank : r # s => op'[r] = op[r] /\ buffers'[r] = buffers[r]
      /\ \A r \in Receiver : r # s => metas'[r] = metas[r]
  <2>1. op'[s] = [state |-> "data", half |-> h, meta |-> m] /\ op'[s] \in Op
    <3>1. op[s] \in Op /\ op'[s] = [op[s] EXCEPT !.state = "data", !.meta = m]
      BY <1>1
    <3> QED
      BY <1>2, <3>1 DEF Op
  <2>2. buffers'[s] = [buffers[s] EXCEPT ![h] = Zeros]
    BY <1>1
  <2>3. metas'[s] = Tail(metas[s]) /\ \A r \in Receiver : r # s => metas'[r] = metas[r]
    BY <1>1
  <2>4. \A r \in Rank : r # s => op'[r] = op[r] /\ buffers'[r] = buffers[r]
    BY <1>1
  <2> QED
    BY <2>1, <2>2, <2>3, <2>4
<1> HIDE DEF m, h
<1>4. BroadcastType'
  <2>1. op' \in [Rank -> Op]
    BY <1>1, <1>3
  <2>2. metas' \in [Receiver -> Seq(Meta)]
    <3>1. Tail(metas[s]) \in Seq(Meta)
      BY <1>1
    <3> QED
      BY <1>1, <3>1
  <2>3. buffers' \in [Rank -> [0..1 -> Contents]]
    <3>1. [buffers[s] EXCEPT ![h] = Zeros] \in [0..1 -> Contents]
      BY <1>2
    <3> QED
      BY <1>1, <1>3, <3>1
  <2> QED
    BY <1>1, <2>1, <2>2, <2>3 DEF BroadcastType, StreamType
<1>5. ASSUME s \notin Late
      PROVE  HoldInv(s)' /\ HandedInv(s)' /\ SocketInv(s, M)' /\ ArrivalInv(s, M)'
  <2>5. /\ HoldInv(s) /\ HandedInv(s) /\ SocketInv(s, M) /\ ArrivalInv(s, M) /\ SourceInv(M)
        /\ Pending(s) /\ h = 1 - half[s]
    BY <1>1, <1>5 DEF BroadcastHolds, Punctual, ArrivalInv, h
  <2>6. buffers'[s][half[s]] = buffers[s][half[s]]
    BY <1>2, <1>3, <2>5
  <2>7. HoldInv(s)' /\ HandedInv(s)'
    BY <1>1, <2>5, <2>6 DEF HoldInv, HandedInv, HandedOut, Sound, Whole, InBuffer
  <2>8. ArrivalInv(s, M)'
    BY <1>1, <1>3, <2>5 DEF ArrivalInv, Pending
  <2>9. SocketInv(s, M)'
    <3>1. /\ Len(metas'[s]) = Len(metas[s]) - 1 /\ Len(metas[s]) > 0 /\ m = metas[s][1]
          /\ \A i \in 1..Len(metas'[s]) : metas'[s][i] = metas[s][i + 1]
      BY <1>1, <1>3 DEF m
    <3>2. Named(s) = joined[s] /\ Named(s)' = joined[s] + 1 /\ Published' = Published /\ Published \in Nat
      BY <1>1, <1>3, RankFacts DEF Named, Published
    <3>3. Len(metas'[s]) = Published' - Named(s)' /\ joined'[s] <= Len(wire')
      BY <1>1, <2>5, <3>1, <3>2 DEF SocketInv
    <3>0. joined[s] \in Nat /\ Len(metas[s]) \in Nat
      OBVIOUS
    <3>4. m = M[joined[s] + 1]
      <4>1. 1 \in 1..Len(metas[s])
        BY <3>0, <3>1
      <4> QED
        BY <2>5, <3>1, <3>2, <4>1 DEF SocketInv
    <3>5. ASSUME NEW i \in 1..Len(metas'[s]) PROVE metas'[s][i] = M[Named(s)' + i]
      <4>0. i \in Nat /\ i \in 1..(Len(metas[s]) - 1)
        BY <3>0, <3>1
      <4>1. i + 1 \in 1..Len(metas[s])
        BY <3>0, <4>0
      <4>3. Named(s)' + i = Named(s) + (i + 1)
        BY ONLY <3>0, <3>2, <4>0
      <4>2. metas[s][i + 1] = M[Named(s) + (i + 1)]
        BY <2>5, <4>1 DEF SocketInv
      <4> QED
        BY <3>1, <4>2, <4>3
    <3> QED
      BY <1>1, <1>3, <3>3, <3>4, <3>5 DEF SocketInv
  <2> QED
    BY <2>7, <2>8, <2>9
<1>10. SameEnd(0) /\ op'[0] = op[0]
  BY <1>1, <1>3 DEF SameEnd
<1>11. \A r \in Receiver : r # s => SameEnd(r) /\ SameHands(r) /\ SameSocket(r)
  BY <1>1, <1>3 DEF SameEnd, SameHands, SameSocket
<1> QED
  BY <1>1, <1>4, <1>5, <1>10, <1>11, SocketStep

LEMMA BucketBroadcast ==
  ASSUME BroadcastType, NEW M \in Seq(Meta), BroadcastHolds(M), NEW s \in Receiver, ReceiveBucket(s)
  PROVE  BroadcastType' /\ BroadcastHolds(M)'
<1> USE Local
<1> DEFINE c == wire[joined[s] + 1]  h == op[s].half  j == joined[s]
<1>1. /\ op[s].state = "data" /\ j < Len(wire) /\ op \in [Rank -> Op] /\ j \in Nat
      /\ buffers \in [Rank -> [0..1 -> Contents]] /\ joined \in [Receiver -> Nat]
      /\ op' = [op EXCEPT ![s].state = "done"]
      /\ joined' = [joined EXCEPT ![s] = j + 1]
      /\ buffers' = [buffers EXCEPT ![s][h] = c]
      /\ UNCHANGED <<place, taken, bucket, half, offset, handed, missed, metas, wire>>
  BY DEF ReceiveBucket, BroadcastType, StreamType
<1>2. h \in 0..1 /\ c \in Contents
  BY <1>1 DEF Op
<1>3. /\ op'[s] = [state |-> "done", half |-> h, meta |-> op[s].meta] /\ op'[s] \in Op
      /\ joined'[s] = j + 1 /\ buffers'[s] = [buffers[s] EXCEPT ![h] = c]
      /\ \A r \in Rank : r # s => op'[r] = op[r] /\ buffers'[r] = buffers[r]
      /\ \A r \in Receiver : r # s => joined'[r] = joined[r]
  <2>1. op'[s] = [state |-> "done", half |-> h, meta |-> op[s].meta] /\ op'[s] \in Op
    <3>1. op[s] \in Op /\ op'[s] = [op[s] EXCEPT !.state = "done"]
      BY <1>1
    <3> QED
      BY <3>1 DEF Op
  <2>2. buffers'[s] = [buffers[s] EXCEPT ![h] = c]
    BY <1>1
  <2>3. joined'[s] = j + 1 /\ \A r \in Receiver : r # s => joined'[r] = joined[r]
    BY <1>1
  <2>4. \A r \in Rank : r # s => op'[r] = op[r] /\ buffers'[r] = buffers[r]
    BY <1>1
  <2> QED
    BY <2>1, <2>2, <2>3, <2>4
<1>4. BroadcastType'
  <2>1. op' \in [Rank -> Op]
    <3>1. op'[s] \in Op /\ op \in [Rank -> Op] /\ op' = [op EXCEPT ![s].state = "done"]
      BY <1>1, <1>3
    <3> QED
      BY ONLY <3>1
  <2>3. joined' \in [Receiver -> Nat]
    <3>1. j + 1 \in Nat /\ joined \in [Receiver -> Nat] /\ joined' = [joined EXCEPT ![s] = j + 1]
      BY <1>1
    <3> QED
      BY ONLY <3>1
  <2>2. buffers' \in [Rank -> [0..1 -> Contents]]
    <3>1. [buffers[s] EXCEPT ![h] = c] \in [0..1 -> Contents]
      BY <1>2
    <3> QED
      BY <1>1, <1>3, <3>1
  <2> QED
    BY <1>1, <2>1, <2>2, <2>3 DEF BroadcastType, StreamType
<1>5. ASSUME s \notin Late
      PROVE  HoldInv(s)' /\ HandedInv(s)' /\ SocketInv(s, M)' /\ ArrivalInv(s, M)'
  <2>5. /\ HoldInv(s) /\ HandedInv(s) /\ SocketInv(s, M) /\ ArrivalInv(s, M) /\ SourceInv(M)
        /\ Pending(s) /\ h = 1 - half[s] /\ op[s].meta = M[j + 1]
    BY <1>1, <1>5 DEF BroadcastHolds, Punctual, ArrivalInv, SocketInv
  <2>6. /\ buffers'[s][half[s]] = buffers[s][half[s]] /\ buffers'[s][h] = c
    BY <1>2, <1>3, <2>5
  <2>7. HoldInv(s)' /\ HandedInv(s)'
    BY <1>1, <2>5, <2>6 DEF HoldInv, HandedInv, HandedOut, Sound, Whole, InBuffer
  <2>8. ArrivalInv(s, M)'
    <3>1. /\ op'[s].state = "done" /\ op'[s].half = h /\ op'[s].meta = M[j + 1]
          /\ joined'[s] > 0 /\ joined'[s] - 1 = j
      BY <1>1, <1>3, <2>5
    <3>2. Whole(s, op[s].half, op[s].meta)'
      <4>1. \A t \in M[j + 1].from..M[j + 1].upto : c[t - M[j + 1].from + 1] = t
        <5>1. j + 1 \in 1..Len(wire)
          BY <1>1
        <5> QED
          BY <2>5, <5>1 DEF SourceInv
      <4> QED
        BY <2>6, <3>1, <4>1 DEF Whole, InBuffer
    <3>3. bucket'[s].upto = Upto(M, j) /\ Pending(s)' /\ half' = half
      BY <1>1, <2>5 DEF ArrivalInv, Pending
    <3> QED
      BY <1>3, <2>5, <3>1, <3>2, <3>3 DEF ArrivalInv
  <2>9. SocketInv(s, M)'
    <3>1. Named(s) = j + 1 /\ Named(s)' = j + 1 /\ Published' = Published
      BY <1>1, <1>3, RankFacts DEF Named, Published
    <3>2. joined'[s] <= Len(wire')
      BY <1>1, <1>3
    <3> QED
      BY <1>1, <1>3, <2>5, <3>1, <3>2 DEF SocketInv
  <2> QED
    BY <2>7, <2>8, <2>9
<1>10. SameEnd(0) /\ op'[0] = op[0]
  BY <1>1, <1>3 DEF SameEnd
<1>11. \A r \in Receiver : r # s => SameEnd(r) /\ SameHands(r) /\ SameSocket(r)
  BY <1>1, <1>3 DEF SameEnd, SameHands, SameSocket
<1> QED
  BY <1>1, <1>4, <1>5, <1>10, <1>11, SocketStep

LEMMA FirstBroadcast ==
  ASSUME BroadcastType, NEW M \in Seq(Meta), BroadcastHolds(M), NEW s \in Receiver, ReceiveFirst(s)
  PROVE  BroadcastType' /\ BroadcastHolds(M)'
<1> USE Local
<1>1. /\ place[s] = "first" /\ op \in [Rank -> Op]
      /\ place \in [Rank -> SenderPlaces \cup ReceiverPlaces]
      /\ op' = [op EXCEPT ![s] = Started(1 - half[s], NoBucket)]
      /\ place' = [place EXCEPT ![s] = "read"]
      /\ UNCHANGED <<taken, bucket, half, buffers, offset, handed, missed, metas, wire, joined>>
  BY DEF ReceiveFirst, BroadcastType, StreamType
<1>2. /\ op'[s] = Started(1 - half[s], NoBucket) /\ op'[s] \in Op /\ place'[s] = "read"
      /\ \A r \in Rank : r # s => op'[r] = op[r] /\ place'[r] = place[r]
  <2>1. 1 - half[s] \in 0..1
    OBVIOUS
  <2>2. Started(1 - half[s], NoBucket) \in Op
    BY <2>1 DEF Op, Started, NoBucket, Meta
  <2> QED
    BY <1>1, <2>2
<1>3. BroadcastType'
  <2>1. op' \in [Rank -> Op]
    BY <1>1, <1>2
  <2> QED
    BY <1>1, <2>1 DEF BroadcastType, StreamType, ReceiverPlaces
<1>4. ASSUME s \notin Late
      PROVE  HoldInv(s)' /\ HandedInv(s)' /\ SocketInv(s, M)' /\ ArrivalInv(s, M)'
  <2>4. HoldInv(s) /\ HandedInv(s) /\ SocketInv(s, M) /\ ArrivalInv(s, M)
    BY <1>4 DEF BroadcastHolds, Punctual
  <2>5. op[s].state = "done" /\ ~Pending(s)
    BY <1>1, <2>4 DEF ArrivalInv, Pending, Op
  <2>6. HoldInv(s)' /\ HandedInv(s)'
    BY <1>1, <2>4 DEF HoldInv, HandedInv, HandedOut, Sound, Whole, InBuffer
  <2>7. ArrivalInv(s, M)'
    BY <1>1, <1>2, <2>4, <2>5 DEF ArrivalInv, Pending, Started
  <2>8. Named(s)' = Named(s) /\ Published' = Published
    BY <1>1, <1>2, <2>5 DEF Named, Published, Started
  <2>9. SocketInv(s, M)'
    BY <1>1, <1>2, <2>4, <2>8 DEF SocketInv, Started
  <2> QED
    BY <2>6, <2>7, <2>9
<1>10. SameEnd(0) /\ op'[0] = op[0]
  BY <1>1, <1>2 DEF SameEnd
<1>11. \A r \in Receiver : r # s => SameEnd(r) /\ SameHands(r) /\ SameSocket(r)
  BY <1>1, <1>2 DEF SameEnd, SameHands, SameSocket
<1> QED
  BY <1>1, <1>3, <1>4, <1>10, <1>11, SocketStep

LEMMA ReceivedBroadcast ==
  ASSUME BroadcastType, NEW M \in Seq(Meta), BroadcastHolds(M), NEW s \in Receiver, Received(s)
  PROVE  BroadcastType' /\ BroadcastHolds(M)'
<1> USE Local
<1>m. PICK m, h : m = op[s].meta /\ h = 1 - half[s]
  OBVIOUS
<1>1. /\ place[s] = "read" /\ op[s].state = "done" /\ op \in [Rank -> Op]
      /\ place \in [Rank -> SenderPlaces \cup ReceiverPlaces]
      /\ half \in [Rank -> 0..1] /\ bucket \in [Rank -> Meta] /\ offset \in [Rank -> Nat]
      /\ half' = [half EXCEPT ![s] = h] /\ bucket' = [bucket EXCEPT ![s] = m]
      /\ offset' = [offset EXCEPT ![s] = 0] /\ place' = [place EXCEPT ![s] = "yield"]
      /\ op' = IF m.last THEN op ELSE [op EXCEPT ![s] = Started(half[s], NoBucket)]
      /\ UNCHANGED <<taken, buffers, handed, missed, metas, wire, joined>>
  BY <1>m DEF Received, OpDone, SwapReceiver, BufferSwapped, BroadcastType, StreamType
<1>2. m \in Meta /\ h \in 0..1 /\ half[s] = 1 - h /\ Started(half[s], NoBucket) \in Op
      /\ m.from \in Nat /\ m.upto \in Nat /\ m.last \in BOOLEAN
  BY <1>m, <1>1 DEF Op, Meta, Started, NoBucket
<1>3. /\ op'[s] = IF m.last THEN op[s] ELSE Started(half[s], NoBucket)
      /\ half'[s] = h /\ bucket'[s] = m /\ offset'[s] = 0 /\ place'[s] = "yield"
  BY <1>1
<1>4. \A r \in Rank : r # s =>
        /\ op'[r] = op[r] /\ place'[r] = place[r] /\ half'[r] = half[r] /\ bucket'[r] = bucket[r]
        /\ offset'[r] = offset[r]
  BY <1>1
<1>5. BroadcastType'
  <2>1. op' \in [Rank -> Op] /\ half' \in [Rank -> 0..1] /\ bucket' \in [Rank -> Meta]
        /\ offset' \in [Rank -> Nat]
    BY <1>1, <1>2
  <2> QED
    BY <1>1, <2>1 DEF BroadcastType, StreamType, ReceiverPlaces
<1>6. ASSUME s \notin Late
      PROVE  HoldInv(s)' /\ HandedInv(s)' /\ SocketInv(s, M)' /\ ArrivalInv(s, M)'
  <2>6. /\ HandedInv(s) /\ SocketInv(s, M) /\ ArrivalInv(s, M) /\ BucketsInv(M) /\ SourceInv(M)
        /\ Pending(s)
    BY <1>1, <1>6 DEF BroadcastHolds, Punctual, Pending
  <2>7. /\ joined[s] > 0 /\ m = M[joined[s]] /\ Whole(s, h, m) /\ op[s].half = h
        /\ bucket[s].upto = Upto(M, joined[s] - 1)
    BY <1>m, <1>1, <2>6 DEF ArrivalInv
  <2>8. Sound(m) /\ m.from = bucket[s].upto + 1
    <3>1. joined[s] \in 1..Len(M)
      <4>1. joined[s] <= Len(wire) /\ Len(M) >= Len(wire)
        BY <2>6 DEF SocketInv, SourceInv
      <4> QED
        BY <2>7, <4>1
    <3> QED
      BY <2>6, <2>7, <3>1 DEF BucketsInv
  <2>9. HoldInv(s)'
    BY <1>1, <1>3, <2>7, <2>8 DEF HoldInv, Sound, Whole, InBuffer
  <2>10. HandedInv(s)'
    <3>1. Len(handed[s]) = bucket[s].upto
      <4>1. /\ Len(handed[s]) = bucket[s].from + offset[s] - 1
            /\ bucket[s].from + offset[s] <= bucket[s].upto + 1
            /\ bucket[s].from + offset[s] > bucket[s].upto
        BY <1>1, <2>6 DEF HandedInv, HandedOut
      <4>2. \A x, y, z \in Nat : x + y <= z + 1 /\ x + y > z => x + y - 1 = z
        OBVIOUS
      <4> QED
        BY <4>1, <4>2, Zenon
    <3>2. bucket'[s].from + offset'[s] - 1 = bucket[s].upto
          /\ bucket'[s].from + offset'[s] <= bucket'[s].upto + 1
      BY <1>2, <1>3, <2>8 DEF Sound
    <3> QED
      BY <1>1, <1>3, <2>6, <3>1, <3>2 DEF HandedInv
  <2>11. ArrivalInv(s, M)'
    <3>1. bucket'[s].upto = Upto(M, joined'[s])
      BY <1>1, <1>3, <2>7 DEF Upto
    <3>2. CASE m.last
      <4>1. op'[s] = op[s] /\ ~Pending(s)'
        BY <1>3, <3>2 DEF Pending
      <4> QED
        BY <1>1, <3>1, <4>1 DEF ArrivalInv
    <3>3. CASE ~m.last
      <4>1. op'[s].state = "meta" /\ op'[s].half = half[s] /\ half[s] = 1 - half'[s] /\ Pending(s)'
        BY <1>2, <1>3, <3>3 DEF Pending, Started
      <4> QED
        BY <3>1, <4>1 DEF ArrivalInv
    <3> QED
      BY <3>2, <3>3
  <2>12. SocketInv(s, M)'
    <3>1. op'[s].state # "data"
      BY <1>1, <1>3 DEF Started
    <3>2. Named(s)' = Named(s) /\ Published' = Published
      BY <1>1, <1>4, <3>1 DEF Named, Published
    <3> QED
      BY <1>1, <2>6, <3>1, <3>2 DEF SocketInv
  <2> QED
    BY <2>9, <2>10, <2>11, <2>12
<1>13. SameEnd(0) /\ op'[0] = op[0]
  BY <1>1, <1>4 DEF SameEnd
<1>14. \A r \in Receiver : r # s => SameEnd(r) /\ SameHands(r) /\ SameSocket(r)
  BY <1>1, <1>4 DEF SameEnd, SameHands, SameSocket
<1> QED
  BY <1>1, <1>5, <1>6, <1>13, <1>14, SocketStep

LEMMA OverBroadcast ==
  ASSUME BroadcastType, NEW M \in Seq(Meta), BroadcastHolds(M), NEW s \in Receiver, BucketOver(s)
  PROVE  BroadcastType' /\ BroadcastHolds(M)'
<1> USE Local
<1>1. /\ place[s] = "yield" /\ HandedOut(s) /\ place \in [Rank -> SenderPlaces \cup ReceiverPlaces]
      /\ place' = [place EXCEPT ![s] = IF bucket[s].last THEN "done" ELSE "read"]
      /\ UNCHANGED <<taken, bucket, half, buffers, offset, handed, broadcastVars>>
  BY DEF BucketOver, BroadcastType, StreamType
<1>2. /\ place'[s] = IF bucket[s].last THEN "done" ELSE "read"
      /\ \A r \in Rank : r # s => place'[r] = place[r]
  BY <1>1
<1>3. BroadcastType'
  BY <1>1 DEF BroadcastType, StreamType, ReceiverPlaces, broadcastVars
<1>4. ASSUME s \notin Late
      PROVE  HoldInv(s)' /\ HandedInv(s)' /\ SocketInv(s, M)' /\ ArrivalInv(s, M)'
  <2>4. HoldInv(s) /\ HandedInv(s) /\ SocketInv(s, M) /\ ArrivalInv(s, M)
    BY <1>4 DEF BroadcastHolds, Punctual
  <2>5. HoldInv(s)' /\ HandedInv(s)' /\ Pending(s)' = Pending(s)
    BY <1>1, <1>2, <2>4 DEF HoldInv, HandedInv, HandedOut, Sound, Whole, InBuffer, Pending
  <2>6. ArrivalInv(s, M)'
    BY <1>1, <2>4, <2>5 DEF ArrivalInv, broadcastVars, Whole, InBuffer
  <2>7. SocketInv(s, M)'
    BY <1>1, <2>4 DEF SocketInv, Named, Published, broadcastVars
  <2> QED
    BY <2>5, <2>6, <2>7
<1>8. SameEnd(0) /\ op'[0] = op[0] /\ wire' = wire
  BY <1>1, <1>2 DEF SameEnd, broadcastVars
<1>9. \A r \in Receiver : r # s => SameEnd(r) /\ SameHands(r) /\ SameSocket(r)
  BY <1>1, <1>2 DEF SameEnd, SameHands, SameSocket, broadcastVars
<1> QED
  BY <1>1, <1>3, <1>4, <1>8, <1>9, SocketStep

LEMMA YieldBroadcast ==
  ASSUME BroadcastType, NEW M \in Seq(Meta), BroadcastHolds(M), NEW s \in Receiver, Yield(s),
         UNCHANGED broadcastVars
  PROVE  BroadcastType' /\ BroadcastHolds(M)' /\ (s \in Punctual => Promised!Hand(s))
<1> USE Local
<1>1. /\ place[s] = "yield" /\ UNCHANGED <<place, taken, bucket, half, buffers, broadcastVars>>
      /\ \A r \in Receiver : r # s => handed'[r] = handed[r] /\ offset'[r] = offset[r]
  BY RankFacts DEF Yield, BroadcastType, StreamType
<1>2. s \in Punctual => HoldInv(s) /\ HandedInv(s) /\ SocketInv(s, M) /\ ArrivalInv(s, M)
  BY DEF BroadcastHolds, Punctual
<1>3. s \in Punctual => StreamType' /\ HandedInv(s)' /\ Promised!Hand(s)
  BY <1>2, YieldHolds DEF BroadcastType, StreamType
<1>4. s \notin Punctual => StreamType'
  <2> SUFFICES ASSUME s \notin Punctual PROVE StreamType'
    OBVIOUS
  <2>1. /\ offset \in [Rank -> Nat] /\ handed = [r \in Receiver |-> handed[r]]
        /\ \A r \in Punctual : handed[r] \in Seq([name : Nat, tensor : Nat])
    BY DEF BroadcastType, StreamType
  <2>2. offset' \in [Rank -> Nat]
    BY <2>1 DEF Yield
  <2>3. handed' = [r \in Receiver |-> handed'[r]]
    BY <2>1 DEF Yield
  <2>4. \A r \in Punctual : handed'[r] \in Seq([name : Nat, tensor : Nat])
    BY <1>1, <2>1, RankFacts
  <2> QED
    BY <1>1, <2>2, <2>3, <2>4 DEF BroadcastType, StreamType
<1>5. BroadcastType'
  BY <1>1, <1>3, <1>4 DEF BroadcastType, broadcastVars
<1>6. s \in Punctual => HoldInv(s)' /\ ArrivalInv(s, M)' /\ SocketInv(s, M)'
  BY <1>1, <1>2 DEF HoldInv, Sound, ArrivalInv, SocketInv, Named, Published, Pending, broadcastVars,
     Whole, InBuffer
<1>8. SameEnd(0) /\ op'[0] = op[0] /\ wire' = wire
  BY <1>1 DEF SameEnd, broadcastVars
<1>9. \A r \in Receiver : r # s => SameEnd(r) /\ SameHands(r) /\ SameSocket(r)
  BY <1>1 DEF SameEnd, SameHands, SameSocket, broadcastVars
<1> QED
  BY <1>1, <1>3, <1>5, <1>6, <1>8, <1>9, SocketStep DEF Punctual

-----------------------------------------------------------------------------
LEMMA BroadcastKeeps ==
  BroadcastInv /\ [BroadcastNext]_broadcastEngineVars => BroadcastInv'
<1> SUFFICES ASSUME BroadcastInv, [BroadcastNext]_broadcastEngineVars PROVE BroadcastInv'
  OBVIOUS
<1>1. PICK M \in Seq(Meta) : BroadcastHolds(M)
  BY DEF BroadcastInv
<1>2. BroadcastType
  BY DEF BroadcastInv
<1>3. CASE UNCHANGED broadcastEngineVars
  <2> USE <1>3 DEF broadcastEngineVars, streamVars, broadcastVars
  <2>1. BroadcastType'
    BY <1>2 DEF BroadcastType, StreamType
  <2>2. BucketsInv(M)' /\ SourceInv(M)' /\ \A r \in Rank \ Late : HoldInv(r)'
    BY <1>1 DEF BroadcastHolds, BucketsInv, SourceInv, HoldInv, Sound, Whole, InBuffer
  <2>3. \A r \in Receiver : SameEnd(r) /\ SameHands(r) /\ SameSocket(r)
    BY DEF SameEnd, SameHands, SameSocket
  <2>4. Len(wire)' = Len(wire) /\ Published' = Published
    BY DEF Published
  <2>5. \A r \in Punctual : HandedInv(r)' /\ SocketInv(r, M)' /\ ArrivalInv(r, M)'
    BY <1>1, <1>2, <2>3, <2>4, RankFacts, SocketFrame DEF BroadcastHolds
  <2> QED
    BY <2>1, <2>2, <2>5 DEF BroadcastInv, BroadcastHolds
<1>4. CASE BroadcastSender
  BY <1>1, <1>2, <1>4, SendBroadcast, SentBroadcast, PublishBroadcast, DataBroadcast, FillBroadcast
     DEF BroadcastSender, BroadcastInv
<1>5. ASSUME NEW s \in Receiver, BroadcastReceiver(s) PROVE BroadcastInv'
  BY <1>1, <1>2, <1>5, FirstBroadcast, ReceivedBroadcast, OverBroadcast, MetaBroadcast,
     BucketBroadcast, YieldBroadcast DEF BroadcastReceiver, BroadcastInv
<1> QED
  BY <1>3, <1>4, <1>5 DEF BroadcastNext

LEMMA BroadcastRefines ==
  BroadcastInv /\ [BroadcastNext]_broadcastEngineVars => [Promised!Next]_<<taken, HandedPunctual>>
<1> SUFFICES ASSUME BroadcastInv, [BroadcastNext]_broadcastEngineVars,
                    ~UNCHANGED <<taken, HandedPunctual>>
             PROVE  Promised!Next
  OBVIOUS
<1>1. CASE Fill
  BY <1>1, FillTakes
<1>2. ASSUME NEW s \in Receiver, Yield(s), UNCHANGED broadcastVars PROVE Promised!Next
  <2>1. PICK M \in Seq(Meta) : BroadcastHolds(M)
    BY DEF BroadcastInv
  <2>2. s \in Late => UNCHANGED <<taken, HandedPunctual>>
    BY <1>2, LateHandsUnseen
  <2>3. s \in Punctual
    BY <2>2 DEF Punctual
  <2> QED
    BY <1>2, <2>1, <2>3, YieldBroadcast DEF Promised!Next, BroadcastInv
<1>0. ~UNCHANGED <<taken, handed>>
  BY DEF HandedPunctual
<1>3. BroadcastNext
  BY <1>0 DEF broadcastEngineVars, streamVars
<1>4. CASE BroadcastSender
  BY <1>0, <1>1, <1>4 DEF BroadcastSender, BroadcastSend, BroadcastSent, Publish, BroadcastBucket, streamVars
<1>5. ASSUME NEW s \in Receiver, BroadcastReceiver(s) PROVE Promised!Next
  BY <1>0, <1>2, <1>5 DEF BroadcastReceiver, ReceiveFirst, Received, BucketOver, ReceiveMeta, ReceiveBucket
<1> QED
  BY <1>3, <1>4, <1>5 DEF BroadcastNext

(* The names of a bucket come by a socket and its contents by a collective,   *)
(* each rank's operation runs in a thread of its own, and the next bucket is  *)
(* on its way while this one is handed out: still each receiver that has       *)
(* subscribed in time is handed the tensors of the generator, in order, each  *)
(* under its name with its contents, whichever of the others came too late    *)
(* and however many messages they missed (nccl_checkpoint_engine.py).  Such a *)
(* late one takes each bucket for one before.                                 *)
THEOREM BroadcastHandsInOrder == BroadcastSpec => HandedInOrder
<1>1. BroadcastInit => Promised!Init
  BY RankFacts DEF BroadcastInit, StreamInit, HandedPunctual, Promised!Init
<1>2. BroadcastSpec => []BroadcastInv
  BY BroadcastInitHolds, BroadcastKeeps, PTL DEF BroadcastSpec
<1> QED
  BY <1>1, <1>2, BroadcastRefines, PTL DEF BroadcastSpec, HandedInOrder, Promised!Spec
=============================================================================
