------------------------- MODULE PartialRolloutProofs -------------------------
(* Theorems about PartialRollout, for any number of trajectories, any lengths  *)
(* and any number of weight synchronizations.                                   *)
EXTENDS PartialRollout, SequenceTheorems, FiniteSetTheorems, TLAPS

Written == [kind : ModelKind, by : 0..Syncs]     \* a token of the model
TurnOver(s) == Stream!TurnOver(s)
Unfinished(s) == ~TurnOver(s) /\ Len(s) < ResponseLength
Ready(s) == TurnOver(s) \/ Len(s) >= ResponseLength
Resting == {"new", "cancelled", "completed"}     \* places outside of a run

\* A part of a text in which no turn ends but with its last token
OneTurn(u) == \A i \in 1..(Len(u) - 1) : u[i].kind # "end"

\* An agent that is done has a full response or has ended a turn it need not answer
Settled(t) ==
  LET s == response[t]
      part == responseIds[t]
  IN  \/ Len(s) >= ResponseLength
      \/ /\ TurnOver(s)
         /\ \/ Stream!LimitReached(s) \/ ~Stream!CallSince(s, Len(s) - Len(part))
            \/ Len(s) + 1 >= ResponseLength

PartialType ==
  /\ TypeOK
  /\ \A t \in DOMAIN reqOutput : reqOutput[t] \in Seq(Written)

(* The servers refuse from the end of cancel() to the start of resume(), the    *)
(* version lags behind the weights only before update_param_version, and        *)
(* pause() has waited for the sample's task.                                     *)
PhaseInv ==
  /\ phase \notin {"cancelling", "resuming"} => calls = {}
  /\ phase = "cancelling" /\ "server" \notin calls => serverPaused
  /\ phase \in {"gather", "paused", "synced", "updated"} => serverPaused
  /\ phase \in {"paused", "synced", "updated"} => \A t \in Trajectory : pc[t] # "wait"
  /\ phase \in {"cancelling", "gather", "paused"} => weights < Syncs
  /\ version <= weights /\ weights <= version + 1
  /\ phase # "synced" => version = weights
  /\ sample # "active" => \A t \in Trajectory : pc[t] \in Resting
  /\ sample = "active" => \A t \in Trajectory : pc[t] # "new"

MaskInv(t) ==
  /\ Len(mask[t]) = Len(response[t])
  /\ \A i \in 1..Len(mask[t]) : mask[t][i] = 0 <=> response[t][i].kind = "reply"

(* The state an agent loop is saved in says what its text ends with, how many   *)
(* turns it has, and whether its last part holds a call.                          *)
TurnInv(t) ==
  /\ pc[t] = "new" => state[t] = "PENDING" /\ response[t] = <<>>
  /\ t \in SingleTurn =>
        /\ response[t] \in Seq(Written) /\ state[t] = "PENDING"
        /\ pc[t] # "completed" => Unfinished(response[t])
  /\ t \notin SingleTurn =>
        /\ pc[t] \in {"call", "wait"} => state[t] = "GENERATING"
        /\ pc[t] = "completed" => state[t] = "TERMINATED"
        /\ state[t] = "PENDING" => response[t] = <<>>
        /\ state[t] = "GENERATING" => Unfinished(response[t])
        /\ state[t] # "TERMINATED" => turns[t] = Stream!Turns(response[t])
        /\ state[t] = "PROCESSING_TOOLS" =>
              /\ TurnOver(response[t]) /\ ~Stream!LimitReached(response[t])
              /\ Stream!CallSince(response[t], Len(response[t]) - Len(responseIds[t]))
        /\ state[t] = "TERMINATED" =>
              pc[t] \in {"loop", "completed"} /\ (pc[t] = "loop" => Settled(t))

(* A generation is at its end exactly when the text with it is. *)
OutputInv(t) ==
  pc[t] = "wait" =>
    /\ t \in DOMAIN reqOutput /\ OneTurn(reqOutput[t])
    /\ t \in ended =>
         /\ reqOutput[t] # <<>>
         /\ TurnOver(reqOutput[t]) \/ Len(response[t]) + Len(reqOutput[t]) = ModelLength
    /\ t \notin ended =>
         ~TurnOver(reqOutput[t]) /\ Len(response[t]) + Len(reqOutput[t]) < ModelLength

AgentInv(t) == MaskInv(t) /\ TurnInv(t) /\ OutputInv(t)

PartialInv == PartialType /\ PhaseInv /\ \A t \in Trajectory : AgentInv(t)
-----------------------------------------------------------------------------
(* Sequences of tokens *)

LEMMA WrittenTokens ==
  /\ Written \subseteq Token /\ Seq(Written) \subseteq Seq(Token)
  /\ \A x \in Token : x.kind \in ModelKind \cup {"reply"} /\ x.by \in 0..Syncs
  /\ \A x \in Written : x.kind \in ModelKind /\ x.kind # "reply"
  /\ \A k \in ModelKind, n \in 0..Syncs :
        /\ [kind |-> k, by |-> n] \in Written
        /\ [kind |-> k, by |-> n].kind = k /\ [kind |-> k, by |-> n].by = n
<1>1. Written \subseteq Token
  BY DEF Written, Token
<1>2. Seq(Written) \subseteq Seq(Token)
  BY <1>1, SeqMonotonic
<1> QED
  BY <1>1, <1>2 DEF Written, Token, ModelKind

LEMMA LengthsKnown ==
  /\ ResponseLength \in Nat /\ ResponseLength >= 1
  /\ ModelLength \in Nat /\ ModelLength >= ResponseLength /\ Syncs \in Nat
BY PartialAssumption

(* Whether the turn is over, its last token tells. *)
LEMMA NothingWritten == ~TurnOver(<<>>) /\ Unfinished(<<>>)
BY LengthsKnown DEF TurnOver, Stream!TurnOver, Unfinished

LEMMA OverAfterToken ==
  ASSUME NEW s \in Seq(Token), NEW x \in Token
  PROVE  TurnOver(Append(s, x)) <=> x.kind = "end"
<1>1. Append(s, x) # <<>> /\ Stream!Last(Append(s, x)) = x
  BY AppendProperties DEF Stream!Last
<1> QED
  BY <1>1 DEF TurnOver, Stream!TurnOver

LEMMA OverAfterPart ==
  ASSUME NEW s \in Seq(Token), NEW u \in Seq(Token), u # <<>>
  PROVE  TurnOver(s \o u) <=> TurnOver(u)
<1>1. Len(u) \in Nat /\ Len(u) >= 1 /\ Len(s) \in Nat
  BY EmptySeq, LenProperties
<1>2. Len(s \o u) = Len(s) + Len(u) /\ (s \o u)[Len(s) + Len(u)] = u[Len(u)]
  BY <1>1, ConcatProperties
<1>3. s \o u # <<>>
  BY <1>1, <1>2
<1> QED
  BY <1>2, <1>3 DEF TurnOver, Stream!TurnOver, Stream!Last

LEMMA NothingAdded ==
  ASSUME NEW s \in Seq(Token)
  PROVE  s \o <<>> = s
BY ConcatEmptySeq

LEMMA CutKeeps ==
  ASSUME NEW S, NEW s \in Seq(S)
  PROVE  /\ Cut(s) \in Seq(S)
         /\ Len(Cut(s)) = IF Len(s) < ResponseLength THEN Len(s) ELSE ResponseLength
         /\ \A i \in 1..Len(Cut(s)) : Cut(s)[i] = s[i]
         /\ Len(s) <= ResponseLength => Cut(s) = s
<1> DEFINE n == IF Len(s) < ResponseLength THEN Len(s) ELSE ResponseLength
<1>1. n \in Nat /\ n <= Len(s) /\ Len(s) \in Nat /\ Cut(s) = SubSeq(s, 1, n)
  BY LengthsKnown DEF Cut
<1> HIDE DEF n
<1>2. \A i \in 1..n : s[i] \in S
  BY <1>1
<1>3. Cut(s) \in Seq(S) /\ Len(Cut(s)) = n /\ \A i \in 1..n : Cut(s)[i] = s[1 + i - 1]
  BY <1>1, <1>2, SubSeqProperties
<1>4. Len(s) <= ResponseLength => n = Len(s)
  BY <1>1, LengthsKnown DEF n
<1>5. SubSeq(s, 1, Len(s)) = s
  BY SubSeqFull
<1> QED
  BY <1>1, <1>3, <1>4, <1>5 DEF n

LEMMA OnesAre ==
  ASSUME NEW n \in Nat
  PROVE  Ones(n) \in Seq({0, 1}) /\ Len(Ones(n)) = n /\ \A i \in 1..n : Ones(n)[i] = 1
<1>1. Ones(n) \in Seq({0, 1})
  BY IsASeq DEF Ones
<1> QED
  BY <1>1 DEF Ones

(* The calls in the last part of a text are those found behind the rest of it. *)
LEMMA CallInPart ==
  ASSUME NEW s \in Seq(Token), NEW u \in Seq(Written)
  PROVE  Stream!CallSince(s \o u, Len(s)) <=> HasCall(u)
<1> DEFINE w == s \o u
<1>1. /\ Len(s) \in Nat /\ Len(u) \in Nat /\ DOMAIN u = 1..Len(u)
      /\ w \in Seq(Token) /\ DOMAIN w = 1..(Len(s) + Len(u))
      /\ \A i \in 1..(Len(s) + Len(u)) : w[i] = IF i <= Len(s) THEN s[i] ELSE u[i - Len(s)]
  <2>1. /\ u \in Seq(Token) /\ Len(s) \in Nat /\ Len(u) \in Nat /\ DOMAIN u = 1..Len(u)
    BY WrittenTokens, LenProperties
  <2>2. w \in Seq(Token) /\ Len(w) = Len(s) + Len(u)
    BY <2>1, ConcatProperties
  <2>3. DOMAIN w = 1..(Len(s) + Len(u))
    BY <2>2, LenProperties
  <2> QED
    BY <2>1, <2>2, <2>3, ConcatProperties
<1> HIDE DEF w
<1>2. ASSUME HasCall(u) PROVE Stream!CallSince(w, Len(s))
  <2>1. PICK i, j \in 1..Len(u) : i < j /\ u[i].kind = "open" /\ u[j].kind = "close"
    BY <1>1, <1>2 DEF HasCall
  <2>2. ASSUME NEW k \in 1..Len(u)
        PROVE  Len(s) + k \in DOMAIN w /\ Len(s) < Len(s) + k /\ w[Len(s) + k] = u[k]
    <3>1. /\ Len(s) + k \in 1..(Len(s) + Len(u)) /\ ~(Len(s) + k <= Len(s))
          /\ Len(s) + k - Len(s) = k /\ Len(s) < Len(s) + k
      BY <1>1
    <3> QED
      BY <1>1, <3>1
  <2>3. Len(s) + i < Len(s) + j
    BY <1>1, <2>1
  <2> QED
    BY <2>1, <2>2, <2>3 DEF Stream!CallSince
<1>3. ASSUME Stream!CallSince(w, Len(s)) PROVE HasCall(u)
  <2>1. PICK i, j \in 1..(Len(s) + Len(u)) :
          Len(s) < i /\ i < j /\ w[i].kind = "open" /\ w[j].kind = "close"
    BY <1>1, <1>3 DEF Stream!CallSince
  <2>2. /\ i - Len(s) \in 1..Len(u) /\ j - Len(s) \in 1..Len(u) /\ i - Len(s) < j - Len(s)
        /\ ~(i <= Len(s)) /\ ~(j <= Len(s))
    BY <1>1, <2>1
  <2>3. w[i] = u[i - Len(s)] /\ w[j] = u[j - Len(s)]
    BY <1>1, <2>2
  <2> QED
    BY <1>1, <2>1, <2>2, <2>3 DEF HasCall
<1> QED
  BY <1>2, <1>3 DEF w

(* How many turns a text has: a part adds one if it ends its turn. *)
Ends(s) == {i \in DOMAIN s : s[i].kind = "end"}

LEMMA TurnsCounted ==
  ASSUME NEW s \in Seq(Token)
  PROVE  /\ IsFiniteSet(Ends(s)) /\ Stream!Turns(s) = Cardinality(Ends(s))
         /\ Stream!Turns(s) \in Nat
<1>1. DOMAIN s = 1..Len(s) /\ Len(s) \in Nat
  BY LenProperties
<1>2. IsFiniteSet(1..Len(s))
  BY <1>1, FS_Interval
<1>3. IsFiniteSet(Ends(s))
  BY <1>1, <1>2, FS_Subset DEF Ends
<1>4. Stream!Turns(s) = Cardinality(Ends(s))
  BY Zenon DEF Stream!Turns, Ends, Stream!Cardinality, Cardinality
<1> QED
  BY <1>3, <1>4, FS_CardinalityType

LEMMA TurnsOfPart ==
  ASSUME NEW s \in Seq(Token), NEW u \in Seq(Written), OneTurn(u)
  PROVE  Stream!Turns(s \o u) = Stream!Turns(s) + (IF TurnOver(u) THEN 1 ELSE 0)
<1> DEFINE w == s \o u
           n == Len(s)
           m == Len(u)
<1>1. /\ n \in Nat /\ m \in Nat /\ u \in Seq(Token) /\ w \in Seq(Token)
      /\ DOMAIN s = 1..n /\ DOMAIN w = 1..(n + m)
      /\ \A i \in 1..(n + m) : w[i] = IF i <= n THEN s[i] ELSE u[i - n]
  <2>1. u \in Seq(Token) /\ n \in Nat /\ m \in Nat /\ DOMAIN s = 1..n
    BY WrittenTokens, LenProperties
  <2>2. w \in Seq(Token) /\ Len(w) = n + m
    BY <2>1, ConcatProperties
  <2>3. DOMAIN w = 1..(n + m)
    BY <2>2, LenProperties
  <2> QED
    BY <2>1, <2>2, <2>3, ConcatProperties
<1>2. /\ Stream!Turns(s) = Cardinality(Ends(s)) /\ IsFiniteSet(Ends(s))
      /\ Stream!Turns(w) = Cardinality(Ends(w)) /\ Cardinality(Ends(s)) \in Nat
  BY <1>1, TurnsCounted
<1>3. \A i \in 1..(m - 1) : u[i].kind # "end"
  BY DEF OneTurn
<1>4. TurnOver(u) <=> m >= 1 /\ u[m].kind = "end"
  <2>1. u = <<>> <=> m = 0
    BY <1>1, EmptySeq
  <2> QED
    BY <1>1, <2>1 DEF TurnOver, Stream!TurnOver, Stream!Last
<1> HIDE DEF w, n, m
<1>5. ASSUME NEW i \in 1..n PROVE i \in 1..(n + m) /\ w[i] = s[i]
  BY <1>1
<1>6. ASSUME NEW i \in 1..(n + m), i \notin 1..n PROVE i - n \in 1..m /\ w[i] = u[i - n]
  <2>1. ~(i <= n) /\ i - n \in 1..m
    BY <1>1, <1>6
  <2> QED
    BY <1>1, <2>1
<1>7. CASE TurnOver(u)
  <2>1. n + m \in 1..(n + m) /\ n + m \notin 1..n /\ n + m - n = m
    BY <1>1, <1>4, <1>7
  <2>2. w[n + m].kind = "end"
    <3>1. ~(n + m <= n)
      BY <1>1, <1>4, <1>7
    <3>2. w[n + m] = u[n + m - n]
      BY <1>1, <2>1, <3>1
    <3> QED
      BY <1>4, <1>7, <2>1, <3>2
  <2>3. ASSUME NEW i \in 1..(n + m), i \notin 1..n, w[i].kind = "end" PROVE i = n + m
    <3>1. i - n \in 1..m /\ u[i - n].kind = "end"
      BY <1>6, <2>3
    <3>2. ~(i - n \in 1..(m - 1))
      BY <1>3, <3>1
    <3> QED
      BY <1>1, <3>1, <3>2
  <2>4. Ends(w) = Ends(s) \cup {n + m}
    BY <1>1, <1>5, <2>1, <2>2, <2>3 DEF Ends
  <2>5. n + m \notin Ends(s)
    BY <1>1, <2>1 DEF Ends
  <2>6. Cardinality(Ends(w)) = Cardinality(Ends(s)) + 1
    BY <1>2, <2>4, <2>5, FS_AddElement
  <2> QED
    BY <1>2, <1>7, <2>6 DEF w
<1>8. CASE ~TurnOver(u)
  <2>1. ASSUME NEW i \in 1..(n + m), i \notin 1..n PROVE w[i].kind # "end"
    <3>1. i - n \in 1..m /\ w[i] = u[i - n]
      BY <1>6, <2>1
    <3>2. i - n \in 1..(m - 1) \/ (i - n = m /\ m >= 1)
      BY <1>1, <3>1
    <3> QED
      BY <1>3, <1>4, <1>8, <3>1, <3>2
  <2>2. Ends(w) = Ends(s)
    BY <1>1, <1>5, <2>1 DEF Ends
  <2> QED
    BY <1>2, <1>8, <2>2 DEF w
<1> QED
  BY <1>7, <1>8

LEMMA TurnsAfterReply ==
  ASSUME NEW s \in Seq(Token), NEW x \in Token, x.kind # "end"
  PROVE  Stream!Turns(Append(s, x)) = Stream!Turns(s)
<1> DEFINE w == Append(s, x)
<1>1. /\ w \in Seq(Token) /\ Len(w) = Len(s) + 1 /\ Len(s) \in Nat
      /\ \A i \in 1..Len(s) : w[i] = s[i]
      /\ w[Len(s) + 1] = x
  BY AppendProperties, LenProperties
<1>2. DOMAIN w = 1..(Len(s) + 1) /\ DOMAIN s = 1..Len(s)
  BY <1>1, LenProperties
<1> HIDE DEF w
<1>3. Ends(w) = Ends(s)
  <2>1. \A i \in 1..(Len(s) + 1) : i \in 1..Len(s) \/ i = Len(s) + 1
    BY <1>1
  <2>2. 1..Len(s) \subseteq 1..(Len(s) + 1)
    BY <1>1
  <2> QED
    BY <1>1, <1>2, <2>1, <2>2 DEF Ends
<1> QED
  BY <1>1, <1>3, TurnsCounted DEF w
-----------------------------------------------------------------------------
(* What a step of one trajectory leaves alone *)

SameAgent(t) ==
  /\ pc'[t] = pc[t] /\ state'[t] = state[t] /\ response'[t] = response[t] /\ mask'[t] = mask[t]
  /\ responseIds'[t] = responseIds[t] /\ turns'[t] = turns[t]
  /\ vstart'[t] = vstart[t] /\ vend'[t] = vend[t]

SameOutput(t) ==
  t \in DOMAIN reqOutput =>
    /\ t \in DOMAIN reqOutput' /\ reqOutput'[t] = reqOutput[t]
    /\ t \in ended' <=> t \in ended

LEMMA AgentFrame ==
  ASSUME NEW t \in Trajectory, AgentInv(t), SameAgent(t), pc[t] = "wait" => SameOutput(t)
  PROVE  AgentInv(t)'
<1>1. MaskInv(t)'
  BY DEF AgentInv, SameAgent, MaskInv
<1>2. TurnInv(t)'
  BY DEF AgentInv, SameAgent, TurnInv, Unfinished, Settled, TurnOver
<1>3. OutputInv(t)'
  BY DEF AgentInv, SameAgent, SameOutput, OutputInv, OneTurn, TurnOver
<1> QED
  BY <1>1, <1>2, <1>3 DEF AgentInv

(* An answer of the server: a part of the text, interrupted or to its end. *)
Given(t, toks, isCancel) ==
  /\ toks \in Seq(Written) /\ isCancel \in BOOLEAN /\ OneTurn(toks)
  /\ isCancel => ~TurnOver(toks)
  /\ ~isCancel => toks # <<>> /\ Ready(response[t] \o toks)

(* The agent loop has the part at the end of its text and goes on, has been     *)
(* interrupted, or is done and cuts the text.                                     *)
Received(t, toks) ==
  \/ /\ pc'[t] = "loop" /\ response'[t] = response[t] \o toks
     /\ state'[t] \in {"PROCESSING_TOOLS", "TERMINATED"} /\ responseIds'[t] = toks
  \/ /\ pc'[t] \in {"loop", "cancelled"} /\ response'[t] = response[t] \o toks
     /\ state'[t] \in {"PENDING", "GENERATING"} /\ Unfinished(response[t] \o toks)
  \/ /\ pc'[t] = "completed" /\ Ready(response[t] \o toks) /\ t \in SingleTurn
     /\ response'[t] = Cut(response[t] \o toks)

AgentTypes ==
  /\ pc \in [Trajectory -> {"new", "loop", "call", "wait", "cancelled", "completed"}]
  /\ state \in [Trajectory -> AgentState]
  /\ response \in [Trajectory -> Seq(Token)] /\ responseIds \in [Trajectory -> Seq(Token)]
  /\ mask \in [Trajectory -> Seq({0, 1})] /\ turns \in [Trajectory -> Nat]
  /\ vstart \in [Trajectory -> 0..Syncs] /\ vend \in [Trajectory -> 0..Syncs]

LEMMA PartialTypes ==
  ASSUME PartialType
  PROVE  /\ AgentTypes
         /\ \A t \in Trajectory : /\ response[t] \in Seq(Token) /\ Len(response[t]) \in Nat
                                  /\ responseIds[t] \in Seq(Token) /\ Len(responseIds[t]) \in Nat
                                  /\ mask[t] \in Seq({0, 1}) /\ Len(mask[t]) \in Nat
         /\ \A t \in DOMAIN reqOutput : /\ t \in Trajectory /\ reqOutput[t] \in Seq(Written)
                                        /\ reqOutput[t] \in Seq(Token) /\ Len(reqOutput[t]) \in Nat
<1>1. AgentTypes
  BY DEF PartialType, TypeOK, AgentTypes
<1>2. \A t \in DOMAIN reqOutput : t \in Trajectory /\ reqOutput[t] \in Seq(Written)
  BY DEF PartialType, TypeOK
<1> QED
  BY <1>1, <1>2, WrittenTokens, LenProperties DEF AgentTypes

(* The text with a part added to it. *)
LEMMA JoinedPart ==
  ASSUME NEW s \in Seq(Token), NEW u \in Seq(Written)
  PROVE  /\ u \in Seq(Token) /\ Len(u) \in Nat /\ Len(s) \in Nat
         /\ s \o u \in Seq(Token) /\ Len(s \o u) = Len(s) + Len(u)
         /\ \A i \in 1..(Len(s) + Len(u)) :
               (s \o u)[i] = IF i <= Len(s) THEN s[i] ELSE u[i - Len(s)]
         /\ \A i \in 1..Len(u) : u[i].kind # "reply"
         /\ u = <<>> => s \o u = s
         /\ s \in Seq(Written) => s \o u \in Seq(Written)
<1>1. u \in Seq(Token) /\ Len(u) \in Nat /\ Len(s) \in Nat
  BY WrittenTokens, LenProperties
<1>2. \A i \in 1..Len(u) : u[i] \in Written
  BY LenProperties
<1>3. s \in Seq(Written) => s \o u \in Seq(Written)
  BY ConcatProperties
<1> QED
  BY <1>1, <1>2, <1>3, ConcatProperties, NothingAdded, WrittenTokens

(* The text with an interrupted part is not at its end, unless it is long enough. *)
LEMMA InterruptedPart ==
  ASSUME NEW s \in Seq(Token), NEW u \in Seq(Written), ~TurnOver(s), ~TurnOver(u)
  PROVE  ~TurnOver(s \o u)
BY JoinedPart, OverAfterPart

LEMMA MaskOfPart ==
  ASSUME PartialType, NEW t \in Trajectory, MaskInv(t), NEW u \in Seq(Written),
         NEW m, m = mask[t] \o Ones(Len(u))
  PROVE  /\ m \in Seq({0, 1}) /\ Len(m) = Len(response[t]) + Len(u)
         /\ \A i \in 1..Len(m) : m[i] = 0 <=> (response[t] \o u)[i].kind = "reply"
<1> DEFINE w == response[t] \o u
<1>1. /\ mask[t] \in Seq({0, 1}) /\ response[t] \in Seq(Token)
      /\ Len(response[t]) \in Nat /\ Len(mask[t]) = Len(response[t]) /\ Len(u) \in Nat
  BY PartialTypes, JoinedPart DEF MaskInv
<1>2. /\ Ones(Len(u)) \in Seq({0, 1}) /\ Len(Ones(Len(u))) = Len(u)
      /\ \A i \in 1..Len(u) : Ones(Len(u))[i] = 1
  BY <1>1, OnesAre
<1>3. /\ m \in Seq({0, 1}) /\ Len(m) = Len(mask[t]) + Len(Ones(Len(u)))
      /\ \A i \in 1..(Len(mask[t]) + Len(Ones(Len(u)))) :
            m[i] = IF i <= Len(mask[t]) THEN mask[t][i] ELSE Ones(Len(u))[i - Len(mask[t])]
  <2>1. PICK ones \in Seq({0, 1}) : ones = Ones(Len(u))
    BY <1>2
  <2>2. PICK old \in Seq({0, 1}) : old = mask[t]
    BY <1>1
  <2>3. /\ old \o ones \in Seq({0, 1}) /\ Len(old \o ones) = Len(old) + Len(ones)
        /\ \A i \in 1..(Len(old) + Len(ones)) :
              (old \o ones)[i] = IF i <= Len(old) THEN old[i] ELSE ones[i - Len(old)]
    BY ConcatProperties
  <2> QED
    BY <2>1, <2>2, <2>3
<1>4. /\ \A i \in 1..(Len(response[t]) + Len(u)) :
            w[i] = IF i <= Len(response[t]) THEN response[t][i] ELSE u[i - Len(response[t])]
      /\ \A i \in 1..Len(u) : u[i].kind # "reply"
  BY <1>1, JoinedPart
<1> HIDE DEF w
<1>5. ASSUME NEW i \in 1..Len(m) PROVE m[i] = 0 <=> w[i].kind = "reply"
  <2>1. i \in 1..(Len(response[t]) + Len(u)) /\ i \in Nat
    BY <1>1, <1>2, <1>3
  <2>2. CASE i <= Len(response[t])
    <3>1. i \in 1..Len(mask[t]) /\ m[i] = mask[t][i] /\ w[i] = response[t][i]
      BY <1>1, <1>2, <1>3, <1>4, <2>1, <2>2
    <3> QED
      BY <3>1 DEF MaskInv
  <2>3. CASE ~(i <= Len(response[t]))
    <3>1. i - Len(response[t]) \in 1..Len(u)
      BY <1>1, <2>1, <2>3
    <3>2. m[i] = 1 /\ w[i] = u[i - Len(response[t])]
      BY <1>1, <1>2, <1>3, <1>4, <2>1, <2>3, <3>1
    <3> QED
      BY <1>4, <3>1, <3>2
  <2> QED
    BY <2>2, <2>3
<1> QED
  BY <1>1, <1>2, <1>3, <1>5 DEF w
-----------------------------------------------------------------------------
(* An agent loop gets an answer *)

LEMMA ToolAgentKeeps ==
  ASSUME PartialInv, NEW t \in Trajectory, t \notin SingleTurn, pc[t] \in {"call", "wait"},
         NEW toks, NEW isCancel, Given(t, toks, isCancel), ToolAgentGets(t, toks, isCancel)
  PROVE  /\ AgentTypes' /\ AgentInv(t)' /\ Received(t, toks) /\ pc'[t] = "loop"
         /\ \A u \in Trajectory \ {t} : SameAgent(u)
         /\ vend' = vend /\ vstart' = vstart
<1> DEFINE m == MaskAfter(t, toks, isCancel)
           full == Len(m) >= ResponseLength
           s == response[t] \o toks
           next == IF full THEN "TERMINATED"
                   ELSE IF isCancel THEN "GENERATING" ELSE AfterTurn(toks, turns[t] + 1)
           count == IF isCancel /\ ~full THEN turns[t] ELSE turns[t] + 1
<1>1. /\ responseIds' = [responseIds EXCEPT ![t] = toks]
      /\ response' = [response EXCEPT ![t] = s]
      /\ mask' = [mask EXCEPT ![t] = m]
      /\ turns' = [turns EXCEPT ![t] = count]
      /\ state' = [state EXCEPT ![t] = next]
      /\ pc' = [pc EXCEPT ![t] = "loop"]
      /\ vend' = vend /\ vstart' = vstart
  BY DEF ToolAgentGets
<1>2. /\ PartialType /\ AgentTypes /\ response[t] \in Seq(Token) /\ turns[t] \in Nat
      /\ toks \in Seq(Written) /\ MaskInv(t) /\ Unfinished(response[t])
      /\ turns[t] = Stream!Turns(response[t]) /\ OneTurn(toks)
  BY PartialTypes DEF PartialInv, AgentInv, AgentTypes, Given, TurnInv
<1>3. /\ toks \in Seq(Token) /\ s \in Seq(Token) /\ Len(s) = Len(response[t]) + Len(toks)
      /\ Len(s) \in Nat
  BY <1>2, JoinedPart
<1>4. /\ m \in Seq({0, 1}) /\ Len(m) = Len(s)
      /\ \A i \in 1..Len(m) : m[i] = 0 <=> s[i].kind = "reply"
  BY <1>2, <1>3, MaskOfPart DEF MaskAfter
<1> HIDE DEF s, m
<1>5. next \in AgentState /\ count \in Nat
  BY <1>2 DEF AgentState, AfterTurn
<1>6. full <=> Len(s) >= ResponseLength
  BY <1>4
<1>7. /\ next # "PENDING"
      /\ next = "GENERATING" => Unfinished(s)
      /\ next # "TERMINATED" => count = Stream!Turns(s)
      /\ next = "PROCESSING_TOOLS" =>
           TurnOver(s) /\ ~Stream!LimitReached(s) /\ Stream!CallSince(s, Len(s) - Len(toks))
      /\ next = "TERMINATED" =>
           \/ Len(s) >= ResponseLength
           \/ /\ TurnOver(s)
              /\ Stream!LimitReached(s) \/ ~Stream!CallSince(s, Len(s) - Len(toks))
  <2>0. /\ Stream!Turns(s) = turns[t] + (IF TurnOver(toks) THEN 1 ELSE 0)
        /\ Stream!CallSince(s, Len(s) - Len(toks)) <=> HasCall(toks)
    <3>1. Len(s) - Len(toks) = Len(response[t])
      BY <1>2, <1>3, LenProperties
    <3> QED
      BY <1>2, <3>1, TurnsOfPart, CallInPart DEF s
  <2>1. CASE full
    BY <1>6, <2>1
  <2>2. CASE ~full /\ isCancel
    <3>1. ~TurnOver(s) /\ ~TurnOver(toks)
      BY <1>2, <2>2, InterruptedPart DEF Given, Unfinished, s
    <3>2. Len(s) < ResponseLength
      BY <1>3, <1>6, <2>2, LengthsKnown
    <3>3. count = Stream!Turns(s)
      BY <1>2, <2>0, <2>2, <3>1
    <3> QED
      BY <2>2, <3>1, <3>2, <3>3 DEF Unfinished
  <2>3. CASE ~full /\ ~isCancel
    <3>1. TurnOver(s) /\ TurnOver(toks)
      <4>1. TurnOver(s) /\ toks # <<>>
        BY <1>6, <2>3 DEF Given, Ready, s
      <4> QED
        BY <1>2, <1>3, <4>1, OverAfterPart DEF s
    <3>2. count = Stream!Turns(s) /\ count = turns[t] + 1
      BY <1>2, <2>0, <2>3, <3>1
    <3>3. AfterTurn(toks, count) =
            IF Stream!LimitReached(s) THEN "TERMINATED"
            ELSE IF HasCall(toks) THEN "PROCESSING_TOOLS" ELSE "TERMINATED"
      BY <3>2 DEF AfterTurn, Stream!LimitReached
    <3>4. next = AfterTurn(toks, count)
      BY <2>3, <3>2
    <3> QED
      BY <2>0, <3>1, <3>2, <3>3, <3>4, Zenon
  <2> QED
    BY <2>1, <2>2, <2>3
<1> HIDE DEF full, next, count
<1>8. /\ response'[t] = s /\ mask'[t] = m /\ state'[t] = next /\ pc'[t] = "loop"
      /\ responseIds'[t] = toks /\ turns'[t] = count
      /\ \A u \in Trajectory \ {t} : SameAgent(u)
  BY <1>1, <1>2 DEF AgentTypes, SameAgent
<1>9. AgentTypes'
  BY <1>1, <1>2, <1>3, <1>4, <1>5 DEF AgentTypes
<1>10. MaskInv(t)'
  BY <1>4, <1>8 DEF MaskInv
<1>11. TurnInv(t)'
  <2>1. next = "TERMINATED" => Settled(t)'
    BY <1>7, <1>8 DEF Settled, TurnOver
  <2> QED
    BY <1>7, <1>8, <2>1 DEF TurnInv, Unfinished, TurnOver
<1>12. OutputInv(t)'
  BY <1>8 DEF OutputInv
<1>13. Received(t, toks)
  <2>1. next \in {"PROCESSING_TOOLS", "TERMINATED"} \/ (next = "GENERATING" /\ Unfinished(s))
    BY <1>5, <1>7 DEF AgentState
  <2> QED
    BY <1>8, <2>1 DEF Received, s
<1> QED
  BY <1>1, <1>8, <1>9, <1>10, <1>11, <1>12, <1>13 DEF AgentInv

LEMMA SingleTurnKeeps ==
  ASSUME PartialInv, NEW t \in Trajectory, t \in SingleTurn, pc[t] \in {"call", "wait"},
         NEW toks, NEW isCancel, Given(t, toks, isCancel), SingleTurnGets(t, toks, isCancel)
  PROVE  /\ AgentTypes' /\ AgentInv(t)' /\ Received(t, toks)
         /\ pc'[t] \in {"cancelled", "completed"}
         /\ \A u \in Trajectory \ {t} : SameAgent(u)
         /\ vend' = [vend EXCEPT ![t] = pversion] /\ vstart' = vstart
<1> DEFINE s == response[t] \o toks
           r == Cut(s)
           next == IF isCancel /\ Len(r) < ResponseLength THEN "cancelled" ELSE "completed"
           ones == Ones(Len(r))
<1>1. /\ response' = [response EXCEPT ![t] = r]
      /\ mask' = [mask EXCEPT ![t] = ones]
      /\ vend' = [vend EXCEPT ![t] = pversion]
      /\ pc' = [pc EXCEPT ![t] = next]
      /\ state' = state /\ responseIds' = responseIds /\ turns' = turns /\ vstart' = vstart
  BY DEF SingleTurnGets, Joined
<1>2. /\ PartialType /\ AgentTypes /\ response[t] \in Seq(Written) /\ pversion \in 0..Syncs
      /\ response[t] \in Seq(Token)
      /\ toks \in Seq(Written) /\ Unfinished(response[t]) /\ state[t] = "PENDING"
  BY PartialTypes DEF PartialInv, PartialType, TypeOK, AgentInv, AgentTypes, Given, TurnInv
<1>3. s \in Seq(Written) /\ s \in Seq(Token) /\ Len(s) = Len(response[t]) + Len(toks)
  BY <1>2, JoinedPart
<1> HIDE DEF s
<1>4. /\ r \in Seq(Written) /\ Len(r) = IF Len(s) < ResponseLength THEN Len(s) ELSE ResponseLength
      /\ Len(s) < ResponseLength => r = s
      /\ Len(s) \in Nat
  <2>1. Len(s) \in Nat
    BY <1>3, LenProperties
  <2>2. Len(s) < ResponseLength => Len(s) <= ResponseLength
    BY <2>1, LengthsKnown
  <2> QED
    BY <1>3, <2>1, <2>2, CutKeeps
<1> HIDE DEF r
<1>5. /\ r \in Seq(Token) /\ Len(r) \in Nat /\ ones \in Seq({0, 1}) /\ Len(ones) = Len(r)
      /\ \A i \in 1..Len(r) : ones[i] = 1 /\ r[i].kind # "reply"
  <2>1. r \in Seq(Token) /\ Len(r) \in Nat /\ \A i \in 1..Len(r) : r[i] \in Written
    BY <1>4, WrittenTokens, LenProperties
  <2>2. ones \in Seq({0, 1}) /\ Len(ones) = Len(r) /\ \A i \in 1..Len(r) : ones[i] = 1
    BY <2>1, OnesAre
  <2>3. \A i \in 1..Len(r) : r[i].kind # "reply"
    BY <2>1, WrittenTokens
  <2> QED
    BY <2>1, <2>2, <2>3
<1>6. \/ next = "cancelled" /\ r = s /\ Unfinished(r)
      \/ next = "completed" /\ Ready(s)
  <2>1. CASE Len(r) < ResponseLength /\ isCancel
    <3>1. ~TurnOver(s)
      BY <1>2, <2>1, InterruptedPart DEF Given, Unfinished, s
    <3>2. r = s
      BY <1>4, <2>1, LengthsKnown
    <3> QED
      BY <2>1, <3>1, <3>2 DEF Unfinished
  <2>2. CASE Len(r) < ResponseLength /\ ~isCancel
    BY <2>2 DEF Given, s
  <2>3. CASE ~(Len(r) < ResponseLength)
    <3>1. Len(s) >= ResponseLength
      BY <1>4, <2>3, LengthsKnown
    <3> QED
      BY <2>3, <3>1 DEF Ready
  <2> QED
    BY <2>1, <2>2, <2>3
<1> HIDE DEF next, ones
<1>7. /\ response'[t] = r /\ mask'[t] = ones /\ state'[t] = state[t] /\ pc'[t] = next
      /\ \A u \in Trajectory \ {t} : SameAgent(u)
  BY <1>1, <1>2 DEF AgentTypes, SameAgent
<1>8. AgentTypes'
  BY <1>1, <1>2, <1>5, <1>6 DEF AgentTypes
<1>9. MaskInv(t)'
  BY <1>5, <1>7 DEF MaskInv
<1>10. TurnInv(t)'
  BY <1>2, <1>4, <1>6, <1>7 DEF TurnInv, Unfinished, TurnOver
<1>11. OutputInv(t)'
  BY <1>6, <1>7 DEF OutputInv
<1>12. Received(t, toks)
  BY <1>2, <1>6, <1>7 DEF Received, s, r
<1> QED
  BY <1>1, <1>6, <1>7, <1>8, <1>9, <1>10, <1>11, <1>12 DEF AgentInv

LEMMA AgentKeeps ==
  ASSUME PartialInv, NEW t \in Trajectory, pc[t] \in {"call", "wait"},
         NEW toks, NEW isCancel, Given(t, toks, isCancel), AgentGets(t, toks, isCancel)
  PROVE  /\ AgentTypes' /\ AgentInv(t)' /\ Received(t, toks)
         /\ pc'[t] \in {"loop", "cancelled", "completed"}
         /\ pc'[t] = "completed" => vend'[t] = pversion
         /\ \A u \in Trajectory \ {t} : SameAgent(u)
         /\ vstart' = vstart
<1>1. CASE t \in SingleTurn /\ SingleTurnGets(t, toks, isCancel)
  <2>1. vend' = [vend EXCEPT ![t] = pversion] => vend'[t] = pversion
    BY DEF PartialInv, PartialType, TypeOK
  <2> QED
    BY <1>1, <2>1, SingleTurnKeeps
<1>2. CASE t \notin SingleTurn /\ ToolAgentGets(t, toks, isCancel)
  BY <1>2, ToolAgentKeeps
<1> QED
  BY <1>1, <1>2 DEF AgentGets
-----------------------------------------------------------------------------
LEMMA InitHolds == Init => PartialInv
<1> SUFFICES ASSUME Init PROVE PartialInv
  OBVIOUS
<1>1. PartialType
  <2>1. \A S : <<>> \in Seq(S)
    OBVIOUS
  <2>2. DOMAIN reqOutput = {}
    BY DEF Init
  <2>3. /\ response \in [Trajectory -> Seq(Token)] /\ responseIds \in [Trajectory -> Seq(Token)]
        /\ mask \in [Trajectory -> Seq({0, 1})]
    BY <2>1 DEF Init
  <2>4. 0 \in 0..Syncs /\ 0 \in Nat
    BY LengthsKnown
  <2> QED
    BY <2>2, <2>3, <2>4 DEF Init, PartialType, TypeOK, Phase, AgentState
<1>2. PhaseInv
  BY DEF Init, PhaseInv, Resting
<1>3. ASSUME NEW t \in Trajectory PROVE AgentInv(t)
  <2>1. /\ response[t] = <<>> /\ mask[t] = <<>> /\ pc[t] = "new" /\ state[t] = "PENDING"
        /\ turns[t] = 0
    BY DEF Init
  <2>2. Unfinished(response[t]) /\ response[t] \in Seq(Written)
    BY <2>1, NothingWritten
  <2>3. Stream!Turns(response[t]) = 0
    <3>1. <<>> \in Seq(Token) /\ Ends(<<>>) = {}
      BY DEF Ends
    <3> QED
      BY <2>1, <3>1, TurnsCounted, FS_EmptySet
  <2> QED
    BY <2>1, <2>2, <2>3 DEF AgentInv, MaskInv, TurnInv, OutputInv
<1> QED
  BY <1>1, <1>2, <1>3 DEF PartialInv

(* The steps of pause, synchronization and resume touch no trajectory. *)
PhaseStep ==
  \/ PauseBegin \/ ServerCancel \/ WorkerCancel \/ CancelDone \/ Paused \/ SyncWeights
  \/ UpdateParamVersion \/ ResumeBegin \/ ServerResume \/ WorkerResume \/ ResumeDone

LEMMA PhaseStepKeeps ==
  ASSUME PartialInv, PhaseStep
  PROVE  /\ PartialInv' /\ UNCHANGED <<agentVars, sampleVars, reqOutput, ended>>
         /\ weights' \in {weights, weights + 1}
         /\ version <= version' /\ weights <= weights'
<1>1. UNCHANGED <<agentVars, sampleVars, reqOutput, ended>>
  BY DEF PhaseStep, PauseBegin, ServerCancel, WorkerCancel, CancelDone, Paused, SyncWeights,
         UpdateParamVersion, ResumeBegin, ServerResume, WorkerResume, ResumeDone, serverVars
<1>2. /\ phase' \in Phase /\ calls' \subseteq {"server", "worker"}
      /\ weights' \in 0..Syncs /\ version' \in 0..Syncs
      /\ serverPaused' \in BOOLEAN /\ cancellation' \in BOOLEAN
      /\ cancelSet' \subseteq DOMAIN reqOutput
      /\ weights' \in {weights, weights + 1} /\ version <= version' /\ weights <= weights'
  <2> USE DEF PartialInv, PartialType, TypeOK, PhaseInv, Phase, serverVars
  <2>1. CASE PauseBegin
    BY <2>1 DEF PauseBegin
  <2>2. CASE ServerCancel \/ WorkerCancel \/ CancelDone \/ Paused
    BY <2>2 DEF ServerCancel, WorkerCancel, CancelDone, Paused
  <2>3. CASE SyncWeights
    BY <2>3, LengthsKnown DEF SyncWeights
  <2>4. CASE UpdateParamVersion
    BY <2>4 DEF UpdateParamVersion
  <2>5. CASE ResumeBegin \/ ServerResume \/ WorkerResume \/ ResumeDone
    BY <2>5 DEF ResumeBegin, ServerResume, WorkerResume, ResumeDone
  <2> QED
    BY <2>1, <2>2, <2>3, <2>4, <2>5 DEF PhaseStep
<1>3. PartialType'
  BY <1>1, <1>2 DEF PartialInv, PartialType, TypeOK, agentVars, sampleVars
<1>4. PhaseInv'
  <2>0. /\ UNCHANGED <<pc, sample>> /\ phase \in Phase /\ calls \subseteq {"server", "worker"}
        /\ weights \in Int /\ version \in Int /\ Syncs \in Int
    BY <1>1, LengthsKnown DEF agentVars, sampleVars, PartialInv, PartialType, TypeOK
  <2> USE <2>0 DEF PartialInv, PhaseInv, Phase, serverVars
  <2>1. CASE PauseBegin
    BY <2>1 DEF PauseBegin
  <2>2. CASE ServerCancel
    BY <2>2 DEF ServerCancel
  <2>3. CASE WorkerCancel
    BY <2>3 DEF WorkerCancel
  <2>4. CASE CancelDone
    BY <2>4 DEF CancelDone
  <2>5. CASE Paused
    BY <2>5 DEF Paused, Resting
  <2>6. CASE SyncWeights
    BY <2>6 DEF SyncWeights
  <2>7. CASE UpdateParamVersion
    BY <2>7 DEF UpdateParamVersion
  <2>8. CASE ResumeBegin
    BY <2>8 DEF ResumeBegin
  <2>9. CASE ServerResume
    BY <2>9 DEF ServerResume
  <2>10. CASE WorkerResume
    BY <2>10 DEF WorkerResume
  <2>11. CASE ResumeDone
    BY <2>11 DEF ResumeDone
  <2> QED
    BY <2>1, <2>2, <2>3, <2>4, <2>5, <2>6, <2>7, <2>8, <2>9, <2>10, <2>11 DEF PhaseStep
<1>5. ASSUME NEW t \in Trajectory PROVE AgentInv(t)'
  <2>1. SameAgent(t) /\ SameOutput(t)
    BY <1>1 DEF SameAgent, SameOutput, agentVars
  <2> QED
    BY <2>1, AgentFrame DEF PartialInv
<1> QED
  BY <1>1, <1>2, <1>3, <1>4, <1>5 DEF PartialInv

LEMMA SubmitKeeps ==
  ASSUME PartialInv, Submit
  PROVE  /\ PartialInv'
         /\ UNCHANGED <<syncVars, serverVars, state, response, responseIds, mask, vend>>
         /\ \A t \in Trajectory :
              /\ pc[t] # "wait" /\ pc'[t] # "wait"
              /\ pc'[t] = "completed" <=> pc[t] = "completed"
              /\ vstart'[t] = StartVersion(t)
<1>1. /\ UNCHANGED <<syncVars, serverVars, cancellation, state, response, responseIds, mask,
                     turns, vend>>
      /\ sample = "queued" /\ sample' = "active" /\ pversion' = version
      /\ pc' = [t \in Trajectory |-> IF pc[t] = "completed" THEN "completed" ELSE "loop"]
      /\ vstart' = [t \in Trajectory |-> StartVersion(t)]
  BY DEF Submit
<1>2. \A t \in Trajectory : pc[t] \in Resting
  BY <1>1 DEF PartialInv, PhaseInv
<1>3. \A t \in Trajectory : StartVersion(t) \in 0..Syncs
  BY DEF StartVersion, PartialInv, PartialType, TypeOK
<1>4. PartialType'
  <2>1. raced' \in BOOLEAN
    BY DEF Submit, PartialInv, PartialType, TypeOK
  <2> QED
    BY <1>1, <1>3, <2>1 DEF PartialInv, PartialType, TypeOK, syncVars, serverVars
<1>5. PhaseInv'
  BY <1>1 DEF PartialInv, PhaseInv, syncVars, serverVars
<1>6. ASSUME NEW t \in Trajectory PROVE AgentInv(t)'
  <2>1. /\ pc[t] \in Resting /\ pc'[t] = IF pc[t] = "completed" THEN "completed" ELSE "loop"
        /\ UNCHANGED <<state[t], response[t], responseIds[t], turns[t], mask[t]>> /\ AgentInv(t)
    BY <1>1, <1>2 DEF PartialInv
  <2>2. MaskInv(t)'
    BY <2>1 DEF AgentInv, MaskInv
  <2>3. TurnInv(t)'
    BY <2>1 DEF AgentInv, TurnInv, Unfinished, Settled, TurnOver, Resting
  <2>4. OutputInv(t)'
    BY <2>1 DEF OutputInv
  <2> QED
    BY <2>2, <2>3, <2>4 DEF AgentInv
<1>7. \A t \in Trajectory :
        /\ pc[t] # "wait" /\ pc'[t] # "wait"
        /\ pc'[t] = "completed" <=> pc[t] = "completed"
        /\ vstart'[t] = StartVersion(t)
  BY <1>1, <1>2 DEF Resting
<1> QED
  BY <1>1, <1>4, <1>5, <1>6, <1>7 DEF PartialInv

LEMMA TaskReturnsKeeps ==
  ASSUME PartialInv, TaskReturns
  PROVE  PartialInv' /\ UNCHANGED <<syncVars, serverVars, agentVars, pversion, raced>>
<1>1. /\ UNCHANGED <<syncVars, serverVars, cancellation, pversion, raced, agentVars>>
      /\ sample = "active" /\ \A t \in Trajectory : pc[t] \in {"cancelled", "completed"}
      /\ sample' \in {"queued", "put"}
  BY DEF TaskReturns
<1>2. PartialType'
  BY <1>1 DEF PartialInv, PartialType, TypeOK, syncVars, serverVars, agentVars
<1>3. PhaseInv'
  BY <1>1 DEF PartialInv, PhaseInv, syncVars, serverVars, agentVars, Resting
<1>4. ASSUME NEW t \in Trajectory PROVE AgentInv(t)'
  <2>1. SameAgent(t) /\ SameOutput(t)
    BY <1>1 DEF SameAgent, SameOutput, agentVars, serverVars
  <2> QED
    BY <2>1, AgentFrame DEF PartialInv
<1> QED
  BY <1>1, <1>2, <1>3, <1>4 DEF PartialInv
-----------------------------------------------------------------------------
(* Steps of one trajectory: its own part of the invariant is to be shown. *)

LEMMA OneTrajectory ==
  ASSUME PartialInv, NEW t \in Trajectory, PartialType', AgentInv(t)',
         UNCHANGED <<syncVars, serverPaused, sample>>,
         \A u \in Trajectory \ {t} : SameAgent(u) /\ SameOutput(u),
         pc[t] # "new" => pc'[t] # "new",
         pc[t] \notin Resting,
         pc'[t] = "wait" => phase \notin {"paused", "synced", "updated"}
  PROVE  PartialInv'
<1>1. \A u \in Trajectory \ {t} : AgentInv(u)'
  BY AgentFrame DEF PartialInv
<1>2. sample = "active"
  BY DEF PartialInv, PhaseInv
<1>3. PhaseInv'
  <2>1. \A u \in Trajectory : u # t => pc'[u] = pc[u]
    BY DEF SameAgent
  <2> QED
    BY <1>2, <2>1 DEF PartialInv, PhaseInv, syncVars, Resting
<1> QED
  BY <1>1, <1>3 DEF PartialInv

(* Forgetting a request leaves the others'. *)
LEMMA ForgetKeeps ==
  ASSUME PartialType, NEW t \in Trajectory, Forget(t)
  PROVE  /\ DOMAIN reqOutput' \subseteq DOMAIN reqOutput
         /\ \A u \in DOMAIN reqOutput' : reqOutput'[u] = reqOutput[u]
         /\ cancelSet' \subseteq DOMAIN reqOutput' /\ ended' \subseteq DOMAIN reqOutput'
         /\ \A u \in Trajectory \ {t} : SameOutput(u)
<1>1. /\ reqOutput' = [u \in DOMAIN reqOutput \ {t} |-> reqOutput[u]]
      /\ cancelSet' = cancelSet \ {t} /\ ended' = ended \ {t}
  BY DEF Forget, Restrict
<1> QED
  BY <1>1 DEF PartialType, TypeOK, SameOutput

LEMMA RefuseKeeps ==
  ASSUME PartialInv, NEW t \in Trajectory, Refuse(t)
  PROVE  /\ PartialInv' /\ Received(t, <<>>)
         /\ pc[t] = "call" /\ pc'[t] \in {"loop", "cancelled", "completed"}
         /\ pc'[t] = "completed" => vend'[t] = pversion
         /\ \A u \in Trajectory \ {t} : SameAgent(u)
         /\ vstart' = vstart
         /\ UNCHANGED <<syncVars, serverVars, sampleVars>>
<1>1. /\ pc[t] = "call" /\ AgentGets(t, <<>>, TRUE)
      /\ UNCHANGED <<syncVars, serverVars, cancellation, sampleVars>>
  BY DEF Refuse
<1>2. Given(t, <<>>, TRUE)
  <2>1. <<>> \in Seq(Written)
    OBVIOUS
  <2> QED
    BY <2>1, NothingWritten DEF Given, OneTurn
<1>3. /\ AgentTypes' /\ AgentInv(t)' /\ Received(t, <<>>)
      /\ pc'[t] \in {"loop", "cancelled", "completed"}
      /\ pc'[t] = "completed" => vend'[t] = pversion
      /\ \A u \in Trajectory \ {t} : SameAgent(u)
      /\ vstart' = vstart
  BY <1>1, <1>2, AgentKeeps
<1>4. PartialType'
  BY <1>1, <1>3 DEF PartialInv, PartialType, TypeOK, AgentTypes, syncVars, serverVars, sampleVars
<1>5. \A u \in Trajectory \ {t} : SameOutput(u)
  BY <1>1 DEF SameOutput, serverVars
<1>6. PartialInv'
  BY <1>1, <1>3, <1>4, <1>5, OneTrajectory DEF serverVars, sampleVars, Resting
<1> QED
  BY <1>1, <1>3, <1>6

LEMMA AcceptKeeps ==
  ASSUME PartialInv, NEW t \in Trajectory, Accept(t)
  PROVE  /\ PartialInv' /\ pc[t] = "call" /\ pc' = [pc EXCEPT ![t] = "wait"] /\ reqOutput'[t] = <<>>
         /\ \A u \in Trajectory \ {t} : SameAgent(u) /\ SameOutput(u)
         /\ UNCHANGED <<syncVars, sampleVars, state, response, responseIds, mask, vstart, vend>>
<1> DEFINE outputs == [u \in DOMAIN reqOutput \cup {t} |-> IF u = t THEN NoOutput ELSE reqOutput[u]]
<1>1. /\ pc[t] = "call" /\ ~serverPaused /\ pc' = [pc EXCEPT ![t] = "wait"]
      /\ reqOutput' = outputs /\ cancelSet' = cancelSet \ {t} /\ ended' = ended \ {t}
      /\ UNCHANGED <<syncVars, serverPaused, cancellation, sampleVars, state, response,
                     responseIds, mask, turns, vstart, vend>>
  BY DEF Accept, Refusing
<1>2. /\ DOMAIN outputs = DOMAIN reqOutput \cup {t} /\ outputs[t] = <<>>
      /\ \A u \in DOMAIN reqOutput : u # t => outputs[u] = reqOutput[u]
  BY DEF NoOutput
<1> HIDE DEF outputs
<1>3. PartialType'
  <2>1. \A u \in DOMAIN outputs : outputs[u] \in Seq(Written) /\ outputs[u] \in Seq(Token)
    <3>1. \A S : <<>> \in Seq(S)
      OBVIOUS
    <3> QED
      BY <1>2, <3>1, PartialTypes DEF PartialInv
  <2> QED
    BY <1>1, <1>2, <2>1 DEF PartialInv, PartialType, TypeOK, syncVars, sampleVars
<1>4. pc'[t] = "wait" /\ \A u \in Trajectory \ {t} : SameAgent(u) /\ SameOutput(u)
  BY <1>1, <1>2 DEF SameAgent, SameOutput, PartialInv, PartialType, TypeOK
<1>5. AgentInv(t)'
  <2>0. AgentInv(t) /\ Unfinished(response[t]) /\ Len(response[t]) \in Nat
    BY <1>1, PartialTypes DEF PartialInv, AgentInv, TurnInv
  <2>1. MaskInv(t)'
    BY <1>1, <2>0 DEF AgentInv, MaskInv
  <2>2. TurnInv(t)'
    BY <1>1, <1>4, <2>0 DEF AgentInv, TurnInv, Unfinished, TurnOver
  <2>3. OutputInv(t)'
    <3>1. t \notin ended' /\ t \in DOMAIN reqOutput' /\ reqOutput'[t] = <<>> /\ response' = response
      BY <1>1, <1>2
    <3>2. Len(response[t]) + Len(<<>>) < ModelLength
      BY <2>0, LengthsKnown DEF Unfinished
    <3> QED
      BY <3>1, <3>2, NothingWritten DEF OutputInv, OneTurn, TurnOver
  <2> QED
    BY <2>1, <2>2, <2>3 DEF AgentInv
<1>6. PartialInv'
  <2>1. phase \notin {"paused", "synced", "updated"}
    BY <1>1 DEF PartialInv, PhaseInv
  <2> QED
    BY <1>1, <1>3, <1>4, <1>5, <2>1, OneTrajectory DEF sampleVars, Resting
<1> QED
  BY <1>1, <1>2, <1>4, <1>6

LEMMA TokenKeeps ==
  ASSUME PartialInv, NEW t \in Trajectory, NEW k \in ModelKind, EngineToken(t, k)
  PROVE  /\ PartialInv' /\ pc[t] = "wait" /\ t \in DOMAIN reqOutput /\ t \notin ended
         /\ [kind |-> k, by |-> weights] \in Written
         /\ reqOutput' = [reqOutput EXCEPT ![t] = Append(reqOutput[t], [kind |-> k, by |-> weights])]
         /\ UNCHANGED <<syncVars, sampleVars, agentVars>>
<1> DEFINE x == [kind |-> k, by |-> weights]
           toks == Append(reqOutput[t], x)
<1>1. /\ pc[t] = "wait" /\ t \notin ended
      /\ reqOutput' = [reqOutput EXCEPT ![t] = toks]
      /\ ended' = IF k = "end" \/ Len(response[t]) + Len(reqOutput[t]) + 1 = ModelLength
                  THEN ended \cup {t} ELSE ended
      /\ UNCHANGED <<syncVars, serverPaused, cancelSet, cancellation, sampleVars, agentVars>>
  BY DEF EngineToken
<1>2. x \in Written /\ x \in Token /\ x.kind = k
  BY WrittenTokens DEF PartialInv, PartialType, TypeOK
<1>3. /\ t \in DOMAIN reqOutput /\ reqOutput[t] \in Seq(Written) /\ reqOutput[t] \in Seq(Token)
      /\ Len(reqOutput[t]) \in Nat /\ Len(response[t]) \in Nat
      /\ Len(response[t]) + Len(reqOutput[t]) < ModelLength /\ AgentInv(t)
  BY <1>1, PartialTypes DEF PartialInv, AgentInv, OutputInv
<1> HIDE DEF x
<1>4. /\ toks \in Seq(Written) /\ toks \in Seq(Token) /\ toks # <<>>
      /\ Len(toks) = Len(reqOutput[t]) + 1
  BY <1>2, <1>3, AppendProperties
<1> HIDE DEF toks
<1>a. /\ Len(response[t]) + Len(toks) = Len(response[t]) + Len(reqOutput[t]) + 1
      /\ Len(response[t]) + Len(toks) = ModelLength \/ Len(response[t]) + Len(toks) < ModelLength
  <2>1. PICK a, b, c \in Nat : a = Len(response[t]) /\ b = Len(reqOutput[t]) /\ c = Len(toks)
    BY <1>3, <1>4
  <2>2. c = b + 1 /\ a + b < ModelLength
    BY <1>3, <1>4, <2>1
  <2>3. a + c = a + b + 1 /\ (a + c = ModelLength \/ a + c < ModelLength)
    BY <2>2, LengthsKnown
  <2> QED
    BY <2>1, <2>3
<1>o. OneTurn(toks)
  <2>1. ~TurnOver(reqOutput[t]) /\ OneTurn(reqOutput[t])
    BY <1>1, <1>3 DEF AgentInv, OutputInv
  <2>2. \A i \in 1..Len(reqOutput[t]) : toks[i] = reqOutput[t][i]
    BY <1>2, <1>3, AppendProperties DEF toks
  <2>3. ASSUME NEW i \in 1..Len(reqOutput[t]), reqOutput[t][i].kind = "end" PROVE FALSE
    <3>1. i = Len(reqOutput[t])
      BY <1>3, <2>1, <2>3 DEF OneTurn
    <3>2. reqOutput[t] # <<>>
      BY <1>3, <2>3, EmptySeq
    <3> QED
      BY <2>1, <2>3, <3>1, <3>2 DEF TurnOver, Stream!TurnOver, Stream!Last
  <2>4. Len(toks) - 1 = Len(reqOutput[t])
    BY <1>3, <1>4
  <2> QED
    BY <2>2, <2>3, <2>4 DEF OneTurn
<1>t. TurnOver(toks) <=> k = "end"
  BY <1>2, <1>3, OverAfterToken DEF toks
<1>5. /\ DOMAIN reqOutput' = DOMAIN reqOutput /\ reqOutput'[t] = toks
      /\ \A u \in DOMAIN reqOutput : u # t => reqOutput'[u] = reqOutput[u]
  BY <1>1, <1>3
<1>6. PartialType'
  <2>1. ended' \subseteq DOMAIN reqOutput
    BY <1>1, <1>3 DEF PartialInv, PartialType, TypeOK
  <2>2. \A u \in DOMAIN reqOutput' : reqOutput'[u] \in Seq(Written) /\ reqOutput'[u] \in Seq(Token)
    BY <1>4, <1>5, PartialTypes DEF PartialInv
  <2> QED
    BY <1>1, <1>5, <2>1, <2>2 DEF PartialInv, PartialType, TypeOK, syncVars, sampleVars, agentVars
<1>7. \A u \in Trajectory \ {t} : SameAgent(u) /\ SameOutput(u)
  BY <1>1, <1>5 DEF SameAgent, SameOutput, agentVars
<1>8. AgentInv(t)'
  <2>1. MaskInv(t)' /\ TurnInv(t)'
    BY <1>1, <1>3 DEF AgentInv, MaskInv, TurnInv, Unfinished, TurnOver, agentVars
  <2>2. OutputInv(t)'
    <3>1. response' = response /\ t \in DOMAIN reqOutput'
      BY <1>1, <1>3, <1>5 DEF agentVars
    <3>2. CASE k = "end" \/ Len(response[t]) + Len(reqOutput[t]) + 1 = ModelLength
      <4>1. t \in ended'
        BY <1>1, <3>2
      <4>2. k = "end" \/ Len(response[t]) + Len(toks) = ModelLength
        BY <1>a, <3>2, Zenon
      <4>3. TurnOver(toks) \/ Len(response[t]) + Len(toks) = ModelLength
        BY <1>t, <4>2, Zenon
      <4> QED
        BY <1>4, <1>5, <1>o, <3>1, <4>1, <4>3 DEF OutputInv, OneTurn, TurnOver
    <3>3. CASE ~(k = "end" \/ Len(response[t]) + Len(reqOutput[t]) + 1 = ModelLength)
      <4>1. t \notin ended'
        BY <1>1, <3>3
      <4>2. ~TurnOver(toks)
        BY <1>t, <3>3, Zenon
      <4>3. Len(response[t]) + Len(toks) < ModelLength
        BY <1>a, <3>3, Zenon
      <4> QED
        BY <1>5, <1>o, <3>1, <4>1, <4>2, <4>3 DEF OutputInv, OneTurn, TurnOver
    <3> QED
      BY <3>2, <3>3
  <2> QED
    BY <2>1, <2>2 DEF AgentInv
<1>9. PartialInv'
  <2>1. phase \notin {"paused", "synced", "updated"} /\ pc' = pc
    BY <1>1 DEF PartialInv, PhaseInv, agentVars
  <2> QED
    BY <1>1, <1>6, <1>7, <1>8, <2>1, OneTrajectory DEF sampleVars, Resting
<1> QED
  BY <1>1, <1>2, <1>3, <1>9 DEF toks, x

LEMMA AnswerKeeps ==
  ASSUME PartialInv, NEW t \in Trajectory, Answer(t)
  PROVE  /\ PartialInv' /\ Received(t, reqOutput[t]) /\ t \in DOMAIN reqOutput
         /\ pc[t] = "wait" /\ pc'[t] \in {"loop", "cancelled", "completed"}
         /\ pc'[t] = "completed" => vend'[t] = pversion
         /\ \A u \in Trajectory \ {t} : SameAgent(u) /\ SameOutput(u)
         /\ vstart' = vstart
         /\ UNCHANGED <<syncVars, sampleVars>>
<1>1. /\ pc[t] = "wait"
      /\ IF reqOutput[t] = <<>> THEN AgentGets(t, <<>>, TRUE) ELSE AgentGets(t, reqOutput[t], t \notin ended)
      /\ Forget(t) \/ UNCHANGED <<reqOutput, cancelSet, ended>>
      /\ UNCHANGED <<syncVars, serverPaused, cancellation, sampleVars>>
  BY DEF Answer, NoOutput, IsCancel
<1>2. /\ t \in DOMAIN reqOutput /\ reqOutput[t] \in Seq(Written) /\ reqOutput[t] \in Seq(Token)
      /\ Len(reqOutput[t]) \in Nat /\ response[t] \in Seq(Token) /\ Len(response[t]) \in Nat
      /\ OutputInv(t)
  BY <1>1, PartialTypes DEF PartialInv, AgentInv, OutputInv
<1>3. PICK isCancel \in BOOLEAN :
        Given(t, reqOutput[t], isCancel) /\ AgentGets(t, reqOutput[t], isCancel)
  <2>1. CASE reqOutput[t] = <<>>
    <3>1. Given(t, reqOutput[t], TRUE)
      BY <1>1, <1>2, <2>1, NothingWritten DEF Given, OutputInv
    <3>2. AgentGets(t, reqOutput[t], TRUE)
      BY <1>1, <2>1
    <3> QED
      BY <3>1, <3>2
  <2>2. CASE reqOutput[t] # <<>> /\ t \notin ended
    <3>1. (t \notin ended) = TRUE
      BY <2>2
    <3>2. Given(t, reqOutput[t], TRUE)
      BY <1>1, <1>2, <2>2 DEF Given, OutputInv
    <3>3. AgentGets(t, reqOutput[t], TRUE)
      BY <1>1, <2>2, <3>1
    <3> QED
      BY <3>2, <3>3
  <2>3. CASE reqOutput[t] # <<>> /\ t \in ended
    <3>1. (t \notin ended) = FALSE
      BY <2>3
    <3>2. ASSUME TurnOver(reqOutput[t]) PROVE Ready(response[t] \o reqOutput[t])
      BY <1>2, <2>3, <3>2, OverAfterPart DEF Ready
    <3>3. ASSUME Len(response[t]) + Len(reqOutput[t]) = ModelLength
          PROVE  Ready(response[t] \o reqOutput[t])
      <4>1. Len(response[t] \o reqOutput[t]) = Len(response[t]) + Len(reqOutput[t])
        BY <1>2, JoinedPart
      <4>2. Len(response[t] \o reqOutput[t]) >= ResponseLength
        BY <3>3, <4>1, LengthsKnown
      <4> QED
        BY <4>2 DEF Ready
    <3>4. Ready(response[t] \o reqOutput[t])
      BY <1>1, <1>2, <2>3, <3>2, <3>3 DEF OutputInv
    <3>5. Given(t, reqOutput[t], FALSE)
      BY <1>1, <1>2, <2>3, <3>4 DEF Given, OutputInv
    <3>6. AgentGets(t, reqOutput[t], FALSE)
      BY <1>1, <2>3, <3>1
    <3> QED
      BY <3>5, <3>6
  <2> QED
    BY <2>1, <2>2, <2>3
<1>4. /\ AgentTypes' /\ AgentInv(t)' /\ Received(t, reqOutput[t])
      /\ pc'[t] \in {"loop", "cancelled", "completed"}
      /\ pc'[t] = "completed" => vend'[t] = pversion
      /\ \A u \in Trajectory \ {t} : SameAgent(u)
      /\ vstart' = vstart
  BY <1>1, <1>3, AgentKeeps
<1>5. /\ DOMAIN reqOutput' \subseteq DOMAIN reqOutput
      /\ \A u \in DOMAIN reqOutput' : reqOutput'[u] = reqOutput[u]
      /\ cancelSet' \subseteq DOMAIN reqOutput' /\ ended' \subseteq DOMAIN reqOutput'
      /\ \A u \in Trajectory \ {t} : SameOutput(u)
  <2>1. CASE Forget(t)
    BY <2>1, ForgetKeeps DEF PartialInv
  <2>2. CASE UNCHANGED <<reqOutput, cancelSet, ended>>
    BY <2>2 DEF PartialInv, PartialType, TypeOK, SameOutput
  <2> QED
    BY <1>1, <2>1, <2>2
<1>6. PartialType'
  <2>1. \A u \in DOMAIN reqOutput' : reqOutput'[u] \in Seq(Written) /\ reqOutput'[u] \in Seq(Token)
    BY <1>5, PartialTypes DEF PartialInv
  <2>2. DOMAIN reqOutput' \subseteq Trajectory
    BY <1>5 DEF PartialInv, PartialType, TypeOK
  <2> QED
    BY <1>1, <1>4, <1>5, <2>1, <2>2
       DEF PartialInv, PartialType, TypeOK, AgentTypes, syncVars, sampleVars
<1>7. PartialInv'
  BY <1>1, <1>4, <1>5, <1>6, OneTrajectory DEF sampleVars, Resting
<1> QED
  BY <1>1, <1>2, <1>4, <1>5, <1>7

(* The steps of an agent loop between two answers. *)
LEMMA LoopSteps ==
  ASSUME PartialInv, NEW t \in Trajectory, Interrupted(t) \/ Prepare(t) \/ CallServer(t)
  PROVE  /\ PartialInv' /\ pc[t] = "loop" /\ pc'[t] \in {"loop", "call", "cancelled"}
         /\ UNCHANGED <<syncVars, serverVars, sampleVars, response, responseIds, mask, vstart, vend>>
         /\ \/ state' = state
            \/ t \notin SingleTurn /\ state[t] = "PENDING" /\ state' = [state EXCEPT ![t] = "GENERATING"]
         /\ \A u \in Trajectory \ {t} : SameAgent(u)
<1>0. /\ PartialType /\ AgentTypes /\ AgentInv(t)
      /\ MaskInv(t) /\ TurnInv(t)
  BY PartialTypes DEF PartialInv, AgentInv
<1>1. /\ pc[t] = "loop"
      /\ UNCHANGED <<syncVars, serverVars, cancellation, sampleVars, mask, responseIds,
                     turns, vstart, vend>>
  BY DEF Interrupted, Prepare, CallServer, Looping
<1>2. \/ /\ pc' = [pc EXCEPT ![t] = "cancelled"] /\ UNCHANGED <<state, response>>
         /\ t \notin SingleTurn /\ state[t] # "TERMINATED"
      \/ /\ pc' = [pc EXCEPT ![t] = "call"] /\ UNCHANGED <<state, response>>
         /\ t \notin SingleTurn => state[t] = "GENERATING"
      \/ /\ pc' = pc /\ state' = [state EXCEPT ![t] = "GENERATING"]
         /\ t \notin SingleTurn /\ state[t] = "PENDING"
         /\ response' = [response EXCEPT ![t] = <<>>]
  BY DEF Interrupted, Prepare, CallServer, Looping
<1>3. response' = response
  <2>1. t \notin SingleTurn /\ state[t] = "PENDING" => response[t] = <<>>
    BY <1>0 DEF TurnInv
  <2> QED
    BY <1>0, <1>2, <2>1 DEF AgentTypes
<1>4. \A u \in Trajectory \ {t} : SameAgent(u) /\ SameOutput(u)
  BY <1>0, <1>1, <1>2, <1>3 DEF SameAgent, SameOutput, serverVars, AgentTypes
<1>5. PartialType'
  <2>1. /\ pc' \in [Trajectory -> {"new", "loop", "call", "wait", "cancelled", "completed"}]
        /\ state' \in [Trajectory -> AgentState]
    BY <1>0, <1>2 DEF AgentTypes, AgentState
  <2> QED
    BY <1>0, <1>1, <1>3, <2>1 DEF PartialType, TypeOK, AgentTypes, syncVars, serverVars, sampleVars
<1>6. AgentInv(t)'
  <2>1. MaskInv(t)'
    BY <1>0, <1>1, <1>3 DEF MaskInv
  <2>2. \/ /\ pc'[t] = "cancelled" /\ state'[t] = state[t]
           /\ t \notin SingleTurn /\ state[t] # "TERMINATED"
        \/ /\ pc'[t] = "call" /\ state'[t] = state[t]
           /\ t \notin SingleTurn => state[t] = "GENERATING"
        \/ /\ pc'[t] = "loop" /\ state'[t] = "GENERATING" /\ t \notin SingleTurn
           /\ Unfinished(response[t]) /\ state[t] = "PENDING"
    <3>1. t \notin SingleTurn /\ state[t] = "PENDING" => Unfinished(response[t])
      BY <1>0, NothingWritten DEF TurnInv
    <3> QED
      BY <1>0, <1>1, <1>2, <3>1 DEF AgentTypes
  <2>3. TurnInv(t)'
    BY <1>0, <1>1, <1>3, <2>2 DEF TurnInv, Unfinished, TurnOver
  <2>4. OutputInv(t)'
    BY <2>2 DEF OutputInv
  <2> QED
    BY <2>1, <2>3, <2>4 DEF AgentInv
<1>7. pc'[t] \in {"loop", "call", "cancelled"}
  BY <1>0, <1>1, <1>2 DEF AgentTypes
<1>8. PartialInv'
  BY <1>1, <1>4, <1>5, <1>6, <1>7, OneTrajectory DEF serverVars, sampleVars, Resting
<1> QED
  BY <1>1, <1>2, <1>3, <1>4, <1>7, <1>8

LEMMA CallToolsKeeps ==
  ASSUME PartialInv, NEW t \in Trajectory, CallTools(t)
  PROVE  /\ PartialInv' /\ pc[t] = "loop" /\ pc' = pc
         /\ \A u \in Trajectory \ {t} : SameAgent(u)
         /\ t \notin SingleTurn /\ state[t] = "PROCESSING_TOOLS" /\ responseIds' = responseIds
         /\ TurnOver(response[t]) /\ ~Stream!LimitReached(response[t])
         /\ Stream!CallSince(response[t], Len(response[t]) - Len(responseIds[t]))
         /\ \/ response' = response /\ state'[t] = "TERMINATED"
            \/ /\ response' = [response EXCEPT ![t] = Append(response[t], [kind |-> "reply", by |-> 0])]
               /\ state'[t] = "GENERATING" /\ Len(response[t]) + 1 < ResponseLength
         /\ UNCHANGED <<syncVars, serverVars, sampleVars, vstart, vend>>
<1> DEFINE x == [kind |-> "reply", by |-> 0]
<1>0. /\ PartialType /\ AgentTypes /\ MaskInv(t) /\ TurnInv(t)
      /\ response[t] \in Seq(Token) /\ Len(response[t]) \in Nat
      /\ mask[t] \in Seq({0, 1}) /\ Len(mask[t]) = Len(response[t])
  BY PartialTypes DEF PartialInv, AgentInv, MaskInv
<1>1. /\ pc[t] = "loop" /\ t \notin SingleTurn /\ state[t] = "PROCESSING_TOOLS"
      /\ TurnOver(response[t]) /\ ~Stream!LimitReached(response[t])
      /\ Stream!CallSince(response[t], Len(response[t]) - Len(responseIds[t]))
      /\ turns[t] = Stream!Turns(response[t])
      /\ UNCHANGED <<syncVars, serverVars, cancellation, sampleVars, pc, responseIds, turns,
                     vstart, vend>>
  BY <1>0 DEF CallTools, Looping, TurnInv
<1>2. \/ /\ state' = [state EXCEPT ![t] = "TERMINATED"] /\ UNCHANGED <<response, mask>>
         /\ Len(response[t]) + 1 >= ResponseLength
      \/ /\ Len(response[t]) + 1 < ResponseLength
         /\ state' = [state EXCEPT ![t] = "GENERATING"]
         /\ response' = [response EXCEPT ![t] = Append(response[t], x)]
         /\ mask' = [mask EXCEPT ![t] = Append(mask[t], 0)]
  BY <1>0, LengthsKnown DEF CallTools
<1>3. /\ x \in Token /\ x.kind = "reply"
      /\ Append(response[t], x) \in Seq(Token) /\ Append(mask[t], 0) \in Seq({0, 1})
  BY <1>0, LengthsKnown DEF Token
<1>4. AgentTypes'
  <2> HIDE DEF x
  <2>1. response' \in [Trajectory -> Seq(Token)]
    BY <1>0, <1>2, <1>3 DEF AgentTypes
  <2>2. mask' \in [Trajectory -> Seq({0, 1})]
    BY <1>0, <1>2, <1>3 DEF AgentTypes
  <2>3. state' \in [Trajectory -> AgentState]
    BY <1>0, <1>2 DEF AgentTypes, AgentState
  <2> QED
    BY <1>0, <1>1, <2>1, <2>2, <2>3 DEF AgentTypes
<1>5. PartialType'
  BY <1>0, <1>1, <1>4 DEF PartialType, TypeOK, AgentTypes, syncVars, serverVars, sampleVars
<1>6. \A u \in Trajectory \ {t} : SameAgent(u) /\ SameOutput(u)
  BY <1>0, <1>1, <1>2 DEF SameAgent, SameOutput, serverVars, AgentTypes
<1>7. AgentInv(t)'
  <2>1. CASE /\ UNCHANGED <<response, mask>> /\ state' = [state EXCEPT ![t] = "TERMINATED"]
             /\ Len(response[t]) + 1 >= ResponseLength
    <3>1. state'[t] = "TERMINATED"
      BY <1>0, <2>1 DEF AgentTypes
    <3>2. MaskInv(t)'
      BY <1>0, <2>1 DEF MaskInv
    <3>3. TurnInv(t)'
      BY <1>1, <2>1, <3>1 DEF TurnInv, Settled, TurnOver
    <3> QED
      BY <1>1, <3>2, <3>3 DEF AgentInv, OutputInv
  <2>2. CASE /\ Len(response[t]) + 1 < ResponseLength
             /\ state' = [state EXCEPT ![t] = "GENERATING"]
             /\ response' = [response EXCEPT ![t] = Append(response[t], x)]
             /\ mask' = [mask EXCEPT ![t] = Append(mask[t], 0)]
    <3>1. /\ state'[t] = "GENERATING" /\ response'[t] = Append(response[t], x)
          /\ mask'[t] = Append(mask[t], 0)
      BY <1>0, <2>2 DEF AgentTypes
    <3>2. MaskInv(t)'
      <4>1. /\ Len(response'[t]) = Len(response[t]) + 1 /\ Len(mask'[t]) = Len(mask[t]) + 1
            /\ \A i \in 1..Len(response[t]) : response'[t][i] = response[t][i] /\ mask'[t][i] = mask[t][i]
            /\ response'[t][Len(response[t]) + 1] = x /\ mask'[t][Len(response[t]) + 1] = 0
        BY <1>0, <1>3, <3>1, AppendProperties
      <4>2. \A i \in 1..Len(mask'[t]) : i \in 1..Len(mask[t]) \/ i = Len(response[t]) + 1
        BY <1>0, <4>1
      <4> HIDE DEF x
      <4>3. \A i \in 1..Len(mask'[t]) : mask'[t][i] = 0 <=> response'[t][i].kind = "reply"
        BY <1>0, <1>3, <4>1, <4>2 DEF MaskInv
      <4> QED
        BY <1>0, <4>1, <4>3 DEF MaskInv
    <3>3. TurnInv(t)'
      <4>1. ~TurnOver(Append(response[t], x))
        BY <1>0, <1>3, OverAfterToken
      <4>2. Len(Append(response[t], x)) < ResponseLength
        BY <1>0, <1>3, <2>2, AppendProperties
      <4>3. Unfinished(response[t])'
        BY <3>1, <4>1, <4>2 DEF Unfinished, TurnOver
      <4>4. turns'[t] = Stream!Turns(response'[t])
        BY <1>0, <1>1, <1>3, <3>1, TurnsAfterReply
      <4> QED
        BY <1>1, <3>1, <4>3, <4>4 DEF TurnInv
    <3> QED
      BY <1>1, <3>2, <3>3 DEF AgentInv, OutputInv
  <2> QED
    BY <1>2, <2>1, <2>2
<1>8. PartialInv'
  BY <1>1, <1>5, <1>6, <1>7, OneTrajectory DEF serverVars, sampleVars, Resting
<1>9. state'[t] = "TERMINATED" \/ state'[t] = "GENERATING"
  BY <1>0, <1>2 DEF AgentTypes
<1> QED
  BY <1>0, <1>1, <1>2, <1>6, <1>8, <1>9 DEF AgentTypes

LEMMA CompleteKeeps ==
  ASSUME PartialInv, NEW t \in Trajectory, Complete(t)
  PROVE  /\ PartialInv' /\ pc[t] = "loop" /\ pc'[t] = "completed"
         /\ \A u \in Trajectory \ {t} : SameAgent(u)
         /\ Settled(t) /\ t \notin SingleTurn /\ state[t] = "TERMINATED"
         /\ response'[t] = Cut(response[t]) /\ vend'[t] = pversion
         /\ UNCHANGED <<syncVars, serverVars, sampleVars, vstart>>
<1>0. /\ PartialType /\ AgentTypes /\ MaskInv(t) /\ TurnInv(t) /\ pversion \in 0..Syncs
      /\ response[t] \in Seq(Token) /\ Len(response[t]) \in Nat
      /\ mask[t] \in Seq({0, 1}) /\ Len(mask[t]) = Len(response[t])
  BY PartialTypes DEF PartialInv, PartialType, TypeOK, AgentInv, MaskInv
<1>1. /\ pc[t] = "loop" /\ t \notin SingleTurn /\ state[t] = "TERMINATED"
      /\ pc' = [pc EXCEPT ![t] = "completed"]
      /\ response' = [response EXCEPT ![t] = Cut(response[t])]
      /\ mask' = [mask EXCEPT ![t] = Cut(mask[t])]
      /\ vend' = [vend EXCEPT ![t] = pversion]
      /\ UNCHANGED <<syncVars, serverVars, cancellation, sampleVars, state, responseIds,
                     turns, vstart>>
  BY DEF Complete
<1>2. /\ Cut(response[t]) \in Seq(Token) /\ Cut(mask[t]) \in Seq({0, 1})
      /\ Len(Cut(response[t])) = IF Len(response[t]) < ResponseLength THEN Len(response[t])
                                 ELSE ResponseLength
      /\ Len(Cut(mask[t])) = Len(Cut(response[t]))
      /\ Len(Cut(mask[t])) \in Nat /\ Len(Cut(mask[t])) <= Len(mask[t])
      /\ \A i \in 1..Len(Cut(response[t])) : Cut(response[t])[i] = response[t][i]
      /\ \A i \in 1..Len(Cut(mask[t])) : Cut(mask[t])[i] = mask[t][i]
      /\ Len(response[t]) <= ResponseLength => Cut(response[t]) = response[t]
  BY <1>0, CutKeeps, LengthsKnown
<1>3. AgentTypes' /\ PartialType'
  <2>1. AgentTypes'
    BY <1>0, <1>1, <1>2 DEF AgentTypes
  <2> QED
    BY <1>0, <1>1, <2>1 DEF PartialType, TypeOK, AgentTypes, syncVars, serverVars, sampleVars
<1>4. /\ pc'[t] = "completed" /\ response'[t] = Cut(response[t]) /\ mask'[t] = Cut(mask[t])
      /\ vend'[t] = pversion
      /\ \A u \in Trajectory \ {t} : SameAgent(u) /\ SameOutput(u)
  BY <1>0, <1>1 DEF SameAgent, SameOutput, serverVars, AgentTypes
<1>5. Settled(t)
  BY <1>0, <1>1 DEF TurnInv
<1>7. AgentInv(t)'
  <2>1. MaskInv(t)'
    <3>1. \A i \in 1..Len(Cut(mask[t])) : i \in 1..Len(mask[t])
      BY <1>0, <1>2
    <3>2. \A i \in 1..Len(Cut(mask[t])) :
             Cut(mask[t])[i] = 0 <=> Cut(response[t])[i].kind = "reply"
      BY <1>0, <1>2, <3>1 DEF MaskInv
    <3> QED
      BY <1>2, <1>4, <3>2 DEF MaskInv
  <2>2. TurnInv(t)'
    BY <1>1, <1>4 DEF TurnInv
  <2> QED
    BY <1>4, <2>1, <2>2 DEF AgentInv, OutputInv
<1>8. PartialInv'
  BY <1>1, <1>3, <1>4, <1>7, OneTrajectory DEF serverVars, sampleVars, Resting
<1> QED
  BY <1>1, <1>4, <1>5, <1>8

LEMMA StepKeeps == PartialInv /\ [Next]_vars => PartialInv'
<1> SUFFICES ASSUME PartialInv, [Next]_vars PROVE PartialInv'
  OBVIOUS
<1>1. CASE UNCHANGED vars
  <2> USE <1>1 DEF vars, syncVars, serverVars, sampleVars, agentVars
  <2>1. PartialType' /\ PhaseInv'
    BY DEF PartialInv, PartialType, TypeOK, PhaseInv
  <2>2. ASSUME NEW t \in Trajectory PROVE AgentInv(t)'
    BY AgentFrame DEF PartialInv, SameAgent, SameOutput
  <2> QED
    BY <2>1, <2>2 DEF PartialInv
<1>2. CASE PauseBegin \/ RolloutStep
  BY <1>2, PhaseStepKeeps, SubmitKeeps, TaskReturnsKeeps DEF RolloutStep, PhaseStep
<1>3. ASSUME NEW t \in Trajectory, Engine(t) \/ AgentStep(t) PROVE PartialInv'
  BY <1>3, TokenKeeps, RefuseKeeps, AcceptKeeps, AnswerKeeps, LoopSteps, CallToolsKeeps,
     CompleteKeeps DEF Engine, AgentStep
<1> QED
  BY <1>1, <1>2, <1>3 DEF Next

(* The invariant all theorems below rest on: calls, places of the agent loops, *)
(* masks, saved states and generations fit together (partial_tool_agent_loop.py, *)
(* vllm_async_server.py).                                                       *)
THEOREM PartialInvariant == Spec => []PartialInv
BY InitHolds, StepKeeps, PTL DEF Spec

(* Every state is of the types the modules above declare: an agent loop's saved *)
(* state, its tokens and its request's output (agent_loop.py).                  *)
THEOREM AlwaysTyped == Spec => []TypeOK
<1>1. PartialInv => TypeOK
  BY DEF PartialInv, PartialType
<1> QED
  BY <1>1, PartialInvariant, PTL

(* From the end of pause() to the start of resume() no request is being        *)
(* generated, whether the monitor lets the processor in meanwhile or not        *)
(* (vllm_rollout/vllm_async_server.py).                                          *)
THEOREM SyncUndisturbed == Spec => []NoTokenDuringSync
<1>1. PartialInv => NoTokenDuringSync
  BY DEF PartialInv, PhaseInv, NoTokenDuringSync
<1> QED
  BY <1>1, PartialInvariant, PTL
-----------------------------------------------------------------------------
(* The span of versions *)

Between(s, low, high) ==
  \A i \in 1..Len(s) : s[i].kind # "reply" => s[i].by \in low..high

(* While the sample is worked on, the servers have the weights of the version   *)
(* the run was given, or the next ones if the monitor let the sample in before   *)
(* update_param_version.                                                          *)
Slack == IF raced THEN 1 ELSE 0

RunInv ==
  sample = "active" =>
    /\ weights = pversion \/ (raced /\ weights = pversion + 1)
    /\ phase = "paused" => raced /\ weights = pversion

SpanOf(t) ==
  pc[t] # "new" =>
    /\ vstart[t] <= version
    /\ Between(response[t], vstart[t], weights)
    /\ pc[t] = "wait" => Between(reqOutput[t], vstart[t], weights)
    /\ pc[t] = "completed" => Between(response[t], vstart[t], vend[t] + Slack)

SpanInv == PartialInv /\ RunInv /\ \A t \in Trajectory : SpanOf(t)

LEMMA BetweenParts ==
  ASSUME NEW s \in Seq(Token), NEW u \in Seq(Written), NEW low, NEW high
  PROVE  /\ Between(<<>>, low, high)
         /\ Between(s, low, high) /\ Between(u, low, high) => Between(s \o u, low, high)
         /\ Between(s, low, high) => Between(Cut(s), low, high)
         /\ Between(s \o u, low, high) => Between(Cut(s \o u), low, high)
<1>1. ASSUME NEW w \in Seq(Token), Between(w, low, high) PROVE Between(Cut(w), low, high)
  <2>1. \A i \in 1..Len(Cut(w)) : i \in 1..Len(w) /\ Cut(w)[i] = w[i]
    BY CutKeeps, LenProperties, LengthsKnown
  <2> QED
    BY <1>1, <2>1 DEF Between
<1>2. ASSUME Between(s, low, high), Between(u, low, high) PROVE Between(s \o u, low, high)
  <2>1. /\ Len(u) \in Nat /\ Len(s) \in Nat /\ Len(s \o u) = Len(s) + Len(u)
        /\ \A i \in 1..(Len(s) + Len(u)) :
              (s \o u)[i] = IF i <= Len(s) THEN s[i] ELSE u[i - Len(s)]
    BY JoinedPart
  <2>2. ASSUME NEW i \in 1..(Len(s) + Len(u)), (s \o u)[i].kind # "reply"
        PROVE  (s \o u)[i].by \in low..high
    <3>1. CASE i <= Len(s)
      <4>1. i \in 1..Len(s) /\ (s \o u)[i] = s[i]
        BY <2>1, <3>1
      <4> QED
        BY <1>2, <2>2, <4>1 DEF Between
    <3>2. CASE ~(i <= Len(s))
      <4>1. i - Len(s) \in 1..Len(u)
        BY <2>1, <3>2
      <4>2. (s \o u)[i] = u[i - Len(s)]
        BY <2>1, <3>2
      <4> QED
        BY <1>2, <2>2, <4>1, <4>2 DEF Between
    <3> QED
      BY <3>1, <3>2
  <2> QED
    BY <2>1, <2>2 DEF Between
<1>3. s \o u \in Seq(Token)
  BY JoinedPart
<1>4. Between(<<>>, low, high)
  BY DEF Between
<1> QED
  BY <1>1, <1>2, <1>3, <1>4

LEMMA BetweenAppend ==
  ASSUME NEW s \in Seq(Token), NEW x \in Token, NEW low, NEW high,
         Between(s, low, high), x.kind = "reply" \/ x.by \in low..high
  PROVE  Between(Append(s, x), low, high)
<1>1. /\ Len(Append(s, x)) = Len(s) + 1 /\ Len(s) \in Nat
      /\ \A i \in 1..Len(s) : Append(s, x)[i] = s[i]
      /\ Append(s, x)[Len(s) + 1] = x
  BY AppendProperties, LenProperties
<1>2. \A i \in 1..(Len(s) + 1) : i \in 1..Len(s) \/ i = Len(s) + 1
  BY <1>1
<1> QED
  BY <1>1, <1>2 DEF Between

LEMMA BetweenGrows ==
  ASSUME NEW s, NEW low \in Int, NEW high \in Int, NEW top \in Int, high <= top,
         Between(s, low, high)
  PROVE  Between(s, low, top)
BY DEF Between

LEMMA SpanInit == Init => SpanInv
<1>1. Init => PartialInv
  BY InitHolds
<1> QED
  BY <1>1 DEF Init, SpanInv, RunInv, SpanOf

(* A trajectory that a step leaves alone, while versions only grow. *)
LEMMA SpanFrame ==
  ASSUME SpanInv, NEW t \in Trajectory, SameAgent(t), pc[t] = "wait" => SameOutput(t),
         weights' \in Int, version' \in Int, weights <= weights', version <= version',
         raced => raced'
  PROVE  SpanOf(t)'
<1>1. /\ vstart[t] \in Int /\ vend[t] \in Int /\ weights \in Int /\ version \in Int
      /\ pc[t] = "wait" => t \in DOMAIN reqOutput
  BY DEF SpanInv, PartialInv, PartialType, TypeOK, AgentInv, OutputInv
<1> SUFFICES ASSUME pc[t] # "new" PROVE SpanOf(t)'
  BY DEF SpanOf, SameAgent
<1>2. /\ vstart[t] <= version /\ Between(response[t], vstart[t], weights)
      /\ pc[t] = "wait" => Between(reqOutput[t], vstart[t], weights)
      /\ pc[t] = "completed" => Between(response[t], vstart[t], vend[t] + Slack)
  BY DEF SpanInv, SpanOf
<1>3. vstart[t] <= version'
  BY <1>1, <1>2
<1>4. Between(response[t], vstart[t], weights')
  BY <1>1, <1>2, BetweenGrows
<1>5. pc[t] = "wait" => Between(reqOutput[t], vstart[t], weights')
  BY <1>1, <1>2, BetweenGrows
<1>6. pc[t] = "wait" => reqOutput'[t] = reqOutput[t]
  BY <1>1 DEF SameOutput
<1>7. pc[t] = "completed" => Between(response[t], vstart[t], vend[t] + Slack')
  <2>1. /\ vend[t] + Slack \in Int /\ vend[t] + Slack' \in Int
        /\ vend[t] + Slack <= vend[t] + Slack'
    BY <1>1 DEF Slack
  <2> QED
    BY <1>1, <1>2, <2>1, BetweenGrows
<1> QED
  BY <1>2, <1>3, <1>4, <1>5, <1>6, <1>7 DEF SpanOf, SameAgent, Between

(* The same for a trajectory that was handed a part of its text. *)
LEMMA SpanReceived ==
  ASSUME SpanInv, NEW t \in Trajectory, NEW toks \in Seq(Written), Received(t, toks),
         pc[t] \in {"call", "wait"}, UNCHANGED <<syncVars, vstart, raced>>,
         Between(toks, vstart[t], weights),
         pc'[t] = "completed" => vend'[t] = pversion
  PROVE  SpanOf(t)'
<1>1. /\ response[t] \in Seq(Token) /\ pc[t] # "new" /\ sample = "active"
  BY PartialTypes DEF SpanInv, PartialInv, PhaseInv, Resting
<1>2. /\ weights \in Int /\ pversion + Slack \in Int /\ weights <= pversion + Slack
      /\ vstart[t] \in Int
  <2>1. /\ weights \in Int /\ pversion \in Int /\ vstart[t] \in Int
        /\ weights = pversion \/ (raced /\ weights = pversion + 1)
    BY <1>1 DEF SpanInv, RunInv, PartialInv, PartialType, TypeOK
  <2> QED
    BY <2>1 DEF Slack
<1>3. vstart[t] <= version /\ Between(response[t], vstart[t], weights)
  BY <1>1 DEF SpanInv, SpanOf
<1>4. Between(response'[t], vstart[t], weights)
  BY <1>1, <1>3, BetweenParts DEF Received
<1>5. pc'[t] # "wait" /\ UNCHANGED <<weights, version>> /\ Slack' = Slack
  BY DEF Received, syncVars, Slack
<1>6. Between(response'[t], vstart[t], pversion + Slack)
  BY <1>2, <1>4, BetweenGrows
<1> QED
  BY <1>3, <1>4, <1>5, <1>6 DEF SpanOf, Between

LEMMA SpanKeeps ==
  ASSUME SpanInv, [Next]_vars
  PROVE  SpanInv'
<1>0. /\ PartialInv /\ PartialInv' /\ RunInv /\ \A t \in Trajectory : SpanOf(t)
      /\ weights \in Int /\ version \in Int /\ weights' \in Int /\ version' \in Int
      /\ version <= weights
  <2>1. PartialInv' /\ PartialInv
    BY StepKeeps DEF SpanInv
  <2>2. weights \in Int /\ version \in Int /\ version <= weights
    BY <2>1 DEF PartialInv, PartialType, TypeOK, PhaseInv
  <2>3. weights' \in Int /\ version' \in Int
    BY <2>1 DEF PartialInv, PartialType, TypeOK
  <2> QED
    BY <2>1, <2>2, <2>3 DEF SpanInv
<1>1. CASE UNCHANGED vars
  <2>1. RunInv'
    BY <1>0, <1>1 DEF vars, syncVars, sampleVars, RunInv
  <2>2. ASSUME NEW t \in Trajectory PROVE SpanOf(t)'
    BY <1>0, <1>1, SpanFrame
       DEF vars, syncVars, serverVars, sampleVars, agentVars, SameAgent, SameOutput
  <2> QED
    BY <1>0, <2>1, <2>2 DEF SpanInv
<1>2. CASE PhaseStep
  <2>1. /\ UNCHANGED <<agentVars, sampleVars, reqOutput, ended>>
        /\ version <= version' /\ weights <= weights'
    BY <1>0, <1>2, PhaseStepKeeps
  <2>2. RunInv'
    <3>1. sample' = sample /\ pversion' = pversion /\ raced' = raced
      BY <2>1 DEF sampleVars
    <3> USE <1>0, <3>1 DEF RunInv
    <3>2. CASE Paused
      BY <3>2 DEF Paused
    <3>3. CASE SyncWeights
      BY <3>3 DEF SyncWeights
    <3>4. CASE ~Paused /\ ~SyncWeights
      <4>1. weights' = weights /\ (phase' = "paused" => phase = "paused")
        BY <1>2, <3>4
           DEF PhaseStep, PauseBegin, ServerCancel, WorkerCancel, CancelDone, UpdateParamVersion,
               ResumeBegin, ServerResume, WorkerResume, ResumeDone
      <4> QED
        BY <4>1
    <3> QED
      BY <3>2, <3>3, <3>4
  <2>3. ASSUME NEW t \in Trajectory PROVE SpanOf(t)'
    BY <1>0, <2>1, SpanFrame DEF SameAgent, SameOutput, agentVars, sampleVars
  <2> QED
    BY <1>0, <2>2, <2>3 DEF SpanInv
<1>3. CASE Submit
  <2>1. /\ UNCHANGED <<syncVars, serverVars, response, mask, vend>>
        /\ \A t \in Trajectory :
              /\ pc[t] # "wait" /\ pc'[t] # "wait"
              /\ pc'[t] = "completed" <=> pc[t] = "completed"
              /\ vstart'[t] = StartVersion(t)
    BY <1>0, <1>3, SubmitKeeps
  <2>2. RunInv'
    <3>1. /\ pversion' = version /\ weights' = weights /\ phase' = phase
          /\ phase \in {"paused", "synced"} => raced'
          /\ weights <= version + 1 /\ (phase # "synced" => version = weights)
      BY <1>0, <1>3, <2>1 DEF Submit, syncVars, PartialInv, PhaseInv
    <3>2. weights = version \/ (raced' /\ weights = version + 1)
      BY <1>0, <3>1
    <3>3. phase = "paused" => raced' /\ weights = version
      BY <3>1
    <3> QED
      BY <3>1, <3>2, <3>3 DEF RunInv
  <2>3. ASSUME NEW t \in Trajectory PROVE SpanOf(t)'
    <3>1. CASE pc[t] = "new"
      <4>1. response'[t] = <<>> /\ vstart'[t] = version /\ pc'[t] \notin {"wait", "completed"}
        BY <1>0, <2>1, <3>1 DEF StartVersion, PartialInv, AgentInv, TurnInv
      <4>2. Between(<<>>, version, weights)
        BY DEF Between
      <4> QED
        BY <1>0, <2>1, <4>1, <4>2 DEF SpanOf, Between, syncVars
    <3>2. CASE pc[t] # "new"
      <4>1. vstart'[t] = vstart[t] /\ response'[t] = response[t] /\ vend'[t] = vend[t]
        BY <2>1, <3>2 DEF StartVersion
      <4>2. pc[t] = "completed" => Between(response[t], vstart[t], vend[t] + Slack')
        <5>1. Between(response[t], vstart[t], vend[t] + Slack) \/ pc[t] # "completed"
          BY <1>0, <3>2 DEF SpanOf
        <5>2. /\ vstart[t] \in Int /\ vend[t] + Slack \in Int /\ vend[t] + Slack' \in Int
              /\ vend[t] + Slack <= vend[t] + Slack'
          <6>1. raced => raced'
            BY <1>3 DEF Submit
          <6>2. vstart[t] \in Int /\ vend[t] \in Int
            BY <1>0 DEF PartialInv, PartialType, TypeOK
          <6> QED
            BY <6>1, <6>2 DEF Slack
        <5> QED
          BY <5>1, <5>2, BetweenGrows
      <4> QED
        BY <1>0, <2>1, <3>2, <4>1, <4>2 DEF SpanOf, Between, syncVars
    <3> QED
      BY <3>1, <3>2
  <2> QED
    BY <1>0, <2>2, <2>3 DEF SpanInv
<1>4. CASE TaskReturns
  <2>1. UNCHANGED <<syncVars, serverVars, agentVars, pversion, raced>> /\ sample' # "active"
    BY <1>0, <1>4, TaskReturnsKeeps DEF TaskReturns
  <2>2. ASSUME NEW t \in Trajectory PROVE SpanOf(t)'
    BY <1>0, <2>1, SpanFrame DEF syncVars, serverVars, agentVars, SameAgent, SameOutput
  <2> QED
    BY <1>0, <2>1, <2>2 DEF SpanInv, RunInv
<1>5. ASSUME NEW t \in Trajectory, UNCHANGED <<syncVars, sampleVars>>, SpanOf(t)',
             \A u \in Trajectory \ {t} : SameAgent(u) /\ SameOutput(u)
      PROVE  SpanInv'
  <2>1. RunInv'
    BY <1>0, <1>5 DEF RunInv, syncVars, sampleVars
  <2>2. \A u \in Trajectory \ {t} : SpanOf(u)'
    BY <1>0, <1>5, SpanFrame DEF syncVars, sampleVars
  <2> QED
    BY <1>0, <1>5, <2>1, <2>2 DEF SpanInv
<1>6. ASSUME NEW t \in Trajectory, UNCHANGED <<syncVars, serverVars, sampleVars>>, SpanOf(t)',
             \A u \in Trajectory \ {t} : SameAgent(u)
      PROVE  SpanInv'
  BY <1>5, <1>6 DEF SameOutput, serverVars
<1>7. ASSUME NEW t \in Trajectory, NEW k \in ModelKind, EngineToken(t, k) PROVE SpanInv'
  <2> DEFINE x == [kind |-> k, by |-> weights]
  <2>1. /\ pc[t] = "wait" /\ t \in DOMAIN reqOutput /\ x \in Written
        /\ reqOutput' = [reqOutput EXCEPT ![t] = Append(reqOutput[t], x)]
        /\ UNCHANGED <<syncVars, sampleVars, agentVars>>
    BY <1>0, <1>7, TokenKeeps
  <2>2. /\ x \in Token /\ x.by = weights /\ reqOutput[t] \in Seq(Token) /\ vstart[t] \in Int
    BY <1>0, <2>1, WrittenTokens, PartialTypes DEF PartialInv, PartialType, TypeOK
  <2>3. /\ vstart[t] <= version /\ Between(response[t], vstart[t], weights)
        /\ Between(reqOutput[t], vstart[t], weights)
    BY <1>0, <2>1 DEF SpanOf
  <2> HIDE DEF x
  <2>4. x.by \in vstart[t]..weights
    BY <1>0, <2>2, <2>3
  <2>5. Between(Append(reqOutput[t], x), vstart[t], weights)
    BY <2>2, <2>3, <2>4, BetweenAppend
  <2>6. reqOutput'[t] = Append(reqOutput[t], x)
    BY <2>1
  <2>7. SpanOf(t)'
    BY <2>1, <2>3, <2>5, <2>6 DEF SpanOf, Between, syncVars, agentVars
  <2>8. \A u \in Trajectory \ {t} : SameAgent(u) /\ SameOutput(u)
    <3>1. \A u \in Trajectory \ {t} : SameAgent(u)
      BY <2>1 DEF SameAgent, agentVars
    <3>2. ended' \in {ended, ended \cup {t}}
      BY <1>7 DEF EngineToken
    <3> QED
      BY <2>1, <3>1, <3>2 DEF SameOutput
  <2> QED
    BY <1>5, <2>1, <2>7, <2>8
<1>8. ASSUME NEW t \in Trajectory, Refuse(t) PROVE SpanInv'
  <2>1. <<>> \in Seq(Written) /\ Between(<<>>, vstart[t], weights)
    BY DEF Between
  <2>2. SpanOf(t)'
    BY <1>0, <1>8, <2>1, RefuseKeeps, SpanReceived DEF SpanInv, sampleVars
  <2> QED
    BY <1>0, <1>6, <1>8, <2>2, RefuseKeeps
<1>9. ASSUME NEW t \in Trajectory, Answer(t) PROVE SpanInv'
  <2>1. /\ t \in DOMAIN reqOutput /\ pc[t] = "wait" /\ Received(t, reqOutput[t])
        /\ pc'[t] = "completed" => vend'[t] = pversion
        /\ \A u \in Trajectory \ {t} : SameAgent(u) /\ SameOutput(u)
        /\ UNCHANGED <<syncVars, sampleVars, vstart>>
    BY <1>0, <1>9, AnswerKeeps
  <2>2. reqOutput[t] \in Seq(Written) /\ Between(reqOutput[t], vstart[t], weights)
    BY <1>0, <2>1, PartialTypes DEF PartialInv, SpanOf
  <2>3. SpanOf(t)'
    BY <1>0, <2>1, <2>2, SpanReceived DEF SpanInv, sampleVars
  <2> QED
    BY <1>5, <2>1, <2>3
<1>10. ASSUME NEW t \in Trajectory, Accept(t) PROVE SpanInv'
  <2>1. /\ pc[t] = "call" /\ pc' = [pc EXCEPT ![t] = "wait"] /\ reqOutput'[t] = <<>>
        /\ \A u \in Trajectory \ {t} : SameAgent(u) /\ SameOutput(u)
        /\ UNCHANGED <<syncVars, sampleVars, response, mask, vstart, vend>>
    BY <1>0, <1>10, AcceptKeeps
  <2>2. pc'[t] = "wait"
    BY <1>0, <2>1 DEF PartialInv, PartialType, TypeOK
  <2>3. Between(<<>>, vstart[t], weights)
    BY DEF Between
  <2>4. SpanOf(t)'
    BY <1>0, <2>1, <2>2, <2>3 DEF SpanOf, Between, syncVars
  <2> QED
    BY <1>5, <2>1, <2>4
<1>11. ASSUME NEW t \in Trajectory, Interrupted(t) \/ Prepare(t) \/ CallServer(t) PROVE SpanInv'
  <2>1. /\ pc[t] = "loop" /\ pc'[t] \in {"loop", "call", "cancelled"}
        /\ UNCHANGED <<syncVars, serverVars, sampleVars, response, mask, vstart, vend>>
        /\ \A u \in Trajectory \ {t} : SameAgent(u)
    BY <1>0, <1>11, LoopSteps
  <2>2. SpanOf(t)'
    BY <1>0, <2>1 DEF SpanOf, Between, syncVars
  <2> QED
    BY <1>6, <2>1, <2>2
<1>12. ASSUME NEW t \in Trajectory, CallTools(t) PROVE SpanInv'
  <2> DEFINE x == [kind |-> "reply", by |-> 0]
  <2>1. /\ pc[t] = "loop" /\ pc' = pc /\ \A u \in Trajectory \ {t} : SameAgent(u)
        /\ response' = response \/ response' = [response EXCEPT ![t] = Append(response[t], x)]
        /\ UNCHANGED <<syncVars, serverVars, sampleVars, vstart, vend>>
    BY <1>0, <1>12, CallToolsKeeps
  <2>2. x \in Token /\ x.kind = "reply" /\ response[t] \in Seq(Token)
    <3>1. x \in Token /\ x.kind = "reply"
      BY LengthsKnown DEF Token
    <3> HIDE DEF x
    <3> QED
      BY <1>0, <3>1, PartialTypes DEF PartialInv
  <2>3. vstart[t] <= version /\ Between(response[t], vstart[t], weights)
    BY <1>0, <2>1 DEF SpanOf
  <2> HIDE DEF x
  <2>4. response'[t] \in {response[t], Append(response[t], x)}
    BY <1>0, <2>1 DEF PartialInv, PartialType, TypeOK
  <2>5. Between(response'[t], vstart[t], weights)
    BY <2>2, <2>3, <2>4, BetweenAppend
  <2>6. SpanOf(t)'
    BY <2>1, <2>3, <2>5 DEF SpanOf, Between, syncVars
  <2> QED
    BY <1>6, <2>1, <2>6
<1>13. ASSUME NEW t \in Trajectory, Complete(t) PROVE SpanInv'
  <2>1. /\ pc[t] = "loop" /\ pc'[t] = "completed"
        /\ \A u \in Trajectory \ {t} : SameAgent(u)
        /\ response'[t] = Cut(response[t]) /\ vend'[t] = pversion
        /\ UNCHANGED <<syncVars, serverVars, sampleVars, vstart>>
    BY <1>0, <1>13, CompleteKeeps
  <2>2. /\ weights \in Int /\ pversion + Slack \in Int /\ weights <= pversion + Slack
        /\ vstart[t] \in Int /\ Slack' = Slack
    <3>1. sample = "active" /\ raced' = raced
      BY <1>0, <2>1 DEF PartialInv, PhaseInv, Resting, sampleVars
    <3>2. /\ weights \in Int /\ pversion \in Int /\ vstart[t] \in Int
          /\ weights = pversion \/ (raced /\ weights = pversion + 1)
      BY <1>0, <3>1 DEF RunInv, PartialInv, PartialType, TypeOK
    <3> QED
      BY <3>1, <3>2 DEF Slack
  <2>3. vstart[t] <= version /\ Between(Cut(response[t]), vstart[t], weights)
    <3>1. response[t] \in Seq(Token) /\ <<>> \in Seq(Written)
      BY <1>0, PartialTypes DEF PartialInv
    <3> QED
      BY <1>0, <2>1, <3>1, BetweenParts DEF SpanOf
  <2>5. Between(Cut(response[t]), vstart[t], pversion + Slack)
    BY <2>2, <2>3, BetweenGrows
  <2>4. SpanOf(t)'
    BY <2>1, <2>2, <2>3, <2>5 DEF SpanOf, Between, syncVars
  <2> QED
    BY <1>6, <2>1, <2>4
<1> QED
  BY <1>1, <1>2, <1>3, <1>4, <1>7, <1>8, <1>9, <1>10, <1>11, <1>12, <1>13
     DEF Next, RolloutStep, PhaseStep, Engine, AgentStep

(* The mask agrees with the text whatever the monitor does. *)
LEMMA AlwaysAligned == Spec => []MaskAligned
<1>1. PartialInv => MaskAligned
  <2>1. ASSUME PartialInv, NEW t \in Trajectory PROVE DOMAIN mask[t] = 1..Len(mask[t])
    BY <2>1, PartialTypes, LenProperties DEF PartialInv
  <2> QED
    BY <2>1 DEF PartialInv, AgentInv, MaskInv, MaskAligned
<1> QED
  BY <1>1, PartialInvariant, PTL

(* What is recorded of a trajectory is right through any number of             *)
(* interruptions: the mask agrees with who wrote each token, and the span of    *)
(* versions encloses those the tokens were generated by, but for one version     *)
(* above it once the monitor has let the sample in before update_param_version    *)
(* (partial_tool_agent_loop.py, tool_agent_loop.py).                             *)
THEOREM AlwaysRecorded == Spec => []Recorded
<1>1. SpanInv => Recorded
  <2> SUFFICES ASSUME SpanInv PROVE Recorded
    OBVIOUS
  <2>1. MaskAligned
    <3>1. \A t \in Trajectory : DOMAIN mask[t] = 1..Len(mask[t])
      BY PartialTypes, LenProperties DEF SpanInv, PartialInv
    <3> QED
      BY <3>1 DEF SpanInv, PartialInv, AgentInv, MaskInv, MaskAligned
  <2>2. VersionSpan
    <3>1. \A t \in Trajectory : DOMAIN response[t] = 1..Len(response[t])
      BY PartialTypes, LenProperties DEF SpanInv, PartialInv
    <3> QED
      BY <3>1 DEF SpanInv, SpanOf, Slack, Between, VersionSpan
  <2> QED
    BY <2>1, <2>2 DEF Recorded
<1>2. SpanInv /\ [Next]_vars => SpanInv'
  BY SpanKeeps
<1> QED
  BY <1>1, <1>2, SpanInit, PTL DEF Spec
-----------------------------------------------------------------------------
(* The refinement: what the rest of the system sees of a trajectory *)

TextOf(t) == response[t] \o (IF pc[t] = "wait" THEN reqOutput[t] ELSE <<>>)
Text == [t \in Trajectory |-> TextOf(t)]
Over == [t \in Trajectory |-> pc[t] = "completed"]
Start == [t \in Trajectory |-> RequestStart(t)]

LEMMA TextWithout ==
  ASSUME PartialInv, NEW t \in Trajectory, pc[t] # "wait"
  PROVE  TextOf(t) = response[t]
BY PartialTypes, NothingAdded DEF PartialInv, TextOf

LEMMA TextKept ==
  ASSUME PartialInv, NEW t \in Trajectory, SameAgent(t), SameOutput(t)
  PROVE  TextOf(t)' = TextOf(t) /\ pc'[t] = pc[t] /\ RequestStart(t)' = RequestStart(t)
<1>1. pc[t] = "wait" => t \in DOMAIN reqOutput
  BY DEF PartialInv, AgentInv, OutputInv
<1> QED
  BY <1>1 DEF SameAgent, SameOutput, TextOf, RequestStart

LEMMA TextExcept ==
  ASSUME PartialInv, NEW t \in Trajectory,
         \A u \in Trajectory \ {t} : SameAgent(u) /\ SameOutput(u)
  PROVE  /\ Text' = [Text EXCEPT ![t] = TextOf(t)']
         /\ Over' = [Over EXCEPT ![t] = (pc'[t] = "completed")]
         /\ Start' = [Start EXCEPT ![t] = RequestStart(t)']
         /\ Text[t] = TextOf(t) /\ Over[t] = (pc[t] = "completed") /\ Start[t] = RequestStart(t)
<1>1. \A u \in Trajectory : u # t =>
        TextOf(u)' = TextOf(u) /\ pc'[u] = pc[u] /\ RequestStart(u)' = RequestStart(u)
  BY TextKept
<1> HIDE DEF TextOf, RequestStart
<1> DEFINE now == TextOf(t)'
           over == pc'[t] = "completed"
           start == RequestStart(t)'
<1>2. Text' = [u \in Trajectory |-> IF u = t THEN now ELSE TextOf(u)]
  BY <1>1, Zenon DEF Text
<1>3. Over' = [u \in Trajectory |-> IF u = t THEN over ELSE pc[u] = "completed"]
  BY <1>1, Zenon DEF Over
<1>4. Start' = [u \in Trajectory |-> IF u = t THEN start ELSE RequestStart(u)]
  BY <1>1, Zenon DEF Start
<1> HIDE DEF now, over, start
<1>5. [Text EXCEPT ![t] = now] = [u \in Trajectory |-> IF u = t THEN now ELSE TextOf(u)]
  BY Zenon DEF Text
<1>6. [Over EXCEPT ![t] = over] = [u \in Trajectory |-> IF u = t THEN over ELSE pc[u] = "completed"]
  BY Zenon DEF Over
<1>7. [Start EXCEPT ![t] = start] = [u \in Trajectory |-> IF u = t THEN start ELSE RequestStart(u)]
  BY Zenon DEF Start
<1>8. Text[t] = TextOf(t) /\ Over[t] = (pc[t] = "completed") /\ Start[t] = RequestStart(t)
  BY DEF Text, Over, Start
<1> QED
  BY <1>2, <1>3, <1>4, <1>5, <1>6, <1>7, <1>8, Zenon DEF now, over, start

LEMMA AppendJoined ==
  ASSUME NEW s \in Seq(Token), NEW u \in Seq(Token), NEW x \in Token
  PROVE  s \o Append(u, x) = Append(s \o u, x)
<1>1. <<x>> \in Seq(Token) /\ s \o u \in Seq(Token)
  BY ConcatProperties
<1>2. Append(u, x) = u \o <<x>> /\ Append(s \o u, x) = (s \o u) \o <<x>>
  BY <1>1, AppendIsConcat
<1>3. (s \o u) \o <<x>> = s \o (u \o <<x>>)
  BY <1>1, ConcatAssociative
<1> QED
  BY <1>2, <1>3

(* The text of a trajectory is long enough, or ends, only where it is said to. *)
LEMMA TextOpen ==
  ASSUME PartialInv, NEW t \in Trajectory, pc[t] = "wait", t \notin ended
  PROVE  ~TurnOver(TextOf(t)) /\ Len(TextOf(t)) < ModelLength
<1>1. /\ t \in DOMAIN reqOutput /\ reqOutput[t] \in Seq(Written) /\ response[t] \in Seq(Token)
      /\ OutputInv(t) /\ TextOf(t) = response[t] \o reqOutput[t]
      /\ ~TurnOver(response[t])
  BY PartialTypes DEF PartialInv, AgentInv, OutputInv, TurnInv, TextOf, Unfinished
<1>2. ~TurnOver(reqOutput[t]) /\ Len(response[t]) + Len(reqOutput[t]) < ModelLength
  BY <1>1 DEF OutputInv
<1> QED
  BY <1>1, <1>2, InterruptedPart, JoinedPart

AnswersOf(t) ==
  /\ t \notin SingleTurn /\ TurnOver(Text[t]) /\ ~Stream!LimitReached(Text[t])
  /\ Stream!CallSince(Text[t], Start[t])
  /\ Len(Text[t]) + 1 < ResponseLength

StopsOf(t) ==
  /\ ~Over[t]
  /\ Len(Text[t]) >= ResponseLength \/ (TurnOver(Text[t]) /\ ~AnswersOf(t))
  /\ Text' = [Text EXCEPT ![t] = Cut(Text[t])] /\ Over' = [Over EXCEPT ![t] = TRUE]
  /\ Start' = [Start EXCEPT ![t] = 0]

GrowsOf(t) ==
  /\ ~Over[t] /\ ~TurnOver(Text[t]) /\ Len(Text[t]) < ModelLength
  /\ \E x \in Written : Text' = [Text EXCEPT ![t] = Append(Text[t], x)]
  /\ Over' = Over /\ Start' = Start

InterruptsOf(t) ==
  /\ ~Over[t] /\ ~TurnOver(Text[t]) /\ Len(Text[t]) < ResponseLength
  /\ Start' = [Start EXCEPT ![t] = Len(Text[t])]
  /\ Text' = Text /\ Over' = Over

RepliesOf(t) ==
  /\ ~Over[t] /\ AnswersOf(t)
  /\ Text' = [Text EXCEPT ![t] = Append(Text[t], [kind |-> "reply", by |-> 0])]
  /\ Start' = [Start EXCEPT ![t] = Len(Text[t]) + 1]
  /\ Over' = Over

Kept == Text' = Text /\ Over' = Over /\ Start' = Start

LEMMA SameView ==
  ASSUME PartialInv, NEW t \in Trajectory,
         \A u \in Trajectory \ {t} : SameAgent(u) /\ SameOutput(u),
         pc'[t] = "completed" <=> pc[t] = "completed"
  PROVE  /\ Over' = Over
         /\ TextOf(t)' = TextOf(t) => Text' = Text
         /\ RequestStart(t)' = RequestStart(t) => Start' = Start
<1>1. \A u \in Trajectory :
        /\ pc'[u] = "completed" <=> pc[u] = "completed"
        /\ u # t => TextOf(u)' = TextOf(u) /\ RequestStart(u)' = RequestStart(u)
  BY TextKept
<1> HIDE DEF TextOf, RequestStart
<1>2. TextOf(t)' = TextOf(t) => Text' = Text
  BY <1>1, Zenon DEF Text
<1>3. Over' = Over
  BY <1>1, Zenon DEF Over
<1>4. RequestStart(t)' = RequestStart(t) => Start' = Start
  BY <1>1, Zenon DEF Start
<1> QED
  BY <1>2, <1>3, <1>4

(* Being handed a part of the text shows nothing, an interruption, or the end of *)
(* the text of a single-turn agent.                                                *)
LEMMA ReceivedRefines ==
  ASSUME PartialInv, PartialInv', NEW t \in Trajectory, NEW toks \in Seq(Written),
         pc[t] \in {"call", "wait"}, TextOf(t) = response[t] \o toks, Received(t, toks),
         \A u \in Trajectory \ {t} : SameAgent(u) /\ SameOutput(u)
  PROVE  Kept \/ InterruptsOf(t) \/ StopsOf(t)
<1>1. pc'[t] # "wait" /\ pc[t] # "completed"
  BY DEF Received
<1>2. TextOf(t)' = response'[t]
  <2>1. response'[t] \in Seq(Token)
    BY DEF PartialInv, PartialType, TypeOK
  <2> QED
    BY <1>1, <2>1, NothingAdded DEF TextOf
<1>3. RequestStart(t) = Len(response[t])
  <2>1. state[t] \in {"PENDING", "GENERATING"}
    BY DEF PartialInv, AgentInv, TurnInv
  <2> QED
    BY <1>1, <2>1 DEF RequestStart
<1>4. /\ Text' = [Text EXCEPT ![t] = TextOf(t)']
      /\ Over' = [Over EXCEPT ![t] = (pc'[t] = "completed")]
      /\ Start' = [Start EXCEPT ![t] = RequestStart(t)']
      /\ Text[t] = TextOf(t) /\ Over[t] = (pc[t] = "completed") /\ Start[t] = RequestStart(t)
  BY TextExcept
<1>5. /\ response[t] \o toks \in Seq(Token) /\ Len(toks) \in Nat /\ Len(response[t]) \in Nat
      /\ Len(response[t] \o toks) = Len(response[t]) + Len(toks)
  BY JoinedPart, PartialTypes DEF PartialInv
<1>6. CASE /\ pc'[t] = "loop" /\ response'[t] = response[t] \o toks
           /\ state'[t] \in {"PROCESSING_TOOLS", "TERMINATED"} /\ responseIds'[t] = toks
  <2>1. RequestStart(t)' = Len(response[t] \o toks) - Len(toks)
    BY <1>6 DEF RequestStart
  <2>2. RequestStart(t)' = RequestStart(t)
    BY <1>3, <1>5, <2>1
  <2> QED
    BY <1>1, <1>2, <1>6, <2>2, SameView DEF Kept
<1>7. CASE /\ pc'[t] \in {"loop", "cancelled"} /\ response'[t] = response[t] \o toks
           /\ state'[t] \in {"PENDING", "GENERATING"} /\ Unfinished(response[t] \o toks)
  <2>1. RequestStart(t)' = Len(Text[t])
    BY <1>4, <1>5, <1>7 DEF RequestStart
  <2>2. Text' = Text /\ Over' = Over
    BY <1>1, <1>2, <1>7, SameView
  <2> QED
    BY <1>1, <1>4, <1>7, <2>1, <2>2 DEF InterruptsOf, Unfinished
<1>8. CASE /\ pc'[t] = "completed" /\ Ready(response[t] \o toks) /\ t \in SingleTurn
           /\ response'[t] = Cut(response[t] \o toks)
  <2>1. /\ TextOf(t)' = Cut(Text[t]) /\ (pc'[t] = "completed") = TRUE /\ Ready(Text[t])
        /\ ~Over[t] /\ RequestStart(t)' = 0
    BY <1>1, <1>2, <1>4, <1>8 DEF RequestStart
  <2>2. Len(Text[t]) >= ResponseLength \/ (TurnOver(Text[t]) /\ ~AnswersOf(t))
    BY <1>8, <2>1 DEF Ready, AnswersOf
  <2> QED
    BY <1>4, <2>1, <2>2, Zenon DEF StopsOf
<1> QED
  BY <1>6, <1>7, <1>8 DEF Received

LEMMA StreamSteps ==
  ASSUME PartialInv, [Next]_vars
  PROVE  \/ Kept
         \/ \E t \in Trajectory : GrowsOf(t) \/ InterruptsOf(t) \/ RepliesOf(t) \/ StopsOf(t)
<1>0. PartialInv'
  BY StepKeeps
<1>1. CASE UNCHANGED <<agentVars, reqOutput>>
  BY <1>1 DEF agentVars, Kept, Text, Over, Start, TextOf, RequestStart
<1>2. CASE UNCHANGED vars \/ PhaseStep \/ TaskReturns
  BY <1>1, <1>2, PhaseStepKeeps, TaskReturnsKeeps DEF vars, serverVars
<1>3. CASE Submit
  <2>1. /\ \A t \in Trajectory :
              /\ pc[t] # "wait" /\ pc'[t] # "wait"
              /\ pc'[t] = "completed" <=> pc[t] = "completed"
        /\ UNCHANGED <<response, responseIds, state>>
    BY <1>3, SubmitKeeps
  <2> QED
    BY <2>1 DEF Kept, Text, Over, Start, TextOf, RequestStart
<1>4. ASSUME NEW t \in Trajectory, NEW k \in ModelKind, EngineToken(t, k)
      PROVE  GrowsOf(t)
  <2> DEFINE x == [kind |-> k, by |-> weights]
  <2>1. /\ pc[t] = "wait" /\ t \in DOMAIN reqOutput /\ t \notin ended /\ x \in Written
        /\ reqOutput' = [reqOutput EXCEPT ![t] = Append(reqOutput[t], x)]
        /\ UNCHANGED <<syncVars, sampleVars, agentVars>>
    BY <1>4, TokenKeeps
  <2> HIDE DEF x
  <2>2. /\ reqOutput[t] \in Seq(Token) /\ response[t] \in Seq(Token) /\ x \in Token
    BY <2>1, PartialTypes, WrittenTokens DEF PartialInv
  <2>3. TextOf(t) = response[t] \o reqOutput[t] /\ TextOf(t)' = response[t] \o Append(reqOutput[t], x)
    BY <2>1 DEF TextOf, agentVars
  <2>4. response[t] \o Append(reqOutput[t], x) = Append(response[t] \o reqOutput[t], x)
    BY <2>2, AppendJoined
  <2>5. \A u \in Trajectory \ {t} : SameAgent(u) /\ SameOutput(u)
    <3>1. ended' \in {ended, ended \cup {t}}
      BY <1>4 DEF EngineToken
    <3> QED
      BY <2>1, <3>1 DEF SameAgent, SameOutput, agentVars
  <2>6. /\ Text' = [Text EXCEPT ![t] = Append(Text[t], x)]
        /\ Text[t] = TextOf(t) /\ Over[t] = (pc[t] = "completed")
    <3>1. /\ Text' = [Text EXCEPT ![t] = TextOf(t)']
          /\ Text[t] = TextOf(t) /\ Over[t] = (pc[t] = "completed")
      BY <2>5, TextExcept
    <3>2. TextOf(t)' = Append(Text[t], x)
      BY <2>3, <2>4, <3>1
    <3> QED
      BY <3>1, <3>2, Zenon
  <2>7. Over' = Over /\ Start' = Start
    BY <2>1 DEF Over, Start, RequestStart, agentVars
  <2>8. ~Over[t] /\ ~TurnOver(Text[t]) /\ Len(Text[t]) < ModelLength
    BY <2>1, <2>6, TextOpen
  <2> QED
    BY <2>1, <2>6, <2>7, <2>8 DEF GrowsOf
<1>5. ASSUME NEW t \in Trajectory, Refuse(t) PROVE Kept \/ InterruptsOf(t) \/ StopsOf(t)
  <2>1. /\ Received(t, <<>>) /\ pc[t] = "call"
        /\ \A u \in Trajectory \ {t} : SameAgent(u) /\ SameOutput(u)
    BY <1>5, RefuseKeeps DEF SameOutput, serverVars
  <2>2. TextOf(t) = response[t] \o <<>> /\ <<>> \in Seq(Written)
    BY <2>1 DEF TextOf
  <2> QED
    BY <1>0, <2>1, <2>2, ReceivedRefines
<1>6. ASSUME NEW t \in Trajectory, Answer(t) PROVE Kept \/ InterruptsOf(t) \/ StopsOf(t)
  <2>1. /\ Received(t, reqOutput[t]) /\ pc[t] = "wait" /\ t \in DOMAIN reqOutput
        /\ \A u \in Trajectory \ {t} : SameAgent(u) /\ SameOutput(u)
    BY <1>6, AnswerKeeps
  <2>2. TextOf(t) = response[t] \o reqOutput[t]
    BY <2>1 DEF TextOf
  <2>3. reqOutput[t] \in Seq(Written)
    BY <2>1, PartialTypes DEF PartialInv
  <2> QED
    BY <1>0, <2>1, <2>2, <2>3, ReceivedRefines
<1>7. ASSUME NEW t \in Trajectory, Accept(t) PROVE Kept
  <2>1. /\ pc[t] = "call" /\ pc' = [pc EXCEPT ![t] = "wait"] /\ reqOutput'[t] = <<>>
        /\ \A u \in Trajectory \ {t} : SameAgent(u) /\ SameOutput(u)
        /\ UNCHANGED <<state, response, responseIds>>
    BY <1>7, AcceptKeeps
  <2>2. pc'[t] = "wait"
    BY <2>1 DEF PartialInv, PartialType, TypeOK
  <2>3. TextOf(t)' = TextOf(t) /\ RequestStart(t)' = RequestStart(t)
    BY <2>1, <2>2 DEF TextOf, RequestStart
  <2> QED
    BY <2>1, <2>2, <2>3, SameView DEF Kept
<1>8. ASSUME NEW t \in Trajectory, Interrupted(t) \/ Prepare(t) \/ CallServer(t) PROVE Kept
  <2>1. /\ pc[t] = "loop" /\ pc'[t] \in {"loop", "call", "cancelled"}
        /\ \A u \in Trajectory \ {t} : SameAgent(u) /\ SameOutput(u)
        /\ UNCHANGED <<response, responseIds>>
        /\ \/ state' = state
           \/ state[t] = "PENDING" /\ state' = [state EXCEPT ![t] = "GENERATING"]
    BY <1>8, LoopSteps DEF SameOutput, serverVars
  <2>2. state'[t] = state[t] \/ (state[t] = "PENDING" /\ state'[t] = "GENERATING")
    BY <2>1 DEF PartialInv, PartialType, TypeOK
  <2>3. TextOf(t)' = TextOf(t) /\ RequestStart(t)' = RequestStart(t)
    BY <2>1, <2>2 DEF TextOf, RequestStart
  <2> QED
    BY <2>1, <2>3, SameView DEF Kept
<1>9. ASSUME NEW t \in Trajectory, CallTools(t) PROVE Kept \/ RepliesOf(t)
  <2> DEFINE x == [kind |-> "reply", by |-> 0]
  <2>1. /\ pc[t] = "loop" /\ pc' = pc
        /\ \A u \in Trajectory \ {t} : SameAgent(u) /\ SameOutput(u)
        /\ t \notin SingleTurn /\ state[t] = "PROCESSING_TOOLS" /\ responseIds' = responseIds
        /\ TurnOver(response[t]) /\ ~Stream!LimitReached(response[t])
        /\ Stream!CallSince(response[t], Len(response[t]) - Len(responseIds[t]))
        /\ \/ response' = response /\ state'[t] = "TERMINATED"
           \/ /\ response' = [response EXCEPT ![t] = Append(response[t], x)]
              /\ state'[t] = "GENERATING" /\ Len(response[t]) + 1 < ResponseLength
    BY <1>9, CallToolsKeeps DEF SameOutput, serverVars
  <2> HIDE DEF x
  <2>2. CASE response' = response /\ state'[t] = "TERMINATED"
    <3>1. TextOf(t)' = TextOf(t) /\ RequestStart(t)' = RequestStart(t)
      BY <2>1, <2>2 DEF TextOf, RequestStart
    <3> QED
      BY <2>1, <3>1, SameView DEF Kept
  <2>3. CASE /\ response' = [response EXCEPT ![t] = Append(response[t], x)]
             /\ state'[t] = "GENERATING" /\ Len(response[t]) + 1 < ResponseLength
    <3>1. /\ response'[t] = Append(response[t], x) /\ TextOf(t) = response[t]
          /\ response[t] \in Seq(Token) /\ x \in Token
      <4>1. x \in Token
        BY LengthsKnown DEF Token, x
      <4>2. response[t] \in Seq(Token) /\ response'[t] = Append(response[t], x)
        BY <2>1, <2>3 DEF PartialInv, PartialType, TypeOK
      <4>3. TextOf(t) = response[t]
        BY <2>1, TextWithout
      <4> QED
        BY <4>1, <4>2, <4>3
    <3>2. TextOf(t)' = response'[t]
      <4>1. response'[t] \in Seq(Token) /\ pc'[t] # "wait"
        BY <1>0, <2>1 DEF PartialInv, PartialType, TypeOK
      <4> QED
        BY <4>1, NothingAdded DEF TextOf
    <3>3. /\ Text' = [Text EXCEPT ![t] = TextOf(t)']
          /\ Start' = [Start EXCEPT ![t] = RequestStart(t)']
          /\ Text[t] = TextOf(t) /\ Over[t] = (pc[t] = "completed") /\ Start[t] = RequestStart(t)
      BY <2>1, TextExcept
    <3>4. Over' = Over
      BY <2>1 DEF Over
    <3>5. Text' = [Text EXCEPT ![t] = Append(Text[t], x)] /\ Text[t] = response[t] /\ ~Over[t]
      BY <2>1, <3>1, <3>2, <3>3
    <3>6. Start[t] = Len(response[t]) - Len(responseIds[t])
      BY <2>1, <3>3 DEF RequestStart
    <3>7. RequestStart(t)' = Len(Text[t]) + 1
      <4>1. Len(response'[t]) = Len(response[t]) + 1 /\ Len(response[t]) \in Nat
        BY <3>1, AppendProperties, LenProperties
      <4> QED
        BY <2>1, <2>3, <3>5, <4>1 DEF RequestStart
    <3>8. AnswersOf(t)
      BY <2>1, <2>3, <3>5, <3>6 DEF AnswersOf
    <3> QED
      BY <3>3, <3>4, <3>5, <3>7, <3>8 DEF RepliesOf, x
  <2> QED
    BY <2>1, <2>2, <2>3
<1>10. ASSUME NEW t \in Trajectory, Complete(t) PROVE StopsOf(t)
  <2>1. /\ pc[t] = "loop" /\ pc'[t] = "completed"
        /\ \A u \in Trajectory \ {t} : SameAgent(u) /\ SameOutput(u)
        /\ Settled(t) /\ t \notin SingleTurn /\ state[t] = "TERMINATED"
        /\ response'[t] = Cut(response[t])
    BY <1>10, CompleteKeeps DEF SameOutput, serverVars
  <2>2. TextOf(t) = response[t]
    BY <2>1, TextWithout
  <2>3. TextOf(t)' = response'[t]
    <3>1. response'[t] \in Seq(Token)
      BY <1>0 DEF PartialInv, PartialType, TypeOK
    <3> QED
      BY <2>1, <3>1, NothingAdded DEF TextOf
  <2>4. /\ Text' = [Text EXCEPT ![t] = TextOf(t)']
        /\ Over' = [Over EXCEPT ![t] = (pc'[t] = "completed")]
        /\ Start' = [Start EXCEPT ![t] = RequestStart(t)']
        /\ Text[t] = TextOf(t) /\ Over[t] = (pc[t] = "completed") /\ Start[t] = RequestStart(t)
    BY <2>1, TextExcept
  <2>5. TextOf(t)' = Cut(Text[t]) /\ (pc'[t] = "completed") = TRUE /\ ~Over[t] /\ RequestStart(t)' = 0
    BY <2>1, <2>2, <2>3, <2>4 DEF RequestStart
  <2>6. Len(Text[t]) >= ResponseLength \/ (TurnOver(Text[t]) /\ ~AnswersOf(t))
    <3>1. Text[t] = response[t] /\ Start[t] = Len(response[t]) - Len(responseIds[t])
      BY <2>1, <2>2, <2>4 DEF RequestStart
    <3>2. Len(response[t]) \in Nat
      BY PartialTypes DEF PartialInv
    <3>3. Len(response[t]) + 1 >= ResponseLength => ~(Len(response[t]) + 1 < ResponseLength)
      BY <3>2, LengthsKnown
    <3> QED
      BY <2>1, <3>1, <3>3, Zenon DEF Settled, AnswersOf
  <2> QED
    BY <2>4, <2>5, <2>6, Zenon DEF StopsOf
<1> QED
  BY <1>2, <1>3, <1>4, <1>5, <1>6, <1>7, <1>8, <1>9, <1>10
     DEF Next, RolloutStep, PhaseStep, Engine, AgentStep

LEMMA StreamRefined ==
  PartialInv /\ [Next]_vars => [Stream!StreamNext]_<<Text, Over, Start>>
<1> SUFFICES ASSUME PartialInv, [Next]_vars PROVE [Stream!StreamNext]_<<Text, Over, Start>>
  OBVIOUS
<1> USE DEF Text, Over, Start, TextOf, TurnOver
<1>1. ASSUME NEW t \in Trajectory, GrowsOf(t) PROVE Stream!Grow(t)
  BY <1>1 DEF GrowsOf, Stream!Grow, Written
<1>2. ASSUME NEW t \in Trajectory, InterruptsOf(t) PROVE Stream!Interrupt(t)
  BY <1>2 DEF InterruptsOf, Stream!Interrupt
<1>3. ASSUME NEW t \in Trajectory, RepliesOf(t) PROVE Stream!Reply(t)
  BY <1>3 DEF RepliesOf, AnswersOf, Stream!Reply, Stream!Answers
<1>4. ASSUME NEW t \in Trajectory, StopsOf(t) PROVE Stream!Stop(t)
  BY <1>4 DEF StopsOf, AnswersOf, Stream!Stop, Stream!Answers, Cut
<1> QED
  BY <1>1, <1>2, <1>3, <1>4, StreamSteps DEF Stream!StreamNext, Kept

(* However often a generation is interrupted and continued by other weights,   *)
(* each text grows a token at a time at its end, and an agent stops where it     *)
(* would without interruptions, but that it overlooks a call that does not lie   *)
(* in the tokens of one request: partial rollout implements TokenStream            *)
(* (partial_tool_agent_loop.py, partial_single_turn_agent_loop.py,               *)
(* vllm_async_server.py).                                                         *)
THEOREM StreamImplemented == Spec => ImplementsStream
<1>1. Init => Stream!StreamInit
  <2> SUFFICES ASSUME Init PROVE Stream!StreamInit
    OBVIOUS
  <2>1. \A t \in Trajectory :
          /\ response[t] \o (IF pc[t] = "wait" THEN reqOutput[t] ELSE <<>>) = <<>>
          /\ (pc[t] = "completed") = FALSE /\ RequestStart(t) = 0
    <3>1. \A t \in Trajectory : response[t] = <<>> /\ pc[t] = "new" /\ state[t] = "PENDING"
      BY DEF Init
    <3>2. <<>> \o <<>> = <<>> /\ Len(<<>>) - 0 = 0
      OBVIOUS
    <3> QED
      BY <3>1, <3>2 DEF RequestStart
  <2> QED
    BY <2>1, Zenon DEF Stream!StreamInit
<1> QED
  BY <1>1, PartialInvariant, StreamRefined, PTL
     DEF Spec, ImplementsStream, Stream!StreamSpec, Stream!streamVars, Text, Over, Start, TextOf
=============================================================================
