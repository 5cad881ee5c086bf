----------------------------- MODULE CotMasking -----------------------------
(***************************************************************************)
(* Structural chain-of-thought masking (utils/cot_masking.py): where the   *)
(* prompt, the chain of thought and the answer of a sequence are, which    *)
(* attention is left and which positions gradients may flow through.       *)
(*                                                                         *)
(* A sequence is a prompt padded on the left and a response padded on the  *)
(* right.  Tokens are model values; positions are counted from 1.  A batch *)
(* is one sequence: the code treats its samples independently.             *)
(***************************************************************************)
EXTENDS Integers, Sequences, SequencesExt, FiniteSets

CONSTANTS Word,             \* tokens other than the padding
          Pad,              \* the padding token
          PromptLength, ResponseLength,
          Matchings,        \* the values of use_substring_delimiter_matching to consider
          EndThink,         \* end_think_token_id (special token mode)
          Delimiters,       \* tokenize_delimiter_string: the base tokens of "</think>"
                            \* first, then their variants, merged with a newline
          BlockPrompt, BlockAnswer   \* block_prompt_gradients, block_answer_gradients

ASSUME MaskingAssumption ==
  /\ PromptLength \in Nat \ {0} /\ ResponseLength \in Nat \ {0} /\ Pad \notin Word
  /\ Matchings \subseteq BOOLEAN
  /\ {BlockPrompt, BlockAnswer} \subseteq BOOLEAN
  /\ Delimiters \in Seq(Seq(Word) \ {<<>>}) /\ Delimiters # <<>>
  /\ \A i \in DOMAIN Delimiters : Len(Delimiters[i]) = Len(Delimiters[1])

SeqLen == PromptLength + ResponseLength
Position == 1..SeqLen
PromptPart == 1..PromptLength
ResponsePart == PromptLength + 1 .. SeqLen

VARIABLES
  substring, \* use_substring_delimiter_matching
  input,     \* input_ids
  valid      \* the positions attention_mask marks as not padded

inputVars == <<substring, input, valid>>

-----------------------------------------------------------------------------
\* utils/cot_masking.py

OccursAt(s, d, i) == i + Len(d) - 1 <= Len(s) /\ SubSeq(s, i, i + Len(d) - 1) = d

\* _find_subsequence_in_sequence: where the last occurrence starts; 0 if there is none
LastOccurrence(s, d) ==
  LET found == {i \in 1..Len(s) : OccursAt(s, d, i)}
  IN  IF found = {} THEN 0 ELSE CHOOSE i \in found : \A j \in found : j <= i

Response(s) == SubSeq(s, PromptLength + 1, SeqLen)

\* Special token mode searches the whole sequence.
SpecialTokenAt(s) == LastOccurrence(s, <<EndThink>>)

\* Mutant of SubstringAt: the whole sequence is searched
SubstringAnywhere(s) == LastOccurrence(s, Delimiters[1])

\* Substring mode searches the response, for a variant only if the base is absent.
SubstringAt(s) ==
  LET r == Response(s)
      matching == {n \in DOMAIN Delimiters : LastOccurrence(r, Delimiters[n]) > 0}
  IN  IF matching = {} THEN 0
      ELSE LET n == CHOOSE n \in matching : \A m \in matching : n <= m
           IN  PromptLength + LastOccurrence(r, Delimiters[n])

DelimiterLength == IF substring THEN Len(Delimiters[1]) ELSE 1
DelimiterAt(s) == IF substring THEN SubstringAt(s) ELSE SpecialTokenAt(s)

\* Mutant of DelimiterEnd: the delimiter taken for one token
DelimiterEndOfToken(s) == DelimiterAt(s)

DelimiterEnd(s) == DelimiterAt(s) + DelimiterLength - 1

\* find_special_token_positions.  Without a delimiter the response is all answer.
PromptMask(s) == {p \in Position : p <= PromptLength}

CotMask(s) ==
  IF DelimiterAt(s) > 0
  THEN {p \in Position : p > PromptLength /\ p <= DelimiterEnd(s)} ELSE {}

\* Mutant of AnswerMask: the delimiter's last token counted twice
AnswerMaskOverlapping(s) ==
  IF DelimiterAt(s) > 0 THEN {p \in Position : p >= DelimiterEnd(s)}
  ELSE {p \in Position : p > PromptLength}

AnswerMask(s) ==
  IF DelimiterAt(s) > 0 THEN {p \in Position : p > DelimiterEnd(s)}
  ELSE {p \in Position : p > PromptLength}

\* create_cot_attention_mask: the pairs <<query, key>> it does not set to -inf
Causal == {e \in Position \X Position : e[2] <= e[1]}

\* Mutant of Blocked: answer and prompt exchanged
BlockedReversed(s) == PromptMask(s) \X AnswerMask(s)

Blocked(s) == AnswerMask(s) \X PromptMask(s)

CotAttention(s, v) == {e \in Causal : e \notin Blocked(s) /\ e[2] \in v}
PlainAttention(v) == {e \in Causal : e[2] \in v}

\* The gradient mask of update_policy
\* Mutant of Flowing: block_answer_gradients forgotten
FlowingAnswer(s) == Position \ (IF BlockPrompt THEN PromptMask(s) ELSE {})

Flowing(s) ==
  Position \ ((IF BlockPrompt THEN PromptMask(s) ELSE {})
              \cup (IF BlockAnswer THEN AnswerMask(s) ELSE {}))

-----------------------------------------------------------------------------
\* The batches of dp_actor.py

\* The padded sequences: a prompt of at least one token on the right of its
\* half, a response of at least one token on the left of its own
Inputs ==
  LET Padded(from, to) ==
        {s \in [Position -> Word \cup {Pad}] :
           \A p \in Position : s[p] = Pad <=> p \notin from..to}
  IN  UNION {Padded(from, to) : from \in PromptPart, to \in ResponsePart}

InputInit ==
  /\ substring \in Matchings
  /\ input \in Inputs
  /\ valid = {p \in Position : input[p] # Pad}

-----------------------------------------------------------------------------
\* Properties

\* The tokens of a prompt behind its last special token, when the response has none:
\* the search, which is not confined to the response, finds the prompt's, and they
\* are prompt and answer at once
Strays ==
  {p \in PromptPart : /\ ~substring
                      /\ \E i \in 1..p - 1 : input[i] = EndThink
                      /\ \A i \in p..SeqLen : input[i] # EndThink}

\* Prompt, chain of thought and answer partition the sequence, but for the strays
\* (find_special_token_positions)
RegionsPartition ==
  /\ PromptMask(input) \cup CotMask(input) \cup AnswerMask(input) = Position
  /\ CotMask(input) \cap (PromptMask(input) \cup AnswerMask(input)) = {}
  /\ PromptMask(input) \cap AnswerMask(input) = Strays

\* The reference: q is past every delimiter of the response
Base == IF substring THEN Delimiters[1] ELSE <<EndThink>>
Delimiting == IF substring THEN Range(Delimiters) ELSE {<<EndThink>>}
PastDelimiters(q) ==
  \A d \in Delimiting, i \in ResponsePart :
    OccursAt(input, d, i) => q > i + Len(d) - 1

\* With both blocked, gradients flow through the chain of thought and nothing else
\* (update_policy)
GradientIsCot == BlockPrompt /\ BlockAnswer => Flowing(input) = CotMask(input)
=============================================================================
