----------------------------- MODULE TokenStream -----------------------------
(***************************************************************************)
(* What partial rollout promises: a trajectory's text grows one token at a *)
(* time at its end, nothing of it is lost, repeated or changed by an       *)
(* interruption, a turn that is over is not generated any further, and an  *)
(* agent stops where ToolAgentLoop (experimental/agent_loop/               *)
(* tool_agent_loop.py) would -- but for one thing.  The tool parser gets   *)
(* the tokens of the last request only, so an interruption hides what the  *)
(* turn has written before it: a call that straddles it, or lies before    *)
(* it, is not made.  `cut' is where the part that is searched begins.      *)
(***************************************************************************)
EXTENDS Integers, Sequences, SequencesExt, FiniteSets

CONSTANTS Trajectory, SingleTurn, ResponseLength, ModelLength, MaxAssistantTurns,
          ModelToken, ReplyToken

VARIABLES text, over, cut

streamVars == <<text, over, cut>>

StreamInit ==
  /\ text = [t \in Trajectory |-> <<>>]
  /\ over = [t \in Trajectory |-> FALSE]
  /\ cut = [t \in Trajectory |-> 0]

TurnOver(s) == s # <<>> /\ Last(s).kind = "end"

\* The turns of the model that are over
Turns(s) == Cardinality({i \in DOMAIN s : s[i].kind = "end"})
LimitReached(s) == MaxAssistantTurns # 0 /\ Turns(s) >= MaxAssistantTurns

\* A complete call in what s holds behind position n
CallSince(s, n) ==
  \E i, j \in DOMAIN s :
     n < i /\ i < j /\ s[i].kind = "open" /\ s[j].kind = "close"

\* The agent answers the call it has found, if there is room for it
Answers(t) ==
  /\ t \notin SingleTurn /\ TurnOver(text[t]) /\ ~LimitReached(text[t])
  /\ CallSince(text[t], cut[t])
  /\ Len(text[t]) + 1 < ResponseLength

Grow(t) ==
  /\ ~over[t] /\ ~TurnOver(text[t]) /\ Len(text[t]) < ModelLength
  /\ \E x \in ModelToken : text' = [text EXCEPT ![t] = Append(@, x)]
  /\ UNCHANGED <<over, cut>>

Interrupt(t) ==
  /\ ~over[t] /\ ~TurnOver(text[t]) /\ Len(text[t]) < ResponseLength
  /\ cut' = [cut EXCEPT ![t] = Len(text[t])]
  /\ UNCHANGED <<text, over>>

Reply(t) ==
  /\ ~over[t] /\ Answers(t)
  /\ text' = [text EXCEPT ![t] = Append(@, ReplyToken)]
  /\ cut' = [cut EXCEPT ![t] = Len(text[t]) + 1]
  /\ UNCHANGED over

Stop(t) ==
  /\ ~over[t]
  /\ Len(text[t]) >= ResponseLength \/ (TurnOver(text[t]) /\ ~Answers(t))
  /\ over' = [over EXCEPT ![t] = TRUE]
  /\ text' = [text EXCEPT ![t] =
                SubSeq(@, 1, IF Len(@) < ResponseLength THEN Len(@) ELSE ResponseLength)]
  /\ cut' = [cut EXCEPT ![t] = 0]

StreamNext == \E t \in Trajectory : Grow(t) \/ Interrupt(t) \/ Reply(t) \/ Stop(t)

StreamSpec == StreamInit /\ [][StreamNext]_streamVars
=============================================================================
