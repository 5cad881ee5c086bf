--------------------------- MODULE PartialRollout ---------------------------
(***************************************************************************)
(* One sample's trajectories under partial rollout, token by token: the    *)
(* agent loops of a FullyAsyncAgentLoopWorker, the rollout server          *)
(* vLLMHttpServerForPartial that generates for them, and the rollouter's   *)
(* pause / update_param_version / resume around a weight synchronization,  *)
(* which interrupts the generation and has it continued later, by other    *)
(* weights.  Module Rollouter models the same pause for many samples, with *)
(* a generation as one step.                                               *)
(*                                                                         *)
(* A token is its kind and the version of the weights that generated it.   *)
(* "open" ... "close" delimit a tool call, "end" is the end-of-sequence    *)
(* token, "reply" the answer of a tool, one token long.  A prompt has no   *)
(* role of its own: `response' is prompt_ids after the initial prompt.     *)
(***************************************************************************)
EXTENDS Integers, Sequences, SequencesExt, FiniteSets

CONSTANTS Trajectory,        \* the sample's rollout.n trajectories
          SingleTurn,        \* those of agent partial_single_turn_agent; the others
                             \* are of async_partial_tool_agent
          ResponseLength,    \* rollout.response_length
          ModelLength,       \* max_model_len less the length of the initial prompt
          MaxAssistantTurns, \* multi_turn.max_assistant_turns; 0: no limit
          Syncs              \* bound on the number of weight synchronizations

ASSUME PartialAssumption ==
  /\ SingleTurn \subseteq Trajectory /\ IsFiniteSet(Trajectory)
  /\ ResponseLength \in Nat \ {0} /\ ModelLength \in Nat /\ ModelLength >= ResponseLength
  /\ MaxAssistantTurns \in Nat /\ Syncs \in Nat

ModelKind == {"open", "close", "end"}
Token == [kind : ModelKind \cup {"reply"}, by : 0..Syncs]
NoOutput == <<>>      \* req_output[id] is None: the engine has not produced a token

VARIABLES
  phase,         \* what the rollouter's pause / sync / resume is doing
  calls,         \* remote calls of manager.cancel() / resume() not yet served
  weights,       \* version of the weights the server holds
  version,       \* current_param_version
  serverPaused,  \* the server's `paused'
  reqOutput,     \* the server's req_output, by the trajectory of the request
  cancelSet,     \* requests whose cancel_event is set
  ended,         \* requests whose generation_handle is done
  cancellation,  \* the worker's cancellation_event
  sample,        \* where the sample is: "queued", "active", "put"
  pversion,      \* param_version handed to the run of the agent loops
  raced,         \* history: the monitor has let the sample in between pause() and
                 \* update_param_version
  pc,            \* where each trajectory's agent loop is
  state,         \* its AgentState
  response,      \* prompt_ids after the initial prompt
  responseIds,   \* agent_data.response_ids: what the last generation returned
  mask,          \* response_mask
  turns,         \* assistant_turns
  vstart, vend   \* param_version_start, param_version_end

syncVars == <<phase, calls, weights, version>>
serverVars == <<serverPaused, reqOutput, cancelSet, ended>>
sampleVars == <<sample, pversion, raced>>
agentVars == <<pc, state, response, responseIds, mask, turns, vstart, vend>>
vars == <<syncVars, serverVars, cancellation, sampleVars, agentVars>>

AgentState == {"PENDING", "GENERATING", "PROCESSING_TOOLS", "TERMINATED"}
Phase == {"run", "cancelling", "gather", "paused", "synced", "updated", "resuming"}

TypeOK ==
  /\ phase \in Phase /\ calls \subseteq {"server", "worker"}
  /\ weights \in 0..Syncs /\ version \in 0..Syncs
  /\ serverPaused \in BOOLEAN /\ cancellation \in BOOLEAN
  /\ DOMAIN reqOutput \subseteq Trajectory
  /\ \A t \in DOMAIN reqOutput : reqOutput[t] \in Seq(Token)
  /\ cancelSet \subseteq DOMAIN reqOutput /\ ended \subseteq DOMAIN reqOutput
  /\ sample \in {"queued", "active", "put"} /\ pversion \in 0..Syncs
  /\ raced \in BOOLEAN
  /\ pc \in [Trajectory -> {"new", "loop", "call", "wait", "cancelled", "completed"}]
  /\ state \in [Trajectory -> AgentState]
  /\ response \in [Trajectory -> Seq(Token)]
  /\ responseIds \in [Trajectory -> Seq(Token)]
  /\ mask \in [Trajectory -> Seq({0, 1})]
  /\ turns \in [Trajectory -> Nat]
  /\ vstart \in [Trajectory -> 0..Syncs] /\ vend \in [Trajectory -> 0..Syncs]

Init ==
  /\ phase = "run" /\ calls = {} /\ weights = 0 /\ version = 0
  /\ serverPaused = FALSE /\ reqOutput = <<>> /\ cancelSet = {} /\ ended = {}
  /\ cancellation = FALSE
  /\ sample = "queued" /\ pversion = 0 /\ raced = FALSE
  /\ pc = [t \in Trajectory |-> "new"]
  /\ state = [t \in Trajectory |-> "PENDING"]
  /\ response = [t \in Trajectory |-> <<>>]
  /\ responseIds = [t \in Trajectory |-> <<>>]
  /\ mask = [t \in Trajectory |-> <<>>]
  /\ turns = [t \in Trajectory |-> 0]
  /\ vstart = [t \in Trajectory |-> 0] /\ vend = [t \in Trajectory |-> 0]

-----------------------------------------------------------------------------
\* The rollouter: the task of the sample

\* The processor submits the sample, first or again, and its task hands the
\* trajectories to a worker.  Trajectories already completed are returned as
\* they are; an interrupted one carries on from the state it was saved in.
\* The processor waits for `paused' to be cleared, by resume() or by the monitor,
\* which may do so behind pause(); pause(), update_param_version() and resume()
\* hold the lock the processor submits under.
MaySubmit == phase \in {"run", "paused", "synced", "updated"}

\* Mutant of StartVersion: a resumed run starts its span anew
StartVersionOfRun(t) == version

StartVersion(t) == IF pc[t] = "new" THEN version ELSE vstart[t]

Submit ==
  /\ sample = "queued" /\ MaySubmit
  /\ sample' = "active" /\ pversion' = version
  /\ raced' = (raced \/ phase \in {"paused", "synced"})
  /\ pc' = [t \in Trajectory |-> IF pc[t] = "completed" THEN "completed" ELSE "loop"]
  /\ vstart' = [t \in Trajectory |-> StartVersion(t)]
  /\ UNCHANGED <<syncVars, serverVars, cancellation, state, response, responseIds,
                 mask, turns, vend>>

\* The gather over the trajectories is over: to cancel_queue if any of them was
\* interrupted, else to the message queue
TaskReturns ==
  /\ sample = "active"
  /\ \A t \in Trajectory : pc[t] \in {"cancelled", "completed"}
  /\ sample' = IF \E t \in Trajectory : pc[t] = "cancelled" THEN "queued" ELSE "put"
  /\ UNCHANGED <<syncVars, serverVars, cancellation, pversion, raced, agentVars>>

-----------------------------------------------------------------------------
\* The rollouter: pause, weight synchronization, resume

\* pause() sends cancel to the workers and to the servers and awaits both
PauseBegin ==
  /\ phase = "run" /\ weights < Syncs
  /\ phase' = "cancelling" /\ calls' = {"server", "worker"}
  /\ UNCHANGED <<weights, version, serverVars, cancellation, sampleVars, agentVars>>

ServerCancel ==
  /\ phase = "cancelling" /\ "server" \in calls
  /\ calls' = calls \ {"server"}
  /\ serverPaused' = TRUE /\ cancelSet' = DOMAIN reqOutput
  /\ UNCHANGED <<phase, weights, version, reqOutput, ended, cancellation, sampleVars,
                 agentVars>>

\* Mutant of WorkerCancel: the event is not set
WorkerCancelSilent ==
  /\ phase = "cancelling" /\ "worker" \in calls
  /\ calls' = calls \ {"worker"}
  /\ UNCHANGED <<phase, weights, version, serverVars, cancellation, sampleVars, agentVars>>

WorkerCancel ==
  /\ phase = "cancelling" /\ "worker" \in calls
  /\ calls' = calls \ {"worker"}
  /\ cancellation' = TRUE
  /\ UNCHANGED <<phase, weights, version, serverVars, sampleVars, agentVars>>

\* ... then gathers active_tasks
CancelDone ==
  /\ phase = "cancelling" /\ calls = {}
  /\ phase' = "gather"
  /\ UNCHANGED <<calls, weights, version, serverVars, cancellation, sampleVars, agentVars>>

Paused ==
  /\ phase = "gather" /\ sample # "active"
  /\ phase' = "paused"
  /\ UNCHANGED <<calls, weights, version, serverVars, cancellation, sampleVars, agentVars>>

\* sync_rollout_weights
SyncWeights ==
  /\ phase = "paused"
  /\ phase' = "synced" /\ weights' = weights + 1
  /\ UNCHANGED <<calls, version, serverVars, cancellation, sampleVars, agentVars>>

UpdateParamVersion ==
  /\ phase = "synced"
  /\ phase' = "updated" /\ version' = weights
  /\ UNCHANGED <<calls, weights, serverVars, cancellation, sampleVars, agentVars>>

\* resume() is awaited on both sides before the processor is let in
ResumeBegin ==
  /\ phase = "updated"
  /\ phase' = "resuming" /\ calls' = {"server", "worker"}
  /\ UNCHANGED <<weights, version, serverVars, cancellation, sampleVars, agentVars>>

ServerResume ==
  /\ phase = "resuming" /\ "server" \in calls
  /\ calls' = calls \ {"server"} /\ serverPaused' = FALSE
  /\ UNCHANGED <<phase, weights, version, reqOutput, cancelSet, ended, cancellation,
                 sampleVars, agentVars>>

\* Mutant of WorkerResume: the event is not cleared
WorkerResumeStillSet ==
  /\ phase = "resuming" /\ "worker" \in calls
  /\ calls' = calls \ {"worker"}
  /\ UNCHANGED <<phase, weights, version, serverVars, cancellation, sampleVars, agentVars>>

WorkerResume ==
  /\ phase = "resuming" /\ "worker" \in calls
  /\ calls' = calls \ {"worker"} /\ cancellation' = FALSE
  /\ UNCHANGED <<phase, weights, version, serverVars, sampleVars, agentVars>>

ResumeDone ==
  /\ phase = "resuming" /\ calls = {}
  /\ phase' = "run"
  /\ UNCHANGED <<calls, weights, version, serverVars, cancellation, sampleVars, agentVars>>
-----------------------------------------------------------------------------
\* The server: generate_for_partial

\* A complete tool call in the tokens handed to the tool parser
HasCall(toks) ==
  \E i, j \in DOMAIN toks : i < j /\ toks[i].kind = "open" /\ toks[j].kind = "close"

Ones(n) == [i \in 1..n |-> 1]
Cut(s) == SubSeq(s, 1, IF Len(s) < ResponseLength THEN Len(s) ELSE ResponseLength)

\* What the agent loops do with an answer of the server.

\* _handle_generating_state_partial.  Only the tokens of the last answer are
\* searched for tool calls.
AfterTurn(toks, n) ==
  IF MaxAssistantTurns # 0 /\ n >= MaxAssistantTurns THEN "TERMINATED"
  ELSE IF HasCall(toks) THEN "PROCESSING_TOOLS" ELSE "TERMINATED"

\* Mutant of MaskAfter: an interrupted part is not masked in
MaskAfterTurn(t, toks, isCancel) ==
  IF isCancel THEN mask[t] ELSE mask[t] \o Ones(Len(toks))

MaskAfter(t, toks, isCancel) == mask[t] \o Ones(Len(toks))

ToolAgentGets(t, toks, isCancel) ==
  LET m == MaskAfter(t, toks, isCancel)
      full == Len(m) >= ResponseLength
  IN  /\ responseIds' = [responseIds EXCEPT ![t] = toks]
      /\ response' = [response EXCEPT ![t] = @ \o toks]
      /\ mask' = [mask EXCEPT ![t] = m]
      /\ turns' = [turns EXCEPT ![t] = IF isCancel /\ ~full THEN @ ELSE @ + 1]
      /\ state' = [state EXCEPT ![t] =
                     IF full THEN "TERMINATED"
                     ELSE IF isCancel THEN "GENERATING" ELSE AfterTurn(toks, turns[t] + 1)]
      /\ pc' = [pc EXCEPT ![t] = "loop"]
      /\ UNCHANGED <<vstart, vend>>

\* PartialSingleTurnAgentLoop.run after the await
\* Mutant of Joined: a resumed answer replaces the saved one
JoinedAnew(t, toks) == toks

Joined(t, toks) == response[t] \o toks

SingleTurnGets(t, toks, isCancel) ==
  LET r == Cut(Joined(t, toks))
  IN  /\ response' = [response EXCEPT ![t] = r]
      /\ mask' = [mask EXCEPT ![t] = Ones(Len(r))]
      /\ vend' = [vend EXCEPT ![t] = pversion]
      /\ pc' = [pc EXCEPT ![t] =
                  IF isCancel /\ Len(r) < ResponseLength THEN "cancelled" ELSE "completed"]
      /\ UNCHANGED <<state, responseIds, turns, vstart>>

AgentGets(t, toks, isCancel) ==
  \/ t \in SingleTurn /\ SingleTurnGets(t, toks, isCancel)
  \/ t \notin SingleTurn /\ ToolAgentGets(t, toks, isCancel)

\* Mutant of Refusing: `paused' is not looked at
NeverRefusing == FALSE

Refusing == serverPaused

Refuse(t) ==
  /\ pc[t] = "call" /\ Refusing
  /\ AgentGets(t, <<>>, TRUE)
  /\ UNCHANGED <<syncVars, serverVars, cancellation, sampleVars>>

Accept(t) ==
  /\ pc[t] = "call" /\ ~Refusing
  /\ pc' = [pc EXCEPT ![t] = "wait"]
  /\ reqOutput' = [r \in DOMAIN reqOutput \cup {t} |-> IF r = t THEN NoOutput ELSE reqOutput[r]]
  /\ cancelSet' = cancelSet \ {t} /\ ended' = ended \ {t}
  /\ UNCHANGED <<syncVars, serverPaused, cancellation, sampleVars, state, response,
                 responseIds, mask, turns, vstart, vend>>

\* _generate_step receives one more token from the engine, which stops after the
\* end-of-sequence token or when the context is full
EngineToken(t, k) ==
  /\ pc[t] = "wait" /\ t \notin ended
  /\ reqOutput' = [reqOutput EXCEPT ![t] = Append(@, [kind |-> k, by |-> weights])]
  /\ ended' = IF k = "end" \/ Len(response[t]) + Len(reqOutput[t]) + 1 = ModelLength
              THEN ended \cup {t} ELSE ended
  /\ UNCHANGED <<syncVars, serverPaused, cancelSet, cancellation, sampleVars, agentVars>>

\* The wait for generation_handle or cancel_handle is over.  A request that was
\* interrupted before its first token leaves its entries behind, which its agent
\* overwrites when it calls again under the same id; a single-turn agent takes a
\* new id for every run, and what such a run leaves behind is not tracked here.
Forget(t) ==
  /\ reqOutput' = Restrict(reqOutput, DOMAIN reqOutput \ {t})
  /\ cancelSet' = cancelSet \ {t} /\ ended' = ended \ {t}

\* Mutant of IsCancel: decided by the event, not by the generation
IsCancelByEvent(t) == t \in cancelSet

IsCancel(t) == t \notin ended

Answer(t) ==
  /\ pc[t] = "wait" /\ t \in cancelSet \cup ended
  /\ IF reqOutput[t] = NoOutput
     THEN /\ AgentGets(t, <<>>, TRUE)
          /\ IF t \in SingleTurn THEN Forget(t) ELSE UNCHANGED <<reqOutput, cancelSet, ended>>
     ELSE AgentGets(t, reqOutput[t], IsCancel(t)) /\ Forget(t)
  /\ UNCHANGED <<syncVars, serverPaused, cancellation, sampleVars>>

-----------------------------------------------------------------------------
\* The agent loops between two answers: _run_state_machine

Looping(t) == pc[t] = "loop" /\ t \notin SingleTurn /\ state[t] # "TERMINATED"

Interrupted(t) ==
  /\ Looping(t) /\ cancellation
  /\ pc' = [pc EXCEPT ![t] = "cancelled"]
  /\ UNCHANGED <<syncVars, serverVars, cancellation, sampleVars, state, response,
                 responseIds, mask, turns, vstart, vend>>

\* _handle_pending_state
Prepare(t) ==
  /\ Looping(t) /\ ~cancellation /\ state[t] = "PENDING"
  /\ state' = [state EXCEPT ![t] = "GENERATING"]
  /\ response' = [response EXCEPT ![t] = <<>>]
  /\ UNCHANGED <<syncVars, serverVars, cancellation, sampleVars, pc, responseIds, mask,
                 turns, vstart, vend>>

\* A single-turn agent calls the server once in a run, whatever the event says
CallServer(t) ==
  /\ \/ Looping(t) /\ ~cancellation /\ state[t] = "GENERATING"
     \/ pc[t] = "loop" /\ t \in SingleTurn
  /\ pc' = [pc EXCEPT ![t] = "call"]
  /\ UNCHANGED <<syncVars, serverVars, cancellation, sampleVars, state, response,
                 responseIds, mask, turns, vstart, vend>>

\* _handle_processing_tools_state
CallTools(t) ==
  /\ Looping(t) /\ ~cancellation /\ state[t] = "PROCESSING_TOOLS"
  /\ IF Len(mask[t]) + 1 >= ResponseLength
     THEN /\ state' = [state EXCEPT ![t] = "TERMINATED"]
          /\ UNCHANGED <<response, mask>>
     ELSE /\ state' = [state EXCEPT ![t] = "GENERATING"]
          /\ response' = [response EXCEPT ![t] = Append(@, [kind |-> "reply", by |-> 0])]
          /\ mask' = [mask EXCEPT ![t] = Append(@, 0)]
  /\ UNCHANGED <<syncVars, serverVars, cancellation, sampleVars, pc, responseIds, turns,
                 vstart, vend>>

\* _build_completed_output
Complete(t) ==
  /\ pc[t] = "loop" /\ t \notin SingleTurn /\ state[t] = "TERMINATED"
  /\ pc' = [pc EXCEPT ![t] = "completed"]
  /\ response' = [response EXCEPT ![t] = Cut(@)]
  /\ mask' = [mask EXCEPT ![t] = Cut(@)]
  /\ vend' = [vend EXCEPT ![t] = pversion]
  /\ UNCHANGED <<syncVars, serverVars, cancellation, sampleVars, state, responseIds,
                 turns, vstart>>

-----------------------------------------------------------------------------
Engine(t) == \E k \in ModelKind : EngineToken(t, k)

AgentStep(t) ==
  Refuse(t) \/ Accept(t) \/ Answer(t) \/ Interrupted(t) \/ Prepare(t) \/ CallServer(t)
  \/ CallTools(t) \/ Complete(t)

RolloutStep ==
  Submit \/ TaskReturns \/ ServerCancel \/ WorkerCancel \/ CancelDone \/ Paused
  \/ SyncWeights \/ UpdateParamVersion \/ ResumeBegin \/ ServerResume \/ WorkerResume
  \/ ResumeDone

Next == PauseBegin \/ RolloutStep \/ \E t \in Trajectory : Engine(t) \/ AgentStep(t)

Spec == Init /\ [][Next]_vars

\* Remote calls are served, coroutines that can run do run, and the engine goes on
\* generating; only the trainer, which asks for a synchronization, need not.
Fairness ==
  /\ \A t \in Trajectory : WF_vars(Engine(t)) /\ WF_vars(AgentStep(t))
  /\ WF_vars(Submit) /\ WF_vars(TaskReturns)
  /\ WF_vars(ServerCancel) /\ WF_vars(WorkerCancel) /\ WF_vars(CancelDone)
  /\ WF_vars(Paused) /\ WF_vars(SyncWeights) /\ WF_vars(UpdateParamVersion)
  /\ WF_vars(ResumeBegin) /\ WF_vars(ServerResume) /\ WF_vars(WorkerResume)
  /\ WF_vars(ResumeDone)

FairSpec == Spec /\ Fairness

-----------------------------------------------------------------------------
\* Properties

\* Where the tokens of a trajectory's present request begin, or those of the last
\* one while its calls are to be made
RequestStart(t) ==
  IF pc[t] = "completed" THEN 0
  ELSE IF state[t] \in {"PROCESSING_TOOLS", "TERMINATED"}
  THEN Len(response[t]) - Len(responseIds[t])
  ELSE Len(response[t])

Stream == INSTANCE TokenStream WITH
  text <- [t \in Trajectory |->
             response[t] \o (IF pc[t] = "wait" THEN reqOutput[t] ELSE <<>>)],
  over <- [t \in Trajectory |-> pc[t] = "completed"],
  cut <- [t \in Trajectory |-> RequestStart(t)],
  ModelToken <- [kind : ModelKind, by : 0..Syncs],
  ReplyToken <- [kind |-> "reply", by |-> 0]

\* The response mask stays aligned with the response through every interruption:
\* 1 on what the model generated, 0 on what a tool answered
\* (partial_tool_agent_loop.py, tool_agent_loop.py)
MaskAligned ==
  \A t \in Trajectory :
    /\ Len(mask[t]) = Len(response[t])
    /\ \A i \in DOMAIN mask[t] : mask[t][i] = 0 <=> response[t][i].kind = "reply"

\* param_version_start and param_version_end of a completed trajectory enclose the
\* versions of the weights that generated its tokens.  A sample the monitor lets in
\* before update_param_version is handed the old version and may be generated by the
\* next weights, one version above its span; nothing takes it further.
VersionSpan ==
  \A t \in Trajectory :
    pc[t] = "completed" =>
      \A i \in DOMAIN response[t] :
        response[t][i].kind # "reply" =>
          response[t][i].by \in vstart[t]..(vend[t] + (IF raced THEN 1 ELSE 0))

\* What a trajectory records of its tokens, their mask and the span of their
\* versions, is right through every interruption (partial_tool_agent_loop.py)
Recorded == MaskAligned /\ VersionSpan

\* From the end of pause() to the start of resume() no request is being generated,
\* whatever the monitor lets in meanwhile: the servers refuse
NoTokenDuringSync ==
  phase \in {"paused", "synced", "updated"} => \A t \in Trajectory : pc[t] # "wait"

\* A tool agent that stopped before the response was full stopped on a turn that
\* called no tool.  It holds without interruptions only.
CallsAnswered ==
  \A t \in Trajectory \ SingleTurn :
    (pc[t] = "completed" /\ Len(response[t]) + 1 < ResponseLength) =>
      LET s == response[t]
          replies == {i \in DOMAIN s : s[i].kind = "reply"}
      IN  ~Stream!CallSince(s, IF replies = {} THEN 0
                               ELSE CHOOSE i \in replies : \A j \in replies : j <= i)

\* The text of a trajectory, with what the server has generated and not yet
\* returned, develops as if there were no interruptions, except that a tool call
\* is found in the tokens of one request only (module TokenStream)
ImplementsStream == Stream!StreamSpec

\* pause() comes to an end, although agent loops call the paused server again and
\* again until the worker has its cancellation event
SyncCompletes == phase = "cancelling" ~> phase = "run"

\* A pause loses no token of a text and comes to an end (partial_tool_agent_loop.py,
\* agent_loop.py)
PauseHarmless == ImplementsStream /\ SyncCompletes

\* Interrupted samples are continued to their end
SampleCompletes == <>(sample = "put")
=============================================================================
