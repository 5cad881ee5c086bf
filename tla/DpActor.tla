------------------------------- MODULE DpActor -------------------------------
(***************************************************************************)
(* DataParallelPPOActor (workers/actor/dp_actor.py): how its two methods   *)
(* call the model.  compute_log_prob turns the masking of CotMasking off   *)
(* for old_log_prob and on again; update_policy masks, and perturbs the    *)
(* hidden states of the prompt with forward hooks on a layer (PEP, the     *)
(* FACT method): passes that search the perturbation, one that computes an *)
(* auxiliary loss, and the one whose log probabilities are trained on.     *)
(***************************************************************************)
EXTENDS CotMasking

CONSTANTS UseCotMasking,   \* use_cot_masking
          RemovePadding,   \* use_remove_padding
          Perturbations    \* settings of PEP to consider; steps is pep_pgd_steps in
                           \* mode worst_case and 0 in mode random

ASSUME ActorAssumption ==
  /\ {UseCotMasking, RemovePadding} \subseteq BOOLEAN
  /\ \A p \in Perturbations : p.on \in BOOLEAN /\ p.dual \in BOOLEAN /\ p.steps \in Nat

VARIABLES
  pep,       \* use_prompt_embedding_perturbation, pep_pgd_steps, pep_dual_loss
  call,      \* the actor's method under way: "idle", "logProb", "update"
  disable,   \* disable_cot_masking in the data of the call
  override,  \* _cot_masking_override: "unset" or "off"
  saved,     \* old_override
  training,  \* actor_module.training
  passes,    \* calls of the model in this micro batch so far
  hooks,     \* forward hooks on the layer, by the pass they are for
  forward    \* the last call of the model: for whom and what, with which attention,
             \* and the positions perturbed

callVars == <<call, disable, override, saved, training>>
vars == <<inputVars, pep, callVars, passes, hooks, forward>>

Kind == {"attack", "auxiliary", "main"}
NoForward == [by |-> "none", kind |-> "main", masked |-> FALSE, attention |-> {},
              perturbed |-> {}]

Init ==
  /\ InputInit
  /\ pep \in Perturbations
  /\ call = "idle" /\ disable = FALSE
  /\ override = "unset" /\ saved = "unset"
  /\ training = FALSE
  /\ passes = 0 /\ hooks = {}
  /\ forward = NoForward

\* Mutant of Evaluating: the mode is left as it is
EvaluatingNot == training

Evaluating == FALSE

\* compute_log_prob, for old_log_prob (disable_cot_masking as configured) or for others
ComputeLogProb(d) ==
  /\ call = "idle" /\ call' = "logProb"
  /\ training' = Evaluating
  /\ disable' = d /\ saved' = override
  /\ override' = IF d /\ UseCotMasking THEN "off" ELSE override
  /\ UNCHANGED <<inputVars, pep, passes, hooks, forward>>

\* update_policy
UpdatePolicy ==
  /\ call = "idle" /\ call' = "update"
  /\ training' = TRUE
  /\ UNCHANGED <<inputVars, pep, disable, override, saved, passes, hooks, forward>>

\* _forward_micro_batch.  Without padding neither mask nor perturbation is applied.
Masking == UseCotMasking /\ override = "unset" /\ ~RemovePadding
Perturbing == pep.on /\ training /\ ~RemovePadding

NextPass ==
  IF ~Perturbing THEN "main"
  ELSE IF passes < pep.steps THEN "attack"
  ELSE IF pep.dual /\ passes = pep.steps THEN "auxiliary"
  ELSE "main"

\* With an auxiliary loss the main pass is a clean one.
Hooked(kind) == Perturbing /\ (kind = "main" => ~pep.dual)

RegisterHook ==
  /\ call # "idle" /\ Hooked(NextPass) /\ NextPass \notin hooks
  /\ hooks' = hooks \cup {NextPass}
  /\ UNCHANGED <<inputVars, pep, callVars, passes, forward>>

\* Mutant of Removed: the hook of the auxiliary pass stays
RemovedButAuxiliary == IF NextPass = "auxiliary" THEN hooks ELSE hooks \ {NextPass}

\* The finally clauses
Removed == hooks \ {NextPass}

CallModel ==
  /\ call # "idle" /\ (Hooked(NextPass) => NextPass \in hooks)
  /\ forward' = [by |-> call, kind |-> NextPass, masked |-> Masking,
                 attention |-> IF Masking THEN CotAttention(input, valid)
                               ELSE PlainAttention(valid),
                 perturbed |-> IF hooks = {} THEN {} ELSE PromptPart]
  /\ hooks' = Removed
  /\ passes' = IF NextPass = "main" THEN 0 ELSE passes + 1
  /\ UNCHANGED <<inputVars, pep, callVars>>

\* Mutant of Restored: the override left as it is
RestoredNever == override

\* The finally clause of compute_log_prob
Restored == IF disable THEN saved ELSE override

\* The method returns after a micro batch, or raises at any point
Return ==
  /\ call # "idle" /\ call' = "idle"
  /\ override' = IF call = "logProb" THEN Restored ELSE override
  /\ disable' = FALSE /\ saved' = "unset"
  /\ passes' = 0 /\ hooks' = Removed
  /\ UNCHANGED <<inputVars, pep, training, forward>>

Next ==
  (\E d \in BOOLEAN : ComputeLogProb(d)) \/ UpdatePolicy \/ RegisterHook \/ CallModel \/ Return

Spec == Init /\ [][Next]_vars

-----------------------------------------------------------------------------
\* Properties

TypeOK ==
  /\ substring \in BOOLEAN
  /\ input \in [Position -> Word \cup {Pad}] /\ valid \subseteq Position
  /\ pep \in Perturbations
  /\ call \in {"idle", "logProb", "update"} /\ disable \in BOOLEAN
  /\ override \in {"unset", "off"} /\ saved \in {"unset", "off"}
  /\ training \in BOOLEAN /\ passes \in 0..(pep.steps + 1) /\ hooks \subseteq Kind
  /\ forward.by \in {"none", "logProb", "update"} /\ forward.kind \in Kind
  /\ forward.masked \in BOOLEAN /\ forward.perturbed \subseteq Position
  /\ forward.attention \subseteq Position \X Position

\* With masking a token past the last delimiter of the response sees no token of
\* the prompt; what it knows of the prompt it has from the chain of thought
\* (create_cot_attention_mask)
AnswerBlind ==
  forward.masked =>
    \A e \in forward.attention : e[1] \in ResponsePart /\ PastDelimiters(e[1])
                                  => e[2] \notin PromptPart

\* With masking a token of the prompt that is no stray, or of the response up to a
\* delimiter, the base one if the response has it, sees all that is valid before it
ChainSees ==
  forward.masked =>
    \A q \in Position, k \in valid :
      ( /\ k <= q
        /\ \/ q \in PromptPart \ Strays
           \/ \E i \in ResponsePart : OccursAt(input, Base, i) /\ q <= i + Len(Base) - 1 )
        => <<q, k>> \in forward.attention

\* No valid token is left without anything to attend to, which would make its
\* softmax NaN, but for the strays with masking
NoEmptyRow ==
  forward # NoForward =>
    \A q \in valid : <<q, q>> \in forward.attention \/ (forward.masked /\ q \in Strays)

\* The regions partition the sequence, and the attention mask and the gradient
\* mask cut it where the delimiters are, of every padded sequence: an answer sees
\* nothing of the prompt, the chain of thought all of it, and gradients go where the
\* chain of thought is.  Only a prompt that holds the special token while the
\* response does not has tokens that are treated as answer, and see nothing.
MasksAgree == RegionsPartition /\ AnswerBlind /\ ChainSees /\ NoEmptyRow /\ GradientIsCot

\* A policy update is always masked, whatever calls came before it, finished or
\* raised; a forward pass with masking disabled never is (compute_log_prob)
UpdateMasked ==
  [][ forward' # forward =>
        /\ call = "update" => forward'.masked = UseCotMasking
        /\ call = "logProb" /\ disable => ~forward'.masked ]_vars

\* The pass an update trains on is perturbed when PEP is on, except beside an
\* auxiliary loss (workers/config/actor.py: "Perturbs prompt token hidden states
\* at a chosen transformer layer during policy updates")
UpdatePerturbed ==
  (forward.by = "update" /\ forward.kind = "main" /\ pep.on /\ ~pep.dual) =>
    forward.perturbed # {}

\* It is perturbed in no other case, nor is any pass of compute_log_prob, and never
\* in the response; no hook outlives its call, although the
\* hooks of three kinds of passes share a layer and each pass may raise
PerturbationConfined ==
  /\ UpdatePerturbed
  /\ forward.perturbed # {} =>
       /\ forward.by = "update" /\ pep.on
       /\ forward.kind = "main" => ~pep.dual
       /\ forward.perturbed \cap ResponsePart = {}
  /\ call = "idle" => hooks = {}
=============================================================================
