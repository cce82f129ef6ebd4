-------------------------- MODULE AdmissionProofs ---------------------------
(***************************************************************************)
(* What Admission guarantees for any presets and requests, any answers of  *)
(* the model and any worktrees, checked by TLAPS.                          *)
(***************************************************************************)
EXTENDS Admission, Positions, FiniteSetTheorems

(* A field value of its type, or none, or of the wrong type; no text.      *)
Typed(f, v) ==
  /\ v \notin DOMAIN Number
  /\ v \in {None, Odd} \/ (f \in NumericCeilingFields => v \in Int)

(* The five kinds of guarded fields are apart.                             *)
LEMMA Kinds ==
  /\ AllowlistFields \cap DenylistFields = {}
  /\ NumericCeilingFields \cap (AllowlistFields \cup DenylistFields) = {}
  /\ RestrictiveBoolFields
       \cap (AllowlistFields \cup DenylistFields \cup NumericCeilingFields) = {}
  /\ PermissiveBoolFields
       \cap (AllowlistFields \cup DenylistFields \cup NumericCeilingFields
               \cup RestrictiveBoolFields) = {}
  /\ OtherFields \cap GuardedFields = {}
BY DEF AllowlistFields, DenylistFields, NumericCeilingFields, RestrictiveBoolFields,
       PermissiveBoolFields, OtherFields, GuardedFields

(* What Narrow and AsStrict are for a field of each kind.                  *)
LEMMA AllowlistCase ==
  ASSUME NEW f \in AllowlistFields, NEW p, NEW t, NEW v, NEW w
  PROVE  /\ Narrow(f, p, t) = p \cap t
         /\ v # None /\ v \subseteq w => AsStrict(f, v, w)
BY Kinds, Zenon DEF Narrow, AsStrict

LEMMA DenylistCase ==
  ASSUME NEW f \in DenylistFields, NEW p, NEW t, NEW v, NEW w
  PROVE  /\ Narrow(f, p, t) = p \cup t
         /\ v # None /\ w \subseteq v => AsStrict(f, v, w)
<1>1. /\ f \notin AllowlistFields /\ f \notin NumericCeilingFields
      /\ f \notin RestrictiveBoolFields /\ f \notin PermissiveBoolFields
  BY Kinds
<1>2. QED
  BY <1>1, Zenon DEF Narrow, AsStrict

LEMMA CeilingCase ==
  ASSUME NEW f \in NumericCeilingFields, NEW p, NEW t, NEW v, NEW w
  PROVE  /\ Narrow(f, p, t) = Least(p, t)
         /\ AsStrict(f, v, w) <=> w = None \/ (v # None /\ v <= w)
<1>1. /\ f \notin AllowlistFields /\ f \notin DenylistFields
      /\ f \notin RestrictiveBoolFields /\ f \notin PermissiveBoolFields
  BY Kinds
<1>2. QED
  BY <1>1, Zenon DEF Narrow, AsStrict

LEMMA RestrictiveCase ==
  ASSUME NEW f \in RestrictiveBoolFields, NEW p, NEW t, NEW v, NEW w
  PROVE  /\ Narrow(f, p, t) = (p \/ t)
         /\ v # None /\ (w => v) => AsStrict(f, v, w)
<1>1. /\ f \notin AllowlistFields /\ f \notin DenylistFields /\ f \notin NumericCeilingFields
      /\ f \notin PermissiveBoolFields
  BY Kinds
<1>2. QED
  BY <1>1, Zenon DEF Narrow, AsStrict

LEMMA PermissiveCase ==
  ASSUME NEW f \in PermissiveBoolFields, NEW p, NEW t, NEW v, NEW w
  PROVE  /\ Narrow(f, p, t) = (p /\ t)
         /\ v # None /\ (v => w) => AsStrict(f, v, w)
<1>1. /\ f \notin AllowlistFields /\ f \notin DenylistFields /\ f \notin NumericCeilingFields
      /\ f \notin RestrictiveBoolFields
  BY Kinds
<1>2. QED
  BY <1>1, Zenon DEF Narrow, AsStrict

(* merge_policy yields a value as strict as both sides', in every field    *)
(* where it yields a valid one.                                            *)
LEMMA MergeNarrows ==
  ASSUME NEW f \in GuardedFields, NEW p, NEW t, Typed(f, p), Typed(f, t), t # Odd,
         f \in NumericCeilingFields \/ (None \notin {p, t} => Narrow(f, p, t) # None),
         MergedField(f, p, t) # Odd
  PROVE  /\ AsStrict(f, MergedField(f, p, t), p)
         /\ AsStrict(f, MergedField(f, p, t), t)
         /\ f \in NumericCeilingFields => MergedField(f, p, t) \in Int \cup {None}
         /\ p # Odd
<1> DEFINE m == MergedField(f, p, t)
<1>1. f \notin OtherFields
  BY Kinds
<1>2. ASSUME NEW v, v # Odd, Typed(f, v)
      PROVE  /\ AsStrict(f, v, v) /\ AsStrict(f, v, None)
             /\ f \in NumericCeilingFields => v \in Int \cup {None}
  <2>1. AsStrict(f, v, None) /\ (v = None => AsStrict(f, v, v))
    BY Zenon DEF AsStrict
  <2>2. f \in NumericCeilingFields => v \in Int \cup {None}
    BY <1>2 DEF Typed
  <2>3. CASE v # None /\ f \in NumericCeilingFields
    <3>1. v <= v
      BY <1>2, <2>3 DEF Typed
    <3>2. QED
      BY <2>1, <2>2, <2>3, <3>1, CeilingCase
  <2>4. CASE v # None /\ f \notin NumericCeilingFields
    <3>1. CASE f \in AllowlistFields
      BY <2>1, <2>4, <3>1, AllowlistCase
    <3>2. CASE f \in DenylistFields
      BY <2>1, <2>4, <3>2, DenylistCase
    <3>3. CASE f \in RestrictiveBoolFields
      BY <2>1, <2>4, <3>3, RestrictiveCase, Zenon
    <3>4. CASE f \in PermissiveBoolFields
      BY <2>1, <2>4, <3>4, PermissiveCase, Zenon
    <3>5. QED
      BY <2>4, <3>1, <3>2, <3>3, <3>4 DEF GuardedFields
  <2>5. QED
    BY <2>1, <2>2, <2>3, <2>4
<1>3. CASE t = None
  <2>1. m = p
    BY <1>3 DEF MergedField
  <2>2. QED
    BY <1>2, <1>3, <2>1
<1>4. CASE t # None /\ p = None
  <2>1. m = t
    BY <1>4 DEF MergedField
  <2>2. QED
    BY <1>2, <1>4, <2>1, AdmissionAssumption
<1>5. CASE t # None /\ p # None
  <2>1. m = IF p = Odd THEN p ELSE Narrow(f, p, t)
    BY <1>1, <1>5 DEF MergedField, Typed
  <2>2. p # Odd /\ m = Narrow(f, p, t)
    BY <2>1
  <2>3. CASE f \in NumericCeilingFields
    <3>1. p \in Int /\ t \in Int
      BY <1>5, <2>2, <2>3 DEF Typed
    <3>2. m = Least(p, t)
      BY <2>2, <2>3, CeilingCase
    <3>3. m \in Int /\ m <= p /\ m <= t
      BY <3>1, <3>2 DEF Least
    <3>4. m # None
      BY <3>3, AdmissionAssumption
    <3>5. QED
      BY <2>2, <2>3, <3>3, <3>4, CeilingCase
  <2>4. CASE f \notin NumericCeilingFields
    <3>1. m # None
      BY <1>5, <2>2, <2>4
    <3>2. CASE f \in AllowlistFields
      <4>1. m = p \cap t
        BY <2>2, <3>2, AllowlistCase
      <4>2. m \subseteq p /\ m \subseteq t
        BY <4>1
      <4>3. QED
        BY <2>2, <2>4, <3>1, <3>2, <4>2, AllowlistCase
    <3>3. CASE f \in DenylistFields
      <4>1. m = p \cup t
        BY <2>2, <3>3, DenylistCase
      <4>2. p \subseteq m /\ t \subseteq m
        BY <4>1
      <4>3. QED
        BY <2>2, <2>4, <3>1, <3>3, <4>2, DenylistCase
    <3>4. CASE f \in RestrictiveBoolFields
      <4>1. m = (p \/ t)
        BY <2>2, <3>4, RestrictiveCase
      <4>2. (p => m) /\ (t => m)
        BY <4>1, Zenon
      <4>3. QED
        BY <2>2, <2>4, <3>1, <3>4, <4>2, RestrictiveCase, Zenon
    <3>5. CASE f \in PermissiveBoolFields
      <4>1. m = (p /\ t)
        BY <2>2, <3>5, PermissiveCase
      <4>2. (m => p) /\ (m => t)
        BY <4>1, Zenon
      <4>3. QED
        BY <2>2, <2>4, <3>1, <3>5, <4>2, PermissiveCase, Zenon
    <3>6. QED
      BY <2>4, <3>2, <3>3, <3>4, <3>5 DEF GuardedFields
  <2>5. QED
    BY <2>3, <2>4
<1>6. QED
  BY <1>3, <1>4, <1>5

LEMMA TaskMergeNarrows ==
  ASSUME NEW b \in Configs \cup {NoConfig}, NEW r \in Requests, NEW f \in GuardedFields,
         Valid(EffectivePolicy(b, r))
  PROVE  /\ AsStrict(f, EffectivePolicy(b, r)[f], Parsed(b)[f])
         /\ b[f] \notin DOMAIN Number => AsStrict(f, EffectivePolicy(b, r)[f], Overrides(r)[f])
         /\ f \in NumericCeilingFields =>
              {EffectivePolicy(b, r)[f], Parsed(b)[f]} \subseteq Int \cup {None}
<1> DEFINE o == Overrides(r)
           m == MergedField(f, b[f], o[f])
           e == EffectivePolicy(b, r)[f]
<1>1. f \in Fields /\ f \notin OtherFields
  BY Kinds DEF Fields
<1>2. e = IF f \in NumericCeilingFields /\ m \in DOMAIN Number THEN Number[m] ELSE m
  BY <1>1 DEF EffectivePolicy, MergePolicy, Parsed
<1>3. /\ e # Odd
      /\ Parsed(b)[f] = IF f \in NumericCeilingFields /\ b[f] \in DOMAIN Number
                        THEN Number[b[f]] ELSE b[f]
  BY <1>1 DEF Valid, Parsed
<1>4. o[f] = CASE f = "allowed_domains" -> r.domains
               [] f = "max_cost_usd" -> r.budget
               [] f = "max_turns" -> r.turns
               [] OTHER -> None
  BY <1>1 DEF Overrides, NoConfig
<1>5. b = NoConfig => b[f] = None
  BY <1>1 DEF NoConfig
<1>6. o[f] # Odd /\ Typed(f, o[f])
  BY <1>4, AdmissionAssumption DEF Typed, NumericCeilingFields
<1>7. b[f] \in DOMAIN Number => f \in NumericCeilingFields
  BY <1>5, AdmissionAssumption
<1>8. f \in NumericCeilingFields \/ (None \notin {b[f], o[f]} => Narrow(f, b[f], o[f]) # None)
  <2>1. CASE f = "allowed_domains"
    <3>1. f \in AllowlistFields
      BY <2>1 DEF AllowlistFields
    <3>2. Narrow(f, b[f], o[f]) = b[f] \cap r.domains
      BY <1>4, <2>1, <3>1, AllowlistCase
    <3>3. QED
      BY <1>4, <1>5, <2>1, <3>2, AdmissionAssumption
  <2>2. CASE f # "allowed_domains"
    BY <1>4, <2>2 DEF NumericCeilingFields
  <2>3. QED
    BY <2>1, <2>2
<1>9. CASE b[f] \in DOMAIN Number
  <2>1. m = b[f]
    BY <1>1, <1>9, AdmissionAssumption DEF MergedField
  <2>2. e = Parsed(b)[f] /\ e \in Int
    BY <1>2, <1>3, <1>7, <1>9, <2>1, AdmissionAssumption
  <2>3. e # None /\ e <= e
    BY <2>2, AdmissionAssumption
  <2>4. QED
    BY <1>7, <1>9, <2>2, <2>3, CeilingCase
<1>10. CASE b[f] \notin DOMAIN Number
  <2>1. Typed(f, b[f])
    BY <1>5, <1>10, AdmissionAssumption DEF Typed
  <2>2. m # Odd
    BY <1>2, <1>3, AdmissionAssumption
  <2>3. AsStrict(f, m, b[f]) /\ AsStrict(f, m, o[f])
        /\ (f \in NumericCeilingFields => m \in Int \cup {None}) /\ b[f] # Odd
    BY <1>6, <1>8, <2>1, <2>2, MergeNarrows
  <2>4. e = m /\ Parsed(b)[f] = b[f]
    BY <1>2, <1>3, <1>10, <2>3, AdmissionAssumption
  <2>5. f \in NumericCeilingFields => b[f] \in Int \cup {None}
    BY <2>1, <2>3 DEF Typed
  <2>6. QED
    BY <2>3, <2>4, <2>5
<1>11. QED
  BY <1>9, <1>10

-----------------------------------------------------------------------------
(* The policy is always the merge of the preset that was read with it.     *)
MergedPolicy ==
  /\ preset \in Configs \cup {None} /\ request \in Requests
  /\ base \in Configs \cup {NoConfig}
  /\ pc \in Resolutions => policy = EffectivePolicy(base, request) /\ Valid(policy)

LEMMA MergedStep ==
  ASSUME MergedPolicy, [Next]_vars
  PROVE  MergedPolicy'
<1> USE DEF MergedPolicy, Resolutions
<1>1. request' = request
  BY DEF Next, SavePreset, DeletePreset, Screen, Insert, Estimate, EstimateRaises, ModelAnswers,
         Decide, CreateGates, ApproveBudget, ApproveBudgetRaises, InjectSecrets, Capture, PostRules,
         PostRulesRaise, vars
<1>2. ASSUME Resolve
      PROVE  base' \in Configs \cup {NoConfig} /\ policy' = EffectivePolicy(base', request)
             /\ Valid(policy')
  BY <1>2 DEF Resolve, Resolved, Stored
<1>3. CASE SavePreset \/ DeletePreset
  BY <1>3 DEF SavePreset, DeletePreset
<1>4. CASE Screen \/ Insert \/ EstimateRaises
  BY <1>4 DEF Screen, Insert, EstimateRaises
<1>5. CASE Estimate \/ ApproveBudget
  BY <1>1, <1>2, <1>5 DEF Estimate, ApproveBudget
<1>6. CASE ModelAnswers \/ Decide \/ CreateGates \/ ApproveBudgetRaises
  BY <1>6 DEF ModelAnswers, Decide, CreateGates, ApproveBudgetRaises
<1>7. CASE InjectSecrets
  BY <1>1, <1>2, <1>7 DEF InjectSecrets
<1>8. CASE Capture
  BY <1>8 DEF Capture
<1>9. CASE PostRules \/ PostRulesRaise
  BY <1>1, <1>2, <1>9 DEF PostRules, PostRulesRaise
<1>10. CASE UNCHANGED vars
  BY <1>10 DEF vars
<1>11. QED
  BY <1>3, <1>4, <1>5, <1>6, <1>7, <1>8, <1>9, <1>10 DEF Next

LEMMA MergedNarrows ==
  ASSUME MergedPolicy
  PROVE  TaskNarrows
BY TaskMergeNarrows DEF MergedPolicy, TaskNarrows

-----------------------------------------------------------------------------
(* The estimates are numbers, and the model's is not below the static one. *)
Rational(est) == est.input \in Int /\ est.output \in Int /\ est.total \in Int

LEMMA StaticType ==
  ASSUME NEW model, NEW turns \in Int, NEW length \in Int, NEW addons \in Int
  PROVE  Rational(EstimateStatic(model, turns, length, addons))
<1> DEFINE price == Pricing(model)
           extra == Larger(0, length \div CharsPerToken - InputTokensPerTurn)
           input == price.input * ((InputTokensPerTurn * turns * 6) \div 10 + extra)
           output == price.output * ((OutputTokensPerTurn * turns * 6) \div 10)
<1>1. price.input \in Int /\ price.output \in Int
  BY DEF Pricing
<1>2. extra \in Int
  BY DEF Larger, CharsPerToken, InputTokensPerTurn
<1>3. input \in Int /\ output \in Int
  BY <1>1, <1>2 DEF InputTokensPerTurn, OutputTokensPerTurn
<1>4. \A x \in Int : Rounded(x) \in Int
  BY DEF Rounded, Step
<1>5. addons * HaikuCallCost \in Int
  BY DEF HaikuCallCost
<1> HIDE DEF input, output
<1>6. input + output + addons * HaikuCallCost \in Int
  BY <1>3, <1>5
<1>7. EstimateStatic(model, turns, length, addons) =
        [input |-> Rounded(input), output |-> Rounded(output),
         total |-> Rounded(input + output + addons * HaikuCallCost)]
  BY DEF EstimateStatic, input, output
<1>8. QED
  BY <1>3, <1>4, <1>6, <1>7 DEF Rational

LEMMA ModelMaxType ==
  ASSUME NEW model, NEW turns \in Int, NEW est, Rational(est)
  PROVE  ModelMax(model, turns, est) \in Int
<1>1. Pricing(model).input \in Int /\ Pricing(model).output \in Int
  BY DEF Pricing
<1>2. CostOfTurns(model, turns) \in Int
  BY <1>1 DEF CostOfTurns, InputTokensPerTurn, OutputTokensPerTurn
<1>3. CostOfTurns(model, turns) + est.total - (est.input + est.output) \in Int
  BY <1>2 DEF Rational
<1>4. \A x \in Int : Rounded(x) \in Int
  BY DEF Rounded, Step
<1>5. QED
  BY <1>3, <1>4 DEF ModelMax

(* What the budget check has established by the time a task gets past it.  *)
Estimated == Rational(static) /\ total \in Int /\ static.total <= total

Budgeted ==
  /\ pc \in {"new", "refused", "screened", "inserted", "asking", "estimated"} => verdict = "none"
  /\ pc \in {"asking", "estimated"} => Estimated /\ Cap(policy) # None
  /\ pc = "parked" => verdict = "requires_approval"
  /\ pc \in {"passed", "queued"} /\ verdict = "none" => Cap(policy) = None
  /\ pc \in {"passed", "queued"} /\ verdict = "passed" =>
       Cap(policy) # None /\ static.total \in Int /\ static.total <= Cap(policy)

(* The cap is below those of the preset and of the task.                   *)
LEMMA CapBounds ==
  ASSUME MergedPolicy, pc \in Resolutions
  PROVE  /\ Cap(policy) \in Int \cup {None}
         /\ \A cap \in {Parsed(base)["max_cost_usd"], request.budget} \ {None} :
              cap \in Int /\ Cap(policy) \in Int /\ Cap(policy) <= cap
<1> DEFINE f == "max_cost_usd"
           b == Parsed(base)[f]
           t == request.budget
           m == policy[f]
<1>1. f \in GuardedFields /\ f \in Fields /\ f \notin OtherFields /\ f \in NumericCeilingFields
  BY DEF GuardedFields, Fields, OtherFields, NumericCeilingFields
<1>2. AsStrict(f, m, b)
  BY <1>1, TaskMergeNarrows DEF MergedPolicy
<1>3. t \in Int \cup {None}
  BY AdmissionAssumption DEF MergedPolicy
<1>4. m \in Int \cup {None} /\ b \in Int \cup {None}
  BY <1>1, TaskMergeNarrows DEF MergedPolicy
<1>5. b # None => m # None /\ m <= b
  BY <1>1, <1>2, CeilingCase
<1> HIDE DEF b, t, m
<1>6. Cap(policy) = IF m = None THEN t ELSE IF t = None THEN m ELSE Least(m, t)
  BY DEF Cap, m, t
<1>7. /\ Cap(policy) \in Int \cup {None}
      /\ b # None => Cap(policy) \in Int /\ Cap(policy) <= b
      /\ t # None => Cap(policy) \in Int /\ Cap(policy) <= t
  BY <1>3, <1>4, <1>5, <1>6, AdmissionAssumption DEF Least
<1>8. QED
  BY <1>3, <1>4, <1>7 DEF b, t

LEMMA BudgetStep ==
  ASSUME MergedPolicy, Budgeted, [Next]_vars
  PROVE  Budgeted'
<1> USE DEF Budgeted, Estimated, Cap, budgetVars
<1>1. request' = request
  BY DEF Next, SavePreset, DeletePreset, Screen, Insert, Estimate, EstimateRaises, ModelAnswers,
         Decide, CreateGates, ApproveBudget, ApproveBudgetRaises, InjectSecrets, Capture, PostRules,
         PostRulesRaise, vars
<1>2. CASE SavePreset \/ DeletePreset \/ Screen \/ Insert \/ EstimateRaises
  BY <1>2 DEF SavePreset, DeletePreset, Screen, Insert, EstimateRaises
<1>3. CASE Estimate
  <2> DEFINE est == EstimateStatic(request.model, request.turns, request.length, TitleAndSummary)
  <2>1. request.turns \in Int /\ request.length \in Int
    BY AdmissionAssumption DEF MergedPolicy
  <2>2. TitleAndSummary \in Int
    BY DEF TitleAndSummary
  <2>3. Rational(est)
    BY <2>1, <2>2, StaticType
  <2> HIDE DEF est
  <2>4. CASE Cap(policy') = None
    BY <1>1, <1>3, <2>4 DEF Estimate
  <2>5. CASE Cap(policy') # None
    <3>1. static' = est /\ total' = est.total /\ verdict' = verdict /\ pc = "inserted"
      BY <1>3, <2>5 DEF Estimate, est
    <3>2. pc' \in {"asking", "estimated"}
      BY <1>3, <2>5 DEF Estimate
    <3>3. Estimated'
      BY <2>3, <3>1 DEF Rational
    <3>4. QED
      BY <1>1, <2>5, <3>1, <3>2, <3>3
  <2>6. QED
    BY <2>4, <2>5
<1>4. CASE ModelAnswers
  <2>1. total' \in Int /\ static.total <= total'
    <3>1. Estimated
      BY <1>4 DEF ModelAnswers
    <3>2. ASSUME NEW turns \in Answers,
                 total' = SafetyRule(static.total, ModelMax(request.model, turns, static))
          PROVE  total' \in Int /\ static.total <= total'
      <4>1. turns \in Int
        BY AdmissionAssumption
      <4>2. ModelMax(request.model, turns, static) \in Int
        BY <3>1, <4>1, ModelMaxType
      <4>3. QED
        BY <3>1, <3>2, <4>2 DEF SafetyRule, Rational
    <3>3. QED
      BY <1>4, <3>1, <3>2 DEF ModelAnswers
  <2>2. QED
    BY <1>4, <2>1 DEF ModelAnswers
<1>5. CASE Decide
  <2>1. Estimated /\ Cap(policy) # None /\ pc = "estimated"
    BY <1>5 DEF Decide
  <2>2. Cap(policy) \in Int
    BY <2>1, CapBounds DEF Resolutions
  <2> DEFINE cap == Cap(policy)
  <2> HIDE DEF cap
  <2>3. /\ verdict' = BudgetStatus(total, cap, policy["budget_fail_policy"])
        /\ policy' = policy /\ static' = static /\ total' = total
        /\ pc' = CASE verdict' = "rejected" -> "rejected"
                   [] verdict' = "requires_approval" -> "parked"
                   [] OTHER -> "passed"
    BY <1>5 DEF Decide, cap
  <2>4. /\ verdict' \in {"passed", "warning", "requires_approval", "rejected"}
        /\ verdict' = "passed" => total <= cap
    BY <2>3 DEF BudgetStatus
  <2>5. verdict' = "passed" => static.total <= cap
    BY <2>1, <2>2, <2>4 DEF cap, Rational
  <2>6. Cap(policy)' = cap /\ cap # None
    BY <1>1, <2>1, <2>3 DEF cap
  <2>7. static.total \in Int
    BY <2>1 DEF Rational
  <2>8. pc' \in {"rejected", "parked", "passed"}
    BY <2>3
  <2>9. pc' = "parked" => verdict' = "requires_approval"
    BY <2>3, <2>4
  <2>10. verdict' # "none"
    BY <2>4
  <2>11. QED
    BY <2>3, <2>5, <2>6, <2>7, <2>8, <2>9, <2>10
<1>6. CASE CreateGates \/ ApproveBudget \/ ApproveBudgetRaises
  BY <1>6 DEF CreateGates, ApproveBudget, ApproveBudgetRaises
<1>7. CASE InjectSecrets \/ Capture \/ PostRules \/ PostRulesRaise
  BY <1>7 DEF InjectSecrets, Capture, PostRules, PostRulesRaise
<1>8. CASE UNCHANGED vars
  BY <1>8 DEF vars
<1>9. QED
  BY <1>2, <1>3, <1>4, <1>5, <1>6, <1>7, <1>8 DEF Next

-----------------------------------------------------------------------------
(* What the capture promises of the diff, in every state.                  *)
Captured ==
  pc = "collected" =>
    found = CaptureDiff(tree, git) /\ git \in [{"diff", "cached", "list", "each"} -> GitOutcome]

LEMMA CaptureComplete ==
  ASSUME NEW g \in [{"diff", "cached", "list", "each"} -> GitOutcome], NEW t,
         ~Warns(t, g), g.list # "error", g.each # "error"
  PROVE  Uncommitted(t) \subseteq CaptureDiff(t, g).files
<1>1. Shown(g, "diff") /\ Shown(g, "cached") /\ Shown(g, "list")
  BY DEF Warns, Shown, Reached, GitOutcome
<1>2. Changed(t, "untracked") # {} => Shown(g, "each")
  BY <1>1 DEF Warns, Shown, Reached, GitOutcome, Untracked
<1>3. QED
  BY <1>1, <1>2 DEF CaptureDiff, Uncommitted, Changed, Untracked

LEMMA CapturedStep ==
  ASSUME Captured, [Next]_vars
  PROVE  Captured'
<1> USE DEF Captured, runVars
<1>1. CASE Capture
  BY <1>1 DEF Capture
<1>2. CASE SavePreset \/ DeletePreset \/ UNCHANGED vars
  BY <1>2 DEF SavePreset, DeletePreset, vars
<1>3. CASE ~Capture /\ ~SavePreset /\ ~DeletePreset /\ Next
  <2>1. pc' # "collected"
    BY <1>3 DEF Next, Screen, Insert, Estimate, EstimateRaises, ModelAnswers, Decide, CreateGates,
         ApproveBudget, ApproveBudgetRaises, InjectSecrets, PostRules, PostRulesRaise
  <2>2. QED
    BY <2>1
<1>4. QED
  BY <1>1, <1>2, <1>3

-----------------------------------------------------------------------------
AdmissionInv == MergedPolicy /\ Budgeted /\ Captured

LEMMA Invariance == AdmissionSpec => []AdmissionInv
<1>1. Init => AdmissionInv
  BY DEF Init, AdmissionInv, MergedPolicy, Budgeted, Captured, Resolutions
<1>2. AdmissionInv /\ [Next]_vars => AdmissionInv'
  BY MergedStep, BudgetStep, CapturedStep DEF AdmissionInv
<1>3. QED
  BY <1>1, <1>2, PTL DEF AdmissionSpec

(* A task's settings only narrow what its preset allows, whatever the      *)
(* administrator saves between two resolutions.                            *)
THEOREM NarrowsTheorem == AdmissionSpec => []TaskNarrows
<1>1. AdmissionInv => TaskNarrows
  BY MergedNarrows DEF AdmissionInv
<1>2. QED
  BY <1>1, Invariance, PTL

(* No answer of the model and no request gets a task past the budget check *)
(* whose static estimate exceeds a cap.                                    *)
THEOREM CapsTheorem == AdmissionSpec => []AdmittedWithinCaps
<1>1. AdmissionInv => AdmittedWithinCaps
  <2>1. SUFFICES ASSUME AdmissionInv, pc \in {"passed", "queued"}, verdict \in {"none", "passed"},
                        NEW cap \in {Parsed(base)["max_cost_usd"], request.budget} \ {None}
                 PROVE  verdict = "passed" /\ static.total <= cap
    BY DEF AdmittedWithinCaps
  <2>2. cap \in Int /\ Cap(policy) \in Int /\ Cap(policy) <= cap
    BY <2>1, CapBounds DEF AdmissionInv, Resolutions
  <2>3. verdict = "passed" /\ static.total \in Int /\ static.total <= Cap(policy)
    BY <2>1, <2>2, AdmissionAssumption DEF AdmissionInv, Budgeted
  <2>4. QED
    BY <2>2, <2>3
<1>2. QED
  BY <1>1, Invariance, PTL

(* A capture that raises no warning is complete, but for the two exit      *)
(* codes that nobody looks at, for any worktree.                           *)
THEOREM DiffTheorem == AdmissionSpec => []UnwarnedDiffIsComplete
<1>1. AdmissionInv => UnwarnedDiffIsComplete
  <2>1. SUFFICES ASSUME AdmissionInv, pc = "collected", ~found.warned,
                        "error" \notin {git.list, git.each}
                 PROVE  Uncommitted(tree) \subseteq found.files
    BY DEF UnwarnedDiffIsComplete
  <2>2. /\ found = CaptureDiff(tree, git)
        /\ git \in [{"diff", "cached", "list", "each"} -> GitOutcome]
    BY <2>1 DEF AdmissionInv, Captured
  <2>3. ~Warns(tree, git)
    BY <2>1, <2>2 DEF CaptureDiff
  <2>4. QED
    BY <2>1, <2>2, <2>3, CaptureComplete
<1>2. QED
  BY <1>1, Invariance, PTL

-----------------------------------------------------------------------------
(* The variables keep their types.                                         *)
Figure == [input : Int, output : Int, total : Int]

Figures ==
  /\ static \in Figure \cup {None}
  /\ pc = "asking" => static # None
  /\ IF static = None THEN total = None ELSE total \in Int /\ total >= static.total

LEMMA FigureType ==
  ASSUME NEW model, NEW turns \in Int, NEW length \in Int, NEW addons \in Int
  PROVE  EstimateStatic(model, turns, length, addons) \in Figure
<1> DEFINE est == EstimateStatic(model, turns, length, addons)
<1>1. Rational(est)
  BY StaticType
<1>2. est = [input |-> est.input, output |-> est.output, total |-> est.total]
  BY DEF EstimateStatic
<1>3. QED
  BY <1>1, <1>2 DEF Rational, Figure

LEMMA FiguresStep ==
  ASSUME MergedPolicy, Figures, [Next]_vars
  PROVE  Figures'
<1> USE DEF Figures
<1>1. CASE Estimate
  <2> DEFINE est == EstimateStatic(request.model, request.turns, request.length, TitleAndSummary)
  <2>1. request.turns \in Int /\ request.length \in Int
    BY AdmissionAssumption DEF MergedPolicy
  <2>2. TitleAndSummary \in Int
    BY DEF TitleAndSummary
  <2>3. est \in Figure
    BY <2>1, <2>2, FigureType
  <2>4. est # None
    BY <2>3, AdmissionAssumption DEF Figure
  <2> HIDE DEF est
  <2>5. CASE Cap(policy') = None
    BY <1>1, <2>5 DEF Estimate, budgetVars
  <2>6. CASE Cap(policy') # None
    <3>1. static' = est /\ total' = est.total
      BY <1>1, <2>6 DEF Estimate, est
    <3>2. est.total \in Int
      BY <2>3 DEF Figure
    <3>3. QED
      BY <2>3, <2>4, <3>1, <3>2
  <2>7. QED
    BY <2>5, <2>6
<1>2. CASE ModelAnswers
  <2>1. static' = static /\ static # None /\ static \in Figure /\ total \in Int
    BY <1>2 DEF ModelAnswers
  <2>2. Rational(static)
    BY <2>1 DEF Rational, Figure
  <2>3. ASSUME NEW turns \in Answers,
               total' = SafetyRule(static.total, ModelMax(request.model, turns, static))
        PROVE  total' \in Int /\ total' >= static.total
    <3>1. turns \in Int
      BY AdmissionAssumption
    <3>2. ModelMax(request.model, turns, static) \in Int
      BY <2>2, <3>1, ModelMaxType
    <3>3. QED
      BY <2>2, <2>3, <3>2 DEF SafetyRule, Rational
  <2>4. total' \in Int /\ total' >= static.total
    BY <1>2, <2>1, <2>3 DEF ModelAnswers
  <2>5. QED
    BY <2>1, <2>4
<1>3. CASE SavePreset \/ DeletePreset \/ Screen \/ Insert \/ EstimateRaises \/ Decide
  BY <1>3 DEF SavePreset, DeletePreset, Screen, Insert, EstimateRaises, Decide, budgetVars
<1>4. CASE CreateGates \/ ApproveBudget \/ ApproveBudgetRaises \/ InjectSecrets
  BY <1>4 DEF CreateGates, ApproveBudget, ApproveBudgetRaises, InjectSecrets, budgetVars
<1>5. CASE Capture \/ PostRules \/ PostRulesRaise
  BY <1>5 DEF Capture, PostRules, PostRulesRaise, budgetVars
<1>6. CASE UNCHANGED vars
  BY <1>6 DEF vars, budgetVars
<1>7. QED
  BY <1>1, <1>2, <1>3, <1>4, <1>5, <1>6 DEF Next

(* The stages and the verdict.                                             *)
Staged ==
  /\ edits \in 0..MaxEdits
  /\ pc \in {"new", "refused", "screened", "inserted", "stranded"} \cup Resolutions
  /\ verdict \in {"none", "passed", "warning", "requires_approval", "rejected"}
  /\ Valid(policy)

LEMMA StagedStep ==
  ASSUME Staged, [Next]_vars
  PROVE  Staged'
<1> USE DEF Staged, Resolutions
<1>1. MaxEdits \in Nat
  BY AdmissionAssumption
<1>2. ASSUME policy' = policy
      PROVE  Valid(policy')
  BY <1>2
<1>3. CASE SavePreset \/ DeletePreset
  BY <1>1, <1>3 DEF SavePreset, DeletePreset, budgetVars
<1>4. CASE Screen \/ Insert \/ EstimateRaises \/ ModelAnswers
  BY <1>4 DEF Screen, Insert, EstimateRaises, ModelAnswers, budgetVars
<1>5. CASE Estimate
  <2>1. Valid(policy') /\ edits' = edits /\ verdict' = verdict
    BY <1>5 DEF Estimate, Resolve, budgetVars
  <2>2. pc' \in {"passed", "asking", "estimated"}
    BY <1>5 DEF Estimate
  <2>3. QED
    BY <2>1, <2>2
<1>6. CASE Decide
  <2>1. verdict' = BudgetStatus(total, Cap(policy), policy["budget_fail_policy"])
    BY <1>6 DEF Decide
  <2>2. verdict' \in {"passed", "warning", "requires_approval", "rejected"}
    BY <2>1 DEF BudgetStatus
  <2>3. pc' \in {"rejected", "parked", "passed"}
    BY <1>6 DEF Decide
  <2>4. QED
    BY <1>6, <2>2, <2>3 DEF Decide
<1>7. CASE CreateGates \/ ApproveBudgetRaises \/ Capture
  BY <1>7 DEF CreateGates, ApproveBudgetRaises, Capture, budgetVars
<1>8. CASE ApproveBudget \/ InjectSecrets \/ PostRules \/ PostRulesRaise
  BY <1>8 DEF ApproveBudget, InjectSecrets, PostRules, PostRulesRaise, Resolve, budgetVars
<1>9. CASE UNCHANGED vars
  BY <1>9 DEF vars, budgetVars
<1>10. QED
  BY <1>3, <1>4, <1>5, <1>6, <1>7, <1>8, <1>9 DEF Next

(* The risk summary has one of three levels.                               *)
LEMMA LevelType ==
  ASSUME NEW files, NEW testsRun, NEW blocked
  PROVE  RiskLevel(RiskReasons(files, testsRun, blocked)) \in {"low", "medium", "high"}
<1> DEFINE all == {"sensitive", "lockfiles", "ci", "blocked", "no_lockfile", "untested"}
           reasons == RiskReasons(files, testsRun, blocked)
<1>1. IsFiniteSet(all)
  <2>1. \A S, x : IsFiniteSet(S) => IsFiniteSet(S \cup {x})
    BY FS_AddElement
  <2>2. IsFiniteSet({"sensitive"} \cup {"lockfiles"} \cup {"ci"})
    BY <2>1, FS_Singleton
  <2>3. IsFiniteSet({"sensitive"} \cup {"lockfiles"} \cup {"ci"} \cup {"blocked"}
                      \cup {"no_lockfile"} \cup {"untested"})
    BY <2>1, <2>2
  <2>4. all = {"sensitive"} \cup {"lockfiles"} \cup {"ci"} \cup {"blocked"}
                \cup {"no_lockfile"} \cup {"untested"}
    OBVIOUS
  <2>5. QED
    BY <2>3, <2>4
<1>2. reasons \subseteq all
  BY DEF RiskReasons
<1>3. IsFiniteSet(reasons)
  BY <1>1, <1>2, FS_Subset
<1>4. Cardinality(reasons) \in Nat /\ (Cardinality(reasons) = 0 <=> reasons = {})
  BY <1>3, FS_CardinalityType, FS_EmptySet
<1> HIDE DEF reasons
<1>5. RiskLevel(reasons) \in {"low", "medium", "high"}
  BY <1>4 DEF RiskLevel
<1>6. QED
  BY <1>5 DEF reasons

(* The gates, the secrets and what the run has left.                       *)
Held ==
  /\ gates \in [Action -> {"none", "pending", "auto_before", "auto_after"}]
  /\ env \subseteq request.secrets
  /\ found.files \subseteq Files /\ found.warned \in BOOLEAN /\ stored \subseteq found.files
  /\ risk \in {None, "low", "medium", "high"}

LEMMA HeldStep ==
  ASSUME Held, [Next]_vars
  PROVE  Held'
<1> USE DEF Held
<1>1. CASE SavePreset \/ DeletePreset \/ Screen \/ Insert \/ Estimate \/ EstimateRaises
  BY <1>1 DEF SavePreset, DeletePreset, Screen, Insert, Estimate, EstimateRaises, runVars
<1>2. CASE ModelAnswers \/ Decide \/ ApproveBudgetRaises \/ PostRulesRaise
  BY <1>2 DEF ModelAnswers, Decide, ApproveBudgetRaises, PostRulesRaise, runVars
<1>3. CASE CreateGates \/ ApproveBudget
  <2>1. gates' \in [Action -> {"none", "pending", "auto_before", "auto_after"}]
    BY <1>3 DEF CreateGates, ApproveBudget, RequiredGates
  <2>2. QED
    BY <1>3, <2>1 DEF CreateGates, ApproveBudget, runVars
<1>4. CASE InjectSecrets
  <2>1. env' \subseteq request'.secrets
    BY <1>4 DEF InjectSecrets
  <2>2. QED
    BY <1>4, <2>1 DEF InjectSecrets
<1>5. CASE Capture
  <2>1. found'.files \subseteq Files /\ found'.warned \in BOOLEAN
    BY <1>5 DEF Capture, CaptureDiff, Changed, Untracked, Warns
  <2>2. stored' \subseteq found'.files
    BY <1>5 DEF Capture
  <2>3. QED
    BY <1>5, <2>1, <2>2 DEF Capture
<1>6. CASE PostRules
  <2>1. risk' \in {None, "low", "medium", "high"}
    BY <1>6, LevelType DEF PostRules
  <2>2. ASSUME NEW ctx, gates' = Reevaluated(ctx)
        PROVE  gates' \in [Action -> {"none", "pending", "auto_before", "auto_after"}]
    BY <2>2 DEF Reevaluated
  <2>3. gates' \in [Action -> {"none", "pending", "auto_before", "auto_after"}]
    BY <1>6, <2>2 DEF PostRules
  <2>4. QED
    BY <1>6, <2>1, <2>3 DEF PostRules
<1>7. CASE UNCHANGED vars
  BY <1>7 DEF vars, runVars
<1>8. QED
  BY <1>1, <1>2, <1>3, <1>4, <1>5, <1>6, <1>7 DEF Next

-----------------------------------------------------------------------------
(* The rules that are evaluated after the run.                             *)

(* The verdict of the rules is that of one that applies.                   *)
LEMMA VerdictOfARule ==
  ASSUME NEW rules, Len(rules) \in Nat, NEW a, NEW ctx,
         EvaluateRules(rules, a, ctx) = "auto_approve"
  PROVE  \E i \in 1..Len(rules) :
           Applies(rules[i], a, ctx) /\ rules[i].condition = "auto_approve"
<1> DEFINE S == {i \in 1..Len(rules) : Applies(rules[i], a, ctx)}
           k == CHOOSE i \in S : \A j \in S : i <= j
<1>1. EvaluateRules(rules, a, ctx) = IF S = {} THEN "no_match" ELSE rules[k].condition
  BY DEF EvaluateRules
<1>2. S # {} /\ rules[k].condition = "auto_approve"
  BY <1>1
<1>3. S \subseteq Nat
  OBVIOUS
<1> HIDE DEF S
<1>4. \E i \in S : \A j \in S : i <= j
  BY <1>2, <1>3, LeastElement
<1>5. k \in S
  BY <1>4
<1> HIDE DEF k
<1>6. k \in 1..Len(rules) /\ Applies(rules[k], a, ctx)
  BY <1>5 DEF S
<1>7. QED
  BY <1>2, <1>6

(* A file with the traits of the CI configuration and of no test counts as *)
(* a change of it, which makes the risk high.                              *)
LEMMA CIFile ==
  ASSUME NEW f, "ci" \in Traits[f], "tests" \notin Traits[f]
  PROVE  ClassifyFile(f) = "ci"
<1> DEFINE S == {i \in 1..Len(Categories) : Categories[i] \in Traits[f]}
           k == CHOOSE i \in S : \A j \in S : i <= j
<1>1. Len(Categories) = 5 /\ Categories[1] = "tests" /\ Categories[2] = "ci"
  BY DEF Categories
<1>2. 2 \in S /\ S \subseteq 2..5
  BY <1>1
<1>3. ClassifyFile(f) = IF S = {} THEN "code" ELSE Categories[k]
  BY DEF ClassifyFile
<1> HIDE DEF S
<1>4. \A i \in S : (\A j \in S : i <= j) <=> i = 2
  BY <1>2
<1>5. k = 2
  <2>1. k \in S /\ \A j \in S : k <= j
    BY <1>2, <1>4
  <2>2. QED
    BY <1>4, <2>1
<1>6. QED
  BY <1>1, <1>2, <1>3, <1>5

LEMMA CIRaisesRisk ==
  ASSUME NEW files, NEW f \in files, "ci" \in Traits[f], "tests" \notin Traits[f],
         NEW testsRun, NEW blocked
  PROVE  RiskLevel(RiskReasons(files, testsRun, blocked)) = "high"
<1> DEFINE reasons == RiskReasons(files, testsRun, blocked)
<1>1. ClassifyFile(f) = "ci"
  BY CIFile
<1>2. "ci" \in reasons
  BY <1>1 DEF RiskReasons
<1> HIDE DEF reasons
<1>3. RiskLevel(reasons) = "high"
  BY <1>2 DEF RiskLevel
<1>4. QED
  BY <1>3 DEF reasons

(* The policy's rules are the preset's, and so a list.                     *)
LEMMA RulesAreAList ==
  ASSUME NEW b \in Configs \cup {NoConfig}, NEW r \in Requests,
         Valid(EffectivePolicy(b, r))
  PROVE  Len(RulesOf(EffectivePolicy(b, r))) \in Nat
<1> DEFINE f == "approval_rules"
           p == EffectivePolicy(b, r)
<1>1. f \in Fields
  BY DEF Fields, OtherFields
<1>2. Overrides(r)[f] = None
  BY <1>1 DEF Overrides, NoConfig
<1>3. p[f] = b[f]
  BY <1>1, <1>2 DEF EffectivePolicy, MergePolicy, MergedField, Parsed, NumericCeilingFields
<1>4. b[f] # Odd
  BY <1>1, <1>3 DEF Valid
<1>5. b[f] = None \/ Len(b[f]) \in Nat
  BY <1>1, <1>4, AdmissionAssumption DEF NoConfig
<1> HIDE DEF p
<1>6. RulesOf(p) = IF b[f] = None THEN <<>> ELSE b[f]
  BY <1>3 DEF RulesOf
<1>7. QED
  BY <1>5, <1>6 DEF p

(* No gate is approved by the rules after the run before they are          *)
(* evaluated, and then none whose rules ask for less than high risk if the *)
(* diff shows a change of the CI configuration.                            *)
Rated ==
  /\ pc # "done" => \A a \in Action : gates[a] # "auto_after"
  /\ CIChangeKeepsGate

LEMMA PostRulesKeepGate ==
  ASSUME MergedPolicy, MergedPolicy', Rated, PostRules, NEW a \in Action,
         gates'[a] = "auto_after", ShowsCIChange
  PROVE  \E i \in 1..Len(RulesOf(policy')) :
           /\ RulesOf(policy')[i].condition = "auto_approve"
           /\ RulesOf(policy')[i].action \in {"*", a}
           /\ \A p \in RulesOf(policy')[i].when :
                p.key = "risk_level" => "high" \in p.value
<1> DEFINE rules == RulesOf(policy')
<1>1. PICK cost \in Costs : gates' = Reevaluated(ContextAfter(risk', cost))
  BY DEF PostRules
<1> DEFINE ctx == ContextAfter(risk', cost)
<1>2. gates[a] # "auto_after"
  BY DEF PostRules, Rated
<1>3. EvaluateRules(rules, a, ctx) = "auto_approve"
  BY <1>1, <1>2 DEF Reevaluated
<1>4. Len(rules) \in Nat
  <2>1. policy' = EffectivePolicy(base', request') /\ Valid(policy')
    BY DEF PostRules, MergedPolicy, Resolutions
  <2>2. base' \in Configs \cup {NoConfig} /\ request' \in Requests
    BY DEF MergedPolicy
  <2>3. QED
    BY <2>1, <2>2, RulesAreAList
<1>5. ctx.risk = risk'
  BY DEF ContextAfter, ContextBefore
<1> HIDE DEF rules, ctx
<1>6. PICK i \in 1..Len(rules) :
        Applies(rules[i], a, ctx) /\ rules[i].condition = "auto_approve"
  BY <1>3, <1>4, VerdictOfARule
<1>7. risk' \in {None, "high"}
  <2>1. PICK f \in stored : "ci" \in Traits[f] /\ "tests" \notin Traits[f]
    BY DEF ShowsCIChange
  <2>2. \A testsRun, blocked : RiskLevel(RiskReasons(stored, testsRun, blocked)) = "high"
    BY <2>1, CIRaisesRisk
  <2>3. QED
    BY <2>2 DEF PostRules
<1>8. ASSUME NEW p \in rules[i].when, p.key = "risk_level"
      PROVE  "high" \in p.value
  <2>1. PredicateHolds(p, ctx)
    BY <1>6 DEF Applies, PredicatesMatch
  <2>2. ctx.risk # None /\ ctx.risk \in p.value
    BY <1>8, <2>1 DEF PredicateHolds
  <2>3. QED
    BY <1>5, <1>7, <2>2
<1>9. rules[i].action \in {"*", a}
  BY <1>6 DEF Applies
<1>10. QED
  BY <1>6, <1>8, <1>9 DEF rules

LEMMA RatedStep ==
  ASSUME MergedPolicy, MergedPolicy', Held, Rated, [Next]_vars
  PROVE  Rated'
<1> USE DEF Rated
<1>1. CASE SavePreset \/ DeletePreset \/ UNCHANGED vars
  BY <1>1 DEF SavePreset, DeletePreset, CIChangeKeepsGate, ShowsCIChange, vars, runVars
<1>2. CASE PostRules
  <2>1. stored' = stored /\ pc' = "done"
    BY <1>2 DEF PostRules
  <2>2. CIChangeKeepsGate'
    BY <1>2, <2>1, PostRulesKeepGate DEF CIChangeKeepsGate, ShowsCIChange
  <2>3. QED
    BY <2>1, <2>2
<1>3. CASE CreateGates \/ ApproveBudget
  <2>1. \A a \in Action : gates'[a] # "auto_after"
    BY <1>3 DEF CreateGates, ApproveBudget, RequiredGates
  <2>2. QED
    BY <2>1 DEF CIChangeKeepsGate
<1>4. CASE Screen \/ Insert \/ Estimate \/ EstimateRaises \/ ModelAnswers \/ Decide
             \/ ApproveBudgetRaises \/ InjectSecrets \/ Capture \/ PostRulesRaise
  <2>1. pc # "done" /\ gates' = gates
    BY <1>4 DEF Screen, Insert, Estimate, EstimateRaises, ModelAnswers, Decide,
         ApproveBudgetRaises, InjectSecrets, Capture, PostRulesRaise
  <2>2. \A a \in Action : gates'[a] # "auto_after"
    BY <2>1
  <2>3. QED
    BY <2>2 DEF CIChangeKeepsGate
<1>5. QED
  BY <1>1, <1>2, <1>3, <1>4 DEF Next

LEMMA OutcomeInvariance == AdmissionSpec => [](AdmissionInv /\ Figures /\ Staged /\ Held /\ Rated)
<1>1. Init => Figures /\ Staged /\ Held /\ Rated
  <2>1. SUFFICES ASSUME Init
                 PROVE  Figures /\ Staged /\ Held /\ Rated
    OBVIOUS
  <2>2. Figures
    BY <2>1 DEF Init, Figures
  <2>3. Staged
    BY <2>1, AdmissionAssumption DEF Init, Staged, Valid, NoConfig
  <2>4. Held
    BY <2>1 DEF Init, Held
  <2>5. Rated
    BY <2>1 DEF Init, Rated, CIChangeKeepsGate
  <2>6. QED
    BY <2>2, <2>3, <2>4, <2>5
<1>2. AdmissionInv /\ AdmissionInv' /\ Figures /\ Staged /\ Held /\ Rated /\ [Next]_vars
        => (Figures /\ Staged /\ Held /\ Rated)'
  BY FiguresStep, StagedStep, HeldStep, RatedStep DEF AdmissionInv
<1>3. QED
  BY <1>1, <1>2, Invariance, PTL DEF AdmissionSpec

(* Every variable keeps its type; the cost of a run that the budget check  *)
(* goes by is never below the static estimate, whatever the model answers. *)
THEOREM AdmissionTypeTheorem == AdmissionSpec => []AdmissionTypeOK
<1>1. AdmissionInv /\ Figures /\ Staged /\ Held => AdmissionTypeOK
  BY DEF AdmissionInv, MergedPolicy, Figures, Staged, Held, AdmissionTypeOK
<1>2. QED
  BY <1>1, OutcomeInvariance, PTL

(* A change of the CI configuration in the diff keeps a gate from being    *)
(* approved by a rule that asks for less than high risk, for any rules and *)
(* any worktree.                                                           *)
THEOREM CIChangeTheorem == AdmissionSpec => []CIChangeKeepsGate
<1>1. Rated => CIChangeKeepsGate
  BY DEF Rated
<1>2. QED
  BY <1>1, OutcomeInvariance, PTL
=============================================================================
