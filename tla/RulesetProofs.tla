---------------------------- MODULE RulesetProofs ---------------------------
(***************************************************************************)
(* The drafts of RulesetDrafts, however long they grow.                    *)
(*                                                                         *)
(* The recursive functions Upper and Asking are unfolded by RecursionUpTo, *)
(* and what they compute is proved by UpToInduction: both are about sets,  *)
(* so that the provers can instantiate them.                               *)
(***************************************************************************)
EXTENDS RulesetDrafts, DatabaseTheorems

\* Every draft is a ruleset definition the code can hold.
THEOREM DraftsTyped == Spec => []TypeOK
<1>1. Init => TypeOK
  BY DEF Init, TypeOK, RulesetDefinition
<1>2. TypeOK /\ [Next]_draft => TypeOK'
  <2> SUFFICES ASSUME TypeOK, [Next]_draft PROVE TypeOK'
    OBVIOUS
  <2> USE DEF TypeOK, RulesetDefinition
  <2>1. CASE AddVariant
    <3>1. PICK key \in VariantKeys, value \in Values :
            draft' = [draft EXCEPT !.variants =
                        Append(@, [variant_key |-> key, value |-> value])]
      BY <2>1 DEF AddVariant
    <3>2. [variant_key |-> key, value |-> value] \in VariantRecord
      BY DraftsAssumption DEF VariantRecord
    <3>3. Append(draft.variants, [variant_key |-> key, value |-> value])
            \in Seq(VariantRecord)
      BY <3>2
    <3>4. QED
      BY <3>1, <3>3
  <2>2. CASE AddRule
    <3>1. PICK rule \in Rules :
            draft' = [draft EXCEPT !.targeting_rules = Append(@, rule)]
      BY <2>2 DEF AddRule
    <3>2. Append(draft.targeting_rules, rule) \in Seq(TargetingRuleRecord)
      BY DraftsAssumption
    <3>3. QED
      BY <3>1, <3>2
  <2>3. CASE AddRollout
    <3>1. PICK key \in VariantKeys, share \in Shares :
            draft' = [draft EXCEPT !.percentage_rollout =
                        Append(@, [variant_key |-> key, basis_points |-> share])]
      BY <2>3 DEF AddRollout
    <3>2. [variant_key |-> key, basis_points |-> share] \in RolloutRecord
      BY DraftsAssumption DEF RolloutRecord
    <3>3. Append(draft.percentage_rollout,
                 [variant_key |-> key, basis_points |-> share])
            \in Seq(RolloutRecord)
      BY <3>2
    <3>4. QED
      BY <3>1, <3>3
  <2>4. CASE UNCHANGED draft
    BY <2>4
  <2>5. QED
    BY <2>1, <2>2, <2>3, <2>4 DEF Next
<1>3. QED
  BY <1>1, <1>2, PTL DEF Spec

\* Whatever was drafted and accepted, evaluation serves it.
THEOREM DraftsServe == Spec => []ValidRulesetsServe
<1>1. TypeOK => ValidRulesetsServe
  BY ValidatedRulesetServes DEF TypeOK, ValidRulesetsServe
<1>2. QED
  BY <1>1, DraftsTyped, PTL

-----------------------------------------------------------------------------
(* Recursion and induction on the indices of a sequence.                   *)

\* Induction up to n, over a set: what holds of 0 and of the successor of
\* whatever it holds of.
LEMMA UpToInduction ==
    ASSUME NEW n \in Nat, NEW S, 0 \in S,
           \A k \in 1 .. n : k - 1 \in S => k \in S
    PROVE  0 .. n \subseteq S
<1> DEFINE missing == {k \in 0 .. n : k \notin S}
<1>1. SUFFICES ASSUME missing # {} PROVE FALSE
  OBVIOUS
<1>2. missing \in SUBSET Nat
  OBVIOUS
<1>3. /\ Min(missing) \in missing
      /\ \A k \in missing : Min(missing) =< k
  BY <1>1, <1>2, MinOfNaturals
<1>4. PICK least \in missing : \A k \in missing : least =< k
  BY <1>3
<1>5. least \in 1 .. n
  BY <1>4
<1>6. least - 1 \in S
  BY <1>4, <1>5
<1>7. QED
  BY <1>4, <1>5, <1>6

\* A function on 0 .. n that is defined by its first value and by a step from
\* each value to the next exists, so that a recursive definition of it says
\* what it computes.
LEMMA RecursionUpTo ==
    ASSUME NEW n \in Nat, NEW V, NEW first \in V,
           NEW step \in [1 .. n -> [V -> V]]
    PROVE  \E f \in [0 .. n -> V] :
              /\ f[0] = first
              /\ \A k \in 1 .. n : f[k] = step[k][f[k - 1]]
<1> DEFINE Follows(f, m) == /\ f[0] = first
                            /\ \A k \in 1 .. m : f[k] = step[k][f[k - 1]]
           defined == {m \in 0 .. n : \E f \in [0 .. m -> V] : Follows(f, m)}
<1>1. 0 \in defined
  <2>1. [k \in 0 .. 0 |-> first] \in [0 .. 0 -> V]
    OBVIOUS
  <2>2. Follows([k \in 0 .. 0 |-> first], 0)
    OBVIOUS
  <2> HIDE DEF Follows
  <2>3. QED
    BY <2>1, <2>2
<1>2. ASSUME NEW m \in 1 .. n, m - 1 \in defined
      PROVE  m \in defined
  <2>1. PICK f \in [0 .. m - 1 -> V] : Follows(f, m - 1)
    BY <1>2
  <2> DEFINE longer == [k \in 0 .. m |-> IF k = m THEN step[m][f[m - 1]]
                                         ELSE f[k]]
  <2>2. m \in Nat /\ m - 1 \in 0 .. m - 1 /\ f[m - 1] \in V
    OBVIOUS
  <2>3. step[m][f[m - 1]] \in V
    BY <2>2
  <2>4. longer \in [0 .. m -> V]
    BY <2>2, <2>3
  <2>5. Follows(longer, m)
    <3>1. longer[0] = first
      BY <2>1, <2>2
    <3>2. ASSUME NEW k \in 1 .. m
          PROVE  longer[k] = step[k][longer[k - 1]]
      <4>1. CASE k = m
        BY <4>1, <2>2
      <4>2. CASE k # m
        <5>1. k \in 1 .. m - 1 /\ k - 1 \in 0 .. m /\ k \in 0 .. m /\ k - 1 # m
          BY <4>2, <2>2
        <5>2. longer[k] = f[k] /\ longer[k - 1] = f[k - 1]
          BY <4>2, <5>1
        <5>3. QED
          BY <2>1, <5>1, <5>2
      <4>3. QED
        BY <4>1, <4>2
    <3>3. QED
      BY <3>1, <3>2
  <2> HIDE DEF Follows, longer
  <2>6. QED
    BY <2>4, <2>5
<1>3. 0 .. n \subseteq defined
  <2> HIDE DEF defined
  <2>1. QED
    BY <1>1, <1>2, UpToInduction
<1>4. n \in defined
  BY <1>3
<1>5. QED
  BY <1>4

-----------------------------------------------------------------------------
(* The running sum of a rollout.                                           *)

\* The basis points of an entry are an integer.
LEMMA SharesAreIntegers ==
    ASSUME NEW rollout \in Seq(RolloutRecord)
    PROVE  /\ Len(rollout) \in Nat
           /\ DOMAIN rollout = 1 .. Len(rollout)
           /\ \A k \in 1 .. Len(rollout) : rollout[k].basis_points \in Int
<1>1. Len(rollout) \in Nat /\ DOMAIN rollout = 1 .. Len(rollout)
  OBVIOUS
<1>2. \A k \in 1 .. Len(rollout) : rollout[k] \in RolloutRecord
  OBVIOUS
<1>3. QED
  BY <1>1, <1>2, BasisPointsAssumption DEF RolloutRecord, Integer64

\* The running sum of a rollout exists.
LEMMA RunningSumExists ==
    ASSUME NEW rollout \in Seq(RolloutRecord)
    PROVE  \E sum \in [0 .. Len(rollout) -> Int] :
              /\ sum[0] = 0
              /\ \A k \in 1 .. Len(rollout) :
                   sum[k] = sum[k - 1] + rollout[k].basis_points
<1> DEFINE step == [k \in 1 .. Len(rollout) |->
                      [sum \in Int |-> sum + rollout[k].basis_points]]
<1>1. step \in [1 .. Len(rollout) -> [Int -> Int]] /\ Len(rollout) \in Nat
  BY SharesAreIntegers
<1>2. \A k \in 1 .. Len(rollout), sum \in Int :
        step[k][sum] = sum + rollout[k].basis_points
  OBVIOUS
<1> HIDE DEF step
<1>3. PICK f \in [0 .. Len(rollout) -> Int] :
            /\ f[0] = 0
            /\ \A k \in 1 .. Len(rollout) : f[k] = step[k][f[k - 1]]
  <2>1. PICK n, V, first : n = Len(rollout) /\ V = Int /\ first = 0
    OBVIOUS
  <2> n \in Nat /\ first \in V
    BY <1>1, <2>1
  <2>2. step \in [1 .. n -> [V -> V]]
    BY <1>1, <2>1
  <2>3. PICK f \in [0 .. n -> V] :
              f[0] = first /\ \A k \in 1 .. n : f[k] = step[k][f[k - 1]]
    BY <2>2, RecursionUpTo
  <2>4. QED
    BY <2>1, <2>3
<1>4. \A k \in 1 .. Len(rollout) : k - 1 \in 0 .. Len(rollout)
  BY <1>1
<1>5. QED
  BY <1>2, <1>3, <1>4

\* Upper accumulates the basis points of the entries, one after the other.
LEMMA UpperAccumulates ==
    ASSUME NEW rollout \in Seq(RolloutRecord)
    PROVE  /\ Upper(rollout, 0) = 0
           /\ \A k \in 1 .. Len(rollout) :
                Upper(rollout, k)
                  = Upper(rollout, k - 1) + rollout[k].basis_points
           /\ \A k \in 0 .. Len(rollout) : Upper(rollout, k) \in Int
<1> DEFINE Unfolded(sum) ==
             [k \in 0 .. Len(rollout) |->
                IF k = 0 THEN 0 ELSE sum[k - 1] + rollout[k].basis_points]
           upper == CHOOSE sum : sum = Unfolded(sum)
<1>1. \E sum : sum = Unfolded(sum)
  <2>1. PICK sum \in [0 .. Len(rollout) -> Int] :
              /\ sum[0] = 0
              /\ \A k \in 1 .. Len(rollout) :
                   sum[k] = sum[k - 1] + rollout[k].basis_points
    BY RunningSumExists
  <2>2. \A k \in 0 .. Len(rollout) :
          sum[k] = IF k = 0 THEN 0 ELSE sum[k - 1] + rollout[k].basis_points
    BY <2>1, SharesAreIntegers
  <2>3. sum = Unfolded(sum)
    BY <2>1, <2>2
  <2>4. QED
    BY <2>3
<1>2. upper = Unfolded(upper)
  BY <1>1
<1>3. \A n : Upper(rollout, n) = upper[n]
  BY DEF Upper
<1> HIDE DEF upper
<1>4. upper[0] = 0
  BY <1>2, SharesAreIntegers
<1>5. \A k \in 1 .. Len(rollout) :
        upper[k] = upper[k - 1] + rollout[k].basis_points
  BY <1>2, SharesAreIntegers
<1>6. 0 .. Len(rollout) \subseteq {k \in 0 .. Len(rollout) : upper[k] \in Int}
  <2> DEFINE integers == {k \in 0 .. Len(rollout) : upper[k] \in Int}
  <2>1. 0 \in integers
    BY <1>4, SharesAreIntegers
  <2>2. \A k \in 1 .. Len(rollout) : k - 1 \in integers => k \in integers
    BY <1>5, SharesAreIntegers
  <2>3. Len(rollout) \in Nat
    BY SharesAreIntegers
  <2> HIDE DEF integers
  <2>4. 0 .. Len(rollout) \subseteq integers
    BY <2>1, <2>2, <2>3, UpToInduction
  <2>5. QED
    BY <2>4 DEF integers
<1>7. QED
  BY <1>3, <1>4, <1>5, <1>6

\* Entries of positive shares cover adjacent, disjoint ranges of buckets.
LEMMA UpperIncreases ==
    ASSUME NEW rollout \in Seq(RolloutRecord),
           \A k \in 1 .. Len(rollout) : rollout[k].basis_points > 0
    PROVE  \A k \in 0 .. Len(rollout) : \A j \in 0 .. k :
              Upper(rollout, j) =< Upper(rollout, k)
<1> DEFINE upper(k) == Upper(rollout, k)
           above == {k \in 0 .. Len(rollout) :
                       \A j \in 0 .. k : upper(j) =< upper(k)}
<1>1. /\ Len(rollout) \in Nat
      /\ \A k \in 1 .. Len(rollout) : rollout[k].basis_points \in Int
      /\ \A k \in 1 .. Len(rollout) :
           upper(k) = upper(k - 1) + rollout[k].basis_points
      /\ \A k \in 0 .. Len(rollout) : upper(k) \in Int
  BY SharesAreIntegers, UpperAccumulates
<1> HIDE DEF upper
<1>2. 0 \in above
  BY <1>1
<1>3. ASSUME NEW k \in 1 .. Len(rollout), k - 1 \in above
      PROVE  k \in above
  <2>1. upper(k - 1) =< upper(k) /\ upper(k) \in Int /\ upper(k - 1) \in Int
    BY <1>1
  <2>2. ASSUME NEW j \in 0 .. k PROVE upper(j) =< upper(k)
    <3>1. CASE j = k
      BY <2>1, <3>1
    <3>2. CASE j \in 0 .. k - 1
      <4>1. upper(j) =< upper(k - 1) /\ upper(j) \in Int
        BY <1>1, <1>3, <3>2
      <4>2. QED
        BY <2>1, <4>1
    <3>3. QED
      BY <1>1, <3>1, <3>2
  <2>3. k \in 0 .. Len(rollout)
    BY <1>1
  <2>4. QED
    BY <2>2, <2>3
<1>4. 0 .. Len(rollout) \subseteq above
  <2> HIDE DEF above
  <2>1. QED
    BY <1>1, <1>2, <1>3, UpToInduction
<1>5. QED
  BY <1>4 DEF upper

\* What validation lets through of a rollout.
LEMMA ValidRollout ==
    ASSUME NEW type, NEW definition \in RulesetDefinition,
           Valid(type, definition)
    PROVE  LET rollout == definition.percentage_rollout IN
           /\ rollout \in Seq(RolloutRecord)
           /\ \A k \in 1 .. Len(rollout) : rollout[k].basis_points > 0
           /\ \A i, j \in 1 .. Len(rollout) :
                rollout[i].variant_key = rollout[j].variant_key => i = j
           /\ RolloutTotal(rollout) =< BasisPoints
<1>1. definition.percentage_rollout \in Seq(RolloutRecord)
  BY DEF RulesetDefinition
<1>2. RolloutSound(definition)
  BY DEF Valid, ValidateRuleset
<1>3. QED
  BY <1>1, <1>2, ValidKeysNamed DEF RolloutSound

\* A context that no rule matches is served the entry whose range holds its
\* bucket, or the fallthrough variant if the bucket is above every range.
LEMMA BucketDecides ==
    ASSUME NEW type, NEW definition \in RulesetDefinition,
           Valid(type, definition), NEW attributes,
           MatchingRules(attributes, definition) = {}, NEW bucket \in Nat
    PROVE  LET choice  == ChooseVariant(attributes, bucket, definition)
               rollout == definition.percentage_rollout
           IN  \/ /\ choice.reason = "fallthrough"
                  /\ \A k \in 1 .. Len(rollout) : Upper(rollout, k) =< bucket
               \/ /\ choice.reason = "percentage_rollout"
                  /\ \E k \in 1 .. Len(rollout) :
                       /\ choice.variant.variant_key = rollout[k].variant_key
                       /\ Upper(rollout, k - 1) =< bucket
                       /\ bucket < Upper(rollout, k)
<1> DEFINE choice  == ChooseVariant(attributes, bucket, definition)
           rollout == definition.percentage_rollout
           upper(k) == Upper(rollout, k)
           stops   == RolloutStops(bucket, rollout)
<1>1. /\ rollout \in Seq(RolloutRecord)
      /\ Len(rollout) \in Nat
      /\ DOMAIN rollout = 1 .. Len(rollout)
      /\ \A k \in 1 .. Len(rollout) : rollout[k].basis_points > 0
      /\ \A k \in 1 .. Len(rollout) : rollout[k].basis_points \in Int
  BY ValidRollout, SharesAreIntegers
<1>2. /\ upper(0) = 0
      /\ \A k \in 0 .. Len(rollout) : upper(k) \in Int
  BY <1>1, UpperAccumulates
<1>3. stops = {k \in 1 .. Len(rollout) : bucket < upper(k)}
  BY <1>1 DEF RolloutStops
<1> HIDE DEF upper
<1>4. CASE stops = {}
  <2>1. choice = Serve(definition, definition.fallthrough_variant, "fallthrough")
    BY <1>4 DEF ChooseVariant
  <2>2. choice.reason = "fallthrough"
    BY <2>1, ValidKeysNamed, NamedVariantServed
  <2>3. \A k \in 1 .. Len(rollout) : upper(k) =< bucket
    BY <1>1, <1>2, <1>3, <1>4
  <2>4. QED
    BY <2>2, <2>3 DEF upper
<1>5. CASE stops # {}
  <2>0. stops \in SUBSET Nat
    BY <1>1, <1>3
  <2>1. PICK k \in stops : k = Min(stops) /\ \A j \in stops : k =< j
    <3> HIDE DEF stops
    <3>1. Min(stops) \in stops /\ \A j \in stops : Min(stops) =< j
      BY <1>5, <2>0, MinOfNaturals
    <3>2. QED
      BY <3>1
  <2>2. k \in 1 .. Len(rollout) /\ bucket < upper(k)
    BY <1>3, <2>1
  <2>3. upper(k - 1) =< bucket
    <3>1. CASE k = 1
      BY <1>2, <3>1
    <3>2. CASE k # 1
      <4>1. k - 1 \in 1 .. Len(rollout) /\ k - 1 \notin stops
        BY <1>1, <1>3, <2>1, <2>2, <3>2
      <4>2. QED
        BY <1>1, <1>2, <1>3, <4>1
    <3>3. QED
      BY <3>1, <3>2
  <2>4. choice = Serve(definition, rollout[k].variant_key, "percentage_rollout")
    <3>1. ~(rollout[k].basis_points < 0)
      BY <1>1, <2>2
    <3>2. QED
      BY <1>5, <2>1, <3>1 DEF ChooseVariant
  <2>5. /\ choice.reason = "percentage_rollout"
        /\ choice.variant.variant_key = rollout[k].variant_key
    BY <1>1, <2>2, <2>4, ValidKeysNamed, NamedVariantServed
  <2>6. QED
    BY <2>2, <2>3, <2>5 DEF upper
<1>6. QED
  BY <1>4, <1>5

\* The buckets that serve an entry of the rollout are those from the basis
\* points before it to the basis points with it.
LEMMA EntryServed ==
    ASSUME NEW type, NEW definition \in RulesetDefinition,
           Valid(type, definition), NEW attributes,
           MatchingRules(attributes, definition) = {},
           LET rollout == definition.percentage_rollout IN
             Upper(rollout, Len(rollout)) =< BasisPoints,
           NEW i \in 1 .. Len(definition.percentage_rollout)
    PROVE  LET rollout == definition.percentage_rollout IN
           {bucket \in Buckets :
              LET choice == ChooseVariant(attributes, bucket, definition) IN
              /\ choice.reason = "percentage_rollout"
              /\ choice.variant.variant_key = rollout[i].variant_key}
             = Upper(rollout, i - 1) .. Upper(rollout, i) - 1
<1> DEFINE rollout == definition.percentage_rollout
           upper(k) == Upper(rollout, k)
           choice(bucket) == ChooseVariant(attributes, bucket, definition)
           served(bucket) ==
             /\ choice(bucket).reason = "percentage_rollout"
             /\ choice(bucket).variant.variant_key = rollout[i].variant_key
<1>1. /\ rollout \in Seq(RolloutRecord)
      /\ Len(rollout) \in Nat
      /\ \A k \in 1 .. Len(rollout) : rollout[k].basis_points > 0
      /\ \A k, j \in 1 .. Len(rollout) :
           rollout[k].variant_key = rollout[j].variant_key => k = j
  BY ValidRollout, SharesAreIntegers
<1>2. /\ upper(0) = 0
      /\ \A k \in 0 .. Len(rollout) : upper(k) \in Int
      /\ \A k \in 0 .. Len(rollout) : \A j \in 0 .. k : upper(j) =< upper(k)
      /\ upper(Len(rollout)) =< BasisPoints
  BY <1>1, UpperAccumulates, UpperIncreases
<1>3. \A bucket \in Nat :
        \/ /\ choice(bucket).reason = "fallthrough"
           /\ \A k \in 1 .. Len(rollout) : upper(k) =< bucket
        \/ /\ choice(bucket).reason = "percentage_rollout"
           /\ \E k \in 1 .. Len(rollout) :
                /\ choice(bucket).variant.variant_key = rollout[k].variant_key
                /\ upper(k - 1) =< bucket
                /\ bucket < upper(k)
  BY BucketDecides
<1>4. BasisPoints \in Nat
  BY BasisPointsAssumption
<1> HIDE DEF upper, choice, rollout
<1>5. i \in 1 .. Len(rollout)
  BY DEF rollout
<1>6. ASSUME NEW bucket \in Buckets, served(bucket)
      PROVE  bucket \in upper(i - 1) .. upper(i) - 1
  <2>1. bucket \in Nat
    BY <1>4 DEF Buckets
  <2>2. PICK k \in 1 .. Len(rollout) :
              /\ choice(bucket).variant.variant_key = rollout[k].variant_key
              /\ upper(k - 1) =< bucket
              /\ bucket < upper(k)
    BY <1>3, <1>6, <2>1
  <2>3. k = i
    BY <1>1, <1>5, <1>6, <2>2
  <2>4. QED
    BY <1>1, <1>2, <1>5, <2>1, <2>2, <2>3
<1>7. ASSUME NEW bucket \in upper(i - 1) .. upper(i) - 1
      PROVE  bucket \in Buckets /\ served(bucket)
  <2>1. /\ i - 1 \in 0 .. Len(rollout) /\ i \in 0 .. Len(rollout)
        /\ Len(rollout) \in 0 .. Len(rollout)
    BY <1>1, <1>5
  <2>2. /\ 0 =< upper(i - 1) /\ upper(i) =< BasisPoints
        /\ upper(i - 1) \in Int /\ upper(i) \in Int
    BY <1>1, <1>2, <1>4, <1>5, <2>1
  <2>3. /\ bucket \in Nat /\ bucket \in Buckets
        /\ upper(i - 1) =< bucket /\ bucket < upper(i)
    BY <1>4, <2>2 DEF Buckets
  <2>4. ~(upper(i) =< bucket) /\ upper(i - 1) =< bucket
    BY <2>2, <2>3
  <2>5. PICK k \in 1 .. Len(rollout) :
              /\ choice(bucket).reason = "percentage_rollout"
              /\ choice(bucket).variant.variant_key = rollout[k].variant_key
              /\ upper(k - 1) =< bucket
              /\ bucket < upper(k)
    BY <1>3, <1>5, <2>3, <2>4
  <2>6. /\ k - 1 \in 0 .. Len(rollout) /\ k \in 0 .. Len(rollout)
        /\ upper(k - 1) \in Int /\ upper(k) \in Int
    BY <1>1, <1>2
  <2>7. ~(k < i)
    <3>1. SUFFICES ASSUME k < i PROVE FALSE
      OBVIOUS
    <3>2. upper(k) =< upper(i - 1)
      BY <1>2, <2>1, <3>1
    <3>3. QED
      BY <1>2, <2>2, <2>3, <2>5, <2>6, <3>2
  <2>8. ~(i < k)
    <3>1. SUFFICES ASSUME i < k PROVE FALSE
      OBVIOUS
    <3>2. upper(i) =< upper(k - 1)
      <4>1. i \in 0 .. k - 1
        BY <1>1, <1>5, <3>1
      <4>2. QED
        BY <1>2, <2>6, <4>1
    <3>3. QED
      BY <2>2, <2>3, <2>5, <2>6, <3>2
  <2>9. k = i
    BY <1>5, <2>7, <2>8
  <2>10. QED
    BY <2>3, <2>5, <2>9
<1>8. {bucket \in Buckets : served(bucket)} = upper(i - 1) .. upper(i) - 1
  <2> HIDE DEF served
  <2>1. QED
    BY <1>6, <1>7
<1>9. QED
  BY <1>8 DEF upper, choice, rollout

-----------------------------------------------------------------------------
(* The buckets of a rollout.                                               *)

\* A sum that fits in an integer is not wrapped around.
LEMMA FittingSumUnwrapped ==
    ASSUME NEW n \in 0 .. MaxInteger
    PROVE  Wrapped(n) = n
<1>1. MaxInteger \in Nat
  BY BasisPointsAssumption
<1>2. \A a, b \in Nat : a < b => a % b = a
  OBVIOUS
<1>3. /\ n + MaxInteger + 1 \in Nat
      /\ 2 * (MaxInteger + 1) \in Nat
      /\ n + MaxInteger + 1 < 2 * (MaxInteger + 1)
  BY <1>1
<1>4. (n + MaxInteger + 1) % (2 * (MaxInteger + 1)) = n + MaxInteger + 1
  BY <1>2, <1>3
<1>5. QED
  BY <1>1, <1>4 DEF Wrapped

\* A rollout that is published has at most all the buckets, together and entry
\* by entry, unless the sum of its shares overflows.
LEMMA FittingRolloutWithin ==
    ASSUME NEW type, NEW definition \in RulesetDefinition,
           Valid(type, definition),
           LET rollout == definition.percentage_rollout IN
             Upper(rollout, Len(rollout)) =< MaxInteger
    PROVE  LET rollout == definition.percentage_rollout IN
           /\ Upper(rollout, Len(rollout)) =< BasisPoints
           /\ \A item \in ToSet(rollout) : item.basis_points \in 1 .. BasisPoints
<1> DEFINE rollout == definition.percentage_rollout
           upper(k) == Upper(rollout, k)
<1>1. /\ rollout \in Seq(RolloutRecord)
      /\ Len(rollout) \in Nat
      /\ \A k \in 1 .. Len(rollout) : rollout[k].basis_points > 0
      /\ \A k \in 1 .. Len(rollout) : rollout[k].basis_points \in Int
      /\ RolloutTotal(rollout) =< BasisPoints
  BY ValidRollout, SharesAreIntegers
<1>2. /\ upper(0) = 0
      /\ \A k \in 0 .. Len(rollout) : upper(k) \in Int
      /\ \A k \in 0 .. Len(rollout) : \A j \in 0 .. k : upper(j) =< upper(k)
      /\ \A k \in 1 .. Len(rollout) :
           upper(k) = upper(k - 1) + rollout[k].basis_points
  BY <1>1, UpperAccumulates, UpperIncreases
<1>3. BasisPoints \in Nat /\ MaxInteger \in Nat
  BY BasisPointsAssumption
<1>4. upper(Len(rollout)) =< MaxInteger
  OBVIOUS
<1>5. RolloutTotal(rollout) = Wrapped(upper(Len(rollout)))
  BY DEF RolloutTotal
<1>6. \A item \in ToSet(rollout) : \E k \in 1 .. Len(rollout) : item = rollout[k]
  BY <1>1 DEF ToSet
<1> HIDE DEF upper, rollout
<1>7. upper(Len(rollout)) \in 0 .. MaxInteger
  BY <1>1, <1>2, <1>3, <1>4
<1>8. upper(Len(rollout)) =< BasisPoints
  BY <1>1, <1>5, <1>7, FittingSumUnwrapped
<1>9. ASSUME NEW k \in 1 .. Len(rollout)
      PROVE  rollout[k].basis_points \in 1 .. BasisPoints
  <2>1. k \in 0 .. Len(rollout) /\ k - 1 \in 0 .. Len(rollout)
    BY <1>1
  <2>2. 0 =< upper(k - 1) /\ upper(k) =< upper(Len(rollout))
    BY <1>1, <1>2, <2>1
  <2>3. /\ upper(k - 1) \in Int /\ upper(k) \in Int
        /\ upper(Len(rollout)) \in Int
    BY <1>1, <1>2, <2>1
  <2>4. /\ rollout[k].basis_points \in Int /\ rollout[k].basis_points > 0
        /\ upper(k) = upper(k - 1) + rollout[k].basis_points
    BY <1>1, <1>2
  <2>5. QED
    BY <1>3, <1>8, <2>2, <2>3, <2>4
<1>10. QED
  BY <1>6, <1>8, <1>9 DEF upper, rollout

\* The sum of the shares of a draft fits in an integer.
DraftFits ==
    Upper(draft.percentage_rollout, Len(draft.percentage_rollout))
      =< MaxInteger

\* validate_ruleset adds the shares up in an i64: as long as the sum fits, no
\* published rollout promises more buckets than there are.
THEOREM DraftsWithinBuckets == Spec => [](DraftFits => RolloutWithinBuckets)
<1>1. TypeOK => (DraftFits => RolloutWithinBuckets)
  BY FittingRolloutWithin DEF TypeOK, DraftFits, RolloutWithinBuckets
<1>2. QED
  BY <1>1, DraftsTyped, PTL

LEMMA SharesServed ==
    ASSUME TypeOK, RolloutWithinBuckets
    PROVE  RolloutShares
<1> SUFFICES ASSUME NEW type \in ValueTypes, NEW attributes \in Context,
                    Valid(type, draft), MatchingRules(attributes, draft) = {},
                    NEW item \in ToSet(draft.percentage_rollout)
             PROVE  Cardinality({bucket \in Buckets :
                      LET choice == ChooseVariant(attributes, bucket, draft) IN
                      /\ choice.reason = "percentage_rollout"
                      /\ choice.variant.variant_key = item.variant_key})
                    = item.basis_points
  BY DEF RolloutShares
<1> DEFINE rollout == draft.percentage_rollout
           upper(k) == Upper(rollout, k)
           served == {bucket \in Buckets :
                      LET choice == ChooseVariant(attributes, bucket, draft) IN
                      /\ choice.reason = "percentage_rollout"
                      /\ choice.variant.variant_key = item.variant_key}
<1>1. draft \in RulesetDefinition
  BY DEF TypeOK
<1>2. /\ rollout \in Seq(RolloutRecord)
      /\ Len(rollout) \in Nat
      /\ \A k \in 1 .. Len(rollout) :
           /\ rollout[k].basis_points > 0
           /\ rollout[k].basis_points \in Int
  BY <1>1, ValidRollout, SharesAreIntegers
<1>3. /\ \A k \in 0 .. Len(rollout) : upper(k) \in Int
      /\ \A k \in 1 .. Len(rollout) :
           upper(k) = upper(k - 1) + rollout[k].basis_points
  BY <1>2, UpperAccumulates
<1>4. upper(Len(rollout)) =< BasisPoints
  BY DEF RolloutWithinBuckets
<1>5. PICK i \in 1 .. Len(rollout) : item = rollout[i]
  BY <1>2 DEF ToSet
<1>6. served = upper(i - 1) .. upper(i) - 1
  BY <1>1, <1>4, <1>5, EntryServed
<1> HIDE DEF upper, rollout, served
<1>7. /\ upper(i - 1) \in Int /\ upper(i) \in Int
      /\ upper(i) = upper(i - 1) + rollout[i].basis_points
      /\ rollout[i].basis_points > 0 /\ rollout[i].basis_points \in Int
  BY <1>2, <1>3, <1>5
<1>8. Cardinality(upper(i - 1) .. upper(i) - 1) = rollout[i].basis_points
  <2>1. PICK low \in Int : low = upper(i - 1)
    BY <1>7
  <2>2. PICK high \in Int : high = upper(i)
    BY <1>7
  <2>3. PICK share \in Int : share = rollout[i].basis_points
    BY <1>7
  <2>4. share > 0 /\ high = low + share
    BY <1>7, <2>1, <2>2, <2>3
  <2>5. Cardinality(low .. high - 1) = share
    <3>1. ~(low > high - 1) /\ (high - 1) - low + 1 = share /\ high - 1 \in Int
      BY <2>4
    <3>2. QED
      BY <3>1, FS_Interval
  <2>6. QED
    BY <2>1, <2>2, <2>3, <2>5
<1>9. QED
  BY <1>5, <1>6, <1>8 DEF served

\* Of the contexts no rule matches, each entry of a rollout is served to exactly
\* its share of the buckets, if the rollout is within what the request schema
\* promises.
THEOREM DraftsShareBuckets == Spec => [](RolloutWithinBuckets => RolloutShares)
BY SharesServed, DraftsTyped, PTL

\* The drafts that the request schema of publish_ruleset admits: a share is at
\* most all the buckets, and so few entries that their sum fits in an integer.
SchemaBounds ==
    /\ \A share \in Shares : share =< BasisPoints
    /\ MaxRollout * BasisPoints =< MaxInteger

\* A draft keeps to the entries it may carry.
DraftBounded ==
    /\ TypeOK
    /\ Len(draft.percentage_rollout) =< MaxRollout
    /\ \A i \in 1 .. Len(draft.percentage_rollout) :
         draft.percentage_rollout[i].basis_points \in Shares

LEMMA DraftsBounded == Spec => []DraftBounded
<1>1. Init => DraftBounded
  <2> SUFFICES ASSUME Init PROVE DraftBounded
    OBVIOUS
  <2>1. draft.percentage_rollout = <<>> /\ TypeOK
    BY DEF Init, TypeOK, RulesetDefinition
  <2>2. QED
    BY <2>1, DraftsAssumption DEF DraftBounded
<1>2. TypeOK' /\ DraftBounded /\ [Next]_draft => DraftBounded'
  <2> SUFFICES ASSUME TypeOK', DraftBounded, [Next]_draft PROVE DraftBounded'
    OBVIOUS
  <2>1. draft.percentage_rollout \in Seq(RolloutRecord) /\ draft \in RulesetDefinition
    BY DEF DraftBounded, TypeOK, RulesetDefinition
  <2>2. CASE draft'.percentage_rollout = draft.percentage_rollout
    BY <2>2 DEF DraftBounded
  <2>3. CASE AddRollout
    <3>1. PICK key \in VariantKeys, share \in Shares :
            draft' = [draft EXCEPT !.percentage_rollout =
                        Append(@, [variant_key |-> key, basis_points |-> share])]
      BY <2>3 DEF AddRollout
    <3>2. draft'.percentage_rollout
            = Append(draft.percentage_rollout,
                     [variant_key |-> key, basis_points |-> share])
      BY <2>1, <3>1 DEF RulesetDefinition
    <3>3. /\ Len(draft'.percentage_rollout) = Len(draft.percentage_rollout) + 1
          /\ Len(draft.percentage_rollout) < MaxRollout
          /\ Len(draft.percentage_rollout) \in Nat
      BY <2>1, <2>3, <3>2 DEF AddRollout
    <3>4. \A i \in 1 .. Len(draft'.percentage_rollout) :
            draft'.percentage_rollout[i].basis_points \in Shares
      BY <2>1, <3>2, <3>3 DEF DraftBounded
    <3>5. QED
      BY <3>3, <3>4, DraftsAssumption DEF DraftBounded
  <2>4. CASE AddVariant \/ AddRule \/ UNCHANGED draft
    <3>1. draft'.percentage_rollout = draft.percentage_rollout
      BY <2>1, <2>4 DEF AddVariant, AddRule, RulesetDefinition
    <3>2. QED
      BY <2>2, <3>1
  <2>5. QED
    BY <2>3, <2>4 DEF Next
<1>3. QED
  BY <1>1, <1>2, DraftsTyped, PTL DEF Spec

\* A sum of bounded entries is bounded by as many of the bound.
LEMMA BoundedUpper ==
    ASSUME NEW rollout \in Seq(RolloutRecord), NEW bound \in Nat,
           \A k \in 1 .. Len(rollout) : rollout[k].basis_points =< bound
    PROVE  Upper(rollout, Len(rollout)) =< Len(rollout) * bound
<1> DEFINE upper(k) == Upper(rollout, k)
           below == {k \in 0 .. Len(rollout) : upper(k) =< k * bound}
<1>1. /\ Len(rollout) \in Nat
      /\ \A k \in 1 .. Len(rollout) : rollout[k].basis_points \in Int
      /\ upper(0) = 0
      /\ \A k \in 1 .. Len(rollout) :
           upper(k) = upper(k - 1) + rollout[k].basis_points
      /\ \A k \in 0 .. Len(rollout) : upper(k) \in Int
  BY SharesAreIntegers, UpperAccumulates
<1> HIDE DEF upper
<1>2. 0 \in below
  BY <1>1
<1>3. ASSUME NEW k \in 1 .. Len(rollout), k - 1 \in below
      PROVE  k \in below
  <2>1. PICK before \in Int : before = upper(k - 1)
    BY <1>1
  <2>2. PICK share \in Int : share = rollout[k].basis_points
    BY <1>1
  <2>3. before =< (k - 1) * bound /\ share =< bound /\ upper(k) = before + share
    BY <1>1, <1>3, <2>1, <2>2
  <2>4. (k - 1) * bound + bound = k * bound
    OBVIOUS
  <2>5. before + share =< k * bound
    BY <2>3, <2>4
  <2>6. k \in 0 .. Len(rollout)
    BY <1>1
  <2>7. QED
    BY <2>3, <2>5, <2>6
<1>4. 0 .. Len(rollout) \subseteq below
  <2> HIDE DEF below
  <2>1. QED
    BY <1>1, <1>2, <1>3, UpToInduction
<1>5. QED
  BY <1>1, <1>4 DEF upper

\* Of drafts the request schema admits, the sum of the shares never overflows:
\* every published rollout serves exactly its shares.
THEOREM SchemaDraftsShareBuckets ==
    ASSUME SchemaBounds
    PROVE  Spec => [](RolloutWithinBuckets /\ RolloutShares)
<1>1. DraftBounded => DraftFits
  <2> SUFFICES ASSUME DraftBounded PROVE DraftFits
    OBVIOUS
  <2> DEFINE rollout == draft.percentage_rollout
  <2>1. rollout \in Seq(RolloutRecord) /\ Len(rollout) \in Nat
    BY DEF DraftBounded, TypeOK, RulesetDefinition
  <2>2. \A k \in 1 .. Len(rollout) : rollout[k].basis_points =< BasisPoints
    BY DEF DraftBounded, SchemaBounds
  <2>3. BasisPoints \in Nat /\ MaxInteger \in Nat /\ MaxRollout \in Nat
    BY BasisPointsAssumption, DraftsAssumption
  <2>4. Upper(rollout, Len(rollout)) =< Len(rollout) * BasisPoints
    BY <2>1, <2>2, <2>3, BoundedUpper
  <2>5. Upper(rollout, Len(rollout)) \in Int
    BY <2>1, UpperAccumulates
  <2>6. Len(rollout) * BasisPoints =< MaxRollout * BasisPoints
    BY <2>1, <2>3 DEF DraftBounded
  <2>7. Len(rollout) * BasisPoints \in Int /\ MaxRollout * BasisPoints \in Int
    BY <2>1, <2>3
  <2>8. MaxRollout * BasisPoints =< MaxInteger
    BY DEF SchemaBounds
  <2> HIDE DEF rollout
  <2>9. Upper(rollout, Len(rollout)) =< MaxInteger
    BY <2>3, <2>4, <2>5, <2>6, <2>7, <2>8
  <2>10. QED
    BY <2>9 DEF DraftFits, rollout
<1>2. QED
  BY <1>1, DraftsBounded, DraftsWithinBuckets, DraftsShareBuckets, PTL

-----------------------------------------------------------------------------
(* Growth.                                                                 *)

\* A sequence and one that continues it.
Continues(longer, s) ==
    /\ Len(s) =< Len(longer)
    /\ \A i \in 1 .. Len(s) : longer[i] = s[i]

\* A ruleset and one with more entries at the ends of its lists.
Grown(grown, definition) ==
    /\ grown.fallthrough_variant = definition.fallthrough_variant
    /\ Continues(grown.variants, definition.variants)
    /\ Continues(grown.targeting_rules, definition.targeting_rules)
    /\ Continues(grown.percentage_rollout, definition.percentage_rollout)

\* The basis points of the first entries do not depend on the later ones.
LEMMA UpperOfPrefix ==
    ASSUME NEW rollout \in Seq(RolloutRecord), NEW longer \in Seq(RolloutRecord),
           Continues(longer, rollout)
    PROVE  \A k \in 0 .. Len(rollout) : Upper(longer, k) = Upper(rollout, k)
<1> DEFINE same == {k \in 0 .. Len(rollout) :
                      Upper(longer, k) = Upper(rollout, k)}
<1>1. /\ Len(rollout) \in Nat /\ Len(longer) \in Nat
      /\ Len(rollout) =< Len(longer)
  BY DEF Continues
<1>2. 0 \in same
  BY <1>1, UpperAccumulates
<1>3. ASSUME NEW k \in 1 .. Len(rollout), k - 1 \in same
      PROVE  k \in same
  <2>1. k \in 1 .. Len(longer) /\ longer[k] = rollout[k]
    BY <1>1 DEF Continues
  <2>2. Upper(longer, k) = Upper(longer, k - 1) + longer[k].basis_points
    BY <2>1, UpperAccumulates
  <2>3. Upper(rollout, k) = Upper(rollout, k - 1) + rollout[k].basis_points
    BY UpperAccumulates
  <2>4. k \in 0 .. Len(rollout)
    BY <1>1
  <2>5. QED
    BY <1>3, <2>1, <2>2, <2>3, <2>4
<1>4. 0 .. Len(rollout) \subseteq same
  <2> HIDE DEF same
  <2>1. QED
    BY <1>1, <1>2, <1>3, UpToInduction
<1>5. QED
  BY <1>4

\* A variant that is named is served as before when more variants follow.
LEMMA GrownServes ==
    ASSUME NEW definition \in RulesetDefinition, NEW grown \in RulesetDefinition,
           Grown(grown, definition),
           NEW key \in VariantKeysOf(definition), NEW reason
    PROVE  Serve(grown, key, reason) = Serve(definition, key, reason)
<1> DEFINE variants == definition.variants
           more == grown.variants
<1>1. /\ variants \in Seq(VariantRecord) /\ more \in Seq(VariantRecord)
      /\ Len(variants) \in Nat /\ Len(more) \in Nat
      /\ Len(variants) =< Len(more)
      /\ \A i \in 1 .. Len(variants) : more[i] = variants[i]
  BY DEF RulesetDefinition, Grown, Continues
<1>2. PICK i \in 1 .. Len(variants) :
        /\ variants[i].variant_key = key
        /\ \A j \in 1 .. Len(variants) : variants[j].variant_key = key => i =< j
        /\ Serve(definition, key, reason) =
             [status |-> "Chosen", variant |-> variants[i], reason |-> reason]
  BY FirstVariantServed
<1>3. i \in 1 .. Len(more) /\ more[i] = variants[i]
  BY <1>1
<1>4. key \in VariantKeysOf(grown)
  <2>1. more[i] \in ToSet(more)
    BY <1>1, <1>3 DEF ToSet
  <2>2. QED
    BY <1>2, <1>3, <2>1 DEF VariantKeysOf
<1>5. PICK j \in 1 .. Len(more) :
        /\ more[j].variant_key = key
        /\ \A k \in 1 .. Len(more) : more[k].variant_key = key => j =< k
        /\ Serve(grown, key, reason) =
             [status |-> "Chosen", variant |-> more[j], reason |-> reason]
  BY <1>4, FirstVariantServed
<1>6. j =< i
  BY <1>2, <1>3, <1>5
<1>7. j \in 1 .. Len(variants) /\ more[j] = variants[j]
  BY <1>1, <1>6
<1>8. i = j
  BY <1>2, <1>5, <1>6, <1>7
<1>9. QED
  BY <1>2, <1>3, <1>5, <1>8

\* The least of two sets that agree up to the least of the first.
LEMMA SameLeast ==
    ASSUME NEW S \in SUBSET Nat, NEW T \in SUBSET Nat, S # {},
           Min(S) \in T, \A n \in T : n < Min(S) => n \in S
    PROVE  Min(T) = Min(S)
<1>1. Min(S) \in S /\ \A n \in S : Min(S) =< n
  BY MinOfNaturals
<1>2. Min(T) \in T /\ \A n \in T : Min(T) =< n
  BY MinOfNaturals
<1>3. PICK p \in Nat : p = Min(S)
  BY <1>1
<1>4. PICK q \in Nat : q = Min(T)
  BY <1>2
<1>5. q =< p /\ (q < p => p =< q)
  BY <1>1, <1>2, <1>3, <1>4
<1>6. QED
  BY <1>3, <1>4, <1>5

\* A rule that decides goes on deciding when rules follow.
LEMMA GrownRulesDecide ==
    ASSUME NEW type, NEW definition \in RulesetDefinition,
           NEW grown \in RulesetDefinition, Valid(type, definition),
           Grown(grown, definition), NEW attributes, NEW bucket,
           MatchingRules(attributes, definition) # {}
    PROVE  ChooseVariant(attributes, bucket, grown)
             = ChooseVariant(attributes, bucket, definition)
<1> DEFINE rules == definition.targeting_rules
           more == grown.targeting_rules
           before == MatchingRules(attributes, definition)
           after == MatchingRules(attributes, grown)
<1>1. /\ DOMAIN rules = 1 .. Len(rules) /\ DOMAIN more = 1 .. Len(more)
      /\ Len(rules) \in Nat /\ Len(more) \in Nat
      /\ Len(rules) =< Len(more)
      /\ \A i \in 1 .. Len(rules) : more[i] = rules[i]
  <2>1. rules \in Seq(TargetingRuleRecord) /\ more \in Seq(TargetingRuleRecord)
    BY DEF RulesetDefinition
  <2>2. QED
    BY <2>1 DEF Grown, Continues
<1>2. /\ before \in SUBSET Nat /\ before \subseteq 1 .. Len(rules)
      /\ after \in SUBSET Nat
      /\ \A i \in 1 .. Len(rules) : i \in after <=> i \in before
  BY <1>1 DEF MatchingRules
<1> HIDE DEF before, after
<1>3. before # {}
  BY DEF before
<1>4. Min(before) \in before /\ \A i \in before : Min(before) =< i
  BY <1>2, <1>3, MinOfNaturals
<1>5. PICK least \in 1 .. Len(rules) : least = Min(before)
  BY <1>2, <1>4
<1>6. Min(before) \in after /\ \A i \in after : i < Min(before) => i \in before
  <2>1. \A i \in after : i < least => i \in 1 .. Len(rules) \/ i = 0
    BY <1>1, <1>2
  <2>2. 0 \notin after
    BY <1>1 DEF after, MatchingRules
  <2>3. QED
    BY <1>2, <1>4, <1>5, <2>1, <2>2
<1>7. Min(after) = least
  BY <1>2, <1>3, <1>5, <1>6, SameLeast
<1>8. after # {}
  BY <1>6
<1>9. /\ ChooseVariant(attributes, bucket, definition)
           = Serve(definition, rules[least].variant_key, "target_match")
      /\ ChooseVariant(attributes, bucket, grown)
           = Serve(grown, more[least].variant_key, "target_match")
  BY <1>3, <1>5, <1>7, <1>8 DEF ChooseVariant, before, after
<1>10. rules[least].variant_key \in VariantKeysOf(definition)
  BY <1>1, ValidKeysNamed
<1>11. QED
  BY <1>1, <1>9, <1>10, GrownServes

\* An entry of the rollout that decides goes on deciding when entries follow.
LEMMA GrownRolloutDecides ==
    ASSUME NEW type, NEW definition \in RulesetDefinition,
           NEW grown \in RulesetDefinition, Valid(type, definition),
           Grown(grown, definition), NEW attributes, NEW bucket,
           MatchingRules(attributes, definition) = {},
           MatchingRules(attributes, grown) = {},
           RolloutStops(bucket, definition.percentage_rollout) # {}
    PROVE  ChooseVariant(attributes, bucket, grown)
             = ChooseVariant(attributes, bucket, definition)
<1> DEFINE rollout == definition.percentage_rollout
           more == grown.percentage_rollout
           before == RolloutStops(bucket, rollout)
           after == RolloutStops(bucket, more)
<1>1. /\ rollout \in Seq(RolloutRecord) /\ more \in Seq(RolloutRecord)
      /\ Continues(more, rollout)
  BY DEF RulesetDefinition, Grown
<1>2. /\ DOMAIN rollout = 1 .. Len(rollout) /\ DOMAIN more = 1 .. Len(more)
      /\ Len(rollout) \in Nat /\ Len(more) \in Nat
      /\ Len(rollout) =< Len(more)
      /\ \A k \in 1 .. Len(rollout) : more[k] = rollout[k]
  BY <1>1 DEF Continues
<1>3. \A k \in 1 .. Len(rollout) : Upper(more, k) = Upper(rollout, k)
  BY <1>1, <1>2, UpperOfPrefix
<1>4. /\ before \in SUBSET Nat /\ before \subseteq 1 .. Len(rollout)
      /\ after \in SUBSET Nat
      /\ \A k \in 1 .. Len(rollout) : k \in after <=> k \in before
  BY <1>2, <1>3 DEF RolloutStops
<1>5. 0 \notin after
  BY <1>2 DEF RolloutStops
<1> HIDE DEF before, after
<1>6. before # {}
  BY DEF before
<1>7. Min(before) \in before /\ \A k \in before : Min(before) =< k
  BY <1>4, <1>6, MinOfNaturals
<1>8. PICK least \in 1 .. Len(rollout) : least = Min(before)
  BY <1>4, <1>7
<1>9. Min(before) \in after /\ \A k \in after : k < Min(before) => k \in before
  <2>1. ASSUME NEW k \in after, k < least
        PROVE  k \in 1 .. Len(rollout)
    <3>1. k \in Nat /\ k # 0
      BY <1>4, <1>5
    <3>2. QED
      BY <1>2, <2>1, <3>1
  <2>2. QED
    BY <1>4, <1>5, <1>7, <1>8, <2>1
<1>10. Min(after) = least
  BY <1>4, <1>6, <1>8, <1>9, SameLeast
<1>11. /\ rollout[least].basis_points > 0
       /\ rollout[least].basis_points \in Int
       /\ rollout[least].variant_key \in VariantKeysOf(definition)
  BY <1>1, <1>2, ValidKeysNamed, SharesAreIntegers
<1>12. ~(rollout[least].basis_points < 0) /\ more[least] = rollout[least]
  BY <1>2, <1>11
<1>13. after # {}
  BY <1>9
<1>14. /\ ChooseVariant(attributes, bucket, definition)
            = Serve(definition, rollout[least].variant_key, "percentage_rollout")
       /\ ChooseVariant(attributes, bucket, grown)
            = Serve(grown, rollout[least].variant_key, "percentage_rollout")
  BY <1>6, <1>8, <1>10, <1>12, <1>13 DEF ChooseVariant, before, after
<1>15. QED
  BY <1>11, <1>14, GrownServes

\* The reason of a choice is where the decision was made.
LEMMA ReasonOfChoice ==
    ASSUME NEW type, NEW definition \in RulesetDefinition,
           Valid(type, definition), NEW attributes, NEW bucket \in Nat
    PROVE  LET choice  == ChooseVariant(attributes, bucket, definition)
               matching == MatchingRules(attributes, definition)
           IN  /\ choice.reason = "target_match" => matching # {}
               /\ choice.reason = "percentage_rollout" =>
                    /\ matching = {}
                    /\ RolloutStops(bucket, definition.percentage_rollout) # {}
<1> DEFINE choice  == ChooseVariant(attributes, bucket, definition)
           matching == MatchingRules(attributes, definition)
           rules == definition.targeting_rules
           stops == RolloutStops(bucket, definition.percentage_rollout)
<1>1. CASE matching # {}
  <2>1. matching \in SUBSET Nat /\ matching \subseteq DOMAIN rules
    <3>1. rules \in Seq(TargetingRuleRecord)
      BY DEF RulesetDefinition
    <3>2. QED
      BY <3>1 DEF MatchingRules
  <2>2. Min(matching) \in DOMAIN rules
    <3> HIDE DEF matching
    <3>1. QED
      BY <1>1, <2>1, MinOfNaturals
  <2>3. choice = Serve(definition, rules[Min(matching)].variant_key,
                       "target_match")
    BY <1>1 DEF ChooseVariant
  <2>4. choice.reason = "target_match"
    BY <2>2, <2>3, ValidKeysNamed, NamedVariantServed
  <2>5. QED
    BY <1>1, <2>4
<1>2. CASE matching = {} /\ stops = {}
  <2>1. choice = Serve(definition, definition.fallthrough_variant, "fallthrough")
    BY <1>2 DEF ChooseVariant
  <2>2. choice.reason = "fallthrough"
    BY <2>1, ValidKeysNamed, NamedVariantServed
  <2>3. QED
    BY <2>2
<1>3. CASE matching = {} /\ stops # {}
  <2>1. choice.reason # "target_match"
    BY <1>3, BucketDecides
  <2>2. QED
    BY <1>3, <2>1
<1>4. QED
  BY <1>1, <1>2, <1>3

\* An administrator only ever adds entries at the ends of the lists.
LEMMA DraftGrows ==
    ASSUME TypeOK, Next
    PROVE  Grown(draft', draft)
<1>1. /\ draft \in RulesetDefinition
      /\ draft.variants \in Seq(VariantRecord)
      /\ draft.targeting_rules \in Seq(TargetingRuleRecord)
      /\ draft.percentage_rollout \in Seq(RolloutRecord)
  BY DEF TypeOK, RulesetDefinition
<1>2. \A entries, entry : entries \in Seq(VariantRecord)
        \/ entries \in Seq(TargetingRuleRecord) \/ entries \in Seq(RolloutRecord)
          => Continues(Append(entries, entry), entries)
  BY DEF Continues
<1>3. \A entries : entries \in Seq(VariantRecord)
        \/ entries \in Seq(TargetingRuleRecord) \/ entries \in Seq(RolloutRecord)
          => Continues(entries, entries)
  BY DEF Continues
<1>4. CASE AddVariant
  <2>1. PICK entry : draft' = [draft EXCEPT !.variants = Append(@, entry)]
    BY <1>4 DEF AddVariant
  <2>2. /\ draft'.variants = Append(draft.variants, entry)
        /\ draft'.targeting_rules = draft.targeting_rules
        /\ draft'.percentage_rollout = draft.percentage_rollout
        /\ draft'.fallthrough_variant = draft.fallthrough_variant
    BY <1>1, <2>1 DEF RulesetDefinition
  <2>3. QED
    BY <1>1, <1>2, <1>3, <2>2 DEF Grown
<1>5. CASE AddRule
  <2>1. PICK entry : draft' = [draft EXCEPT !.targeting_rules = Append(@, entry)]
    BY <1>5 DEF AddRule
  <2>2. /\ draft'.variants = draft.variants
        /\ draft'.targeting_rules = Append(draft.targeting_rules, entry)
        /\ draft'.percentage_rollout = draft.percentage_rollout
        /\ draft'.fallthrough_variant = draft.fallthrough_variant
    BY <1>1, <2>1 DEF RulesetDefinition
  <2>3. QED
    BY <1>1, <1>2, <1>3, <2>2 DEF Grown
<1>6. CASE AddRollout
  <2>1. PICK entry : draft' = [draft EXCEPT !.percentage_rollout = Append(@, entry)]
    BY <1>6 DEF AddRollout
  <2>2. /\ draft'.variants = draft.variants
        /\ draft'.targeting_rules = draft.targeting_rules
        /\ draft'.percentage_rollout = Append(draft.percentage_rollout, entry)
        /\ draft'.fallthrough_variant = draft.fallthrough_variant
    BY <1>1, <2>1 DEF RulesetDefinition
  <2>3. QED
    BY <1>1, <1>2, <1>3, <2>2 DEF Grown
<1>7. QED
  BY <1>4, <1>5, <1>6 DEF Next

LEMMA GrowthKeepsDecisions ==
    ASSUME TypeOK, TypeOK', Next
    PROVE
    \A type \in ValueTypes, attributes \in Context, bucket \in Buckets :
        LET before == ChooseVariant(attributes, bucket, draft)
            after  == ChooseVariant(attributes, bucket, draft')
        IN  (/\ Valid(type, draft) /\ Valid(type, draft')
             /\ \/ before.reason = "target_match"
                \/ /\ before.reason = "percentage_rollout"
                   /\ draft'.targeting_rules = draft.targeting_rules)
            => after = before
<1>1. ASSUME NEW definition, definition \in RulesetDefinition,
             NEW grown, grown \in RulesetDefinition,
             Grown(grown, definition),
             NEW type \in ValueTypes, NEW attributes \in Context,
             NEW bucket \in Buckets, Valid(type, definition),
             LET before == ChooseVariant(attributes, bucket, definition) IN
               \/ before.reason = "target_match"
               \/ /\ before.reason = "percentage_rollout"
                  /\ grown.targeting_rules = definition.targeting_rules
      PROVE  ChooseVariant(attributes, bucket, grown)
               = ChooseVariant(attributes, bucket, definition)
  <2> DEFINE before == ChooseVariant(attributes, bucket, definition)
  <2>1. bucket \in Nat
    BY BasisPointsAssumption DEF Buckets
  <2>2. CASE before.reason = "target_match"
    <3>1. MatchingRules(attributes, definition) # {}
      BY <1>1, <2>1, <2>2, ReasonOfChoice
    <3>2. QED
      BY <1>1, <3>1, GrownRulesDecide
  <2>3. CASE /\ before.reason = "percentage_rollout"
             /\ grown.targeting_rules = definition.targeting_rules
    <3>1. /\ MatchingRules(attributes, definition) = {}
          /\ RolloutStops(bucket, definition.percentage_rollout) # {}
      BY <1>1, <2>1, <2>3, ReasonOfChoice
    <3>2. MatchingRules(attributes, grown) = {}
      BY <2>3, <3>1 DEF MatchingRules
    <3>3. QED
      BY <1>1, <3>1, <3>2, GrownRolloutDecides
  <2>4. QED
    BY <1>1, <2>2, <2>3
<1>2. Grown(draft', draft)
  BY DraftGrows
<1>3. draft \in RulesetDefinition /\ draft' \in RulesetDefinition
  BY DEF TypeOK
<1>4. QED
  BY <1>1, <1>2, <1>3

\* Growing a ruleset at its end is stable: a context that a rule decides keeps
\* its variant, and one that the rollout decides keeps it unless a rule is added.
THEOREM DraftsKeepDecisions == Spec => EarlierEntriesDecide
<1>1. ASSUME TypeOK, TypeOK', [Next]_draft
      PROVE
        [\A type \in ValueTypes, attributes \in Context, bucket \in Buckets :
           LET before == ChooseVariant(attributes, bucket, draft)
               after  == ChooseVariant(attributes, bucket, draft')
           IN  (/\ Valid(type, draft) /\ Valid(type, draft')
                /\ \/ before.reason = "target_match"
                   \/ /\ before.reason = "percentage_rollout"
                      /\ draft'.targeting_rules = draft.targeting_rules)
               => after = before
         ]_draft
  BY <1>1, GrowthKeepsDecisions
<1>2. QED
  BY <1>1, DraftsTyped, PTL DEF Spec, EarlierEntriesDecide

-----------------------------------------------------------------------------
(* Missing attributes.                                                     *)

\* A rule that the context has the attribute of, and that its value satisfies.
Satisfied(attributes, rule) ==
    /\ rule.attribute \in DOMAIN attributes
    /\ RuleMatches(attributes[rule.attribute], rule)

\* The definition of Asking says what it computes: one rule after the other is
\* kept or left out.
LEMMA AskingKeeps ==
    ASSUME NEW rules \in Seq(TargetingRuleRecord), NEW attributes
    PROVE  \E asking \in [0 .. Len(rules) -> Seq(TargetingRuleRecord)] :
              /\ asking[0] = <<>>
              /\ \A k \in 1 .. Len(rules) :
                   asking[k] = IF rules[k].attribute \in DOMAIN attributes
                               THEN Append(asking[k - 1], rules[k])
                               ELSE asking[k - 1]
              /\ Asking(attributes, rules) = asking[Len(rules)]
<1> DEFINE Records == Seq(TargetingRuleRecord)
           Kept(kept, k) ==
             IF rules[k].attribute \in DOMAIN attributes
             THEN Append(kept, rules[k]) ELSE kept
           step == [k \in 1 .. Len(rules) |-> [kept \in Records |-> Kept(kept, k)]]
           Unfolded(asking) ==
             [k \in 0 .. Len(rules) |->
                IF k = 0 THEN <<>>
                ELSE IF rules[k].attribute \in DOMAIN attributes
                THEN Append(asking[k - 1], rules[k])
                ELSE asking[k - 1]]
           chosen == CHOOSE asking : asking = Unfolded(asking)
<1>1. /\ Len(rules) \in Nat /\ <<>> \in Records
      /\ \A k \in 1 .. Len(rules) : rules[k] \in TargetingRuleRecord
  OBVIOUS
<1>2. \A k \in 1 .. Len(rules), kept \in Records : Kept(kept, k) \in Records
  BY <1>1
<1>3. \E asking : asking = Unfolded(asking)
  <2> HIDE DEF Kept
  <2>1. step \in [1 .. Len(rules) -> [Records -> Records]]
    BY <1>2
  <2>2. \A k \in 1 .. Len(rules), kept \in Records : step[k][kept] = Kept(kept, k)
    OBVIOUS
  <2>3. PICK V, n, first : V = Records /\ n = Len(rules) /\ first = <<>>
    OBVIOUS
  <2> n \in Nat /\ first \in V
    BY <1>1, <2>3
  <2> HIDE DEF step
  <2>4. step \in [1 .. n -> [V -> V]]
    BY <2>1, <2>3
  <2>5. PICK f \in [0 .. n -> V] :
              f[0] = first /\ \A k \in 1 .. n : f[k] = step[k][f[k - 1]]
    BY <2>4, RecursionUpTo
  <2>6. \A k \in 1 .. Len(rules) : f[k] = Kept(f[k - 1], k)
    <3>1. \A k \in 1 .. Len(rules) : k - 1 \in 0 .. n
      BY <1>1, <2>3
    <3>2. QED
      BY <2>2, <2>3, <2>5, <3>1
  <2>7. f = Unfolded(f)
    <3>1. \A k \in 0 .. Len(rules) : f[k] = Unfolded(f)[k]
      <4>1. \A k \in 0 .. Len(rules) : k = 0 \/ k \in 1 .. Len(rules)
        BY <1>1
      <4>2. QED
        BY <2>3, <2>5, <2>6, <4>1 DEF Kept
    <3>2. QED
      BY <2>3, <3>1
  <2>8. QED
    BY <2>7
<1>4. chosen = Unfolded(chosen)
  BY <1>3
<1>5. Asking(attributes, rules) = chosen[Len(rules)]
  BY DEF Asking
<1> HIDE DEF chosen
<1>6. /\ chosen[0] = <<>>
      /\ \A k \in 1 .. Len(rules) : chosen[k] = Kept(chosen[k - 1], k)
      /\ DOMAIN chosen = 0 .. Len(rules)
  <2>1. ASSUME NEW f, f = Unfolded(f)
        PROVE  /\ f[0] = <<>>
               /\ \A k \in 1 .. Len(rules) : f[k] = Kept(f[k - 1], k)
               /\ DOMAIN f = 0 .. Len(rules)
    <3>1. DOMAIN f = 0 .. Len(rules)
      BY <2>1
    <3>2. 0 \in 0 .. Len(rules) /\ f[0] = <<>>
      BY <1>1, <2>1
    <3>3. ASSUME NEW k \in 1 .. Len(rules) PROVE f[k] = Kept(f[k - 1], k)
      <4>1. k \in 0 .. Len(rules) /\ k # 0
        BY <1>1
      <4>2. QED
        BY <2>1, <4>1
    <3>4. QED
      BY <3>1, <3>2, <3>3
  <2> HIDE DEF Unfolded, Kept
  <2>2. QED
    BY <1>4, <2>1
<1> HIDE DEF Kept
<1>7. 0 .. Len(rules) \subseteq {k \in 0 .. Len(rules) : chosen[k] \in Records}
  <2> DEFINE typed == {k \in 0 .. Len(rules) : chosen[k] \in Records}
  <2>1. 0 \in typed
    <3>1. 0 \in 0 .. Len(rules) /\ chosen[0] \in Records
      BY <1>1, <1>6
    <3> HIDE DEF Records
    <3>2. QED
      BY <3>1
  <2>2. \A k \in 1 .. Len(rules) : k - 1 \in typed => k \in typed
    BY <1>1, <1>2, <1>6
  <2> HIDE DEF typed
  <2>3. 0 .. Len(rules) \subseteq typed
    BY <1>1, <2>1, <2>2, UpToInduction
  <2>4. QED
    BY <2>3 DEF typed
<1>8. chosen \in [0 .. Len(rules) -> Records]
  <2>1. chosen = [k \in 0 .. Len(rules) |-> chosen[k]]
    BY <1>4
  <2>2. QED
    BY <1>7, <2>1
<1>9. QED
  BY <1>5, <1>6, <1>8 DEF Kept

\* The rules that are left out are satisfied by no context, so the first rule
\* that is satisfied is the same with and without them.
LEMMA AskingDecides ==
    ASSUME NEW rules \in Seq(TargetingRuleRecord), NEW attributes
    PROVE  LET asked == Asking(attributes, rules) IN
           /\ asked \in Seq(TargetingRuleRecord)
           /\ \A j \in 1 .. Len(asked) :
                \E i \in 1 .. Len(rules) : asked[j] = rules[i]
           /\ \A i \in 1 .. Len(rules) :
                (/\ Satisfied(attributes, rules[i])
                 /\ \A h \in 1 .. i - 1 : ~Satisfied(attributes, rules[h]))
                => \E j \in 1 .. Len(asked) :
                     /\ asked[j] = rules[i]
                     /\ \A h \in 1 .. j - 1 : ~Satisfied(attributes, asked[h])
<1> DEFINE Drawn(asked, k) ==
             \A j \in 1 .. Len(asked) : \E i \in 1 .. k : asked[j] = rules[i]
           First(s, i) ==
             /\ Satisfied(attributes, s[i])
             /\ \A h \in 1 .. i - 1 : ~Satisfied(attributes, s[h])
           Decided(asked, k) ==
             \A i \in 1 .. k : First(rules, i) =>
               \E j \in 1 .. Len(asked) :
                 /\ asked[j] = rules[i]
                 /\ \A h \in 1 .. j - 1 : ~Satisfied(attributes, asked[h])
<1>1. PICK asking \in [0 .. Len(rules) -> Seq(TargetingRuleRecord)] :
        /\ asking[0] = <<>>
        /\ \A k \in 1 .. Len(rules) :
             asking[k] = IF rules[k].attribute \in DOMAIN attributes
                         THEN Append(asking[k - 1], rules[k])
                         ELSE asking[k - 1]
        /\ Asking(attributes, rules) = asking[Len(rules)]
  BY AskingKeeps
<1> DEFINE agreeing ==
             {k \in 0 .. Len(rules) : Drawn(asking[k], k) /\ Decided(asking[k], k)}
<1>2. /\ Len(rules) \in Nat
      /\ \A k \in 1 .. Len(rules) : rules[k] \in TargetingRuleRecord
      /\ \A k \in 0 .. Len(rules) : asking[k] \in Seq(TargetingRuleRecord)
  <2>1. Len(rules) \in Nat
    OBVIOUS
  <2>2. \A k \in 1 .. Len(rules) : rules[k] \in TargetingRuleRecord
    OBVIOUS
  <2>3. \A k \in 0 .. Len(rules) : asking[k] \in Seq(TargetingRuleRecord)
    OBVIOUS
  <2>4. QED
    BY <2>1, <2>2, <2>3
<1>3. 0 \in agreeing
  BY <1>1, <1>2
<1>4. ASSUME NEW k \in 1 .. Len(rules), k - 1 \in agreeing
      PROVE  k \in agreeing
  <2>1. PICK kept \in Seq(TargetingRuleRecord) : kept = asking[k - 1]
    BY <1>2
  <2>2. Drawn(kept, k - 1) /\ Decided(kept, k - 1)
    BY <1>4, <2>1
  <2>3. k \in 0 .. Len(rules) /\ Len(kept) \in Nat
    BY <1>2
  <2>4. PICK asked \in Seq(TargetingRuleRecord) : asked = asking[k]
    BY <1>2, <2>3
  <2>5. CASE rules[k].attribute \notin DOMAIN attributes
    <3>1. asked = kept
      BY <1>1, <2>1, <2>4, <2>5
    <3>2. ~First(rules, k)
      BY <2>5 DEF Satisfied
    <3>3. Drawn(asked, k)
      BY <2>2, <2>3, <3>1
    <3>4. Decided(asked, k)
      <4>1. SUFFICES ASSUME NEW i \in 1 .. k, First(rules, i)
                     PROVE  \E j \in 1 .. Len(asked) :
                              /\ asked[j] = rules[i]
                              /\ \A h \in 1 .. j - 1 :
                                   ~Satisfied(attributes, asked[h])
        OBVIOUS
      <4>2. i \in 1 .. k - 1
        BY <3>2, <4>1
      <4>3. QED
        BY <2>2, <3>1, <4>1, <4>2
    <3>5. QED
      BY <2>3, <2>4, <3>3, <3>4
  <2>6. CASE rules[k].attribute \in DOMAIN attributes
    <3>1. asked = Append(kept, rules[k])
      BY <1>1, <2>1, <2>4, <2>6
    <3>2. /\ Len(asked) = Len(kept) + 1
          /\ asked[Len(kept) + 1] = rules[k]
          /\ \A j \in 1 .. Len(kept) : asked[j] = kept[j]
      BY <1>2, <2>3, <3>1
    <3>3. \A j \in 1 .. Len(asked) : j \in 1 .. Len(kept) \/ j = Len(kept) + 1
      BY <2>3, <3>2
    <3>4. Drawn(asked, k)
      BY <2>2, <2>3, <3>2, <3>3
    <3>5. Decided(asked, k)
      <4>1. SUFFICES ASSUME NEW i \in 1 .. k, First(rules, i)
                     PROVE  \E j \in 1 .. Len(asked) :
                              /\ asked[j] = rules[i]
                              /\ \A h \in 1 .. j - 1 :
                                   ~Satisfied(attributes, asked[h])
        OBVIOUS
      <4>2. CASE i \in 1 .. k - 1
        <5>1. PICK j \in 1 .. Len(kept) :
                /\ kept[j] = rules[i]
                /\ \A h \in 1 .. j - 1 : ~Satisfied(attributes, kept[h])
          BY <2>2, <4>1, <4>2
        <5>2. /\ j \in 1 .. Len(asked) /\ asked[j] = kept[j]
              /\ \A h \in 1 .. j - 1 : asked[h] = kept[h]
          BY <2>3, <3>2
        <5>3. QED
          BY <5>1, <5>2
      <4>3. CASE i = k
        <5>1. \A h \in 1 .. Len(kept) : ~Satisfied(attributes, kept[h])
          BY <2>2, <4>1, <4>3
        <5>2. \A h \in 1 .. (Len(kept) + 1) - 1 :
                ~Satisfied(attributes, asked[h])
          BY <2>3, <3>2, <5>1
        <5>3. Len(kept) + 1 \in 1 .. Len(asked)
          BY <2>3, <3>2
        <5>4. QED
          BY <3>2, <4>3, <5>2, <5>3
      <4>4. QED
        BY <4>2, <4>3
    <3>6. QED
      BY <2>3, <2>4, <3>4, <3>5
  <2>7. QED
    BY <2>5, <2>6
<1>5. 0 .. Len(rules) \subseteq agreeing
  <2> HIDE DEF agreeing
  <2>1. QED
    BY <1>2, <1>3, <1>4, UpToInduction
<1>6. Len(rules) \in agreeing
  <2>1. Len(rules) \in 0 .. Len(rules)
    BY <1>2
  <2> HIDE DEF agreeing
  <2>2. QED
    BY <1>5, <2>1
<1>7. QED
  BY <1>1, <1>2, <1>6

LEMMA ServedAlike ==
    ASSUME NEW definition \in RulesetDefinition,
           NEW other \in RulesetDefinition,
           other.variants = definition.variants, NEW key, NEW reason
    PROVE  Serve(other, key, reason) = Serve(definition, key, reason)
BY DEF Serve

LEMMA MissingAttributesIgnored ==
    ASSUME NEW definition \in RulesetDefinition, NEW attributes, NEW bucket
    PROVE  ChooseVariant(attributes, bucket,
             [definition EXCEPT !.targeting_rules = Asking(attributes, @)])
             = ChooseVariant(attributes, bucket, definition)
<1> DEFINE rules == definition.targeting_rules
           asked == Asking(attributes, rules)
           other == [definition EXCEPT !.targeting_rules = Asking(attributes, @)]
           before == MatchingRules(attributes, definition)
           after == MatchingRules(attributes, other)
<1> SUFFICES ChooseVariant(attributes, bucket, other)
               = ChooseVariant(attributes, bucket, definition)
  OBVIOUS
<1>1. /\ rules \in Seq(TargetingRuleRecord)
      /\ asked \in Seq(TargetingRuleRecord)
      /\ \A j \in 1 .. Len(asked) :
           \E i \in 1 .. Len(rules) : asked[j] = rules[i]
      /\ \A i \in 1 .. Len(rules) :
           (/\ Satisfied(attributes, rules[i])
            /\ \A h \in 1 .. i - 1 : ~Satisfied(attributes, rules[h]))
           => \E j \in 1 .. Len(asked) :
                /\ asked[j] = rules[i]
                /\ \A h \in 1 .. j - 1 : ~Satisfied(attributes, asked[h])
  <2>1. rules \in Seq(TargetingRuleRecord)
    BY DEF RulesetDefinition
  <2> HIDE DEF rules
  <2>2. QED
    BY ONLY <2>1, AskingDecides
<1> HIDE DEF asked
<1>2. /\ other \in RulesetDefinition
      /\ other.variants = definition.variants
      /\ other.percentage_rollout = definition.percentage_rollout
      /\ other.fallthrough_variant = definition.fallthrough_variant
      /\ other.targeting_rules = asked
  BY <1>1 DEF RulesetDefinition, asked
<1> HIDE DEF other
<1>3. /\ DOMAIN rules = 1 .. Len(rules) /\ Len(rules) \in Nat
      /\ DOMAIN asked = 1 .. Len(asked) /\ Len(asked) \in Nat
  BY <1>1
<1>4. /\ before = {i \in 1 .. Len(rules) : Satisfied(attributes, rules[i])}
      /\ after = {j \in 1 .. Len(asked) : Satisfied(attributes, asked[j])}
  BY <1>2, <1>3 DEF MatchingRules, Satisfied
<1> HIDE DEF before, after, rules
<1>5. CASE before = {}
  <2>1. after = {}
    BY <1>1, <1>4, <1>5
  <2>2. QED
    BY <1>2, <1>5, <2>1, ServedAlike
    DEF ChooseVariant, before, after
<1>6. CASE before # {}
  <2>1. PICK i \in before : i = Min(before) /\ \A h \in before : i =< h
    <3>1. before \in SUBSET Nat
      BY <1>3, <1>4
    <3>2. QED
      BY <1>6, <3>1, MinOfNaturals
  <2>2. /\ i \in 1 .. Len(rules) /\ Satisfied(attributes, rules[i])
        /\ \A h \in 1 .. i - 1 : ~Satisfied(attributes, rules[h])
    <3>1. \A h \in 1 .. i - 1 : h \in 1 .. Len(rules) /\ ~(i =< h)
      BY <1>3, <1>4
    <3>2. QED
      BY <1>4, <2>1, <3>1
  <2>3. PICK j \in 1 .. Len(asked) :
          /\ asked[j] = rules[i]
          /\ \A h \in 1 .. j - 1 : ~Satisfied(attributes, asked[h])
    BY <1>1, <2>2
  <2>4. j \in after
    BY <1>4, <2>2, <2>3
  <2>5. Min(after) = j
    <3>1. after \in SUBSET Nat
      BY <1>3, <1>4
    <3>2. PICK least \in after : least = Min(after) /\ \A h \in after : least =< h
      BY <2>4, <3>1, MinOfNaturals
    <3>3. least =< j
      BY <2>4, <3>2
    <3>4. ~(least \in 1 .. j - 1)
      BY <1>4, <2>3, <3>2
    <3>5. least \in 1 .. Len(asked)
      BY <1>4
    <3>6. QED
      BY <1>3, <3>2, <3>3, <3>4, <3>5
  <2>6. /\ ChooseVariant(attributes, bucket, definition)
             = Serve(definition, rules[i].variant_key, "target_match")
        /\ ChooseVariant(attributes, bucket, other)
             = Serve(other, asked[j].variant_key, "target_match")
    BY <1>2, <1>6, <2>1, <2>4, <2>5 DEF ChooseVariant, before, after, rules
  <2>7. QED
    BY <1>2, <2>3, <2>6, ServedAlike
<1>7. QED
  BY <1>5, <1>6

\* A rule that asks for a missing attribute decides nothing, whatever its
\* operator: a context is served as if such rules were not there.
THEOREM DraftsIgnoreMissingAttributes ==
    Spec => []MissingAttributesDecideNothing
<1>1. TypeOK => MissingAttributesDecideNothing
  BY MissingAttributesIgnored DEF TypeOK, MissingAttributesDecideNothing
<1>2. QED
  BY <1>1, DraftsTyped, PTL

=============================================================================
