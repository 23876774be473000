-------------------------- MODULE PermissionsProofs --------------------------
(***************************************************************************)
(* What the permission engine keeps for every list of rules of any scopes, *)
(* every set of segments and any number of checks.                         *)
(***************************************************************************)
EXTENDS Permissions, FiniteSetTheorems, WellFoundedInduction, TLAPS

-----------------------------------------------------------------------------
(* The first rule by precedence exists. *)

NatLess == {r \in Nat \X Nat : r[1] < r[2]}

\* A set of numbers that is not empty has a least one.
LEMMA Least ==
  ASSUME NEW T, T \subseteq Nat, T # {}
  PROVE  \E x \in T : \A y \in T : x <= y
<1>1. IsWellFoundedOn(NatLess, Nat)
  <2>1. OpToRel(<, Nat) = NatLess
    BY DEF OpToRel, NatLess
  <2>2. QED
    BY <2>1, NatLessThanWellFounded
<1>2. PICK x \in T : \A y \in T : ~(<<y, x>> \in NatLess)
  BY <1>1, WFMin
<1>3. ASSUME NEW y \in T PROVE x <= y
  <2>1. x \in Nat /\ y \in Nat
    OBVIOUS
  <2>2. y < x => <<y, x>> \in NatLess
    BY <2>1 DEF NatLess
  <2>3. QED
    BY <1>2, <2>1, <2>2
<1>4. QED
  BY <1>3

\* Precedence without the age of the rule, as one number.
Bias(r) == IF r.action = "deny" THEN 0 ELSE 1
Rank(r) == 10 * ScopeRank(r.scope) + 2 * (4 - Specificity(r)) + Bias(r)

LEMMA RankBounds ==
  ASSUME NEW r \in Rules
  PROVE  ScopeRank(r.scope) \in 0 .. 2 /\ Specificity(r) \in 0 .. 4 /\ Bias(r) \in 0 .. 1
BY DEF ScopeRank, Specificity, Bias

LEMMA FirstPrecedes ==
  ASSUME NEW rs \in Seq(Rules), NEW S, S \subseteq DOMAIN rs, S # {}
  PROVE  First(rs, S) \in S /\ \A j \in S \ {First(rs, S)} : Precedes(rs, First(rs, S), j)
<1>1. \A i \in S : i \in Nat /\ rs[i] \in Rules
  OBVIOUS
<1>2. \A i \in S : Rank(rs[i]) \in Nat
  BY <1>1, RankBounds DEF Rank
<1>3. PICK best \in {Rank(rs[i]) : i \in S} : \A y \in {Rank(rs[i]) : i \in S} : best <= y
  BY <1>2, Least
<1>4. PICK i \in {j \in S : Rank(rs[j]) = best} : \A j \in {k \in S : Rank(rs[k]) = best} : i <= j
  BY <1>1, <1>3, Least
<1>5. ASSUME NEW j \in S \ {i} PROVE Precedes(rs, i, j)
  <2>1. /\ ScopeRank(rs[i].scope) \in 0 .. 2 /\ Specificity(rs[i]) \in 0 .. 4 /\ Bias(rs[i]) \in 0 .. 1
        /\ ScopeRank(rs[j].scope) \in 0 .. 2 /\ Specificity(rs[j]) \in 0 .. 4 /\ Bias(rs[j]) \in 0 .. 1
    BY <1>1, RankBounds
  <2>2. Rank(rs[i]) <= Rank(rs[j]) /\ (Rank(rs[i]) = Rank(rs[j]) => i < j)
    <3>1. Rank(rs[i]) = best /\ best <= Rank(rs[j])
      BY <1>3, <1>4
    <3>2. Rank(rs[j]) = best => i <= j
      BY <1>4
    <3>3. i \in Nat /\ j \in Nat /\ i # j
      BY <1>1
    <3>4. QED
      BY <3>1, <3>2, <3>3
  <2>3. \/ ScopeRank(rs[i].scope) < ScopeRank(rs[j].scope)
        \/ /\ ScopeRank(rs[i].scope) = ScopeRank(rs[j].scope)
           /\ Specificity(rs[i]) > Specificity(rs[j])
        \/ /\ ScopeRank(rs[i].scope) = ScopeRank(rs[j].scope)
           /\ Specificity(rs[i]) = Specificity(rs[j])
           /\ Bias(rs[i]) < Bias(rs[j])
        \/ /\ ScopeRank(rs[i].scope) = ScopeRank(rs[j].scope)
           /\ Specificity(rs[i]) = Specificity(rs[j])
           /\ Bias(rs[i]) = Bias(rs[j]) /\ i < j
    <3> DEFINE a == ScopeRank(rs[i].scope)
               b == ScopeRank(rs[j].scope)
               s == Specificity(rs[i])
               t == Specificity(rs[j])
               d == Bias(rs[i])
               e == Bias(rs[j])
    <3>1. 10 * a + 2 * (4 - s) + d <= 10 * b + 2 * (4 - t) + e
      BY <2>2 DEF Rank
    <3>2. 10 * a + 2 * (4 - s) + d = 10 * b + 2 * (4 - t) + e => i < j
      BY <2>2 DEF Rank
    <3>3. a \in 0 .. 2 /\ b \in 0 .. 2 /\ s \in 0 .. 4 /\ t \in 0 .. 4 /\ d \in 0 .. 1 /\ e \in 0 .. 1
      BY <2>1
    <3> HIDE DEF a, b, s, t, d, e
    <3>4. \/ a < b \/ (a = b /\ s > t) \/ (a = b /\ s = t /\ d < e) \/ (a = b /\ s = t /\ d = e /\ i < j)
      BY <3>1, <3>2, <3>3, SMTT(60)
    <3>5. QED
      BY <3>4 DEF a, b, s, t, d, e
  <2>4. QED
    BY <2>3 DEF Precedes, Bias
<1>6. QED
  BY <1>4, <1>5 DEF First

-----------------------------------------------------------------------------
(* What the chosen rule is. *)

\* The rule that decides is one that matches, or none does.
LEMMA DecidingRule ==
  ASSUME NEW rs \in Seq(Rules), NEW tool, NEW subject
  PROVE  \/ MatchRules(rs, tool, subject) = NoRule
         \/ \E i \in Candidates(rs, tool, subject) : MatchRules(rs, tool, subject) = rs[i]
<1> DEFINE all == Candidates(rs, tool, subject)
           denies == {i \in all : rs[i].action = "deny"}
<1>1. all \subseteq DOMAIN rs /\ denies \subseteq all
  BY DEF Candidates
<1>2. /\ all # {} => First(rs, all) \in all
      /\ denies # {} => First(rs, denies) \in denies
  BY <1>1, FirstPrecedes
<1>3. QED
  BY <1>1, <1>2 DEF MatchRules

\* The deny that precedes the others is of the nearest scope that denies, and
\* within that scope none is more specific.
LEMMA AllowedBeatsDenies ==
  ASSUME NEW rs \in Seq(Rules), NEW tool, NEW subject,
         MatchRules(rs, tool, subject).action = "allow",
         NEW i \in Candidates(rs, tool, subject), rs[i].action = "deny",
         \A j \in Candidates(rs, tool, subject) :
           rs[j].action = "deny" => ScopeRank(rs[i].scope) <= ScopeRank(rs[j].scope)
  PROVE  Specificity(rs[i]) < Specificity(MatchRules(rs, tool, subject))
<1> DEFINE all == Candidates(rs, tool, subject)
           denies == {j \in all : rs[j].action = "deny"}
           d == First(rs, denies)
           w == First(rs, all)
<1>1. all \subseteq DOMAIN rs /\ denies \subseteq DOMAIN rs /\ i \in denies /\ all # {}
  BY DEF Candidates
<1>2. d \in denies /\ (i # d => Precedes(rs, d, i)) /\ w \in all
  BY <1>1, FirstPrecedes
<1>3. rs[i] \in Rules /\ rs[d] \in Rules /\ rs[w] \in Rules
  BY <1>1, <1>2
<1>4. ScopeRank(rs[i].scope) <= ScopeRank(rs[d].scope) /\ rs[d].action = "deny"
  BY <1>2
<1>5. /\ Specificity(rs[i]) \in 0 .. 4 /\ Specificity(rs[d]) \in 0 .. 4 /\ Specificity(rs[w]) \in 0 .. 4
      /\ ScopeRank(rs[i].scope) \in 0 .. 2 /\ ScopeRank(rs[d].scope) \in 0 .. 2
  BY <1>3, RankBounds
<1>6. Specificity(rs[d]) >= Specificity(rs[i])
  BY <1>2, <1>4, <1>5 DEF Precedes
<1>7. ~Outranks(rs[d], rs[w]) /\ MatchRules(rs, tool, subject) = rs[w]
  BY <1>1, <1>4 DEF MatchRules
<1>8. QED
  BY <1>5, <1>6, <1>7 DEF Outranks

-----------------------------------------------------------------------------
(* The rules a run gathers are rules. *)

RulesOK == rules \in Seq(Rules)

LEMMA RulesInit == Init => RulesOK
<1> SUFFICES ASSUME Init PROVE RulesOK
  OBVIOUS
<1>1. PICK n \in 0 .. MaxSeeds : rules \in [1 .. n -> Rules]
  BY DEF Init
<1>2. n \in Nat
  BY PermissionsAssumption
<1>3. QED
  BY <1>1, <1>2 DEF RulesOK

LEMMA RulesStep == RulesOK /\ [Next]_vars => RulesOK'
<1> SUFFICES ASSUME RulesOK, [Next]_vars PROVE RulesOK'
  OBVIOUS
<1>1. CASE rules' = rules
  BY <1>1 DEF RulesOK
<1>2. CASE \E r \in Rules : rules' = Append(rules, r)
  BY <1>2 DEF RulesOK
<1>3. CASE ClearRules
  <2>1. PICK scope \in Scopes :
          \E at \in [1 .. Cardinality({i \in DOMAIN rules : rules[i].scope # scope})
                      -> {i \in DOMAIN rules : rules[i].scope # scope}] :
            rules' = [n \in DOMAIN at |-> rules[at[n]]]
    BY <1>3 DEF ClearRules
  <2> DEFINE kept == {i \in DOMAIN rules : rules[i].scope # scope}
             size == Cardinality(kept)
  <2>2. size \in Nat
    <3>1. Len(rules) \in Nat /\ DOMAIN rules = 1 .. Len(rules)
      BY DEF RulesOK
    <3>2. IsFiniteSet(DOMAIN rules)
      BY <3>1, FS_Interval
    <3>3. QED
      BY <3>2, FS_Subset, FS_CardinalityType
  <2>3. PICK at \in [1 .. size -> kept] : rules' = [n \in DOMAIN at |-> rules[at[n]]]
    BY <2>1
  <2>4. \A i \in kept : rules[i] \in Rules
    BY DEF RulesOK
  <2> HIDE DEF kept, size
  <2>5. rules' \in [1 .. size -> Rules]
    BY <2>3, <2>4
  <2>6. QED
    BY <2>2, <2>5 DEF RulesOK
<1>4. QED
  <2>1. ASSUME NEW c \in NewChecks, Check(c) PROVE rules' = rules
    BY <2>1 DEF Check
  <2>2. ASSUME NEW i \in DOMAIN checks, Answer(i)
        PROVE  rules' = rules \/ \E r \in Rules : rules' = Append(rules, r)
    BY <2>2 DEF Answer
  <2>3. ASSUME NEW i \in DOMAIN checks, Stored(i) PROVE rules' = rules
    BY <2>3 DEF Stored
  <2>4. ASSUME NEW call \in Calls, EndCall(call) PROVE rules' = rules
    BY <2>4 DEF EndCall
  <2>5. SetMode \/ UNCHANGED vars => rules' = rules
    BY DEF SetMode, vars
  <2>6. QED
    BY <1>1, <1>2, <1>3, <2>1, <2>2, <2>3, <2>4, <2>5 DEF Next

LEMMA OutranksAlways == RulesOK => DenyOutranks
BY AllowedBeatsDenies DEF RulesOK, DenyOutranks, NearestDenies, Denies

\* The deny of a part, unless it is exact, denies the whole, and a prefix that
\* allows the whole covers all of it.
LEMMA ChainsNarrow == RulesOK => ChainingNeverWidens
<1> SUFFICES ASSUME RulesOK, NEW tool \in Tools, NEW whole \in Subjects,
                    NEW part \in (SUBSET whole) \ {{}},
                    MatchRules(rules, tool, whole).action = "allow"
             PROVE  LET r == MatchRules(rules, tool, whole)
                        d == MatchRules(rules, tool, part)
                    IN  /\ /\ d.action = "deny" /\ d.spec.kind # "exact"
                           /\ \A i \in Denies(tool, whole) : ScopeRank(d.scope) <= ScopeRank(rules[i].scope)
                           => Specificity(d) < Specificity(r)
                        /\ r.spec.kind = "prefix" => part \subseteq r.spec.of
  BY DEF ChainingNeverWidens
<1> DEFINE r == MatchRules(rules, tool, whole)
           d == MatchRules(rules, tool, part)
<1>1. NoRule.action = "ask"
  BY DEF NoRule
<1>2. ASSUME d.action = "deny", d.spec.kind # "exact",
             \A j \in Denies(tool, whole) : ScopeRank(d.scope) <= ScopeRank(rules[j].scope)
      PROVE  Specificity(d) < Specificity(r)
  <2>1. PICK i \in Candidates(rules, tool, part) : d = rules[i]
    BY <1>1, <1>2, DecidingRule DEF RulesOK
  <2>2. rules[i] \in Rules /\ i \in DOMAIN rules
    BY <2>1 DEF RulesOK, Candidates
  <2>3. rules[i].action = "deny" /\ rules[i].spec.kind \in {"any", "prefix"}
    BY <1>2, <2>1, <2>2 DEF Rules, Specifiers
  <2>4. Matches(rules[i].spec, part, "deny")
    BY <2>1, <2>3 DEF Candidates
  <2>5. Matches(rules[i].spec, whole, "deny")
    <3>1. part \subseteq whole
      OBVIOUS
    <3>2. CASE rules[i].spec.kind = "any"
      BY <3>2 DEF Matches
    <3>3. CASE rules[i].spec.kind = "prefix"
      <4>1. part \cap rules[i].spec.of # {}
        BY <2>4, <3>3 DEF Matches
      <4>2. whole \cap rules[i].spec.of # {}
        BY <3>1, <4>1
      <4>3. QED
        BY <3>3, <4>2 DEF Matches
    <3>4. QED
      BY <2>3, <3>2, <3>3
  <2>6. i \in Candidates(rules, tool, whole)
    BY <2>1, <2>2, <2>3, <2>5 DEF Candidates
  <2>7. QED
    BY <1>2, <2>1, <2>3, <2>6, AllowedBeatsDenies DEF RulesOK, Denies
<1>3. ASSUME r.spec.kind = "prefix" PROVE part \subseteq r.spec.of
  <2>1. PICK i \in Candidates(rules, tool, whole) : r = rules[i]
    BY <1>1, DecidingRule DEF RulesOK
  <2>2. Matches(r.spec, whole, "allow")
    BY <2>1 DEF Candidates
  <2>3. whole \subseteq r.spec.of
    BY <1>3, <2>2 DEF Matches
  <2>4. QED
    BY <2>3
<1>4. QED
  BY <1>2, <1>3

\* A rule that allows a call is more specific than every deny of the nearest
\* scope that denies it, whatever rules of whatever scopes a run gathers.
THEOREM DenialOutranks == Spec => []DenyOutranks
<1>1. RulesOK => DenyOutranks
  BY OutranksAlways
<1>2. QED
  BY RulesInit, RulesStep, <1>1, PTL DEF Spec

\* Chaining a command that a prefix denies with others gets it allowed only by a
\* rule more specific than the deny, unless a nearer scope denies the chain too.
THEOREM ChainsNeverWiden == Spec => []ChainingNeverWidens
<1>1. RulesOK => ChainingNeverWidens
  BY ChainsNarrow
<1>2. QED
  BY RulesInit, RulesStep, <1>1, PTL DEF Spec

-----------------------------------------------------------------------------
(* The checks and the cache. *)

\* The check whose decision check i was given.
DecidedBy(i, j) ==
  /\ j \in DOMAIN checks /\ checks[j].pc = "settled"
  /\ Key(checks[i]) = Key(checks[j]) /\ checks[i].behavior = checks[j].behavior

CheckStates ==
  [call : Calls, tool : Tools, subject : Checked, spelling : Subjects,
   pc : {"settled", "asking", "storing", "thrown"},
   behavior : {"none", "allow", "deny"}, by : Nat]

DecisionInv ==
  /\ checks \in Seq(CheckStates)
  /\ \A i \in DOMAIN checks : checks[i].pc = "settled" => DecidedBy(i, checks[i].by)
  /\ \A k \in DOMAIN cache : /\ cache[k] \in DOMAIN checks
                            /\ checks[cache[k]].pc = "settled" /\ Key(checks[cache[k]]) = k

LEMMA DecisionInit == Init => DecisionInv
BY DEF Init, DecisionInv

\* Check c, moved on.
Moved(c, pc, behavior, by) == [c EXCEPT !.pc = pc, !.behavior = behavior, !.by = by]

LEMMA CheckKeeps ==
  ASSUME DecisionInv, NEW c \in NewChecks, Check(c)
  PROVE  DecisionInv'
<1> DEFINE i == Len(checks) + 1
<1>1. checks \in Seq(CheckStates) /\ i \in Nat \ {0}
  BY DEF DecisionInv, CheckStates
<1>2. /\ c.call \in Calls /\ c.tool \in Tools /\ c.subject \in Checked /\ c.spelling \in Subjects
      /\ c \in [call : Calls, tool : Tools, subject : Checked, spelling : Subjects,
                pc : {"new"}, behavior : {"none"}, by : {0}]
  BY DEF NewChecks
<1>3. ASSUME NEW d \in CheckStates, checks' = Append(checks, d), Key(d) = Key(c),
             \/ d.pc # "settled"
             \/ d.pc = "settled" /\ d.by = i
             \/ d.pc = "settled" /\ d.by \in DOMAIN checks /\ checks[d.by].pc = "settled"
                  /\ Key(checks[d.by]) = Key(c) /\ checks[d.by].behavior = d.behavior,
             cache' = cache \/ (d.pc = "settled" /\ Put(Key(c), i))
      PROVE  DecisionInv'
  <2>1. /\ checks' \in Seq(CheckStates) /\ DOMAIN checks' = 1 .. i /\ checks'[i] = d
        /\ DOMAIN checks = 1 .. i - 1 /\ \A j \in DOMAIN checks : checks'[j] = checks[j] /\ j \in 1 .. i
    BY <1>1, <1>3
  <2>2. \A j \in DOMAIN checks' : j = i \/ j \in DOMAIN checks
    BY <1>1, <2>1
  <2>3. i \in DOMAIN checks'
    BY <1>1, <2>1
  <2> HIDE DEF i
  <2>4. ASSUME NEW j \in DOMAIN checks', checks'[j].pc = "settled"
        PROVE  LET b == checks'[j].by IN
               /\ b \in DOMAIN checks' /\ checks'[b].pc = "settled"
               /\ Key(checks'[j]) = Key(checks'[b]) /\ checks'[j].behavior = checks'[b].behavior
    <3>1. CASE j = i
      BY <1>3, <2>1, <2>3, <2>4, <3>1
    <3>2. CASE j \in DOMAIN checks
      BY <2>1, <2>4, <3>2 DEF DecisionInv, DecidedBy
    <3>3. QED
      BY <2>2, <3>1, <3>2
  <2>5. \A k \in DOMAIN cache' : /\ cache'[k] \in DOMAIN checks'
                                /\ checks'[cache'[k]].pc = "settled" /\ Key(checks'[cache'[k]]) = k
    <3>1. CASE cache' = cache
      BY <2>1, <3>1 DEF DecisionInv
    <3>2. CASE d.pc = "settled" /\ Put(Key(c), i)
      <4>1. /\ DOMAIN cache' = DOMAIN cache \cup {Key(c)}
            /\ \A k \in DOMAIN cache' : cache'[k] = IF k = Key(c) THEN i ELSE cache[k]
        BY <3>2 DEF Put
      <4>2. QED
        BY <1>3, <2>1, <2>3, <3>2, <4>1 DEF DecisionInv
    <3>3. QED
      BY <1>3, <3>1, <3>2
  <2>6. QED
    BY <2>1, <2>4, <2>5 DEF DecisionInv, DecidedBy, CheckStates
<1>4. \A behavior \in {"none", "allow", "deny"}, by \in Nat :
        LET d == Moved(c, "settled", behavior, by) IN
        d \in CheckStates /\ Key(d) = Key(c) /\ d.pc = "settled" /\ d.by = by /\ d.behavior = behavior
  BY <1>2 DEF CheckStates, Key, Moved
<1>5. LET d == [c EXCEPT !.pc = "asking"] IN
      d \in CheckStates /\ Key(d) = Key(c) /\ d.pc = "asking"
  BY <1>2 DEF CheckStates, Key
<1>6. Verdict(c) # "ask" => Verdict(c) \in {"allow", "deny"}
  BY DEF Verdict
<1>7. CASE checks' = Append(checks, Moved(c, "settled", "allow", i))
           /\ cache' = cache
  BY <1>1, <1>3, <1>4, <1>7
<1>8. CASE /\ Key(c) \in DOMAIN cache /\ cache' = cache
           /\ checks' = Append(checks, Moved(c, "settled", checks[cache[Key(c)]].behavior, cache[Key(c)]))
  <2>1. /\ cache[Key(c)] \in DOMAIN checks /\ checks[cache[Key(c)]].pc = "settled"
        /\ Key(checks[cache[Key(c)]]) = Key(c)
    BY <1>8 DEF DecisionInv
  <2>2. cache[Key(c)] \in Nat /\ checks[cache[Key(c)]] \in CheckStates
    BY <1>1, <2>1
  <2>3. checks[cache[Key(c)]].behavior \in {"none", "allow", "deny"}
    BY <2>2 DEF CheckStates
  <2>4. QED
    BY <1>3, <1>4, <1>8, <2>1, <2>2, <2>3
<1>9. CASE /\ checks' = Append(checks, Moved(c, "settled", Verdict(c), i))
           /\ Put(Key(c), i) /\ Verdict(c) # "ask"
  BY <1>1, <1>3, <1>4, <1>6, <1>9
<1>10. CASE checks' = Append(checks, [c EXCEPT !.pc = "asking"]) /\ cache' = cache
  BY <1>3, <1>5, <1>10
<1>11. QED
  BY <1>7, <1>8, <1>9, <1>10 DEF Check, Moved

\* One check moves on, while nobody was served its decision.
LEMMA AnswerKeeps ==
  ASSUME DecisionInv, NEW i \in DOMAIN checks, Answer(i) \/ Stored(i)
  PROVE  DecisionInv'
<1>1. checks \in Seq(CheckStates) /\ checks[i] \in CheckStates /\ i \in Nat
  BY DEF DecisionInv
<1>2. checks[i].pc # "settled"
  BY DEF Answer, Stored
<1>3. ASSUME NEW d \in CheckStates, checks' = [checks EXCEPT ![i] = d], Key(d) = Key(checks[i]),
             d.pc = "settled" => d.by = i,
             cache' = cache \/ (d.pc = "settled" /\ Put(Key(checks[i]), i))
      PROVE  DecisionInv'
  <2>1. /\ checks' \in Seq(CheckStates) /\ DOMAIN checks' = DOMAIN checks /\ checks'[i] = d
        /\ \A j \in DOMAIN checks \ {i} : checks'[j] = checks[j]
    BY <1>1, <1>3
  <2>2. ASSUME NEW j \in DOMAIN checks', checks'[j].pc = "settled"
        PROVE  LET b == checks'[j].by IN
               /\ b \in DOMAIN checks' /\ checks'[b].pc = "settled"
               /\ Key(checks'[j]) = Key(checks'[b]) /\ checks'[j].behavior = checks'[b].behavior
    <3>1. CASE j = i
      BY <1>3, <2>1, <2>2, <3>1
    <3>2. CASE j # i
      BY <1>2, <2>1, <2>2, <3>2 DEF DecisionInv, DecidedBy
    <3>3. QED
      BY <3>1, <3>2
  <2>3. \A k \in DOMAIN cache' : /\ cache'[k] \in DOMAIN checks'
                                /\ checks'[cache'[k]].pc = "settled" /\ Key(checks'[cache'[k]]) = k
    <3>1. CASE cache' = cache
      BY <1>2, <2>1, <3>1 DEF DecisionInv
    <3>2. CASE d.pc = "settled" /\ Put(Key(checks[i]), i)
      <4>1. /\ DOMAIN cache' = DOMAIN cache \cup {Key(checks[i])}
            /\ \A k \in DOMAIN cache' : cache'[k] = IF k = Key(checks[i]) THEN i ELSE cache[k]
        BY <3>2 DEF Put
      <4>2. QED
        BY <1>2, <1>3, <2>1, <3>2, <4>1 DEF DecisionInv
    <3>3. QED
      BY <1>3, <3>1, <3>2
  <2>4. QED
    BY <2>1, <2>2, <2>3 DEF DecisionInv, DecidedBy
<1>4. \A pc \in {"settled", "storing", "thrown"}, behavior \in {"none", "allow", "deny"}, by \in Nat :
        LET d == Moved(checks[i], pc, behavior, by) IN
        d \in CheckStates /\ Key(d) = Key(checks[i]) /\ d.pc = pc /\ d.by = by
  BY ZenonT(60), <1>1 DEF CheckStates, Key, Moved
<1>5. /\ checks[i].by \in Nat /\ checks[i].behavior \in {"none", "allow", "deny"}
      /\ checks[i].pc \in {"settled", "asking", "storing", "thrown"}
  BY <1>1 DEF CheckStates
<1>6. \E pc \in {"settled", "storing", "thrown"}, behavior \in {"none", "allow", "deny"}, by \in Nat :
        /\ checks' = [checks EXCEPT ![i] = Moved(checks[i], pc, behavior, by)]
        /\ pc = "settled" => by = i
        /\ cache' = cache \/ (pc = "settled" /\ Put(Key(checks[i]), i))
  <2>1. CASE Answer(i)
    <3>1. PICK behavior \in {"allow", "deny"} :
            \/ /\ checks' = [checks EXCEPT ![i].pc = "settled", ![i].behavior = behavior, ![i].by = i]
               /\ Put(Key(checks[i]), i)
            \/ /\ checks' = [checks EXCEPT ![i].pc = "storing", ![i].behavior = behavior]
               /\ UNCHANGED cache
      BY <2>1 DEF Answer
    <3>2. CASE checks' = [checks EXCEPT ![i].pc = "settled", ![i].behavior = behavior, ![i].by = i]
               /\ Put(Key(checks[i]), i)
      <4>1. checks' = [checks EXCEPT ![i] = Moved(checks[i], "settled", behavior, i)]
        BY <1>1, <3>2 DEF Moved
      <4>2. QED
        BY <1>1, <3>2, <4>1
    <3>3. CASE checks' = [checks EXCEPT ![i].pc = "storing", ![i].behavior = behavior] /\ UNCHANGED cache
      <4>1. checks' = [checks EXCEPT ![i] = Moved(checks[i], "storing", behavior, checks[i].by)]
        BY <1>1, <3>3 DEF CheckStates, Moved
      <4>2. QED
        BY <1>5, <3>3, <4>1
    <3>4. QED
      BY <3>1, <3>2, <3>3
  <2>2. CASE Stored(i)
    <3>1. \/ /\ checks' = [checks EXCEPT ![i].pc = "settled", ![i].by = i]
             /\ Put(Key(checks[i]), i)
          \/ /\ checks' = [checks EXCEPT ![i].pc = "thrown", ![i].behavior = "none"]
             /\ UNCHANGED cache
      BY <2>2 DEF Stored
    <3>2. CASE checks' = [checks EXCEPT ![i].pc = "settled", ![i].by = i] /\ Put(Key(checks[i]), i)
      <4>1. checks' = [checks EXCEPT ![i] = Moved(checks[i], "settled", checks[i].behavior, i)]
        BY <1>1, <3>2 DEF CheckStates, Moved
      <4>2. QED
        BY <1>1, <1>5, <3>2, <4>1
    <3>3. CASE checks' = [checks EXCEPT ![i].pc = "thrown", ![i].behavior = "none"] /\ UNCHANGED cache
      <4>1. checks' = [checks EXCEPT ![i] = Moved(checks[i], "thrown", "none", checks[i].by)]
        BY <1>1, <3>3 DEF CheckStates, Moved
      <4>2. QED
        BY <1>5, <3>3, <4>1
    <3>4. QED
      BY <3>1, <3>2, <3>3
  <2>3. QED
    BY <2>1, <2>2
<1>7. PICK pc \in {"settled", "storing", "thrown"}, behavior \in {"none", "allow", "deny"}, by \in Nat :
        /\ checks' = [checks EXCEPT ![i] = Moved(checks[i], pc, behavior, by)]
        /\ pc = "settled" => by = i
        /\ cache' = cache \/ (pc = "settled" /\ Put(Key(checks[i]), i))
  BY <1>6
<1> DEFINE d == Moved(checks[i], pc, behavior, by)
<1>8. d \in CheckStates /\ Key(d) = Key(checks[i]) /\ d.pc = pc /\ d.by = by
  BY <1>4
<1>9. checks' = [checks EXCEPT ![i] = d]
  BY <1>7
<1> HIDE DEF d
<1>10. QED
  BY <1>3, <1>7, <1>8, <1>9

LEMMA DecisionStep == DecisionInv /\ [Next]_vars => DecisionInv'
<1> SUFFICES ASSUME DecisionInv, [Next]_vars PROVE DecisionInv'
  OBVIOUS
<1>1. ASSUME NEW call \in Calls, EndCall(call) PROVE DecisionInv'
  <2>1. /\ UNCHANGED checks
        /\ DOMAIN cache' \subseteq DOMAIN cache
        /\ \A k \in DOMAIN cache' : cache'[k] = cache[k]
    BY <1>1 DEF EndCall
  <2>2. QED
    BY <2>1 DEF DecisionInv, DecidedBy
<1>2. CASE SetMode \/ ClearRules \/ UNCHANGED vars
  BY <1>2 DEF SetMode, ClearRules, vars, DecisionInv, DecidedBy
<1>3. QED
  BY <1>1, <1>2, CheckKeeps, AnswerKeeps DEF Next

\* A check is served a decision made for its own call, tool and subject, for any
\* number of checks asked, answered, stored and cached in any order.
THEOREM DecisionsAreOwn == Spec => []OwnDecision
<1>1. DecisionInv => OwnDecision
  BY DEF DecisionInv, DecidedBy, OwnDecision, Key
<1>2. QED
  BY DecisionInit, DecisionStep, <1>1, PTL DEF Spec
=============================================================================
