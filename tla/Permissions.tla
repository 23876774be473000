---------------------------- MODULE Permissions ----------------------------
(***************************************************************************)
(* The permission engine: which stored rule decides a tool call, what the  *)
(* modes decide without one, and the checks in flight with their cache and *)
(* the rules that answers persist (packages/core/src/permissions.ts).      *)
(*                                                                         *)
(* The subject of a call is the set of its shell segments; a path or a URL *)
(* is a subject of one segment.  A specifier is "any", a prefix that       *)
(* covers some segments, or one exact subject: what globs and case folding *)
(* match is data.  The requester, the store that persists rules and the    *)
(* tools are external; a requester is wired.  Hosts add their rules as they*)
(* set the engine up: the initial rules stand for those.                   *)
(***************************************************************************)
EXTENDS Integers, Sequences, FiniteSets

CONSTANTS Tools, ReadOnly, Edits, Trusted,  \* tools, and the engine's three tool lists
          RuleTools,   \* bound: tools that rules name
          KeptTools,   \* bound: what a rule kept with an answer names, "*" or a tool
          Segments,    \* shell segments a command is chained from
          Prefixes,    \* bound: sets of segments a "<prefix> *" specifier covers
          Exacts,      \* bound: subjects an exact specifier names
          Checked,     \* bound: subjects the checks are about
          Spellings,   \* bound: what a symlinked subject was spelled as
          Scopes,      \* bound: scopes a rule may come from
          DenyScopes,  \* bound: scopes a deny may come from
          Calls,       \* tool call ids
          MaxSeeds,    \* bound: rules the engine is constructed with
          MaxRules,    \* bound: rules in all
          MaxChecks    \* bound: checks in all

ASSUME PermissionsAssumption ==
  /\ ReadOnly \subseteq Tools /\ Edits \subseteq Tools /\ Trusted \subseteq Tools
  /\ "*" \notin Tools /\ RuleTools \subseteq Tools
  /\ KeptTools \subseteq RuleTools \cup {"*"}
  /\ Prefixes \subseteq SUBSET Segments
  /\ Exacts \cup Checked \cup Spellings \subseteq (SUBSET Segments) \ {{}}
  /\ DenyScopes \subseteq Scopes /\ Scopes \subseteq {"session", "project", "user"}
  /\ MaxSeeds \in Nat /\ MaxRules \in Nat /\ MaxChecks \in Nat

Subjects == (SUBSET Segments) \ {{}}
Modes == {"default", "plan", "acceptEdits", "yolo"}

Specifiers ==
  [kind : {"any"}, of : {{}}] \cup [kind : {"prefix"}, of : Prefixes]
    \cup [kind : {"exact"}, of : Exacts]

Rules ==
  {r \in [tool : RuleTools \cup {"*"}, spec : Specifiers,
          action : {"allow", "deny", "ask"}, scope : Scopes] :
     r.action = "deny" => r.scope \in DenyScopes}

NoRule == [tool |-> "none", spec |-> [kind |-> "any", of |-> {}], action |-> "ask", scope |-> "user"]

-----------------------------------------------------------------------------
(* Which rule decides. *)

\* Mutant: a refusal, like a grant, needs every segment.
MatchesAll(spec, subject, action) ==
  CASE spec.kind = "any" -> TRUE
    [] spec.kind = "prefix" -> subject \subseteq spec.of
    [] OTHER -> subject = spec.of

\* matchSpecifier: a grant needs every segment of a chain, a refusal one.
Matches(spec, subject, action) ==
  CASE spec.kind = "any" -> TRUE
    [] spec.kind = "prefix" /\ action = "deny" -> subject \cap spec.of # {}
    [] spec.kind = "prefix" /\ action # "deny" -> subject \subseteq spec.of
    [] OTHER -> subject = spec.of

Specificity(r) ==
  (IF r.tool = "*" THEN 0 ELSE 2) +
  (CASE r.spec.kind = "any" -> 0 [] r.spec.kind = "prefix" -> 1 [] OTHER -> 2)

ScopeRank(scope) == CASE scope = "session" -> 0 [] scope = "project" -> 1 [] OTHER -> 2

Candidates(rs, tool, subject) ==
  {i \in DOMAIN rs : rs[i].tool \in {"*", tool} /\ Matches(rs[i].spec, subject, rs[i].action)}

\* byPrecedence: nearer scope, then more specific, then a deny, then the older.
Precedes(rs, i, j) ==
  LET a == rs[i]  b == rs[j]
      bias(r) == IF r.action = "deny" THEN 0 ELSE 1
  IN \/ ScopeRank(a.scope) < ScopeRank(b.scope)
     \/ /\ ScopeRank(a.scope) = ScopeRank(b.scope)
        /\ \/ Specificity(a) > Specificity(b)
           \/ /\ Specificity(a) = Specificity(b)
              /\ bias(a) < bias(b) \/ (bias(a) = bias(b) /\ i < j)

First(rs, S) == CHOOSE i \in S : \A j \in S \ {i} : Precedes(rs, i, j)

\* Mutant: a tie goes to the nearer scope.
OutranksStrictly(deny, winner) == Specificity(deny) > Specificity(winner)
Outranks(deny, winner) == Specificity(deny) >= Specificity(winner)

MatchRules(rs, tool, subject) ==
  LET all    == Candidates(rs, tool, subject)
      denies == {i \in all : rs[i].action = "deny"}
      winner == rs[First(rs, all)]
  IN IF all = {} THEN NoRule
     ELSE IF denies # {} /\ Outranks(rs[First(rs, denies)], winner)
          THEN rs[First(rs, denies)]
          ELSE winner

\* matchRulesAcrossSpellings: another spelling of the subject may only refuse.
ActionFor(rs, tool, subject, spelling) ==
  IF MatchRules(rs, tool, spelling).action = "deny" THEN "deny"
  ELSE MatchRules(rs, tool, subject).action

-----------------------------------------------------------------------------
VARIABLES mode, rules,
          checks,  \* every check so far: its key, where it is and what was decided
          cache    \* the call cache: the check whose decision a key is served

vars == <<mode, rules, checks, cache>>

\* Mutant: the tool's name is no part of the key.
KeyWithoutTool(c) == <<c.call, "any", c.subject>>
Key(c) == <<c.call, c.tool, c.subject>>

\* #resolve, up to the requester.
Verdict(c) ==
  LET action   == ActionFor(rules, c.tool, c.subject, c.spelling)
      harmless == c.tool \in ReadOnly \cup Trusted
      refused  == action = "deny" \/ (mode = "plan" /\ ~harmless)
      granted  == \/ action = "allow" \/ harmless \/ mode = "yolo"
                  \/ mode = "acceptEdits" /\ c.tool \in Edits
  IN IF refused THEN "deny" ELSE IF granted THEN "allow" ELSE "ask"

Put(k, i) == cache' = [x \in DOMAIN cache \cup {k} |-> IF x = k THEN i ELSE cache[x]]

\* check: the trusted list, the cache, the verdict, or a question to the user.
Check(c) ==
  LET i == Len(checks) + 1
      settled(behavior, by) == Append(checks, [c EXCEPT !.pc = "settled", !.behavior = behavior, !.by = by])
  IN /\ i <= MaxChecks
     /\ \/ /\ c.tool \in Trusted
           /\ checks' = settled("allow", i) /\ UNCHANGED cache
        \/ /\ c.tool \notin Trusted /\ Key(c) \in DOMAIN cache
           /\ checks' = settled(checks[cache[Key(c)]].behavior, cache[Key(c)])
           /\ UNCHANGED cache
        \/ /\ c.tool \notin Trusted /\ Key(c) \notin DOMAIN cache /\ Verdict(c) # "ask"
           /\ checks' = settled(Verdict(c), i)
           /\ Put(Key(c), i)
        \/ /\ c.tool \notin Trusted /\ Key(c) \notin DOMAIN cache /\ Verdict(c) = "ask"
           /\ checks' = Append(checks, [c EXCEPT !.pc = "asking"])
           /\ UNCHANGED cache
     /\ UNCHANGED <<mode, rules>>

\* The answer, with a rule to keep or without; the rule is in force at once.
\* Bound: a kept rule has the answer's action and names one of KeptTools.
Answer(i) ==
  /\ checks[i].pc = "asking"
  /\ \E behavior \in {"allow", "deny"} :
       \/ /\ checks' = [checks EXCEPT ![i].pc = "settled", ![i].behavior = behavior, ![i].by = i]
          /\ Put(Key(checks[i]), i)
          /\ UNCHANGED rules
       \/ /\ Len(rules) < MaxRules
          /\ \E r \in {x \in Rules : x.action = behavior /\ x.tool \in KeptTools} : rules' = Append(rules, r)
          /\ checks' = [checks EXCEPT ![i].pc = "storing", ![i].behavior = behavior]
          /\ UNCHANGED cache
  /\ UNCHANGED mode

\* The store took the rule, or threw: then nothing is cached and nobody told.
Stored(i) ==
  /\ checks[i].pc = "storing"
  /\ \/ /\ checks' = [checks EXCEPT ![i].pc = "settled", ![i].by = i]
        /\ Put(Key(checks[i]), i)
     \/ /\ checks' = [checks EXCEPT ![i].pc = "thrown", ![i].behavior = "none"]
        /\ UNCHANGED cache
  /\ UNCHANGED <<mode, rules>>

\* clearCallCache, as the call ends.
EndCall(call) ==
  /\ \E k \in DOMAIN cache : k[1] = call
  /\ \A i \in DOMAIN checks : checks[i].call = call => checks[i].pc \in {"settled", "thrown"}
  /\ cache' = [k \in {x \in DOMAIN cache : x[1] # call} |-> cache[k]]
  /\ UNCHANGED <<mode, rules, checks>>

SetMode ==
  /\ mode' \in Modes \ {mode}
  /\ UNCHANGED <<rules, checks, cache>>

\* clearRules: a scope is dropped, the other rules keep their order.
ClearRules ==
  /\ \E scope \in Scopes :
       LET kept == {i \in DOMAIN rules : rules[i].scope # scope} IN
       /\ kept # DOMAIN rules
       /\ \E at \in [1 .. Cardinality(kept) -> kept] :
            /\ \A m, n \in DOMAIN at : m < n => at[m] < at[n]
            /\ rules' = [n \in DOMAIN at |-> rules[at[n]]]
  /\ UNCHANGED <<mode, checks, cache>>

NewChecks ==
  {c \in [call : Calls, tool : Tools, subject : Checked, spelling : Subjects,
          pc : {"new"}, behavior : {"none"}, by : {0}] :
     c.spelling \in {c.subject} \cup Spellings}

Init ==
  /\ mode = "default"
  /\ rules \in UNION {[1 .. n -> Rules] : n \in 0 .. MaxSeeds}
  /\ checks = <<>>
  /\ cache = [k \in {} |-> 0]

Next ==
  \/ \E c \in NewChecks : Check(c)
  \/ \E i \in DOMAIN checks : Answer(i) \/ Stored(i)
  \/ \E call \in Calls : EndCall(call)
  \/ SetMode \/ ClearRules

Spec == Init /\ [][Next]_vars

-----------------------------------------------------------------------------
\* Type of the engine's state; what a key is served was settled, so a check whose
\* rule could not be stored leaves no decision behind in the cache.
TypeOK ==
  /\ mode \in Modes
  /\ rules \in Seq(Rules) /\ Len(rules) <= MaxRules
  /\ \A i \in DOMAIN checks :
       /\ checks[i].pc \in {"settled", "asking", "storing", "thrown"}
       /\ checks[i].pc = "settled" => checks[i].behavior \in {"allow", "deny"}
       /\ checks[i].by \in 0 .. Len(checks)
  /\ \A k \in DOMAIN cache : cache[k] \in DOMAIN checks /\ checks[cache[k]].pc = "settled"

Denies(tool, subject) == {i \in Candidates(rules, tool, subject) : rules[i].action = "deny"}

\* The denies of the nearest scope that denies the call.
NearestDenies(tool, subject) ==
  {i \in Denies(tool, subject) :
     \A j \in Denies(tool, subject) : ScopeRank(rules[i].scope) <= ScopeRank(rules[j].scope)}

\* What holds of the module's doc, "a deny also outranks a permissive rule from a
\* nearer scope unless that rule is STRICTLY more specific": whatever rules a run
\* has gathered, of whatever scopes, the rule that allows a call is more specific
\* than every deny of the nearest scope that denies it.
DenyOutranks ==
  \A tool \in Tools, subject \in Subjects :
    LET r == MatchRules(rules, tool, subject) IN
    r.action = "allow" =>
      \A i \in NearestDenies(tool, subject) : Specificity(rules[i]) < Specificity(r)

\* What the doc says, of every deny (permissions.ts:16-20).  The code compares
\* with one deny, of the nearest scope, so a broad deny of the project hides a
\* narrow one of the user.
EveryDenyOutranks ==
  \A tool \in Tools, subject \in Subjects :
    LET r == MatchRules(rules, tool, subject) IN
    r.action = "allow" =>
      \A i \in Denies(tool, subject) : Specificity(rules[i]) < Specificity(r)

\* A wall cannot be walked around by chaining: a command that a prefix denies is
\* allowed inside a longer one only by a rule more specific than the deny, or
\* where a nearer scope denies the longer one too (then DenyOutranks is about
\* that scope's denies), and a rule that allows a chain by prefix covers each of
\* its segments.  An exact deny names one command and says nothing of a chain.
ChainingNeverWidens ==
  \A tool \in Tools, whole \in Subjects : \A part \in (SUBSET whole) \ {{}} :
    LET r == MatchRules(rules, tool, whole)
        d == MatchRules(rules, tool, part)
    IN r.action = "allow" =>
         /\ /\ d.action = "deny" /\ d.spec.kind # "exact"
            /\ \A i \in Denies(tool, whole) : ScopeRank(d.scope) <= ScopeRank(rules[i].scope)
            => Specificity(d) < Specificity(r)
         /\ r.spec.kind = "prefix" => part \subseteq r.spec.of

\* A check is answered with a decision made for its own call, tool and subject,
\* also when it is served from the cache while other checks of the call are
\* asked, answered and stored in any order.
OwnDecision ==
  \A i \in DOMAIN checks : checks[i].pc = "settled" =>
    LET c == checks[i]  d == checks[checks[i].by] IN
    /\ c.call = d.call /\ c.tool = d.tool /\ c.subject = d.subject
    /\ c.behavior = d.behavior
=============================================================================
