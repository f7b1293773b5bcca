----------------------------- MODULE PairMatrix -----------------------------
(***************************************************************************)
(* The generators of the coverage matrices, scripts/*_pairs.py: all_pairs  *)
(* makes rows, one at a time, until every pair of values has been in one;  *)
(* build turns the rows into variants of the Terraform variables. The code *)
(* of all_pairs is the same in every generator that has it; the others     *)
(* list their variants.                                                    *)
(***************************************************************************)
EXTENDS Matrices, FiniteSets

CONSTANT Matrix      \* the matrices that are generated

VARIABLES
  matrix,     \* the matrix this generator is for
  pc,         \* "rows", "build" or "done"
  uncovered,  \* the pairs no row has yet
  rows,       \* the rows; in build, the ones that are left
  variants    \* the variants so far

vars == <<matrix, pc, uncovered, rows, variants>>

Dims == Dimensions(matrix)
Range(f) == {f[x] : x \in DOMAIN f}

-----------------------------------------------------------------------------
(* A pair: two dimensions, by position, with a value of each.              *)
Pair(i, a, j, b) == IF i < j THEN <<i, a, j, b>> ELSE <<j, b, i, a>>

Below(S) == {q \in S \X S : q[1] < q[2]}

Pairs(dims) ==
  UNION {{<<q[1], a, q[2], b>> : a \in Range(dims[q[1]][2]), b \in Range(dims[q[2]][2])} :
           q \in Below(DOMAIN dims)}

PairsOf(row) == {<<q[1], row[q[1]], q[2], row[q[2]]>> : q \in Below(DOMAIN row)}

Least(S, Of(_)) == CHOOSE p \in S : \A q \in S : Of(p) <= Of(q)

(* min(uncovered): by position and value, then by position and value.      *)
Seed ==
  LET FirstOf(p) == p[1] * 1000 + Rank[p[2]]
      SecondOf(p) == p[3] * 1000 + Rank[p[4]]
      first == Least(uncovered, FirstOf)
  IN  Least({p \in uncovered : <<p[1], p[2]>> = <<first[1], first[2]>>}, SecondOf)

Gain(row, i, value) ==
  Cardinality({k \in DOMAIN row : Pair(k, row[k], i, value) \in uncovered})

(* The first of the values that bring most pairs.                          *)
best_value(values, i, row) ==
  LET gain == [n \in DOMAIN values |-> Gain(row, i, values[n])]
      best == CHOOSE n \in DOMAIN values :
                /\ \A m \in DOMAIN values : gain[m] <= gain[n]
                /\ \A m \in 1..(n - 1) : gain[m] < gain[n]
  IN  values[best]

(* The remaining dimensions, in their order.                               *)
Fill(row) ==
  LET filled[n \in 0..Len(Dims)] ==
        IF n = 0 THEN row
        ELSE LET before == filled[n - 1]
             IN  IF n \in DOMAIN before THEN before
                 ELSE before @@ (n :> best_value(Dims[n][2], n, before))
  IN  filled[Len(Dims)]

Named(row) == [name \in Names(Dims) |-> row[CHOOSE i \in DOMAIN Dims : Dims[i][1] = name]]

Init ==
  /\ matrix \in Matrix
  /\ IF matrix \in ByRows THEN pc = "rows" /\ uncovered = Pairs(Dims)
     ELSE pc = "build" /\ uncovered = {}
  /\ rows = <<>> /\ variants = <<>>

(* A row starts from a pair that is uncovered, so that it covers one.      *)
new_row ==
  /\ pc = "rows" /\ uncovered # {}
  /\ LET row == Fill((Seed[1] :> Seed[2]) @@ (Seed[3] :> Seed[4]))
     IN  rows' = Append(rows, Named(row)) /\ uncovered' = uncovered \ PairsOf(row)
  /\ UNCHANGED <<matrix, pc, variants>>

(* Mutant: the last pair gets no row.                                      *)
covered_early ==
  /\ pc = "rows" /\ Cardinality(uncovered) <= 1
  /\ pc' = "build"
  /\ UNCHANGED <<matrix, uncovered, rows, variants>>

covered ==
  /\ pc = "rows" /\ uncovered = {}
  /\ pc' = "build"
  /\ UNCHANGED <<matrix, uncovered, rows, variants>>

(* A row becomes a variant unless build passes over it or has one like it. *)
variant ==
  /\ pc = "build" /\ rows # <<>>
  /\ LET new == Variant("pair", Payloads(matrix, Head(rows)))
     IN  variants' = IF Skips(matrix, Head(rows)) \/ new \in Range(variants)
                     THEN variants ELSE Append(variants, new)
  /\ rows' = Tail(rows)
  /\ UNCHANGED <<matrix, pc, uncovered>>

build ==
  /\ pc = "build" /\ rows = <<>>
  /\ variants' = variants \o Rest(matrix)
  /\ pc' = "done"
  /\ UNCHANGED <<matrix, uncovered, rows>>

Next == new_row \/ covered \/ variant \/ build

Spec == Init /\ [][Next]_vars

-----------------------------------------------------------------------------
TypeOK ==
  /\ matrix \in Matrix /\ pc \in {"rows", "build", "done"}
  /\ uncovered \subseteq Pairs(Dims)
  /\ \A k \in DOMAIN rows : /\ DOMAIN rows[k] = Names(Dims)
                            /\ \A d \in Names(Dims) : rows[k][d] \in Range(Values(Dims, d))
  /\ \A k \in DOMAIN variants : \A arm \in variants[k].vars : arm[1] \in Names(Dims)

(* "Every row covers >=1 new pair (guarantees termination)": there are     *)
(* never more rows than there were pairs, and one that is covered is in    *)
(* a row.                                                                  *)
RowsBounded ==
  pc = "rows" =>
    /\ Len(rows) <= Cardinality(Pairs(Dims) \ uncovered)
    /\ \A p \in Pairs(Dims) \ uncovered : \E k \in DOMAIN rows :
         rows[k][Dims[p[1]][1]] = p[2] /\ rows[k][Dims[p[3]][1]] = p[4]

(* The slow live matrix applies no variant twice ("byte-identical payloads *)
(* are deduped").                                                          *)
NoRepeats ==
  \A k, n \in DOMAIN variants :
    variants[k].kind = "pair" /\ variants[k] = variants[n] => k = n

(* The objects that the load balancer refers to and a variant may be       *)
(* without: the arms that make it refer to them, the arms that define them.*)
Referrers ==
  [service_policy |-> {<<"lb_choice", "active">>},
   route_or_exclusion |-> {<<"reference", "attached">>},
   api_definition |-> {<<"api_definition", "specification">>, <<"validation", "custom_list">>},
   integration |-> {<<"code_scan", "selected">>},
   sensitive_data_policy |-> {<<"sensitive_data", "custom">>},
   api_discovery |-> {<<"api_discovery_auth_mode", "custom">>}]

Definers ==
  [Referrers EXCEPT
     !.service_policy = {<<"rule_handling", r>> : r \in {"allow_all", "deny_all", "rule_list"}},
     !.route_or_exclusion = {<<"object", "defined">>},
     !.integration = {<<"integration", "on">>}]

References(arms) == {o \in DOMAIN Referrers : Referrers[o] \cap InForce(matrix, arms) # {}}
Defines(arms) == {o \in DOMAIN Definers : Definers[o] \cap arms # {}}

(* The matrices with no variant between one that attaches such an object   *)
(* and one without it: they leave the order to a single apply.             *)
Undetached == {"api_definition", "api_discovery", "api_protection"}


-----------------------------------------------------------------------------
(* The pairs of arms that some configuration of a matrix has in force.     *)
ArmPairs(arms) == {{a, b} : a \in arms, b \in arms}

Configurations(m) ==
  LET dims == Dimensions(m)
      choices[n \in 0..Len(dims)] ==
        IF n = 0 THEN {<<>>}
        ELSE {Append(c, v) : c \in choices[n - 1], v \in Range(dims[n][2])}
      Row_(c) == [name \in Names(dims) |-> c[CHOOSE i \in DOMAIN dims : dims[i][1] = name]]
  IN  {v \in {Row_(c) : c \in choices[Len(dims)]} : ~Skips(m, v)}

Feasible(m) == UNION {ArmPairs(InForce(m, Payloads(m, v))) : v \in Configurations(m)}

Exercised == {InForce(matrix, variants[k].vars) : k \in DOMAIN variants}

(* "Every pair of option-values co-occurs in at least one variant": what   *)
(* two arms do together in some configuration they do in a variant, after  *)
(* the rows that build drops and the arms that Terraform ignores.          *)
PairsCovered ==
  pc = "done" /\ matrix \in ByRows => Feasible(matrix) \subseteq UNION {ArmPairs(arms) : arms \in Exercised}

(* Every value of every dimension is in force in some variant.             *)
ArmsExercised ==
  pc = "done" =>
    \A i \in DOMAIN Dims : \A v \in Range(Dims[i][2]) : <<Dims[i][1], v>> \in UNION Exercised
=============================================================================
