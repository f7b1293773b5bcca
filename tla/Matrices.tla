------------------------------ MODULE Matrices ------------------------------
(***************************************************************************)
(* The coverage matrices of scripts/*_pairs.py that are generated from     *)
(* pairs: for each the dimensions with their values in order, the arms a   *)
(* row sets, and the variants that follow the rows. An arm is a dimension  *)
(* with its value; what a value writes beyond its arm is left out.         *)
(***************************************************************************)
EXTENDS Naturals, Sequences, TLC

Values(dims, name) == dims[CHOOSE i \in DOMAIN dims : dims[i][1] = name][2]
Names(dims) == {dims[i][1] : i \in DOMAIN dims}

(* The row of the first or of the second values.                           *)
Row(dims, k) == [name \in Names(dims) |-> Values(dims, name)[k]]

All(v) == {<<name, v[name]>> : name \in DOMAIN v}
Except(v, dropped) == {<<name, v[name]>> : name \in DOMAIN v \ dropped}

Variant(kind, arms) == [kind |-> kind, vars |-> arms]
Restore(arms) == <<Variant("canonical-restore", arms)>>

(* waf_pairs.py                                                          *)
WafDimensions ==
  << <<"waf_mode", <<"blocking", "monitoring">>>>,
     <<"waf_allowed_response_codes_mode", <<"omit", "list">>>>,
     <<"waf_blocking_page_mode", <<"omit", "custom">>>>,
     <<"waf_anonymization_mode", <<"omit", "disable">>>>,
     <<"waf_ai_mode", <<"omit", "enable">>>>,
     <<"waf_detection_mode", <<"default", "custom">>>>,
     <<"waf_violation_mode", <<"default", "custom">>>>,
     <<"waf_staging_mode", <<"disable", "new", "new_and_updated">>>>,
     <<"waf_suppression", <<"enable", "disable">>>>,
     <<"waf_threat_campaigns", <<"enable", "disable">>>>,
     <<"waf_signature_accuracy", <<"only_high", "high_medium", "high_medium_low">>>>,
     <<"waf_attack_type_mode", <<"default", "custom">>>> >>
WafPayloads(v) == All(v)
WafDefaults == ("waf_signature_accuracy" :> "high_medium") @@ Row(WafDimensions, 1)
WafRest ==
  LET Custom(name) == ("waf_detection_mode" :> "custom") @@ (name :> "custom") @@ WafDefaults
      Maximal == ("waf_staging_mode" :> "disable") @@ ("waf_signature_accuracy" :> "high_medium_low")
                 @@ Row(WafDimensions, 2)
      Coded == ("waf_allowed_response_codes_mode" :> "list") @@ WafDefaults
      Risk == ("waf_ai_mode" :> "enable") @@ WafDefaults
      Cases == <<Risk, Risk, Coded, Coded, Custom("waf_violation_mode"),
                 Custom("waf_attack_type_mode"), Maximal>>
  IN  [i \in DOMAIN Cases |-> Variant("case", All(Cases[i]))] \o Restore(All(WafDefaults))

(* api_definition_pairs.py                                               *)
ApiDefinitionDimensions ==
  << <<"api_definition", <<"disable", "specification">>>>,
     <<"validation", <<"disabled", "all_spec_endpoints">>>>,
     <<"schema_origin", <<"strict", "mixed">>>>,
     <<"swagger", <<"none", "one">>>>, <<"integration", <<"off", "on">>>>,
     <<"token_method", <<"clear", "blindfold">>>>,
     <<"code_scan", <<"off", "selected">>>> >>
ApiDefinitionPayloads(v) ==
  Except(v, (IF v["api_definition"] = "disable"
             THEN {"validation", "schema_origin", "swagger"} ELSE {})
            \cup (IF v["integration"] = "off" THEN {"token_method", "code_scan"} ELSE {}))
ApiDefinitionRest ==
  Restore({<<"api_definition", "disable">>, <<"integration", "off">>})

(* api_discovery_pairs.py                                                *)
ApiDiscoveryDimensions ==
  << <<"api_discovery_choice", <<"enable", "disable">>>>,
     <<"api_crawler", <<"none", "one">>>>,
     <<"secret_method", <<"clear", "blindfold">>>>,
     <<"api_discovery_learn_from_redirect", <<"omit", "enable">>>>,
     <<"api_discovery_auth_mode", <<"default", "custom">>>> >>
ApiDiscoveryPayloads(v) ==
  Except(v, IF v["api_crawler"] = "none" THEN {"secret_method"} ELSE {})
ApiDiscoveryRest ==
  LET Bare == Except(Row(ApiDiscoveryDimensions, 1), {"secret_method"})
  IN  <<Variant("case", Bare), Variant("case", Bare)>> \o Restore(Bare)

(* api_protection_pairs.py                                               *)
ApiProtectionDimensions ==
  << <<"rate_limit", <<"disable", "rate_limit">>>>,
     <<"client_matcher", <<"any", "ip_prefix", "ip_threat">>>>,
     <<"sensitive_data", <<"default", "custom">>>>,
     <<"data_guard", <<"off", "on">>>>,
     <<"api_protection", <<"off", "allow", "deny">>>>,
     <<"validation", <<"off", "custom_list">>>> >>
ApiProtectionPayloads(v) == All(v)
ApiProtectionRest == Restore(All(Row(ApiProtectionDimensions, 1)))

(* api_testing_pairs.py                                                  *)
ApiTestingDimensions ==
  << <<"surface", <<"lb", "standalone", "both">>>>,
     <<"auth", <<"api_key", "basic_auth", "bearer_token">>>>,
     <<"secret", <<"clear", "blindfold">>>>,
     <<"schedule", <<"every_week", "every_day", "every_month">>>> >>
ApiTestingPayloads(v) ==
  Except(v, IF v["surface"] = "lb" THEN {"schedule"} ELSE {})
ApiTestingRest == Restore({})

(* app_protection_pairs.py                                               *)
AppProtectionDimensions ==
  << <<"cors", <<"none", "on">>>>,
     <<"csrf", <<"omit", "all_domains", "custom", "disabled">>>>,
     <<"cookies", <<"none", "one">>>> >>
AppProtectionPayloads(v) == All(v)
AppProtectionRest == Restore(All(Row(AppProtectionDimensions, 1)))

(* client_access_pairs.py                                                *)
ClientAccessDimensions ==
  << <<"blocked", <<"none", "ip", "asn">>>>,
     <<"trusted", <<"none", "ip_waf">>>>, <<"iprep", <<"off", "on">>>> >>
ClientAccessPayloads(v) == All(v)
ClientAccessRest == Restore(All(Row(ClientAccessDimensions, 1)))

(* header_manipulation_pairs.py                                          *)
HeaderManipulationDimensions ==
  << <<"req", <<"none", "add", "remove">>>>,
     <<"resp", <<"none", "add", "remove">>>>,
     <<"cookies", <<"none", "remove">>>> >>
HeaderManipulationPayloads(v) == All(v)
HeaderManipulationRest == Restore(All(Row(HeaderManipulationDimensions, 1)))

(* jwt_graphql_pairs.py                                                  *)
JwtGraphqlDimensions ==
  << <<"jwt", <<"none", "block_all", "report_paths">>>>,
     <<"gql", <<"none", "any_post", "exact_get">>>> >>
JwtGraphqlPayloads(v) == All(v)
JwtGraphqlRest == Restore(All(Row(JwtGraphqlDimensions, 1)))

(* origin_pool_pairs.py                                                  *)
OriginPoolDimensions ==
  << <<"algo", <<"ROUND_ROBIN", "LEAST_REQUEST", "RANDOM">>>>,
     <<"sel", <<"DISTRIBUTED", "LOCAL_ONLY", "LOCAL_PREFERRED">>>>,
     <<"adv", <<"none", "timeouts">>>> >>
OriginPoolPayloads(v) == All(v)
OriginPoolRest == Restore(All(Row(OriginPoolDimensions, 1)))

(* service_policy_pairs.py                                               *)
ServicePolicyDimensions ==
  << <<"rule_handling", <<"allow_all", "deny_all", "rule_list">>>>,
     <<"server_scope", <<"any_server", "selector">>>>,
     <<"lb_choice", <<"omit", "none", "active">>>> >>
ServicePolicyPayloads(v) == All(v)

(* The policy is detached from the load balancer before it is destroyed.   *)
ServicePolicyRest ==
  <<Variant("detach", All(Row(ServicePolicyDimensions, 1)))>>
  \o Restore({<<"lb_choice", "omit">>})

(* service_policy_action_pairs.py                                        *)
ServicePolicyActionDimensions ==
  << <<"waf", <<"none", "skip", "detection_control">>>>,
     <<"bot", <<"omit", "skip">>>>, <<"mum", <<"omit", "skip">>>>,
     <<"seg", <<"omit", "any", "intra">>>>, <<"rc", <<"off", "on">>>> >>
ServicePolicyActionPayloads(v) == All(v)
ServicePolicyActionRest == Restore({})

(* service_policy_matcher_pairs.py                                       *)
ServicePolicyMatcherDimensions ==
  << <<"client", <<"any", "selector", "name", "name_matcher", "ip_threat">>>>,
     <<"asn", <<"any", "list">>>>, <<"ip", <<"any", "prefix_list">>>>,
     <<"tls", <<"none", "matcher", "ja4">>>> >>
ServicePolicyMatcherPayloads(v) == All(v)
ServicePolicyMatcherRest == Restore({})

(* service_policy_matcher2_pairs.py                                      *)
ServicePolicyMatcher2Dimensions ==
  << <<"arg", <<"none", "item", "present">>>>,
     <<"cookie", <<"none", "absent">>>>, <<"jwt", <<"none", "item">>>>,
     <<"body", <<"none", "regex">>>>, <<"ident", <<"none", "exact">>>>,
     <<"label", <<"none", "keys">>>>, <<"port", <<"none", "ports">>>>,
     <<"apigrp", <<"none", "match">>>> >>
ServicePolicyMatcher2Payloads(v) == All(v)
ServicePolicyMatcher2Rest == Restore({})

(* service_policy_ref_matcher_pairs.py                                   *)
ServicePolicyRefMatcherDimensions ==
  << <<"asn", <<"none", "matcher">>>>, <<"ip", <<"none", "matcher">>>>,
     <<"invert", <<"false", "true">>>> >>
ServicePolicyRefMatcherPayloads(v) ==
  Except(v, IF v["ip"] = "none" THEN {"invert"} ELSE {})
ServicePolicyRefMatcherRest == Restore({})

(* service_policy_request_pairs.py                                       *)
ServicePolicyRequestDimensions ==
  << <<"method", <<"none", "get", "post_delete">>>>,
     <<"path", <<"none", "prefix", "exact", "regex", "suffix">>>>,
     <<"domain", <<"none", "exact">>>>,
     <<"header", <<"none", "match", "present", "absent">>>>,
     <<"query", <<"none", "match">>>> >>
ServicePolicyRequestPayloads(v) == All(v)
ServicePolicyRequestRest == Restore({})

(* waf_exclusion_pairs.py                                                *)
WafExclusionDimensions ==
  << <<"domain", <<"any", "exact", "suffix">>>>,
     <<"path", <<"any", "prefix", "regex">>>>,
     <<"excl", <<"skip", "signature", "violation", "attack", "bot">>>> >>
WafExclusionPayloads(v) == All(v)
WafExclusionRest == Restore({})

(***************************************************************************)
(* The matrices that are listed variant by variant. Their dimensions are   *)
(* the choices the variables of the module allow, where the matrix is      *)
(* about them; a variant may set several arms of one.                      *)
(***************************************************************************)
Listed(cases) ==
  [i \in DOMAIN cases |-> Variant(IF i = Len(cases) THEN "canonical-restore" ELSE "case", cases[i])]

ChallengeDimensions ==
  << <<"mode", <<"none", "enable", "js", "captcha", "policy_based">>>>, <<"mud", <<"off", "on">>>>,
     <<"action", <<"js", "captcha", "disable">>>> >>
ChallengeVariants ==
  LET Of(mode, mud) == {<<"mode", mode>>, <<"mud", mud>>}
  IN  Listed(<<Of("js", "off"), Of("captcha", "off"), Of("enable", "on"),
        Of("policy_based", "on"), Of("policy_based", "off"), Of("policy_based", "off"),
        Of("policy_based", "off"),
        Of("policy_based", "off") \cup {<<"action", a>> : a \in {"js", "captcha", "disable"}},
        Of("none", "off"), Of("enable", "on")>>)

CsdDimensions ==
  << <<"js_insert", <<"all_pages", "disabled", "all_except", "insertion_rules">>>> >>
CsdVariants ==
  Listed([i \in 1..5 |-> {<<"js_insert", <<"disabled", "all_except", "insertion_rules",
                                           "all_except", "all_pages">>[i]>>}])

CustomRoutesDimensions ==
  << <<"type", <<"simple", "redirect", "direct_response">>>>,
     <<"path_mode", <<"prefix", "exact", "regex">>>>,
     <<"header", <<"presence", "exact", "regex">>>>,
     <<"waf_mode", <<"inherited", "app_firewall", "disable">>>> >>
CustomRoutesVariants ==
  LET Route(type, path, waf) == {<<"type", type>>, <<"path_mode", path>>, <<"waf_mode", waf>>}
      Simple(path) == Route("simple", path, "inherited")
  IN  Listed(<<Simple("prefix"), Simple("exact"), Simple("regex"),
        Simple("prefix") \cup {<<"header", h>> : h \in {"exact", "presence", "regex"}},
        Simple("prefix") \cup Simple("exact"), Route("simple", "prefix", "app_firewall"),
        Simple("prefix"), Simple("prefix"), Route("simple", "prefix", "disable"),
        Route("redirect", "prefix", "inherited"), Route("direct_response", "exact", "inherited"),
        Simple("prefix") \cup Route("redirect", "prefix", "inherited")
          \cup Route("direct_response", "exact", "inherited"),
        {}>>)

DdosDimensions ==
  << <<"rps", <<"default", "custom">>>>, <<"clientside_action", <<"none", "js", "captcha">>>>,
     <<"source", <<"country", "asn", "ip", "tls", "ja4">>>> >>
DdosVariants ==
  LET Of(rps, action) == {<<"rps", rps>>, <<"clientside_action", action>>}
  IN  Listed(<<Of("custom", "js"), Of("default", "captcha"), Of("default", "none"),
        {<<"source", s>> : s \in {"country", "asn", "ip", "tls"}}, {}>>)

HealthcheckDimensions ==
  << <<"type", <<"http", "tcp">>>>, <<"codes", <<"200", "301-302">>>> >>
HealthcheckVariants ==
  LET Http(codes) == {<<"type", "http">>} \cup {<<"codes", c>> : c \in codes}
      Tcp == {<<"type", "tcp">>, <<"codes", "200">>}
  IN  Listed(<<Http({"200"}), Http({"200", "301-302"}), Http({"200"}), Tcp, Tcp, Http({"200"})>>)

LbAlgorithmDimensions ==
  << <<"mode", <<"round_robin", "least_active", "random", "source_ip_stickiness", "ring_hash">>>> >>

LbAlgorithmVariants ==
  Listed([i \in 1..5 |-> {<<"mode", <<"least_active", "random", "source_ip_stickiness",
                                      "ring_hash", "round_robin">>[i]>>}])

ReferenceDimensions == << <<"object", <<"defined">>>>, <<"reference", <<"attached">>>> >>
Defined == {<<"object", "defined">>}
Attached == Defined \cup {<<"reference", "attached">>}
RouteObjectVariants == Listed(<<Attached, Defined, {}>>)
WafExclusionPolicyVariants == Listed(<<Attached, Attached, Defined, {}>>)

-----------------------------------------------------------------------------
Dimensions(matrix) ==
  CASE matrix = "waf" -> WafDimensions
    [] matrix = "api_definition" -> ApiDefinitionDimensions
    [] matrix = "api_discovery" -> ApiDiscoveryDimensions
    [] matrix = "api_protection" -> ApiProtectionDimensions
    [] matrix = "api_testing" -> ApiTestingDimensions
    [] matrix = "app_protection" -> AppProtectionDimensions
    [] matrix = "client_access" -> ClientAccessDimensions
    [] matrix = "header_manipulation" -> HeaderManipulationDimensions
    [] matrix = "jwt_graphql" -> JwtGraphqlDimensions
    [] matrix = "origin_pool" -> OriginPoolDimensions
    [] matrix = "service_policy" -> ServicePolicyDimensions
    [] matrix = "service_policy_action" -> ServicePolicyActionDimensions
    [] matrix = "service_policy_matcher" -> ServicePolicyMatcherDimensions
    [] matrix = "service_policy_matcher2" -> ServicePolicyMatcher2Dimensions
    [] matrix = "service_policy_ref_matcher" -> ServicePolicyRefMatcherDimensions
    [] matrix = "service_policy_request" -> ServicePolicyRequestDimensions
    [] matrix = "waf_exclusion" -> WafExclusionDimensions
    [] matrix = "challenge" -> ChallengeDimensions
    [] matrix = "csd" -> CsdDimensions
    [] matrix = "custom_routes" -> CustomRoutesDimensions
    [] matrix = "ddos" -> DdosDimensions
    [] matrix = "healthcheck" -> HealthcheckDimensions
    [] matrix = "lb_algorithm" -> LbAlgorithmDimensions
    [] matrix \in {"route_object", "waf_exclusion_policy"} -> ReferenceDimensions

Payloads(matrix, v) ==
  CASE matrix = "waf" -> WafPayloads(v)
    [] matrix = "api_definition" -> ApiDefinitionPayloads(v)
    [] matrix = "api_discovery" -> ApiDiscoveryPayloads(v)
    [] matrix = "api_protection" -> ApiProtectionPayloads(v)
    [] matrix = "api_testing" -> ApiTestingPayloads(v)
    [] matrix = "app_protection" -> AppProtectionPayloads(v)
    [] matrix = "client_access" -> ClientAccessPayloads(v)
    [] matrix = "header_manipulation" -> HeaderManipulationPayloads(v)
    [] matrix = "jwt_graphql" -> JwtGraphqlPayloads(v)
    [] matrix = "origin_pool" -> OriginPoolPayloads(v)
    [] matrix = "service_policy" -> ServicePolicyPayloads(v)
    [] matrix = "service_policy_action" -> ServicePolicyActionPayloads(v)
    [] matrix = "service_policy_matcher" -> ServicePolicyMatcherPayloads(v)
    [] matrix = "service_policy_matcher2" -> ServicePolicyMatcher2Payloads(v)
    [] matrix = "service_policy_ref_matcher" -> ServicePolicyRefMatcherPayloads(v)
    [] matrix = "service_policy_request" -> ServicePolicyRequestPayloads(v)
    [] matrix = "waf_exclusion" -> WafExclusionPayloads(v)

Rest(matrix) ==
  CASE matrix = "waf" -> WafRest
    [] matrix = "api_definition" -> ApiDefinitionRest
    [] matrix = "api_discovery" -> ApiDiscoveryRest
    [] matrix = "api_protection" -> ApiProtectionRest
    [] matrix = "api_testing" -> ApiTestingRest
    [] matrix = "app_protection" -> AppProtectionRest
    [] matrix = "client_access" -> ClientAccessRest
    [] matrix = "header_manipulation" -> HeaderManipulationRest
    [] matrix = "jwt_graphql" -> JwtGraphqlRest
    [] matrix = "origin_pool" -> OriginPoolRest
    [] matrix = "service_policy" -> ServicePolicyRest
    [] matrix = "service_policy_action" -> ServicePolicyActionRest
    [] matrix = "service_policy_matcher" -> ServicePolicyMatcherRest
    [] matrix = "service_policy_matcher2" -> ServicePolicyMatcher2Rest
    [] matrix = "service_policy_ref_matcher" -> ServicePolicyRefMatcherRest
    [] matrix = "service_policy_request" -> ServicePolicyRequestRest
    [] matrix = "waf_exclusion" -> WafExclusionRest
    [] matrix = "challenge" -> ChallengeVariants
    [] matrix = "csd" -> CsdVariants
    [] matrix = "custom_routes" -> CustomRoutesVariants
    [] matrix = "ddos" -> DdosVariants
    [] matrix = "healthcheck" -> HealthcheckVariants
    [] matrix = "lb_algorithm" -> LbAlgorithmVariants
    [] matrix = "route_object" -> RouteObjectVariants
    [] matrix = "waf_exclusion_policy" -> WafExclusionPolicyVariants

ByRows == {"waf", "api_definition", "api_discovery", "api_protection", "api_testing",
  "app_protection", "client_access", "header_manipulation", "jwt_graphql", "origin_pool",
  "service_policy", "service_policy_action", "service_policy_matcher", "service_policy_matcher2",
  "service_policy_ref_matcher", "service_policy_request", "waf_exclusion"}

(* The rows build() passes over: they set nothing, or no arm of the matrix. *)
Skips(matrix, v) ==
  CASE matrix \in {"app_protection", "client_access", "header_manipulation", "jwt_graphql",
                   "service_policy_matcher2", "service_policy_request"} ->
         \A name \in DOMAIN v : v[name] \in {"none", "omit", "off"}
    [] matrix = "service_policy_ref_matcher" -> v["asn"] = "none" /\ v["ip"] = "none"
    [] OTHER -> FALSE

-----------------------------------------------------------------------------
(* What Terraform makes of the variables: no detection settings and no     *)
(* discovery settings in the modes that do without, and no variable for    *)
(* the client matcher.                                                     *)
InForce(matrix, vars) ==
  LET Without(names) == {arm \in vars : arm[1] \notin names}
  IN  CASE matrix = "waf" /\ <<"waf_detection_mode", "default">> \in vars ->
             Without({"waf_violation_mode", "waf_staging_mode", "waf_suppression",
                      "waf_threat_campaigns", "waf_signature_accuracy",
                      "waf_attack_type_mode"})
        [] matrix = "api_discovery" /\ <<"api_discovery_choice", "disable">> \in vars ->
             {<<"api_discovery_choice", "disable">>}
        [] matrix = "api_protection" -> Without({"client_matcher"})
        [] OTHER -> vars

Alphabet ==
  <<"DISTRIBUTED", "LEAST_REQUEST", "LOCAL_ONLY", "LOCAL_PREFERRED",
    "RANDOM", "ROUND_ROBIN", "absent", "active", "add", "all_domains",
    "all_spec_endpoints", "allow", "allow_all", "any", "any_post",
    "any_server", "api_key", "asn", "attack", "basic_auth", "bearer_token",
    "blindfold", "block_all", "blocking", "bot", "both", "clear", "custom",
    "custom_list", "default", "deny", "deny_all", "detection_control",
    "disable", "disabled", "enable", "every_day", "every_month",
    "every_week", "exact", "exact_get", "false", "get", "high_medium",
    "high_medium_low", "intra", "ip", "ip_prefix", "ip_threat", "ip_waf",
    "item", "ja4", "keys", "lb", "list", "match", "matcher", "mixed",
    "monitoring", "name", "name_matcher", "new", "new_and_updated", "none",
    "off", "omit", "on", "one", "only_high", "ports", "post_delete",
    "prefix", "prefix_list", "present", "rate_limit", "regex", "remove",
    "report_paths", "rule_list", "selected", "selector", "signature",
    "skip", "specification", "standalone", "strict", "suffix", "timeouts",
    "true", "violation">>

(* Python's order of the values.                                           *)
Rank == [v \in {Alphabet[k] : k \in DOMAIN Alphabet} |-> CHOOSE k \in DOMAIN Alphabet : Alphabet[k] = v]
=============================================================================
