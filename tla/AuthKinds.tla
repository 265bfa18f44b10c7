----------------------------- MODULE AuthKinds ------------------------------
(***************************************************************************)
(* The kinds of the auth engines: configurations, roles and groups.  For   *)
(* each kind, in this order: the struct of its spec, toMap (Vault's key |-> *)
(* the field), its webhook, what its controller follows, where credentials  *)
(* come from, and the kind.                                                *)
(***************************************************************************)
EXTENDS VaultKind

AzureConfig ==
    Fields({"tenantID", "resource", "environment", "clientID"},
           {"maxRetries", "maxRetryDelay", "retryDelay"})

AzureConfigToMap ==
    [tenant_id |-> "tenantID", resource |-> "resource",
     environment |-> "environment", client_id |-> "clientID",
     client_secret |-> "@password", max_retries |-> "maxRetries",
     max_retry_delay |-> "maxRetryDelay", retry_delay |-> "retryDelay"]

AzureAuthEngineConfigWebhook == Admission({"path"}, {})

AzureAuthEngineConfigReconciler ==
    Follows("kubernetes.io/basic-auth", {"@username", "@password"}, TRUE)

AzureAuthEngineConfigCredentials ==
    Credentials(Sources, "any", "clientID", "@username", "blank")

AzureAuthEngineConfig ==
    [credentials |-> AzureAuthEngineConfigCredentials,
     writeOnly |-> {"client_secret"}] @@
    Kind(AzureConfig, AzureConfigToMap, {"path"}, TRUE,
         AzureAuthEngineConfigWebhook, AzureAuthEngineConfigReconciler)

AzureRole ==
    Fields({"tokenTTL", "tokenMaxTTL", "tokenExplicitMaxTTL",
            "tokenNoDefaultPolicy", "tokenType"},
           {"boundServicePrincipalIDs", "boundGroupIDs", "boundLocations",
            "boundSubscriptionIDs", "boundResourceGroups", "boundScaleSets",
            "tokenPolicies", "policies", "tokenBoundCIDRs", "tokenNumUses",
            "tokenPeriod"})

AzureRoleToMap ==
    [name |-> "name",
     bound_service_principal_ids |-> "boundServicePrincipalIDs",
     bound_group_ids |-> "boundGroupIDs",
     bound_locations |-> "boundLocations",
     bound_subscription_ids |-> "boundSubscriptionIDs",
     bound_resource_groups |-> "boundResourceGroups",
     bound_scale_sets |-> "boundScaleSets", token_ttl |-> "tokenTTL",
     token_max_ttl |-> "tokenMaxTTL", token_policies |-> "tokenPolicies",
     policies |-> "policies", token_bound_cidrs |-> "tokenBoundCIDRs",
     token_explicit_max_ttl |-> "tokenExplicitMaxTTL",
     token_no_default_policy |-> "tokenNoDefaultPolicy",
     token_num_uses |-> "tokenNumUses", token_period |-> "tokenPeriod",
     token_type |-> "tokenType"]

AzureAuthEngineRoleWebhook == Admission({}, {})

AzureAuthEngineRoleReconciler == Unwatched

AzureAuthEngineRole ==
    Kind(AzureRole, AzureRoleToMap, {"path", "name"}, TRUE,
         AzureAuthEngineRoleWebhook, AzureAuthEngineRoleReconciler)

CertAuthEngineConfigInternal ==
    Fields({"disableBinding", "enableIdentityAliasMetadata"},
           {"ocspCacheSize", "roleCacheSize"})

CertAuthEngineConfigInternalToMap ==
    [disable_binding |-> "disableBinding",
     enable_identity_alias_metadata |-> "enableIdentityAliasMetadata",
     ocsp_cache_size |-> "ocspCacheSize", role_cache_size |-> "roleCacheSize"]

CertAuthEngineConfigWebhook == Admission({"path", "name"}, {})

CertAuthEngineConfigReconciler == Unwatched

CertAuthEngineConfig ==
    Kind(CertAuthEngineConfigInternal, CertAuthEngineConfigInternalToMap,
         {"path", "name"}, TRUE,
         CertAuthEngineConfigWebhook, CertAuthEngineConfigReconciler)

CertAuthEngineRoleInternal ==
    Fields({"certificate", "ocspEnabled", "ocspCACertificates",
            "ocspFailOpen", "ocspThisUpdateMaxAge", "ocspQueryAllServers",
            "displayName", "tokenTTL", "tokenMaxTTL", "tokenExplicitMaxTTL",
            "tokenNoDefaultPolicy", "tokenPeriod", "tokenType"},
           {"allowedCommonNames", "allowedDNSSANs", "allowedEmailSANs",
            "allowedURISANs", "allowedOrganizationalUnits",
            "requiredExtensions", "allowedMetadataExtensions",
            "ocspServersOverride", "ocspMaxRetries", "tokenPolicies",
            "tokenBoundCIDRs", "tokenNumUses"})

CertAuthEngineRoleInternalToMap ==
    [certificate |-> "certificate",
     allowed_common_names |-> "allowedCommonNames",
     allowed_dns_sans |-> "allowedDNSSANs",
     allowed_email_sans |-> "allowedEmailSANs",
     allowed_uri_sans |-> "allowedURISANs",
     allowed_organizational_units |-> "allowedOrganizationalUnits",
     required_extensions |-> "requiredExtensions",
     allowed_metadata_extensions |-> "allowedMetadataExtensions",
     ocsp_enabled |-> "ocspEnabled",
     ocsp_ca_certificates |-> "ocspCACertificates",
     ocsp_servers_override |-> "ocspServersOverride",
     ocsp_fail_open |-> "ocspFailOpen",
     ocsp_this_update_max_age |-> "ocspThisUpdateMaxAge",
     ocsp_max_retries |-> "ocspMaxRetries",
     ocsp_query_all_servers |-> "ocspQueryAllServers",
     display_name |-> "displayName", token_ttl |-> "tokenTTL",
     token_max_ttl |-> "tokenMaxTTL", token_policies |-> "tokenPolicies",
     token_bound_cidrs |-> "tokenBoundCIDRs",
     token_explicit_max_ttl |-> "tokenExplicitMaxTTL",
     token_no_default_policy |-> "tokenNoDefaultPolicy",
     token_num_uses |-> "tokenNumUses", token_period |-> "tokenPeriod",
     token_type |-> "tokenType"]

CertAuthEngineRoleWebhook == Admission({"path", "name"}, {})

CertAuthEngineRoleReconciler == Unwatched

CertAuthEngineRole ==
    Kind(CertAuthEngineRoleInternal, CertAuthEngineRoleInternalToMap,
         {"path", "name"}, TRUE,
         CertAuthEngineRoleWebhook, CertAuthEngineRoleReconciler)

GCPConfig ==
    Fields({"serviceAccount", "IAMalias", "IAMmetadata", "GCEalias",
            "GCEmetadata"}, {"customEndpoint"})

GCPConfigToMap ==
    [credentials |-> "@password", iam_alias |-> "IAMalias",
     iam_metadata |-> "IAMmetadata", gce_alias |-> "GCEalias",
     gce_metadata |-> "GCEmetadata", custom_endpoint |-> "customEndpoint"]

GCPAuthEngineConfigWebhook == Admission({"path"}, {})

GCPAuthEngineConfigReconciler ==
    Follows("kubernetes.io/basic-auth", {"@password"}, TRUE)

GCPAuthEngineConfigCredentials ==
    Credentials(Sources, "any", "-", "-", "blank")

GCPAuthEngineConfig ==
    [credentials |-> GCPAuthEngineConfigCredentials,
     writeOnly |-> {"credentials"}] @@
    Kind(GCPConfig, GCPConfigToMap, {"path"}, FALSE,
         GCPAuthEngineConfigWebhook, GCPAuthEngineConfigReconciler)

GCPRole ==
    Fields({"type", "addGroupAliases", "tokenTTL", "tokenMaxTTL",
            "tokenExplicitMaxTTL", "tokenNoDefaultPolicy", "tokenType",
            "maxJWTExp", "allowGCEInference"},
           {"boundServiceAccounts", "boundProjects", "tokenPolicies",
            "policies", "tokenBoundCIDRs", "tokenNumUses", "tokenPeriod",
            "boundZones", "boundRegions", "boundInstanceGroups",
            "boundLabels"})

GCPRoleToMap ==
    [name |-> "name", type |-> "type",
     bound_service_accounts |-> "boundServiceAccounts",
     bound_projects |-> "boundProjects",
     add_group_aliases |-> "addGroupAliases", token_ttl |-> "tokenTTL",
     token_max_ttl |-> "tokenMaxTTL", token_policies |-> "tokenPolicies",
     policies |-> "policies", token_bound_cidrs |-> "tokenBoundCIDRs",
     token_explicit_max_ttl |-> "tokenExplicitMaxTTL",
     token_no_default_policy |-> "tokenNoDefaultPolicy",
     token_num_uses |-> "tokenNumUses", token_period |-> "tokenPeriod",
     token_type |-> "tokenType", max_jwt_exp |-> "maxJWTExp",
     allow_gce_inference |-> "allowGCEInference",
     bound_zones |-> "boundZones", bound_regions |-> "boundRegions",
     bound_instance_groups |-> "boundInstanceGroups",
     bound_labels |-> "boundLabels"]

GCPAuthEngineRoleWebhook == Admission({}, {})

GCPAuthEngineRoleReconciler == Unwatched

GCPAuthEngineRole ==
    Kind(GCPRole, GCPRoleToMap, {"path", "name"}, TRUE,
         GCPAuthEngineRoleWebhook, GCPAuthEngineRoleReconciler)

JWTOIDCConfig ==
    Fields({"OIDCDiscoveryURL", "OIDCDiscoveryCAPEM", "OIDCClientID",
            "OIDCResponseMode", "JWKSURL", "JWKSCAPEM", "boundIssuer",
            "defaultRole", "namespaceInState"},
           {"OIDCResponseTypes", "JWTValidationPubKeys", "JWTSupportedAlgs",
            "providerConfig"})

JWTOIDCConfigToMap ==
    [oidc_discovery_url |-> "OIDCDiscoveryURL",
     oidc_discovery_ca_pem |-> "OIDCDiscoveryCAPEM",
     oidc_client_id |-> "OIDCClientID", oidc_client_secret |-> "@password",
     oidc_response_mode |-> "OIDCResponseMode",
     oidc_response_types |-> "OIDCResponseTypes", jwks_url |-> "JWKSURL",
     jwks_ca_pem |-> "JWKSCAPEM",
     jwt_validation_pubkeys |-> "JWTValidationPubKeys",
     bound_issuer |-> "boundIssuer",
     jwt_supported_algs |-> "JWTSupportedAlgs",
     default_role |-> "defaultRole", provider_config |-> "providerConfig",
     namespace_in_state |-> "namespaceInState"]

JWTOIDCAuthEngineConfigWebhook == Admission({"path"}, {})

JWTOIDCAuthEngineConfigReconciler ==
    Follows("kubernetes.io/basic-auth", {"@username", "@password"}, TRUE)

JWTOIDCAuthEngineConfigCredentials ==
    Credentials(Sources, "any", "OIDCClientID", "@username", "blank")

JWTOIDCAuthEngineConfig ==
    [credentials |-> JWTOIDCAuthEngineConfigCredentials,
     writeOnly |-> {"oidc_client_secret"}] @@
    Kind(JWTOIDCConfig, JWTOIDCConfigToMap, {"path"}, FALSE,
         JWTOIDCAuthEngineConfigWebhook, JWTOIDCAuthEngineConfigReconciler)

JWTOIDCRole ==
    Fields({"roleType", "userClaim", "userClaimJSONPointer", "boundSubject",
            "boundClaimsType", "groupsClaim", "verboseOIDCLogging",
            "tokenTTL", "tokenMaxTTL", "tokenExplicitMaxTTL",
            "tokenNoDefaultPolicy", "tokenType"},
           {"boundAudiences", "clockSkewLeeway", "expirationLeeway",
            "notBeforeLeeway", "boundClaims", "claimMappings", "OIDCScopes",
            "allowedRedirectURIs", "maxage", "tokenPolicies",
            "tokenBoundCIDRs", "tokenNumUses", "tokenPeriod"})

JWTOIDCRoleToMap ==
    [name |-> "name", role_type |-> "roleType",
     bound_audiences |-> "boundAudiences", user_claim |-> "userClaim",
     user_claim_json_pointer |-> "userClaimJSONPointer",
     clock_skew_leeway |-> "clockSkewLeeway",
     expiration_leeway |-> "expirationLeeway",
     not_before_leeway |-> "notBeforeLeeway",
     bound_subject |-> "boundSubject", bound_claims |-> "boundClaims",
     bound_claims_type |-> "boundClaimsType", groups_claim |-> "groupsClaim",
     claim_mappings |-> "claimMappings", oidc_scopes |-> "OIDCScopes",
     allowed_redirect_uris |-> "allowedRedirectURIs",
     verbose_oidc_logging |-> "verboseOIDCLogging", max_age |-> "maxage",
     token_ttl |-> "tokenTTL", token_max_ttl |-> "tokenMaxTTL",
     token_policies |-> "tokenPolicies",
     token_bound_cidrs |-> "tokenBoundCIDRs",
     token_explicit_max_ttl |-> "tokenExplicitMaxTTL",
     token_no_default_policy |-> "tokenNoDefaultPolicy",
     token_num_uses |-> "tokenNumUses", token_period |-> "tokenPeriod",
     token_type |-> "tokenType"]

JWTOIDCAuthEngineRoleWebhook == Admission({}, {})

JWTOIDCAuthEngineRoleReconciler == Unwatched

JWTOIDCAuthEngineRole ==
    Kind(JWTOIDCRole, JWTOIDCRoleToMap, {"path", "name"}, TRUE,
         JWTOIDCAuthEngineRoleWebhook, JWTOIDCAuthEngineRoleReconciler)

KAECConfig ==
    Fields({"kubernetesHost", "kubernetesCACert", "issuer",
            "disableISSValidation", "disableLocalCAJWT", "useOperatorPodCA",
            "useAnnotationsAsAliasMetadata"},
           {"PEMKeys"})

KAECConfigToMap ==
    [kubernetes_host |-> "kubernetesHost",
     kubernetes_ca_cert |-> "kubernetesCACert",
     token_reviewer_jwt |-> "@reviewer", pem_keys |-> "PEMKeys",
     issuer |-> "issuer", disable_iss_validation |-> "disableISSValidation",
     disable_local_ca_jwt |-> "disableLocalCAJWT",
     use_annotations_as_alias_metadata |-> "useAnnotationsAsAliasMetadata"]

KubernetesAuthEngineConfigWebhook == Admission({"path"}, {})

KubernetesAuthEngineConfigReconciler == Unwatched

KubernetesAuthEngineConfig ==
    [writeOnly |-> {"token_reviewer_jwt"}] @@
    Kind(KAECConfig, KAECConfigToMap, {"path", "name"}, FALSE,
         KubernetesAuthEngineConfigWebhook,
         KubernetesAuthEngineConfigReconciler)

VRole ==
    Fields({"aliasNameSource", "tokenNoDefaultPolicy", "tokenType"},
           {"targetServiceAccounts", "audience", "tokenTTL", "policies",
            "tokenMaxTTL", "tokenBoundCIDRs", "tokenExplicitMaxTTL",
            "tokenNumUses", "tokenPeriod"})

VRoleToMap ==
    [bound_service_account_names |-> "targetServiceAccounts",
     bound_service_account_namespaces |-> "targetNamespaces",
     alias_name_source |-> "aliasNameSource", audience |-> "audience",
     token_ttl |-> "tokenTTL", token_max_ttl |-> "tokenMaxTTL",
     token_policies |-> "policies", token_bound_cidrs |-> "tokenBoundCIDRs",
     token_explicit_max_ttl |-> "tokenExplicitMaxTTL",
     token_no_default_policy |-> "tokenNoDefaultPolicy",
     token_num_uses |-> "tokenNumUses", token_period |-> "tokenPeriod",
     token_type |-> "tokenType"]

KubernetesAuthEngineRoleWebhook ==
    Admission({"path"}, {"create", "update"})

KubernetesAuthEngineRoleReconciler == [Unwatched EXCEPT !.namespaces = TRUE]

KubernetesAuthEngineRoleCredentials ==
    Credentials({"selector"}, "any", "targetNamespaces", "@namespaces", "spec")

KubernetesAuthEngineRole ==
    [credentials |-> KubernetesAuthEngineRoleCredentials,
     optional |-> {"audience"}] @@
    Kind(VRole @@ ("targetNamespaces" :> FALSE), VRoleToMap,
         {"path", "name"}, TRUE,
         KubernetesAuthEngineRoleWebhook, KubernetesAuthEngineRoleReconciler)

LDAPConfig ==
    Fields({"url", "caseSensitiveNames", "requestTimeout", "startTLS",
            "TLSMinVersion", "TLSMaxVersion", "insecureTLS", "certificate",
            "clientTLSCert", "clientTLSKey", "bindDN", "userDN", "userAttr",
            "discoverDN", "denyNullBind", "UPNDomain", "userFilter",
            "anonymousGroupSearch", "groupFilter", "groupDN", "groupAttr",
            "usernameAsAlias", "tokenTTL", "tokenMaxTTL", "tokenPolicies",
            "tokenBoundCIDRs", "tokenExplicitMaxTTL", "tokenNoDefaultPolicy",
            "tokenType"},
           {"tokenNumUses", "tokenPeriod"})

LDAPConfigToMap ==
    [url |-> "url", case_sensitive_names |-> "caseSensitiveNames",
     request_timeout |-> "requestTimeout", starttls |-> "startTLS",
     tls_min_version |-> "TLSMinVersion", tls_max_version |-> "TLSMaxVersion",
     insecure_tls |-> "insecureTLS", certificate |-> "certificate",
     client_tls_cert |-> "clientTLSCert", client_tls_key |-> "clientTLSKey",
     binddn |-> "bindDN", bindpass |-> "@password", userdn |-> "userDN",
     userattr |-> "userAttr", discoverdn |-> "discoverDN",
     deny_null_bind |-> "denyNullBind", upndomain |-> "UPNDomain",
     userfilter |-> "userFilter",
     anonymous_group_search |-> "anonymousGroupSearch",
     groupfilter |-> "groupFilter", groupdn |-> "groupDN",
     groupattr |-> "groupAttr", username_as_alias |-> "usernameAsAlias",
     token_ttl |-> "tokenTTL", token_max_ttl |-> "tokenMaxTTL",
     token_policies |-> "tokenPolicies",
     token_bound_cidrs |-> "tokenBoundCIDRs",
     token_explicit_max_ttl |-> "tokenExplicitMaxTTL",
     token_no_default_policy |-> "tokenNoDefaultPolicy",
     token_num_uses |-> "tokenNumUses", token_period |-> "tokenPeriod",
     token_type |-> "tokenType"]

LDAPAuthEngineConfigWebhook == Admission({"path"}, {})

LDAPAuthEngineConfigReconciler ==
    Follows("kubernetes.io/basic-auth", {"@username", "@password"}, TRUE)

LDAPAuthEngineConfigCredentials ==
    Credentials(Sources, "any", "bindDN", "@username", "fails")

LDAPAuthEngineConfig ==
    [credentials |-> LDAPAuthEngineConfigCredentials,
     hidden |-> {"bindpass"}, writeOnly |-> {"bindpass"}] @@
    Kind(LDAPConfig, LDAPConfigToMap, {"path"}, FALSE,
         LDAPAuthEngineConfigWebhook, LDAPAuthEngineConfigReconciler)

LDAPAuthEngineGroupSpec ==
    Fields({"policies"}, {})

LDAPAuthEngineGroupToMap ==
    [name |-> "name", policies |-> "policies"]

LDAPAuthEngineGroupWebhook == Admission({}, {})

LDAPAuthEngineGroupReconciler == Unwatched

LDAPAuthEngineGroup ==
    Kind(LDAPAuthEngineGroupSpec, LDAPAuthEngineGroupToMap,
         {"path", "name"}, TRUE,
         LDAPAuthEngineGroupWebhook, LDAPAuthEngineGroupReconciler)

AuthKindsTable ==
    [AzureAuthEngineConfig |-> AzureAuthEngineConfig,
     AzureAuthEngineRole |-> AzureAuthEngineRole,
     CertAuthEngineConfig |-> CertAuthEngineConfig,
     CertAuthEngineRole |-> CertAuthEngineRole,
     GCPAuthEngineConfig |-> GCPAuthEngineConfig,
     GCPAuthEngineRole |-> GCPAuthEngineRole,
     JWTOIDCAuthEngineConfig |-> JWTOIDCAuthEngineConfig,
     JWTOIDCAuthEngineRole |-> JWTOIDCAuthEngineRole,
     KubernetesAuthEngineConfig |-> KubernetesAuthEngineConfig,
     KubernetesAuthEngineRole |-> KubernetesAuthEngineRole,
     LDAPAuthEngineConfig |-> LDAPAuthEngineConfig,
     LDAPAuthEngineGroup |-> LDAPAuthEngineGroup]
=============================================================================
