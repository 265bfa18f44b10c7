---------------------------- MODULE SecretKinds -----------------------------
(***************************************************************************)
(* The kinds of the secret engines, told as in AuthKinds.  (The PKI        *)
(* engine's configuration, RandomSecret and VaultSecret have modules of     *)
(* their own.)                                                             *)
(***************************************************************************)
EXTENDS VaultKind

AzureSEConfig ==
    Fields({"subscriptionID", "tenantID", "clientID", "environment",
            "passwordPolicy", "rootPasswordTTL"}, {})

AzureSEConfigToMap ==
    [subscription_id |-> "subscriptionID", tenant_id |-> "tenantID",
     client_id |-> "clientID", client_secret |-> "@password",
     environment |-> "environment", password_policy |-> "passwordPolicy",
     root_password_ttl |-> "rootPasswordTTL"]

AzureSecretEngineConfigWebhook == Admission({"path"}, {"update"})

AzureSecretEngineConfigReconciler ==
    Follows("kubernetes.io/basic-auth", {"@username", "@password"}, TRUE)

AzureSecretEngineConfigCredentials ==
    Credentials(Sources, "any", "clientID", "@username", "blank")

AzureSecretEngineConfig ==
    [credentials |-> AzureSecretEngineConfigCredentials,
     writeOnly |-> {"client_secret"}] @@
    Kind(AzureSEConfig, AzureSEConfigToMap, {"path"}, TRUE,
         AzureSecretEngineConfigWebhook, AzureSecretEngineConfigReconciler)

AzureSERole ==
    Fields({"azureRoles", "azureGroups", "applicationObjectID", "persistApp",
            "TTL", "maxTTL", "permanentlyDelete", "signInAudience", "tags"},
           {})

AzureSERoleToMap ==
    [azure_roles |-> "azureRoles", azure_groups |-> "azureGroups",
     application_object_id |-> "applicationObjectID",
     persist_app |-> "persistApp", ttl |-> "TTL", max_ttl |-> "maxTTL",
     permanently_delete |-> "permanentlyDelete",
     sign_in_audience |-> "signInAudience", tags |-> "tags"]

AzureSecretEngineRoleWebhook == Admission({"path"}, {})

AzureSecretEngineRoleReconciler == Unwatched

AzureSecretEngineRole ==
    Kind(AzureSERole, AzureSERoleToMap, {"path", "name"}, TRUE,
         AzureSecretEngineRoleWebhook, AzureSecretEngineRoleReconciler)

DBSEConfig ==
    Fields({"pluginName", "pluginVersion", "verifyConnection",
            "passwordAuthentication", "passwordPolicy", "connectionURL",
            "username", "disableEscaping", "rootRotationStatements",
            "allowedRoles"},
           {"databaseSpecificConfig", "rootPasswordRotation"})

DBSEConfigToMap ==
    [plugin_name |-> "pluginName", plugin_version |-> "pluginVersion",
     verify_connection |-> "verifyConnection",
     allowed_roles |-> "allowedRoles",
     root_credentials_rotate_statements |-> "rootRotationStatements",
     password_policy |-> "passwordPolicy", connection_url |-> "connectionURL",
     username |-> "username",
     databaseSpecificConfig |-> "databaseSpecificConfig",
     disable_escaping |-> "disableEscaping", password |-> "@password"]

DatabaseSecretEngineConfigWebhook == Admission({"path"}, {"create", "update"})

DatabaseSecretEngineConfigReconciler ==
    Follows("kubernetes.io/basic-auth", {"@username", "@password"}, TRUE)

DatabaseSecretEngineConfigCredentials ==
    Credentials(Sources, "any", "username", "@username", "fails")

DatabaseSecretEngineConfig ==
    [credentials |-> DatabaseSecretEngineConfigCredentials,
     hidden |-> {"password"}, writeOnly |-> {"password"},
     optional |-> {"username", "databaseSpecificConfig"}] @@
    Kind(DBSEConfig, DBSEConfigToMap, {"path", "name"}, TRUE,
         DatabaseSecretEngineConfigWebhook,
         DatabaseSecretEngineConfigReconciler)

DBSERole ==
    Fields({"dBName"},
           {"defaultTTL", "maxTTL", "creationStatements",
            "revocationStatements", "rollbackStatements", "renewStatements"})

DBSERoleToMap ==
    [db_name |-> "dBName", default_ttl |-> "defaultTTL", max_ttl |-> "maxTTL",
     creation_statements |-> "creationStatements",
     revocation_statements |-> "revocationStatements",
     rollback_statements |-> "rollbackStatements",
     renew_statements |-> "renewStatements"]

DatabaseSecretEngineRoleWebhook == Admission({"path"}, {})

DatabaseSecretEngineRoleReconciler == Unwatched

DatabaseSecretEngineRole ==
    Kind(DBSERole, DBSERoleToMap, {"path", "name"}, TRUE,
         DatabaseSecretEngineRoleWebhook, DatabaseSecretEngineRoleReconciler)

DBSEStaticRole ==
    Fields({"dBName", "username", "credentialType"},
           {"rotationPeriod", "rotationStatements",
            "credentialConfig"})

DBSEStaticRoleToMap ==
    [db_name |-> "dBName", username |-> "username",
     rotation_period |-> "rotationPeriod",
     rotation_statements |-> "rotationStatements",
     credential_type |-> "credentialType",
     credential_config |-> "credentialConfig"]

DatabaseSecretEngineStaticRoleWebhook == Admission({"path"}, {})

DatabaseSecretEngineStaticRoleReconciler == Unwatched

DatabaseSecretEngineStaticRole ==
    [optional |-> {"credential_config"}] @@
    Kind(DBSEStaticRole, DBSEStaticRoleToMap, {"path", "name"}, TRUE,
         DatabaseSecretEngineStaticRoleWebhook,
         DatabaseSecretEngineStaticRoleReconciler)

GHConfig ==
    Fields({"gitHubAPIBaseURL"},
           {"applicationID"})

GHConfigToMap ==
    [app_id |-> "applicationID", prv_key |-> "@password",
     base_url |-> "gitHubAPIBaseURL"]

GitHubSecretEngineConfigWebhook == Admission({"path"}, {"create", "update"})

GitHubSecretEngineConfigReconciler ==
    Follows("kubernetes.io/ssh-auth", {"@password"}, FALSE)

GitHubSecretEngineConfigCredentials ==
    Credentials({"secret", "vaultSecret"}, "kubernetes.io/ssh-auth",
                "-", "-", "fails")

GitHubSecretEngineConfig ==
    [credentials |-> GitHubSecretEngineConfigCredentials,
     hidden |-> {"prv_key"}, writeOnly |-> {"prv_key"}] @@
    Kind(GHConfig, GHConfigToMap, {"path"}, FALSE,
         GitHubSecretEngineConfigWebhook, GitHubSecretEngineConfigReconciler)

PermissionSet ==
    Fields({"organizationName"},
           {"installationID", "repositories", "repositoriesIDs",
            "permissions"})

PermissionSetToMap ==
    [installation_id |-> "installationID", org_name |-> "organizationName",
     repositories |-> "repositories", repository_ids |-> "repositoriesIDs",
     permissions |-> "permissions"]

GitHubSecretEngineRoleWebhook == Admission({"path"}, {})

GitHubSecretEngineRoleReconciler == Unwatched

GitHubSecretEngineRole ==
    Kind(PermissionSet, PermissionSetToMap, {"path", "name"}, TRUE,
         GitHubSecretEngineRoleWebhook, GitHubSecretEngineRoleReconciler)

KubeSEConfig ==
    Fields({"kubernetesHost", "kubernetesCACert", "disableLocalCAJWT"}, {})

KubeSEConfigToMap ==
    [kubernetes_host |-> "kubernetesHost",
     kubernetes_ca_cert |-> "kubernetesCACert",
     service_account_jwt |-> "@password",
     disable_local_ca_jwt |-> "disableLocalCAJWT"]

\* ValidateCreate checks the source too, but the webhook is for updates only.
KubernetesSecretEngineConfigWebhook == Admission({"path"}, {"update"})

KubernetesSecretEngineConfigReconciler ==
    Follows("kubernetes.io/service-account-token", {"@password"}, FALSE)

KubernetesSecretEngineConfigCredentials ==
    Credentials({"secret", "vaultSecret"},
                "kubernetes.io/service-account-token", "-", "-", "fails")

KubernetesSecretEngineConfig ==
    [credentials |-> KubernetesSecretEngineConfigCredentials,
     hidden |-> {"service_account_jwt"},
     writeOnly |-> {"service_account_jwt"}] @@
    Kind(KubeSEConfig, KubeSEConfigToMap, {"path"}, TRUE,
         KubernetesSecretEngineConfigWebhook,
         KubernetesSecretEngineConfigReconciler)

KubeSERole ==
    Fields({"allowedKubernetesNamespaceSelector", "defaultAudiences",
            "serviceAccountName", "kubernetesRoleName", "kubernetesRoleType",
            "generateRoleRules", "nameTemplate"},
           {"allowedKubernetesNamespaces", "defaultTTL", "maxTTL",
            "extraAnnotations", "extraLabels"})

KubeSERoleToMap ==
    [allowed_kubernetes_namespaces |-> "allowedKubernetesNamespaces",
     allowed_kubernetes_namespace_selector |->
        "allowedKubernetesNamespaceSelector",
     token_max_ttl |-> "defaultTTL", token_default_ttl |-> "maxTTL",
     token_default_audiences |-> "defaultAudiences",
     service_account_name |-> "serviceAccountName",
     kubernetes_role_name |-> "kubernetesRoleName",
     kubernetes_role_type |-> "kubernetesRoleType",
     generated_role_rules |-> "generateRoleRules",
     name_template |-> "nameTemplate",
     extra_annotations |-> "extraAnnotations", extra_labels |-> "extraLabels"]

KubernetesSecretEngineRoleWebhook == Admission({"path"}, {})

KubernetesSecretEngineRoleReconciler == Unwatched

KubernetesSecretEngineRole ==
    Kind(KubeSERole, KubeSERoleToMap, {"path", "name"}, TRUE,
         KubernetesSecretEngineRoleWebhook,
         KubernetesSecretEngineRoleReconciler)

PKIRole ==
    Fields({"allowLocalhost", "allowedDomainsTemplate", "allowBareDomains",
            "allowSubdomains", "allowGlobDomains", "allowAnyName",
            "enforceHostnames", "allowIPSans", "allowedOtherSans",
            "serverFlag", "clientFlag", "codeSigningFlag",
            "emailProtectionFlag", "keyType", "useCSRCommonName",
            "useCSRSans", "ou", "organization", "country", "locality",
            "province", "streetAddress", "postalCode", "serialNumber",
            "generateLease", "noStore", "requireCn",
            "basicConstraintsValidForNonCa"},
           {"TTL", "maxTTL", "allowedDomains", "allowedURISans", "keyBits",
            "keyUsage", "extKeyUsage", "extKeyUsageOids", "policyIdentifiers",
            "notBeforeDuration"})

PKIRoleToMap ==
    [ttl |-> "TTL", max_ttl |-> "maxTTL",
     allow_localhost |-> "allowLocalhost",
     allowed_domains |-> "allowedDomains",
     allowed_domains_template |-> "allowedDomainsTemplate",
     allow_bare_domains |-> "allowBareDomains",
     allow_subdomains |-> "allowSubdomains",
     allow_glob_domains |-> "allowGlobDomains",
     allow_any_name |-> "allowAnyName",
     enforce_hostnames |-> "enforceHostnames",
     allow_ip_sans |-> "allowIPSans", allowed_uri_sans |-> "allowedURISans",
     allowed_other_sans |-> "allowedOtherSans", server_flag |-> "serverFlag",
     client_flag |-> "clientFlag", code_signing_flag |-> "codeSigningFlag",
     email_protection_flag |-> "emailProtectionFlag", key_type |-> "keyType",
     key_bits |-> "keyBits", key_usage |-> "keyUsage",
     ext_key_usage |-> "extKeyUsage",
     ext_key_usage_oids |-> "extKeyUsageOids",
     use_csr_common_name |-> "useCSRCommonName",
     use_csr_sans |-> "useCSRSans", ou |-> "ou",
     organization |-> "organization", country |-> "country",
     locality |-> "locality", province |-> "province",
     street_address |-> "streetAddress", postal_code |-> "postalCode",
     serial_number |-> "serialNumber", generate_lease |-> "generateLease",
     no_store |-> "noStore", require_cn |-> "requireCn",
     policy_identifiers |-> "policyIdentifiers",
     basic_constraints_valid_for_non_ca |-> "basicConstraintsValidForNonCa",
     not_before_duration |-> "notBeforeDuration"]

PKISecretEngineRoleWebhook == Admission({"path"}, {})

PKISecretEngineRoleReconciler == Unwatched

PKISecretEngineRole ==
    Kind(PKIRole, PKIRoleToMap, {"path", "name"}, TRUE,
         PKISecretEngineRoleWebhook, PKISecretEngineRoleReconciler)

QuayConfig ==
    Fields({"url", "caCertificate", "disableSslVerification"}, {})

QuayConfigToMap ==
    [url |-> "url", token |-> "@password", ca_certificate |-> "caCertificate",
     disable_ssl_verification |-> "disableSslVerification"]

QuaySecretEngineConfigWebhook == Admission({"path"}, {"create", "update"})

QuaySecretEngineConfigReconciler ==
    Follows("kubernetes.io/basic-auth", {"@password"}, TRUE)

QuaySecretEngineConfigCredentials ==
    Credentials(Sources, "any", "-", "-", "fails")

QuaySecretEngineConfig ==
    [credentials |-> QuaySecretEngineConfigCredentials,
     hidden |-> {"password"}, writeOnly |-> {"token"}] @@
    Kind(QuayConfig, QuayConfigToMap, {"path"}, FALSE,
         QuaySecretEngineConfigWebhook, QuaySecretEngineConfigReconciler)

QuayBaseRole ==
    Fields({"namespaceName", "teams", "repositories"},
           {"namespaceType", "createRepositories", "defaultPermission"})

QuayRole == QuayBaseRole @@ Fields({}, {"TTL", "maxTTL"})

QuayRoleToMap ==
    [namespace_type |-> "namespaceType", namespace_name |-> "namespaceName",
     create_repositories |-> "createRepositories",
     default_permission |-> "defaultPermission",
     teams |-> "teams", repositories |-> "repositories", ttl |-> "TTL",
     max_ttl |-> "maxTTL"]

QuaySecretEngineRoleWebhook == Admission({"path"}, {})

QuaySecretEngineRoleReconciler == Unwatched

QuaySecretEngineRole ==
    [optional |-> {"default_permission", "teams", "repositories"}] @@
    Kind(QuayRole, QuayRoleToMap, {"path", "name"}, TRUE,
         QuaySecretEngineRoleWebhook, QuaySecretEngineRoleReconciler)

QuayBaseRoleToMap ==
    [namespace_type |-> "namespaceType", namespace_name |-> "namespaceName",
     create_repositories |-> "createRepositories",
     default_permission |-> "defaultPermission",
     teams |-> "teams", repositories |-> "repositories"]

QuaySecretEngineStaticRoleWebhook == Admission({"path"}, {})

QuaySecretEngineStaticRoleReconciler == Unwatched

QuaySecretEngineStaticRole ==
    [optional |-> {"default_permission", "teams", "repositories"}] @@
    Kind(QuayBaseRole, QuayBaseRoleToMap, {"path", "name"}, TRUE,
         QuaySecretEngineStaticRoleWebhook,
         QuaySecretEngineStaticRoleReconciler)

RMQSEConfig ==
    Fields({"connectionURI", "username", "verifyConnection", "passwordPolicy",
            "usernameTemplate"},
           {"leaseTTL", "leaseMaxTTL"})

RMQSEConfigToMap ==
    [connection_uri |-> "connectionURI",
     verify_connection |-> "verifyConnection", username |-> "username",
     password |-> "@password", username_template |-> "usernameTemplate",
     password_policy |-> "passwordPolicy"]

\* The lease of the engine, at an address of its own.
RMQSEConfigLeases == [ttl |-> "leaseTTL", max_ttl |-> "leaseMaxTTL"]

\* The handler that would refuse another path is registered with the server,
\* but no webhook configuration names it: the API server never calls it.
RabbitMQSecretEngineConfigWebhook == Admission({}, {})

RabbitMQSecretEngineConfigReconciler == [Unwatched EXCEPT !.loop = "rabbitmq"]

RabbitMQSecretEngineConfigCredentials ==
    Credentials(Sources, "any", "username", "@username", "fails")

RabbitMQSecretEngineConfig ==
    [lease |-> RMQSEConfigLeases,
     credentials |-> RabbitMQSecretEngineConfigCredentials,
     writeOnly |-> {"password"}] @@
    Kind(RMQSEConfig, RMQSEConfigToMap, {"path"}, FALSE,
         RabbitMQSecretEngineConfigWebhook,
         RabbitMQSecretEngineConfigReconciler)

\* Of the lists of vhosts and topics: the last member, and the others.
RMQSERole ==
    Fields({"tags", "lastVhost", "lastVhostTopic"},
           {"otherVhosts", "otherVhostTopics"})

\* Each turn of the loop makes a new map: the last vhost is what is left.
convertVhostsToJson == "lastVhost"

convertTopicsToJson == "lastVhostTopic"

RMQSERoleToMap ==
    [tags |-> "tags", vhosts |-> convertVhostsToJson,
     vhost_topics |-> convertTopicsToJson]

RabbitMQSecretEngineRoleWebhook == Admission({"path"}, {})

RabbitMQSecretEngineRoleReconciler == Unwatched

RabbitMQSecretEngineRole ==
    Kind(RMQSERole, RMQSERoleToMap, {"path", "name"}, TRUE,
         RabbitMQSecretEngineRoleWebhook, RabbitMQSecretEngineRoleReconciler)

SecretKindsTable ==
    [AzureSecretEngineConfig |-> AzureSecretEngineConfig,
     AzureSecretEngineRole |-> AzureSecretEngineRole,
     DatabaseSecretEngineConfig |-> DatabaseSecretEngineConfig,
     DatabaseSecretEngineRole |-> DatabaseSecretEngineRole,
     DatabaseSecretEngineStaticRole |-> DatabaseSecretEngineStaticRole,
     GitHubSecretEngineConfig |-> GitHubSecretEngineConfig,
     GitHubSecretEngineRole |-> GitHubSecretEngineRole,
     KubernetesSecretEngineConfig |-> KubernetesSecretEngineConfig,
     KubernetesSecretEngineRole |-> KubernetesSecretEngineRole,
     PKISecretEngineRole |-> PKISecretEngineRole,
     QuaySecretEngineConfig |-> QuaySecretEngineConfig,
     QuaySecretEngineRole |-> QuaySecretEngineRole,
     QuaySecretEngineStaticRole |-> QuaySecretEngineStaticRole,
     RabbitMQSecretEngineConfig |-> RabbitMQSecretEngineConfig,
     RabbitMQSecretEngineRole |-> RabbitMQSecretEngineRole]
=============================================================================
