----------------------------- MODULE OtherKinds -----------------------------
(***************************************************************************)
(* The mounts, the identity groups and the policies, told as in AuthKinds. *)
(***************************************************************************)
EXTENDS VaultKind

AuthMount ==
    Fields({"description", "type", "local", "sealwrap"}, {})

AuthMountConfig ==
    Fields({"defaultLeaseTTL", "maxLeaseTTL", "listingVisibility",
            "tokenType"},
           {"auditNonHMACRequestKeys", "auditNonHMACResponseKeys",
            "passthroughRequestHeaders", "allowedResponseHeaders", "options",
            "description"})

AuthMountConfigToMap ==
    [default_lease_ttl |-> "config.defaultLeaseTTL",
     max_lease_ttl |-> "config.maxLeaseTTL",
     audit_non_hmac_request_keys |-> "config.auditNonHMACRequestKeys",
     audit_non_hmac_response_keys |-> "config.auditNonHMACResponseKeys",
     listing_visibility |-> "config.listingVisibility",
     passthrough_request_headers |-> "config.passthroughRequestHeaders",
     allowed_response_headers |-> "config.allowedResponseHeaders",
     token_type |-> "config.tokenType", description |-> "config.description",
     options |-> "config.options"]

AuthMountToMap ==
    [type |-> "type", description |-> "description", local |-> "local",
     seal_wrap |-> "sealwrap"] @@ Nested(AuthMountConfigToMap)

AuthEngineMountWebhook == Admission({"path"} \cup DOMAIN AuthMount, {})

AuthEngineMountReconciler == [Unwatched EXCEPT !.loop = "engine"]

AuthEngineMount ==
    [tune |-> Nested(AuthMountConfigToMap)] @@
    Kind(AuthMount @@ Nested(AuthMountConfig), AuthMountToMap,
         {"path", "name"}, TRUE,
         AuthEngineMountWebhook, AuthEngineMountReconciler)

Mount ==
    Fields({"type", "description", "local", "sealWrap",
            "externalEntropyAccess"}, {"options"})

MountConfig ==
    Fields({"defaultLeaseTTL", "maxLeaseTTL", "forceNoCache",
            "listingVisibility"},
           {"auditNonHMACRequestKeys", "auditNonHMACResponseKeys",
            "passthroughRequestHeaders", "allowedResponseHeaders"})

MountConfigToMap ==
    [default_lease_ttl |-> "config.defaultLeaseTTL",
     max_lease_ttl |-> "config.maxLeaseTTL",
     force_no_cache |-> "config.forceNoCache",
     audit_non_hmac_request_keys |-> "config.auditNonHMACRequestKeys",
     audit_non_hmac_response_keys |-> "config.auditNonHMACResponseKeys",
     listing_visibility |-> "config.listingVisibility",
     passthrough_request_headers |-> "config.passthroughRequestHeaders",
     allowed_response_headers |-> "config.allowedResponseHeaders"]

MountToMap ==
    [type |-> "type", description |-> "description", local |-> "local",
     seal_wrap |-> "sealWrap",
     external_entropy_access |-> "externalEntropyAccess",
     options |-> "options"] @@ Nested(MountConfigToMap)

SecretEngineMountWebhook == Admission({"path"} \cup DOMAIN Mount, {})

SecretEngineMountReconciler == [Unwatched EXCEPT !.loop = "engine"]

SecretEngineMount ==
    [tune |-> Nested(MountConfigToMap)] @@
    Kind(Mount @@ Nested(MountConfig), MountToMap, {"path", "name"}, TRUE,
         SecretEngineMountWebhook, SecretEngineMountReconciler)

GroupConfig ==
    Fields({"type"},
           {"metadata", "policies", "memberGroupIDs", "memberEntityIDs"})

GroupSpecToMap ==
    [type |-> "type", metadata |-> "metadata", policies |-> "policies",
     member_group_ids |-> "memberGroupIDs",
     member_entity_ids |-> "memberEntityIDs"]

GroupWebhook == Admission({}, {})

GroupReconciler == Unwatched

Group ==
    [optional |-> {"member_group_ids", "member_entity_ids"},
     switch |-> "type"] @@
    Kind(GroupConfig, GroupSpecToMap, {"name"}, TRUE,
         GroupWebhook, GroupReconciler)

GroupAliasConfig ==
    Fields({"authEngineMountPath", "groupName", "name"}, {})

GroupAliasSpecToMap ==
    [name |-> "name", id |-> "@id", mount_accessor |-> "authEngineMountPath",
     canonical_id |-> "groupName"]

GroupAliasWebhook == Admission({}, {})

GroupAliasReconciler == Unwatched

GroupAlias ==
    Kind(GroupAliasConfig, GroupAliasSpecToMap, {}, TRUE,
         GroupAliasWebhook, GroupAliasReconciler)

PolicySpec ==
    Fields({"policy", "type"}, {})

PolicyPayload ==
    [policy |-> "policy"]

PolicyWebhook == Admission({}, {})

PolicyReconciler == Unwatched

Policy ==
    Kind(PolicySpec, PolicyPayload, {"type", "name"}, TRUE,
         PolicyWebhook, PolicyReconciler)

PasswordPolicySpec ==
    Fields({"passwordPolicy"}, {})

PasswordPolicyPayload ==
    [policy |-> "passwordPolicy"]

PasswordPolicyWebhook == Admission({}, {})

PasswordPolicyReconciler == Unwatched

PasswordPolicy ==
    Kind(PasswordPolicySpec, PasswordPolicyPayload, {"name"}, TRUE,
         PasswordPolicyWebhook, PasswordPolicyReconciler)

OtherKindsTable ==
    [AuthEngineMount |-> AuthEngineMount,
     SecretEngineMount |-> SecretEngineMount,
     Group |-> Group,
     GroupAlias |-> GroupAlias,
     Policy |-> Policy,
     PasswordPolicy |-> PasswordPolicy]
=============================================================================
