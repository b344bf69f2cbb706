----------------------------- MODULE PolicyDocs -----------------------------
(***************************************************************************)
(* The policy file of the customer: how the agent reads it and what it     *)
(* then allows an extension (azurelinuxagent/ga/policy/policy_engine.py).  *)
(*                                                                         *)
(* The file is [exists, isJson, policy].  In the document a value that is  *)
(* absent or null is None and one that is not of the type it should have   *)
(* is Bad; "others" tells whether an object has attributes that are not in *)
(* the schema.  Names are those of module GoalStateDocs: they differ in    *)
(* case, and a case-folded dictionary ignores that.                        *)
(***************************************************************************)
EXTENDS Integers, Sequences

CONSTANTS
    None, Bad,
    CanValidate \* is it a confidential VM with an OpenSSL that validates signatures?

(* _get_value with optional=True.                                          *)
ValueOr(value, default) == IF value = None THEN default ELSE value

(* FlexibleVersion.__lt__ on versions without tags: the shorter one is     *)
(* padded with zeros (x.y.0.0 is equivalent to x.y).                       *)
VersionLess(v, w) ==
    LET length == IF Len(v) < Len(w) THEN Len(w) ELSE Len(v)
        part(s, i) == IF i <= Len(s) THEN s[i] ELSE 0
    IN \E i \in 1..length : /\ part(v, i) < part(w, i)
                            /\ \A j \in 1..(i - 1) : part(v, j) = part(w, j)

MaxSupportedVersion == <<0, 1, 0>> \* _MAX_SUPPORTED_POLICY_VERSION

(* _parse_policy_version: required, of one to three numbers, not newer     *)
(* than what the agent supports.                                           *)
VersionIsInvalid(version) ==
    \/ version \in {None, Bad}
    \/ Len(version) \notin 1..3
    \/ VersionLess(MaxSupportedVersion, version)

(* _validate_signature_required and _get_boolean.                          *)
SignatureIsInvalid(required) == required = Bad \/ (required = TRUE /\ ~CanValidate)

(* _parse_extension.                                                       *)
ExtensionIsInvalid(item) ==
    item.policy \in {None, Bad} \/ item.policy.others \/ SignatureIsInvalid(item.policy.signature)

(* _parse_extensions: of two names that differ only in case the last one   *)
(* counts.                                                                 *)
ParseExtensions(items) ==
    LET names == {items[i].name.of : i \in DOMAIN items}
    IN [n \in names |->
           LET named == SelectSeq(items, LAMBDA x : x.name.of = n)
               policy == named[Len(named)].policy
           IN [signature |-> policy.signature, runtime |-> policy.runtime]]

(* _parse_extension_policies.                                              *)
NoExtensionPolicies == [others |-> FALSE, allowOnly |-> None, signature |-> None, extensions |-> None]

ExtensionPoliciesAreInvalid(p) ==
    \/ p = Bad
    \/ p.others \/ p.allowOnly = Bad \/ p.extensions = Bad
    \/ SignatureIsInvalid(p.signature)
    \/ \E i \in DOMAIN ValueOr(p.extensions, <<>>) : ExtensionIsInvalid(p.extensions[i])

(* _parse_policy, Bad if it raises an InvalidPolicyError.                  *)
ParsePolicy(doc) ==
    LET p == ValueOr(doc.extensionPolicies, NoExtensionPolicies)
    IN IF doc.others \/ VersionIsInvalid(doc.version) \/ ExtensionPoliciesAreInvalid(p) THEN Bad
       ELSE [allowOnly |-> ValueOr(p.allowOnly, FALSE),
             signature |-> ValueOr(p.signature, FALSE),
             extensions |-> ParseExtensions(ValueOr(p.extensions, <<>>))]

(* update_policy: None if policy is not enforced, Bad if the file is       *)
(* invalid.                                                                *)
UpdatePolicy(file) ==
    CASE ~file.exists -> None
      [] file.exists /\ (~file.isJson \/ file.policy = Bad) -> Bad
      [] file.exists /\ file.isJson /\ file.policy # Bad -> ParsePolicy(file.policy)

IndividualPolicy(policy, name) ==
    IF name.of \in DOMAIN policy.extensions THEN policy.extensions[name.of]
                                            ELSE [signature |-> None, runtime |-> None]

(* _should_allow_extension.                                                *)
ShouldAllowExtension(policy, name) == ~policy.allowOnly \/ name.of \in DOMAIN policy.extensions

(* should_enforce_signature_validation.                                    *)
ShouldEnforceSignature(policy, name) ==
    ValueOr(IndividualPolicy(policy, name).signature, policy.signature)

(* check_extension_policy: does it raise an error?                         *)
Rejects(policy, name, signed) ==
    /\ policy # None
    /\ \/ ~ShouldAllowExtension(policy, name)
       \/ ShouldEnforceSignature(policy, name) /\ ~signed

(* get_extension_runtime_policy: None if there should be no file, Bad if   *)
(* it raises an ExtensionRuntimePolicyError.                               *)
RuntimePolicy(policy, name, supportsPolicy) ==
    LET runtime == IndividualPolicy(policy, name).runtime
    IN CASE policy = None -> None
         [] policy # None /\ supportsPolicy -> ValueOr(runtime, "{}")
         [] policy # None /\ ~supportsPolicy /\ runtime # None -> Bad
         [] policy # None /\ ~supportsPolicy /\ runtime = None -> None

----------------------------------------------------------------------------
(* What the engine promises.                                               *)

(* The customer's item for a name, written in any case, is found, and its  *)
(* signatureRequired goes before that of all extensions.                   *)
IndividualGoesBeforeGlobal(file, name) ==
    LET policy == UpdatePolicy(file)
        items == ValueOr(file.policy.extensionPolicies.extensions, <<>>)
        mine == SelectSeq(items, LAMBDA x : x.name.of = name.of)
        required == IF mine # <<>> /\ mine[Len(mine)].policy.signature # None
                    THEN mine[Len(mine)].policy.signature
                    ELSE file.policy.extensionPolicies.signature = TRUE
    IN policy \notin {None, Bad} =>
          /\ Rejects(policy, name, FALSE)
                <=> \/ required
                    \/ mine = <<>> /\ file.policy.extensionPolicies.allowOnly = TRUE
          /\ Rejects(policy, name, TRUE)
                <=> mine = <<>> /\ file.policy.extensionPolicies.allowOnly = TRUE

(* Nothing in the file is ignored: if a signature is required somewhere,   *)
(* the VM can validate it, or the file is rejected as a whole.             *)
NoRequirementIsDropped(file) ==
    (/\ ~CanValidate
     /\ \/ file.policy.extensionPolicies.signature = TRUE
        \/ \E i \in DOMAIN ValueOr(file.policy.extensionPolicies.extensions, <<>>) :
              file.policy.extensionPolicies.extensions[i].policy.signature = TRUE)
        => UpdatePolicy(file) = Bad

(* A runtime policy reaches an extension that supports it, and an          *)
(* extension that does not is not run with one.                            *)
RuntimePolicyIsNotIgnored(file, name) ==
    LET policy == UpdatePolicy(file)
    IN policy \notin {None, Bad} =>
          LET runtime == IndividualPolicy(policy, name).runtime
          IN /\ RuntimePolicy(policy, name, TRUE) # None
             /\ runtime # None => /\ RuntimePolicy(policy, name, TRUE) = runtime
                                  /\ RuntimePolicy(policy, name, FALSE) = Bad
============================================================================
