------------------------------- MODULE Config -------------------------------
(***************************************************************************)
(* What a process of the gateway makes of its environment, its key store   *)
(* and the committed federation.json.  An environment, a key store and a   *)
(* group of the manifest are functions whose domain is what is set (an     *)
(* empty variable counts as not set).                                      *)
(***************************************************************************)
EXTENDS Integers, Sequences

SecretName == {"VIZ_SIGNING_WIF", "GRAM_SIGNER_MNEMONIC", "SOLANA_SIGNER_SECRET",
               "VIZ_MEMO_WIF_GRAM", "VIZ_MEMO_WIF_SOLANA"}

\* manifest.accounts and manifest.gram: any of these may be pinned.
PinName == {"VIZ_GATEWAY_ACCOUNT_GRAM", "VIZ_GATEWAY_ACCOUNT_SOLANA", "FEES_GATE_ACCOUNT",
            "GRAM_MULTISIG_ADDRESS", "GRAM_JETTON_MINTER_ADDRESS", "GRAM_GATEWAY_JETTON_WALLET",
            "GRAM_FROZEN_MILLIVIZ"}

\* manifest.fees: there with its four mandatory fields or not at all.
FeeName == {"FEE_FLOOR_MILLI_VIZ", "FEE_BPS", "FEE_ACTIVATION_SOLANA_MILLI_VIZ",
            "MINT_GAS_FLOOR_MILLI_VIZ", "GRAM_MINT_GAS_TON", "GRAM_WALLET_DEPLOY_GAS_TON",
            "FEE_MARGIN", "FEE_GRAM_VIZ_PER_TON", "REFUND_FEE_MILLI_VIZ"}
FeeOptional == {"GRAM_MINT_GAS_TON", "GRAM_WALLET_DEPLOY_GAS_TON", "FEE_MARGIN",
                "FEE_GRAM_VIZ_PER_TON", "REFUND_FEE_MILLI_VIZ"}

CONSTANTS
    Default   \* Default[name]: the default in loadConfig, of every variable

opt(env, name, dflt) == IF name \in DOMAIN env THEN env[name] ELSE dflt

-----------------------------------------------------------------------------
(* Secrets. *)

\* openKeystore: a wrong passphrase or a changed file fails the tag.
openKeystore(box, passphrase) == box.passphrase = passphrase /\ ~box.tampered

\* hydrateKeystore: what is set stays, the key store fills in the rest.
hydrate(env, secrets) ==
    [name \in DOMAIN env \cup (DOMAIN secrets \cap SecretName) |-> opt(env, name, secrets[name])]

\* No key store, or one that opens.
keystoreReady(keystore, passphrase) ==
    keystore = <<>> \/ (passphrase # "" /\ openKeystore(keystore[1], passphrase))

-----------------------------------------------------------------------------
(* The federation. *)

\* parseManifest.  (Whether ids differ is not asked.)
parseManifest(file) ==
    /\ Len(file.operators) = file.n
    /\ file.threshold >= 1 /\ file.threshold <= file.n
    /\ file.hasFees => FeeName \ FeeOptional \subseteq DOMAIN file.fees

\* FEDERATION_N and FEDERATION_THRESHOLD are checked even if a manifest
\* overrides them; without one the operators are op-1, op-2, ...
federation(env, files) ==
    IF files # <<>> THEN files[1]
    ELSE [n |-> opt(env, "FEDERATION_N", 1), threshold |-> opt(env, "FEDERATION_THRESHOLD", 1),
          operators |-> [i \in 1..opt(env, "FEDERATION_N", 1) |-> <<"op", i>>],
          pins |-> [name \in {} |-> 0], fees |-> [name \in {} |-> 0], hasFees |-> FALSE]

federationAccepted(env, files) ==
    /\ opt(env, "FEDERATION_THRESHOLD", 1) >= 1
    /\ opt(env, "FEDERATION_THRESHOLD", 1) <= opt(env, "FEDERATION_N", 1)
    /\ files # <<>> => parseManifest(files[1])

-----------------------------------------------------------------------------
(* Settings.  What every operator has to agree on: the manifest first. *)

pinned(env, fed, name) ==
    IF name \in DOMAIN fed.pins THEN fed.pins[name] ELSE opt(env, name, Default[name])

\* A manifest with fees has a value for each, its own default included.
feeSetting(env, fed, name) ==
    IF fed.hasFees THEN opt(fed.fees, name, Default[name]) ELSE opt(env, name, Default[name])

\* What an operator chooses: the environment first.
chosen(env, fed, name, shared) == opt(env, name, IF shared # <<>> THEN shared[1] ELSE Default[name])

\* What its signer validates against (SourceCheck's constants).
consensus(env, fed) ==
    [accounts |-> [name \in PinName |-> pinned(env, fed, name)],
     fees |-> [name \in FeeName |-> feeSetting(env, fed, name)]]

\* GatewayAccounts: both accounts, and not one for both chains.
accountsAccepted(env, fed) ==
    LET gram == pinned(env, fed, "VIZ_GATEWAY_ACCOUNT_GRAM")
        solana == pinned(env, fed, "VIZ_GATEWAY_ACCOUNT_SOLANA")
    IN  gram # "" /\ solana # "" /\ gram # solana

-----------------------------------------------------------------------------
(* Time budgets. *)

approvePegIn(env) ==
    opt(env, "SIGNER_APPROVE_TIMEOUT_PEG_IN_MS", opt(env, "SIGNER_APPROVE_TIMEOUT_MS", 180000))
approvePegOut(env) ==
    opt(env, "SIGNER_APPROVE_TIMEOUT_PEG_OUT_MS", opt(env, "SIGNER_APPROVE_TIMEOUT_MS", 30000))

pegInOrchestrationBudget(env, fed) == fed.n * approvePegIn(env) + 120000

signingTimeoutPegIn(env, fed) ==
    opt(env, "DISPATCHER_SIGNING_TIMEOUT_PEG_IN_MS",
        opt(env, "DISPATCHER_SIGNING_TIMEOUT_MS", pegInOrchestrationBudget(env, fed)))
signingTimeoutPegOut(env) ==
    opt(env, "DISPATCHER_SIGNING_TIMEOUT_PEG_OUT_MS", opt(env, "DISPATCHER_SIGNING_TIMEOUT_MS", 180000))
submitTimeout(env, fed) ==
    opt(env, "DISPATCHER_SUBMIT_TIMEOUT_MS",
        opt(env, "DISPATCHER_SIGNING_TIMEOUT_MS", pegInOrchestrationBudget(env, fed)))
=============================================================================
