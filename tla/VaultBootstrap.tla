--------------------------- MODULE VaultBootstrap ---------------------------
(***************************************************************************)
(* vault-manager/main.go: the program an operator runs to initialise Vault *)
(* and to provision the PKI, the policies and the AppRole credentials of   *)
(* the platform services.  Each action is one step of main whose effect in *)
(* Vault survives the program; the program keeps nothing between runs and  *)
(* dies (log.Fatal) on the first call that fails.                          *)
(***************************************************************************)
EXTENDS Naturals, FiniteSets

CONSTANTS Services,     \* serviceNames
          SecretLife,   \* secret_id_ttl, in clock ticks
          MaxAborts     \* bound on runs that die half way

ASSUME BootstrapAssumption ==
    /\ IsFiniteSet(Services) /\ Services # {}
    /\ SecretLife \in Nat \ {0} /\ MaxAborts \in Nat

VARIABLES vault,    \* what Vault has stored
          boot,     \* the running vault-manager: its next step, flag and token
          kept,     \* the operator holds the printed unseal key and root token
          printed,  \* life left of the secret_ids printed last (0: none live)
          aborts    \* runs that have died

bootVars == <<vault, boot, kept, printed, aborts>>

Mounts == {"root", "intermediate"}

BootSteps == {"idle", "unseal", "handoff", "revoke", "mounts", "rootCA",
              "intermediateCA", "roles", "policies", "auth", "approles", "secrets"}

NotRunning == [step |-> "idle", secure |-> FALSE, token |-> "none"]

\* A Vault that has never been initialised, and no vault-manager running.
BootInit ==
    /\ vault = [initialized |-> FALSE, sealed |-> TRUE, root |-> "none",
                auth |-> FALSE, manager |-> FALSE, mounts |-> {}, ca |-> {},
                roles |-> {}, policies |-> {}, approles |-> {}]
    /\ boot = NotRunning
    /\ kept = FALSE /\ printed = 0 /\ aborts = 0

\* A call of the work client succeeds: Vault is unsealed, the token still good.
Authorized ==
    /\ ~vault.sealed
    /\ boot.token = "root" => vault.root = "live"

\* The root token can no longer be presented: it was revoked, or never seen.
LockedOut == vault.initialized /\ (vault.root # "live" \/ ~kept)

\* The step main takes with the work client in hand.
FirstStep(secure) == IF secure THEN "handoff" ELSE "mounts"

\* initializeVault: Vault creates its keys, sealed; main prints the unseal key
\* and the root token.  An answer that is lost takes both with it.
initializeVault(secure, answered) ==
    /\ boot.step = "idle" /\ ~vault.initialized
    /\ answered \/ aborts < MaxAborts
    /\ vault' = [vault EXCEPT !.initialized = TRUE, !.root = "live"]
    /\ kept' = answered
    /\ boot' = IF answered
               THEN [step |-> "unseal", secure |-> secure, token |-> "root"]
               ELSE boot
    /\ aborts' = IF answered THEN aborts ELSE aborts + 1
    /\ UNCHANGED printed

unsealVault ==
    /\ boot.step = "unseal"
    /\ vault' = [vault EXCEPT !.sealed = FALSE]
    /\ boot' = [boot EXCEPT !.step = FirstStep(boot.secure)]
    /\ UNCHANGED <<kept, printed, aborts>>

\* A later run: Vault is initialised, the root token comes from VAULT_ROOT_TOKEN
\* and nothing unseals Vault (on a sealed one the run dies at its first call).
\* Operators run it when no live secret_id is left.
Rerun(secure) ==
    /\ boot.step = "idle" /\ vault.initialized /\ kept /\ printed = 0
    /\ ~vault.sealed /\ vault.root = "live"
    /\ boot' = [step |-> FirstStep(secure), secure |-> secure, token |-> "root"]
    /\ UNCHANGED <<vault, kept, printed, aborts>>

\* switchToSecureClient up to the manager's login: AppRole auth, the manager's
\* policy and role, a secret_id and a token for it.
secureHandoff ==
    /\ boot.step = "handoff" /\ Authorized
    /\ vault' = [vault EXCEPT !.auth = TRUE, !.manager = TRUE]
    /\ boot' = [boot EXCEPT !.step = "revoke"]
    /\ UNCHANGED <<kept, printed, aborts>>

\* The root token revokes itself; the manager's token does the rest.
revokeRoot ==
    /\ boot.step = "revoke" /\ Authorized
    /\ vault' = [vault EXCEPT !.root = "revoked"]
    /\ boot' = [boot EXCEPT !.step = "mounts", !.token = "manager"]
    /\ UNCHANGED <<kept, printed, aborts>>

\* One step of provisioning: what it adds to Vault, and the step that follows.
Provision(step, next, stored) ==
    /\ boot.step = step /\ Authorized
    /\ vault' = stored
    /\ boot' = [boot EXCEPT !.step = next]
    /\ UNCHANGED <<kept, printed, aborts>>

\* Mutant: a mount that exists is mounted again, which Vault refuses.
ensurePKIMountAnew(m) ==
    /\ boot.step = "mounts" /\ Authorized
    /\ vault' = [vault EXCEPT !.mounts = @ \cup {m}]
    /\ boot' = IF m \in vault.mounts THEN NotRunning
               ELSE [boot EXCEPT !.step = IF vault'.mounts = Mounts THEN "rootCA" ELSE "mounts"]
    /\ UNCHANGED <<kept, printed, aborts>>

\* ensurePKIMount for one mount path; a mount that exists is left as it is.
ensurePKIMount(m) ==
    Provision("mounts", IF vault.mounts \cup {m} = Mounts THEN "rootCA" ELSE "mounts",
              [vault EXCEPT !.mounts = @ \cup {m}])

\* hasCACert
hasCACert(m) == m \in vault.ca

\* The first half of ensureRootAndIntermediateCA: a root CA is generated only
\* where there is none.
ensureRootCA ==
    Provision("rootCA", "intermediateCA",
              IF hasCACert("root") THEN vault ELSE [vault EXCEPT !.ca = @ \cup {"root"}])

\* The second half: CSR, signature by the root, set-signed.  Only set-signed
\* gives the mount a certificate; it needs the root CA to sign.
ensureIntermediateCA ==
    /\ hasCACert("root")
    /\ Provision("intermediateCA", "roles", [vault EXCEPT !.ca = @ \cup {"intermediate"}])

\* Mutant: the policies are left out.
ensureServicePKIRolesOnly(s) ==
    Provision("roles", IF vault.roles \cup {s} = Services THEN "auth" ELSE "roles",
              [vault EXCEPT !.roles = @ \cup {s}])

ensureServicePKIRoles(s) ==
    Provision("roles", IF vault.roles \cup {s} = Services THEN "policies" ELSE "roles",
              [vault EXCEPT !.roles = @ \cup {s}])

ensurePolicies(s) ==
    Provision("policies", IF vault.policies \cup {s} = Services THEN "auth" ELSE "policies",
              [vault EXCEPT !.policies = @ \cup {s}])

ensureAppRoleAuth ==
    Provision("auth", "approles", [vault EXCEPT !.auth = TRUE])

ensureAppRoles(s) ==
    Provision("approles", IF vault.approles \cup {s} = Services THEN "secrets" ELSE "approles",
              [vault EXCEPT !.approles = @ \cup {s}])

\* gatherSecrets and printSecrets: a new secret_id for every service, proved by
\* a login, then all of them printed at once.
gatherSecrets ==
    /\ boot.step = "secrets" /\ Authorized
    /\ vault.auth /\ Services \subseteq vault.approles
    /\ printed' = SecretLife
    /\ boot' = NotRunning
    /\ UNCHANGED <<vault, kept, aborts>>

\* A call is refused, Vault having been sealed meanwhile: the program dies.
bootRefused ==
    /\ boot.step \notin {"idle", "unseal"} /\ ~Authorized
    /\ boot' = NotRunning
    /\ UNCHANGED <<vault, kept, printed, aborts>>

\* The program dies at any other point: it crashes, or a call is not answered.
bootCrashes ==
    /\ boot.step # "idle" /\ aborts < MaxAborts
    /\ boot' = NotRunning
    /\ aborts' = aborts + 1
    /\ UNCHANGED <<vault, kept, printed>>

\* One step of a run of vault-manager that goes well.
bootStep ==
    \/ \E secure \in BOOLEAN : initializeVault(secure, TRUE) \/ Rerun(secure)
    \/ unsealVault \/ secureHandoff \/ revokeRoot
    \/ \E m \in Mounts : ensurePKIMount(m)
    \/ ensureRootCA \/ ensureIntermediateCA
    \/ \E s \in Services :
          ensureServicePKIRoles(s) \/ ensurePolicies(s) \/ ensureAppRoles(s)
    \/ ensureAppRoleAuth \/ gatherSecrets
=============================================================================
