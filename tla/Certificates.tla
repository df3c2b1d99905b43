---------------------------- MODULE Certificates ----------------------------
(***************************************************************************)
(* The scheduler's certificate from end to end: vault-manager provisions   *)
(* Vault and prints credentials, the operator configures the scheduler     *)
(* with them, its certificate manager logs in with them at every rotation. *)
(***************************************************************************)
EXTENDS VaultBootstrap, CertManager

CONSTANTS Self,         \* the service whose certificate manager is modelled
          MaxOutages,   \* bound on restarts of Vault
          MaxMishaps    \* bound on aborts, faults and outages together

ASSUME CertificatesAssumption ==
    Self \in Services /\ MaxOutages \in Nat /\ MaxMishaps \in Nat

VARIABLES outages

vars == <<vault, boot, kept, printed, aborts, disk, life, mgr, tls, hs, faults, outages>>

Init == BootInit /\ CertInit /\ outages = 0

mishapLeft == aborts + faults + outages < MaxMishaps

\* External: what Vault answers to a login with the configured secret_id, and to
\* a request for a certificate by the service's policy.
LoginAccepted == ~vault.sealed /\ mgr.secret > 0 /\ vault.auth /\ Self \in vault.approles
IssueAccepted ==
    ~vault.sealed /\ Self \in vault.roles \cap vault.policies /\ hasCACert("root")

\* External: a Vault that restarts comes back sealed; the operator unseals it
\* with the key printed when it was initialised.
VaultRestarts ==
    /\ vault.initialized /\ ~vault.sealed
    /\ outages < MaxOutages /\ mishapLeft
    /\ vault' = [vault EXCEPT !.sealed = TRUE]
    /\ outages' = outages + 1
    /\ UNCHANGED <<boot, kept, printed, aborts, certVars>>

OperatorUnseals ==
    /\ vault.initialized /\ vault.sealed /\ kept
    /\ boot.step # "unseal"
    /\ vault' = [vault EXCEPT !.sealed = FALSE]
    /\ UNCHANGED <<boot, kept, printed, aborts, certVars, outages>>

\* One tick ages the certificates, the timers and the secret_ids alike; a run of
\* vault-manager takes less than a tick.
Tick ==
    /\ boot.step = "idle" /\ certTick
    /\ printed' = less(printed)
    /\ UNCHANGED <<vault, boot, kept, aborts, outages>>

Boots == (bootStep \/ bootRefused) /\ UNCHANGED <<certVars, outages>>

BootFails ==
    /\ mishapLeft
    /\ \/ bootCrashes
       \/ \E secure \in BOOLEAN : initializeVault(secure, FALSE)
    /\ UNCHANGED <<certVars, outages>>

\* The manager's own steps.
Manages ==
    /\ \/ newVaultClient(LoginAccepted)
       \/ issueAndPersist(IssueAccepted)
       \/ \E f \in Files : writeAtomic(f)
    /\ UNCHANGED <<bootVars, outages>>

Starts == Start(printed) /\ UNCHANGED <<bootVars, outages>>
Restarts == Reconfigure(printed) /\ UNCHANGED <<bootVars, outages>>

ServiceFails ==
    /\ mishapLeft
    /\ Crash \/ \E f \in Files : writeFails(f)
    /\ UNCHANGED <<bootVars, outages>>

Handshake(h) == getConfig(h) /\ UNCHANGED <<bootVars, outages>>

Next ==
    \/ Boots \/ BootFails \/ VaultRestarts \/ OperatorUnseals
    \/ Starts \/ Manages \/ Restarts \/ ServiceFails
    \/ \E h \in Handshakes : Handshake(h)
    \/ Tick

Spec == Init /\ [][Next]_vars

\* The manager's goroutine and the clock run on; clients keep connecting; the
\* supervisor restarts the service; the operator unseals Vault, reruns
\* vault-manager when no live secret_id is left, and does not for ever hand out
\* what it prints only after it has expired (the strong fairness of restarts).
FairSpec ==
    /\ Spec
    /\ WF_vars(Boots) /\ WF_vars(OperatorUnseals)
    /\ WF_vars(Starts) /\ SF_vars(printed > 0 /\ Starts)
    /\ SF_vars(Restarts) /\ WF_vars(Manages)
    /\ \A h \in Handshakes : WF_vars(Handshake(h))
    /\ SF_vars(Tick)

----------------------------------------------------------------------------
\* Credentials that vault-manager has printed work: whatever crashes, seals and
\* reruns came before, a service that holds a live secret_id is refused neither
\* the login nor the certificate, except while Vault is sealed.
CredentialsWork ==
    printed > 0 \/ mgr.secret > 0 =>
        /\ vault.auth /\ Services \subseteq vault.approles
        /\ Services \subseteq vault.roles \cap vault.policies
        /\ hasCACert("root")

\* The service runs on a key that belongs to its certificate: a crash between
\* the renames of writeCertBundleAtomic is noticed at the next Start.  The one
\* exception is a rotation whose file write failed, until the next attempt.
RunsOnMatchingPair ==
    mgr.pc = "wait" /\ ~mgr.torn => disk.key = disk.cert /\ disk.ca # NoFile

\* A certificate under rotation expires only after every attempt in the last
\* fifth of its life has failed (fewer if the service was restarted late):
\* rotationLoop attempts at 80% and again after every MinWait, so the attempts
\* that failed are all that fit into what was left of its life at 80%.
ExpiryNeedsMisses ==
    mgr.pc # "down" /\ mgr.loop = "rotation" /\ life[disk.cert] = 0 =>
        (mgr.missed + 1) * MinWait >= mgr.entry

\* dynamicTLSProvider never takes a stale configuration for a current one: when
\* the modification times it has cached are those of the files, it serves the
\* certificate in the files, however renames and concurrent reloads interleaved.
CacheNeverStale ==
    tls.mtime = disk /\ tls.cached # NoFile => tls.cached = disk.cert

\* Handshakes keep being answered with a certificate that has not expired, as
\* long as the operator can still provision Vault with a root token.
KeepsServing ==
    []<>(LockedOut \/ (tls.cached \in Ids /\ life[tls.cached] > 0))
=============================================================================
