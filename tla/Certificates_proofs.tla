------------------------ MODULE Certificates_proofs ------------------------
(***************************************************************************)
(* Proofs for any services, lifetimes, certificates and handshakes, and    *)
(* any number of crashes, outages and reruns. First, the credentials that  *)
(* vault-manager prints work: the invariant records what each step of main *)
(* rests on. Vault forgets nothing, so a step that is reached finds the    *)
(* earlier ones done, whichever run did them; and without the root token   *)
(* nothing is printed any more. Then, of the certificate                   *)
(* manager: the pair on disk matches, a certificate expires only after     *)
(* missed attempts, and the TLS provider never serves a stale one.         *)
(***************************************************************************)
EXTENDS Certificates, TLAPS

\* Most leaves are first-order: Zenon is tried unless a leaf names another prover.
USE Zenon

VaultType ==
    [initialized : BOOLEAN, sealed : BOOLEAN, root : {"none", "live", "revoked"}, auth : BOOLEAN,
     manager : BOOLEAN, mounts : SUBSET Mounts, ca : SUBSET Mounts, roles : SUBSET Services,
     policies : SUBSET Services, approles : SUBSET Services]

BootType == [step : BootSteps, secure : BOOLEAN, token : {"none", "root", "manager"}]

RolesDone == Services \subseteq vault.roles /\ "root" \in vault.ca
PoliciesDone == RolesDone /\ Services \subseteq vault.policies
Provisioned == PoliciesDone /\ vault.auth /\ Services \subseteq vault.approles

\* What main can rely on when it is at a step.
Reached ==
    /\ boot.step \in {"intermediateCA", "roles"} => "root" \in vault.ca
    /\ boot.step = "policies" => RolesDone
    /\ boot.step = "auth" => PoliciesDone
    /\ boot.step = "approles" => PoliciesDone /\ vault.auth
    /\ boot.step = "secrets" => Provisioned

Holder == {"secret", "loop"} \subseteq DOMAIN mgr /\ mgr.secret \in Nat
          /\ mgr.loop \in {"start", "rotation", "recovery"}

ProvisionInv ==
    /\ vault \in VaultType /\ boot \in BootType /\ printed \in Nat
    /\ Reached /\ Holder
    /\ printed > 0 \/ mgr.secret > 0 => Provisioned

\* Vault only ever gains roles, policies, mounts and certificates.
Grows ==
    /\ vault.auth => vault'.auth
    /\ vault.ca \subseteq vault'.ca /\ vault.roles \subseteq vault'.roles
    /\ vault.policies \subseteq vault'.policies /\ vault.approles \subseteq vault'.approles

\* What a step of vault-manager must keep.
BootKept ==
    /\ vault' \in VaultType /\ boot' \in BootType /\ printed' \in Nat /\ Reached' /\ Grows
    /\ printed' > 0 => printed > 0 \/ Provisioned

\* Every step of vault-manager, its refusals and its deaths.
LEMMA BootKeeps ==
    ASSUME ProvisionInv, bootStep \/ bootRefused \/ bootCrashes
                         \/ \E secure \in BOOLEAN : initializeVault(secure, FALSE)
    PROVE  BootKept
<1> USE BootstrapAssumption
        DEF BootKept, ProvisionInv, Reached, Grows, RolesDone, PoliciesDone, Provisioned,
            VaultType, BootType, BootSteps
<1>1. ASSUME NEW secure \in BOOLEAN, NEW answered \in BOOLEAN, initializeVault(secure, answered)
      PROVE  BootKept
    BY <1>1 DEF initializeVault
<1>2. ASSUME NEW secure \in BOOLEAN, Rerun(secure) PROVE BootKept
    BY <1>2 DEF Rerun, FirstStep
<1>3. CASE unsealVault
    BY <1>3 DEF unsealVault, FirstStep
<1>4. CASE secureHandoff
    BY <1>4 DEF secureHandoff
<1>5. CASE revokeRoot
    BY <1>5 DEF revokeRoot
<1>6. CASE bootRefused \/ bootCrashes
    <2>1. boot' = NotRunning /\ UNCHANGED <<vault, printed>>
        BY <1>6 DEF bootRefused, bootCrashes
    <2> QED BY <2>1 DEF NotRunning
<1>7. CASE ensureRootCA
    BY <1>7 DEF ensureRootCA, Provision, hasCACert, Mounts
<1>8. CASE ensureIntermediateCA
    BY <1>8 DEF ensureIntermediateCA, Provision, hasCACert, Mounts
<1>9. CASE ensureAppRoleAuth
    BY <1>9 DEF ensureAppRoleAuth, Provision
<1>10. ASSUME NEW m \in Mounts, ensurePKIMount(m) PROVE BootKept
    BY <1>10 DEF ensurePKIMount, Provision
<1>11. ASSUME NEW s \in Services, ensureServicePKIRoles(s) PROVE BootKept
    BY <1>11 DEF ensureServicePKIRoles, Provision
<1>12. ASSUME NEW s \in Services, ensurePolicies(s) PROVE BootKept
    BY <1>12 DEF ensurePolicies, Provision
<1>13. ASSUME NEW s \in Services, ensureAppRoles(s) PROVE BootKept
    BY <1>13 DEF ensureAppRoles, Provision
<1>14. CASE gatherSecrets
    BY <1>14 DEF gatherSecrets, NotRunning
<1> QED BY <1>1, <1>2, <1>3, <1>4, <1>5, <1>6, <1>7, <1>8, <1>9, <1>10, <1>11, <1>12, <1>13, <1>14
        DEF bootStep

\* The manager gets its secret_id from what was printed, and only time takes it away.
SecretKept == Holder' /\ (mgr'.secret > 0 => mgr.secret > 0 \/ printed > 0)

\* A failed attempt of the certificate manager learns no secret_id.
LEMMA FailedAttemptKeeps ==
    ASSUME ProvisionInv, NEW torn, attemptFailed(torn) PROVE SecretKept
<1> USE DEF ProvisionInv, Holder, SecretKept
<1>1. CASE mgr.loop = "start" /\ manualCertAvailable
    BY <1>1 DEF attemptFailed
<1>2. CASE mgr.loop = "start" /\ ~manualCertAvailable
    BY <1>2, SMT DEF attemptFailed, Stopped
<1>3. CASE mgr.loop = "recovery"
    BY <1>3 DEF attemptFailed
<1>4. CASE mgr.loop = "rotation"
    BY <1>4 DEF attemptFailed
<1> QED BY <1>1, <1>2, <1>3, <1>4

\* Every step of the service.
LEMMA ServiceKeeps ==
    ASSUME ProvisionInv,
           \/ Start(printed) \/ Reconfigure(printed) \/ Crash \/ certTick
           \/ newVaultClient(LoginAccepted) \/ issueAndPersist(IssueAccepted)
           \/ \E f \in Files : writeAtomic(f) \/ writeFails(f)
           \/ \E h \in Handshakes : getConfig(h)
    PROVE  SecretKept
<1> USE DEF ProvisionInv, Holder, SecretKept
<1>1. CASE Start(printed)
    BY <1>1 DEF Start, rotating, Stopped
<1>2. CASE Reconfigure(printed) \/ Crash
    BY <1>2, SMT DEF Reconfigure, Crash, stop, Stopped
<1>3. CASE certTick
    BY <1>3, SMT DEF certTick, less
<1>4. CASE newVaultClient(LoginAccepted)
    BY <1>4, FailedAttemptKeeps DEF newVaultClient
<1>5. CASE issueAndPersist(IssueAccepted)
    BY <1>5, FailedAttemptKeeps DEF issueAndPersist
<1>6. ASSUME NEW f \in Files, writeAtomic(f) PROVE SecretKept
    BY <1>6 DEF writeAtomic, rotating, Files
<1>7. ASSUME NEW f \in Files, writeFails(f) PROVE SecretKept
    BY <1>7, FailedAttemptKeeps DEF writeFails
<1>8. ASSUME NEW h \in Handshakes, getConfig(h) PROVE SecretKept
    BY <1>8 DEF getConfig, statCert, statKey, statCA, loadCert, loadKey, install, Reading
<1> QED BY <1>1, <1>2, <1>3, <1>4, <1>5, <1>6, <1>7, <1>8

\* Steps of vault-manager, of the service, of Vault and of the clock.
LEMMA ProvisionKeeps == ProvisionInv /\ [Next]_vars => ProvisionInv'
<1> SUFFICES ASSUME ProvisionInv, [Next]_vars PROVE ProvisionInv'
    OBVIOUS
<1>1. ASSUME BootKept, UNCHANGED mgr PROVE ProvisionInv'
    BY <1>1 DEF ProvisionInv, BootKept, Grows, Holder, Provisioned, PoliciesDone, RolesDone
<1>2. ASSUME SecretKept, UNCHANGED <<vault, boot>>, printed' = printed \/ printed' = less(printed)
      PROVE  ProvisionInv'
    <2>1. printed' \in Nat /\ (printed' > 0 => printed > 0)
        BY <1>2, SMT DEF ProvisionInv, less
    <2>2. Reached' /\ (Provisioned => Provisioned')
        BY <1>2 DEF ProvisionInv, Reached, Provisioned, PoliciesDone, RolesDone
    <2> QED BY <1>2, <2>1, <2>2 DEF ProvisionInv, SecretKept
<1>3. CASE Boots \/ BootFails
    <2>1. UNCHANGED mgr
        BY <1>3 DEF Boots, BootFails, certVars
    <2>2. bootStep \/ bootRefused \/ bootCrashes \/ \E secure \in BOOLEAN : initializeVault(secure, FALSE)
        BY <1>3 DEF Boots, BootFails
    <2> QED BY <1>1, <2>1, <2>2, BootKeeps
<1>4. CASE VaultRestarts \/ OperatorUnseals
    <2>1. /\ UNCHANGED <<boot, printed, mgr>>
          /\ \E sealed \in BOOLEAN : vault' = [vault EXCEPT !.sealed = sealed]
        BY <1>4 DEF VaultRestarts, OperatorUnseals, certVars
    <2> QED BY <2>1 DEF ProvisionInv, VaultType, Reached, Holder, Provisioned, PoliciesDone, RolesDone
<1>5. CASE Starts \/ Manages \/ Restarts \/ ServiceFails \/ \E h \in Handshakes : Handshake(h)
    <2>1. UNCHANGED <<vault, boot, printed>>
        BY <1>5 DEF Starts, Manages, Restarts, ServiceFails, Handshake, bootVars
    <2>2. SecretKept
        BY <1>5, ServiceKeeps DEF Starts, Manages, Restarts, ServiceFails, Handshake
    <2> QED BY <1>2, <2>1, <2>2
<1>6. CASE Tick
    <2>1. certTick /\ printed' = less(printed) /\ UNCHANGED <<vault, boot>>
        BY <1>6 DEF Tick
    <2> QED BY <1>2, <2>1, ServiceKeeps
<1>7. CASE UNCHANGED vars
    BY <1>7 DEF vars, ProvisionInv, Reached, Holder, Provisioned, PoliciesDone, RolesDone
<1> QED BY <1>3, <1>4, <1>5, <1>6, <1>7 DEF Next

\* An empty Vault, no vault-manager running and the service down.
LEMMA ProvisionBegins == Init => ProvisionInv
BY SMT DEF Init, BootInit, CertInit, ProvisionInv, VaultType, BootType, BootSteps, NotRunning, Reached,
       Holder, Stopped, Mounts

\* For any services and lifetimes, and any crashes, outages and reruns: a service that
\* holds a live secret_id finds its AppRole, its policy, its role and a root CA in Vault.
THEOREM PrintedCredentialsWork == Spec => []CredentialsWork
<1>1. ProvisionInv => CredentialsWork
    BY DEF ProvisionInv, CredentialsWork, Provisioned, PoliciesDone, RolesDone, hasCACert
<1> QED BY <1>1, ProvisionBegins, ProvisionKeeps, PTL DEF Spec

\* An operator who cannot present the root token, with no run of vault-manager under
\* way, stays so, and no secret_id is issued any more: those printed only age.
LockedOutForGood ==
    [][LockedOut /\ boot.step = "idle" => /\ LockedOut' /\ boot'.step = "idle"
                                          /\ printed' <= printed]_vars

\* main starts from VAULT_ROOT_TOKEN or from an uninitialised Vault: a run that died
\* after revokeRoot, or whose answer to the initialisation was lost, is never made up
\* for. The liveness of KeepsServing can therefore not be had without its exception.
THEOREM LockedOutStays == Spec => LockedOutForGood
<1> DEFINE Out == LockedOut /\ boot.step = "idle"
<1>1. ProvisionInv /\ [Next]_vars =>
          (LockedOut /\ boot.step = "idle" => LockedOut' /\ boot'.step = "idle" /\ printed' <= printed)
    <2> SUFFICES ASSUME ProvisionInv, [Next]_vars, Out
                 PROVE  Out' /\ printed' <= printed
        OBVIOUS
    <2>1. /\ vault.initialized /\ (vault.root # "live" \/ ~kept)
          /\ boot.step = "idle" /\ vault \in VaultType /\ printed \in Nat
        BY DEF LockedOut, ProvisionInv
    <2>2. ~(Boots \/ BootFails)
        BY <2>1 DEF LockedOut, Boots, BootFails, bootStep, bootRefused, bootCrashes, initializeVault, Rerun, unsealVault,
           secureHandoff, revokeRoot, ensurePKIMount, ensureRootCA, ensureIntermediateCA,
           ensureServicePKIRoles, ensurePolicies, ensureAppRoles, ensureAppRoleAuth, Provision, gatherSecrets
    <2>3. CASE VaultRestarts \/ OperatorUnseals
        <3>1. /\ UNCHANGED <<boot, printed, kept>>
              /\ \E sealed \in BOOLEAN : vault' = [vault EXCEPT !.sealed = sealed]
            BY <2>3 DEF VaultRestarts, OperatorUnseals
        <3>2. vault'.initialized = vault.initialized /\ vault'.root = vault.root
            BY <2>1, <3>1 DEF VaultType
        <3>3. Out'
            BY <3>1, <3>2 DEF LockedOut
        <3>4. printed' <= printed
            BY <2>1, <3>1, SMT
        <3> QED BY <3>3, <3>4
    <2>4. CASE Tick \/ UNCHANGED <<vault, boot, kept, printed>>
        <3>1. UNCHANGED <<vault, boot, kept>> /\ (printed' = printed \/ printed' = less(printed))
            BY <2>4 DEF Tick
        <3>2. Out'
            BY <3>1 DEF LockedOut
        <3>3. printed' <= printed
            BY <2>1, <3>1, SMT DEF less
        <3> QED BY <3>2, <3>3
    <2>5. \/ Boots \/ BootFails \/ VaultRestarts \/ OperatorUnseals
          \/ Tick \/ UNCHANGED <<vault, boot, kept, printed>>
        BY DEF Next, Starts, Manages, Restarts, ServiceFails, Handshake, bootVars, vars
    <2> QED BY <2>2, <2>3, <2>4, <2>5
<1> QED BY <1>1, ProvisionBegins, ProvisionKeeps, PTL DEF Spec, LockedOutForGood

----------------------------------------------------------------------------
(* The certificate manager and the TLS provider *)

Pcs == {"down", "login", "wait", "issue"} \union Files
Loops == {"start", "recovery", "rotation"}
MgrFields ==
    {"pc", "loop", "wait", "current", "new", "secret", "torn", "entry", "missed"}
Readers ==
    [pc : {"idle", "statKey", "statCA", "loadCert", "loadKey", "install"},
     stat : [Files -> Contents], cert : Contents]

ManagerType ==
    /\ disk \in [Files -> Contents] /\ life \in [Ids -> 0 .. Life]
    /\ DOMAIN mgr = MgrFields /\ mgr.pc \in Pcs /\ mgr.loop \in Loops
    /\ mgr.wait \in Nat /\ mgr.entry \in Nat /\ mgr.missed \in Nat
    /\ tls \in [cached : Contents, mtime : [Files -> Contents]]
    /\ hs \in [Handshakes -> Readers]

\* How far the renames of writeCertBundleAtomic have come.
RenameInv ==
    /\ mgr.pc \in Files => mgr.new \in Ids /\ life[mgr.new] = Life
    /\ mgr.pc \in {"key", "cert"} => disk.cert # mgr.new
    /\ mgr.pc = "cert" => disk.key = mgr.new
    /\ mgr.pc = "ca" => disk.key = mgr.new /\ disk.cert = mgr.new

\* A loop that has not torn the files attempts with a pair that matches.
PairInv ==
    /\ mgr.pc = "wait" => mgr.loop # "start"
    /\ mgr.pc = "login" => mgr.loop = "start"
    /\ mgr.loop # "start" /\ mgr.pc \in {"wait", "issue", "key"} /\ ~mgr.torn
         => disk.key = disk.cert /\ disk.ca # NoFile

monus(m, n) == IF m <= n THEN 0 ELSE m - n

\* The certificate in the files is at least as young as the manager's. What will be
\* left of the manager's at the next attempt, and the attempts that failed, make up
\* for what was left when the attempts began.
MissInv ==
    mgr.pc # "down" /\ mgr.loop = "rotation" =>
        /\ disk.cert \in Ids /\ mgr.current \in Ids /\ life[mgr.current] <= life[disk.cert]
        /\ mgr.entry <= RenewLeft + MinWait
        /\ mgr.pc # "wait" => mgr.wait = 0
        /\ monus(life[mgr.current], mgr.wait) + (mgr.missed + 1) * MinWait >= mgr.entry

\* The certificate file does not hold x, and will not while x is referred to.
Past(x) == x # disk.cert /\ (mgr.pc \in {"key", "cert"} => x # mgr.new)

\* A modification time that goes with another certificate is past.
CacheInv ==
    /\ tls.cached = NoFile \/ tls.cached = tls.mtime.cert \/ Past(tls.mtime.cert)
    /\ \A h \in Handshakes :
         /\ hs[h].pc # "idle" => hs[h].stat.cert = disk.cert \/ Past(hs[h].stat.cert)
         /\ hs[h].pc \in {"loadKey", "install"} =>
              hs[h].cert = hs[h].stat.cert \/ Past(hs[h].stat.cert)

ManagerInv == ManagerType /\ RenameInv /\ PairInv /\ MissInv /\ CacheInv

\* What is left at 80% of the validity is a time.
LEMMA RenewLeftType == RenewLeft \in Nat
BY CertAssumption, SMT DEF RenewLeft

\* The larger of two numbers.
LEMMA MaxOfTwo == ASSUME NEW a \in Nat, NEW b \in Nat PROVE Max({a, b}) = IF a >= b THEN a ELSE b
BY SMT DEF Max

\* The same for the smaller one.
LEMMA MinOfTwo == ASSUME NEW a \in Nat, NEW b \in Nat PROVE Min({a, b}) = IF a <= b THEN a ELSE b
BY SMT DEF Min

\* The wait ends at 80% of the validity, or after MinWait when that is nearer or past.
LEMMA WaitValue ==
    ASSUME NEW left \in Nat
    PROVE  rotationWait(left) = IF left > RenewLeft + MinWait THEN left - RenewLeft ELSE MinWait
<1>1. MinWait \in Nat /\ RenewLeft \in Nat
    BY CertAssumption, RenewLeftType
<1>2. (IF left > RenewLeft THEN left - RenewLeft ELSE 0) \in Nat
    BY <1>1, SMT
<1> QED BY <1>1, <1>2, MaxOfTwo, SMT DEF rotationWait

\* When rotation begins, the first attempt falls due before what is left runs out.
LEMMA MissesBegin ==
    ASSUME NEW left \in Nat
    PROVE  /\ rotationWait(left) \in Nat /\ Min({left, RenewLeft + MinWait}) \in Nat
           /\ Min({left, RenewLeft + MinWait}) <= RenewLeft + MinWait
           /\ monus(left, rotationWait(left)) + (0 + 1) * MinWait >= Min({left, RenewLeft + MinWait})
<1>1. MinWait \in Nat \ {0} /\ RenewLeft \in Nat /\ RenewLeft + MinWait \in Nat
    BY CertAssumption, RenewLeftType, SMT
<1>2. Min({left, RenewLeft + MinWait}) = IF left <= RenewLeft + MinWait THEN left ELSE RenewLeft + MinWait
    BY <1>1, MinOfTwo
<1> QED BY <1>1, <1>2, WaitValue, SMT DEF monus

\* One more attempt that failed makes up for the wait until the next.
LEMMA MissesGrow ==
    ASSUME NEW left \in Nat, NEW missed \in Nat, NEW entry \in Nat,
           entry <= RenewLeft + MinWait, left + (missed + 1) * MinWait >= entry
    PROVE  /\ Min({missed + 1, RenewLeft}) \in Nat
           /\ monus(left, rotationWait(left)) + (Min({missed + 1, RenewLeft}) + 1) * MinWait >= entry
<1>1. MinWait \in Nat \ {0} /\ RenewLeft \in Nat
    BY CertAssumption, RenewLeftType
<1> DEFINE next == Min({missed + 1, RenewLeft})
           rest == monus(left, rotationWait(left))
<1>2. next = IF missed + 1 <= RenewLeft THEN missed + 1 ELSE RenewLeft
    BY <1>1, MinOfTwo, SMT
<1>3. rest + MinWait >= left \/ rest = RenewLeft
    BY <1>1, WaitValue, SMT DEF monus
<1>4. rest \in Nat
    BY <1>1, WaitValue, SMT DEF monus
<1>5. \A n \in Nat : (n + 1) * MinWait = n * MinWait + MinWait /\ n * MinWait \in Nat
    BY <1>1, SMT
<1>6. \A n \in Nat : n * MinWait >= n
    <2> SUFFICES ASSUME NEW n \in Nat PROVE n * MinWait >= n
        OBVIOUS
    <2>1. PICK k \in Nat : MinWait = 1 + k
        <3>1. MinWait - 1 \in Nat /\ MinWait = 1 + (MinWait - 1)
            BY <1>1, SMT
        <3> QED BY <3>1
    <2>2. n * MinWait = n + n * k /\ n * k \in Nat
        BY <2>1, SMT
    <2> QED BY <2>2, SMT
<1> HIDE DEF next, rest
<1>7. next \in Nat
    BY <1>1, <1>2, SMT
<1>8. CASE next = RenewLeft
    <2>1. (next + 1) * MinWait = next * MinWait + MinWait /\ next * MinWait >= next
          /\ next * MinWait \in Nat
        BY <1>5, <1>6, <1>7
    <2> QED BY <1>1, <1>4, <1>7, <1>8, <2>1, SMT DEF next, rest
<1>9. CASE next = missed + 1
    <2>1. (next + 1) * MinWait = next * MinWait + MinWait /\ next * MinWait \in Nat
        BY <1>5, <1>7
    <2>2. next * MinWait = (missed + 1) * MinWait
        BY <1>9
    <2>3. rest + (next + 1) * MinWait >= entry
        BY <1>1, <1>3, <1>4, <2>1, <2>2, SMT
    <2> QED BY <1>7, <2>3 DEF next, rest
<1> QED BY <1>2, <1>8, <1>9

\* A tick takes as much from the wait as from the certificate.
LEMMA TickKeepsRest ==
    ASSUME NEW left \in Nat, NEW wait \in Nat, wait > 0
    PROVE  monus(less(left), less(wait)) = monus(left, wait)
BY SMT DEF monus, less

\* An id that is issued is not in use.
LEMMA NewIdIsFresh ==
    ASSUME freeId
    PROVE  /\ NewId \in Ids /\ NewId \notin Referenced
           /\ NewId # mgr.current /\ NewId # disk.cert /\ NewId # tls.mtime.cert
           /\ \A h \in Handshakes : NewId # hs[h].stat.cert
<1>1. NewId \in Ids /\ NewId \notin Referenced
    BY DEF freeId, NewId
<1>2. mgr.current \in Referenced
    BY DEF Referenced
<1>3. disk.cert \in Referenced /\ tls.mtime.cert \in Referenced
    BY "cert" \in Files DEF Referenced, Files
<1>4. ASSUME NEW h \in Handshakes PROVE hs[h].stat.cert \in Referenced
    BY "cert" \in Files, SMT DEF Referenced, Files
<1> QED BY <1>1, <1>2, <1>3, <1>4

\* The fields of the manager's record when rotation begins.
LEMMA RotatingFields ==
    ASSUME DOMAIN mgr = MgrFields, NEW c, NEW left
    PROVE  /\ DOMAIN rotating(c, left) = MgrFields
           /\ rotating(c, left).pc = "wait" /\ rotating(c, left).loop = "rotation"
           /\ rotating(c, left).current = c /\ rotating(c, left).wait = rotationWait(left)
           /\ rotating(c, left).missed = 0 /\ rotating(c, left).new = NoFile
           /\ rotating(c, left).entry = Min({left, RenewLeft + MinWait})
BY DEF rotating, MgrFields

\* An attempt that failed before, at or between the renames: a loop goes on with its
\* wait, a start falls back to the files or gives up. It notes torn files.
LEMMA FailKeeps ==
    ASSUME ManagerInv, NEW torn \in BOOLEAN, attemptFailed(torn), UNCHANGED <<disk, life, hs>>,
           mgr.pc # "down", mgr.pc = "wait" => mgr.wait = 0,
           mgr.pc \in {"login", "wait", "issue", "key"} \/ torn
    PROVE  ManagerInv'
<1> USE DEF ManagerInv
<1>1. /\ DOMAIN mgr = MgrFields /\ mgr.pc \in Pcs /\ mgr.loop \in Loops
      /\ mgr.wait \in Nat /\ mgr.entry \in Nat /\ mgr.missed \in Nat
      /\ disk \in [Files -> Contents] /\ life \in [Ids -> 0 .. Life]
      /\ Life \in Nat /\ RetryInterval \in Nat
    BY CertAssumption DEF ManagerType
<1>2. /\ DOMAIN mgr' = MgrFields /\ mgr'.pc \in {"wait", "down"} /\ mgr'.loop \in Loops
      /\ mgr'.wait \in Nat /\ mgr'.entry \in Nat /\ mgr'.missed \in Nat
      /\ mgr'.pc = "wait" => mgr'.loop # "start"
      /\ mgr'.pc = "wait" /\ ~mgr'.torn => disk.key = disk.cert /\ disk.ca # NoFile
      /\ tls' = tls \/ tls' = serving(disk)
      /\ \/ mgr'.pc = "down" \/ mgr'.loop # "rotation"
         \/ /\ mgr'.current = mgr.current /\ mgr'.entry = mgr.entry
            /\ mgr.loop = "rotation"
            /\ mgr'.wait = rotationWait(life[mgr.current])
            /\ mgr'.missed = Min({mgr.missed + 1, RenewLeft})
    <2>1. CASE mgr.loop = "start" /\ manualCertAvailable
        BY <1>1, <2>1, ZenonT(30) DEF attemptFailed, MgrFields, Loops, manualCertAvailable
    <2>2. CASE mgr.loop = "start" /\ ~manualCertAvailable
        BY <1>1, <2>2, SMT DEF attemptFailed, MgrFields, Loops, Stopped
    <2>3. CASE mgr.loop = "recovery"
        <3>1. /\ DOMAIN mgr' = MgrFields /\ mgr'.pc = "wait" /\ mgr'.loop = "recovery"
              /\ mgr'.wait = RetryInterval /\ mgr'.entry = mgr.entry /\ mgr'.missed = mgr.missed
              /\ tls' = tls /\ mgr'.torn = (mgr.torn \/ torn)
            BY <1>1, <2>3 DEF attemptFailed, MgrFields
        <3>2. ~mgr'.torn => ~mgr.torn /\ ~torn
            BY <3>1
        <3>3. ~mgr'.torn => disk.key = disk.cert /\ disk.ca # NoFile
            BY <2>3, <3>2 DEF PairInv
        <3> QED BY <1>1, <2>3, <3>1, <3>3
    <2>4. CASE mgr.loop = "rotation"
        <3>1. /\ DOMAIN mgr' = MgrFields /\ mgr'.pc = "wait" /\ mgr'.loop = "rotation"
              /\ mgr'.wait = rotationWait(life[mgr.current]) /\ mgr'.entry = mgr.entry
              /\ mgr'.missed = Min({mgr.missed + 1, RenewLeft})
              /\ mgr'.current = mgr.current
              /\ tls' = tls /\ mgr'.torn = (mgr.torn \/ torn)
            BY <1>1, <2>4 DEF attemptFailed, MgrFields
        <3>2. ~mgr'.torn => ~mgr.torn /\ ~torn
            BY <3>1
        <3>3. ~mgr'.torn => disk.key = disk.cert /\ disk.ca # NoFile
            BY <2>4, <3>2 DEF PairInv
        <3>4. life[mgr.current] \in Nat
            BY <1>1, <2>4, SMT DEF MissInv
        <3>5. mgr'.wait \in Nat
            BY <3>1, <3>4, MissesBegin
        <3>6. mgr'.missed \in Nat
            BY <1>1, <3>1, MinOfTwo, RenewLeftType, SMT
        <3> QED BY <1>1, <2>4, <3>1, <3>3, <3>5, <3>6 DEF Loops
    <2> QED BY <1>1, <2>1, <2>2, <2>3, <2>4 DEF Loops
<1>3. ManagerType'
    <2>1. serving(disk) \in [cached : Contents, mtime : [Files -> Contents]]
        BY <1>1 DEF serving, Files
    <2> QED BY <1>1, <1>2, <2>1 DEF ManagerType, Pcs
<1>4. RenameInv' /\ PairInv'
    BY <1>2 DEF RenameInv, PairInv, Files
<1>5. MissInv'
    <2> SUFFICES ASSUME mgr'.pc # "down", mgr'.loop = "rotation" PROVE MissInv'
        BY DEF MissInv
    <2>1. /\ mgr'.current = mgr.current /\ mgr'.entry = mgr.entry /\ mgr.loop = "rotation"
          /\ mgr'.wait = rotationWait(life[mgr.current])
          /\ mgr'.missed = Min({mgr.missed + 1, RenewLeft}) /\ mgr'.pc = "wait"
        BY <1>2
    <2>2. /\ disk.cert \in Ids /\ mgr.current \in Ids /\ life[mgr.current] <= life[disk.cert]
          /\ mgr.entry <= RenewLeft + MinWait /\ mgr.wait = 0
          /\ monus(life[mgr.current], mgr.wait) + (mgr.missed + 1) * MinWait >= mgr.entry
        BY <2>1 DEF MissInv
    <2>3. life[mgr.current] \in Nat /\ monus(life[mgr.current], 0) = life[mgr.current]
        BY <1>1, <2>2, SMT DEF monus
    <2>4. life[mgr.current] + (mgr.missed + 1) * MinWait >= mgr.entry
        BY <2>2, <2>3
    <2>5. monus(life[mgr.current], mgr'.wait) + (mgr'.missed + 1) * MinWait >= mgr.entry
        BY <1>1, <2>1, <2>2, <2>3, <2>4, MissesGrow
    <2> QED BY <2>1, <2>2, <2>5 DEF MissInv, monus
<1>6. CacheInv'
    <2>1. ASSUME NEW x, Past(x) PROVE Past(x)'
        BY <1>2, <2>1 DEF Past
    <2>2. serving(disk).cached = serving(disk).mtime.cert
        BY DEF serving
    <2> QED BY <1>2, <2>1, <2>2 DEF CacheInv
<1> QED BY <1>3, <1>4, <1>5, <1>6

\* Start, with a certificate of an earlier run or on the way to Vault.
LEMMA StartKeeps ==
    ASSUME ManagerInv, NEW secret, Start(secret) PROVE ManagerInv'
<1> USE DEF ManagerInv
<1>1. /\ DOMAIN mgr = MgrFields /\ disk \in [Files -> Contents] /\ life \in [Ids -> 0 .. Life]
      /\ Life \in Nat /\ UNCHANGED <<disk, life, hs>> /\ mgr.pc = "down"
    BY CertAssumption DEF ManagerType, Start
<1>2. ASSUME mgr'.pc \notin {"key", "cert"}, NEW x, Past(x) PROVE Past(x)'
    BY <1>1, <1>2 DEF Past
<1>3. CASE loadExistingCertMeta
    <2> DEFINE left == life[disk.cert]
    <2>1. disk.cert \in Ids /\ left \in Nat /\ disk.key = disk.cert /\ disk.ca # NoFile
        BY <1>1, <1>3, SMT DEF loadExistingCertMeta, manualCertAvailable
    <2>2. mgr' = [rotating(disk.cert, left) EXCEPT !.secret = secret] /\ tls' = serving(disk)
        BY <1>3 DEF Start
    <2>3. /\ DOMAIN mgr' = MgrFields /\ mgr'.pc = "wait" /\ mgr'.loop = "rotation"
          /\ mgr'.current = disk.cert /\ mgr'.wait = rotationWait(left) /\ mgr'.missed = 0
          /\ mgr'.entry = Min({left, RenewLeft + MinWait})
        <3> HIDE DEF left
        <3> QED BY <1>1, <2>2, RotatingFields, SMT DEF MgrFields
    <2>4. /\ mgr'.wait \in Nat /\ mgr'.entry \in Nat /\ mgr'.entry <= RenewLeft + MinWait
          /\ monus(left, mgr'.wait) + (mgr'.missed + 1) * MinWait >= mgr'.entry
        BY <2>1, <2>3, MissesBegin
    <2>5. ManagerType'
        <3>1. serving(disk) \in [cached : Contents, mtime : [Files -> Contents]]
            BY <1>1 DEF serving, Files
        <3> QED BY <1>1, <2>2, <2>3, <2>4, <3>1, SMT DEF ManagerType, Pcs, Loops
    <2>6. RenameInv' /\ PairInv'
        BY <1>1, <2>1, <2>3 DEF RenameInv, PairInv, Files
    <2>7. MissInv'
        BY <1>1, <2>1, <2>3, <2>4, SMT DEF MissInv, monus
    <2>8. CacheInv'
        BY <1>1, <1>2, <2>2, <2>3 DEF CacheInv, serving
    <2> QED BY <2>5, <2>6, <2>7, <2>8
<1>4. CASE ~loadExistingCertMeta
    <2>1. /\ DOMAIN mgr' = MgrFields /\ mgr'.pc = "login" /\ mgr'.loop = "start"
          /\ mgr'.wait = 0 /\ mgr'.entry = 0 /\ mgr'.missed = 0 /\ UNCHANGED tls
        BY <1>4 DEF Start, Stopped, MgrFields
    <2>2. ManagerType' /\ RenameInv' /\ PairInv' /\ MissInv'
        BY <1>1, <2>1, SMT DEF ManagerType, RenameInv, PairInv, MissInv, Pcs, Loops, Files
    <2>3. CacheInv'
        BY <1>1, <1>2, <2>1 DEF CacheInv
    <2> QED BY <2>2, <2>3
<1> QED BY <1>3, <1>4

\* The process ends by a crash or by the operator's restart.
LEMMA StopKeeps == ASSUME ManagerInv, stop PROVE ManagerInv'
<1>1. /\ DOMAIN mgr' = MgrFields /\ mgr'.pc = "down" /\ mgr'.loop = "start"
      /\ mgr'.wait = 0 /\ mgr'.entry = 0 /\ mgr'.missed = 0
      /\ tls' = [cached |-> NoFile, mtime |-> NoFiles] /\ hs' = [h \in Handshakes |-> Unread]
      /\ UNCHANGED <<disk, life>>
    BY DEF stop, Stopped, MgrFields
<1>2. NoFiles \in [Files -> Contents] /\ NoFile \in Contents
    BY DEF NoFiles, Contents
<1>3. tls' \in [cached : Contents, mtime : [Files -> Contents]] /\ hs' \in [Handshakes -> Readers]
    BY <1>1, <1>2 DEF Unread, Readers
<1>4. ManagerType' /\ RenameInv' /\ PairInv' /\ MissInv'
    BY <1>1, <1>3, SMT DEF ManagerInv, ManagerType, RenameInv, PairInv, MissInv, Pcs, Loops, Files
<1>5. CacheInv'
    BY <1>1 DEF CacheInv, Unread
<1> QED BY <1>4, <1>5 DEF ManagerInv

\* The login succeeds.
LEMMA LoginKeeps ==
    ASSUME ManagerInv, attemptDue, mgr' = [mgr EXCEPT !.pc = "issue"],
           UNCHANGED <<disk, life, tls, hs>>
    PROVE  ManagerInv'
<1> USE DEF ManagerInv
<1>1. /\ DOMAIN mgr' = MgrFields /\ mgr'.pc = "issue" /\ mgr'.loop = mgr.loop
      /\ mgr'.wait = mgr.wait /\ mgr'.entry = mgr.entry /\ mgr'.missed = mgr.missed
      /\ mgr'.current = mgr.current /\ mgr'.torn = mgr.torn /\ mgr.pc \in {"login", "wait"}
      /\ mgr.pc = "wait" => mgr.wait = 0
    BY DEF ManagerType, MgrFields, attemptDue
<1>2. ManagerType' /\ RenameInv'
    BY <1>1 DEF ManagerType, RenameInv, Pcs, Files
<1>3. PairInv'
    BY <1>1 DEF PairInv
<1>4. MissInv'
    BY <1>1 DEF MissInv, monus
<1>5. CacheInv'
    BY <1>1 DEF CacheInv, Past
<1> QED BY <1>2, <1>3, <1>4, <1>5

\* Vault issues a certificate: the ids in use are not the new one.
LEMMA IssueKeeps ==
    ASSUME ManagerInv, mgr.pc = "issue", freeId, mgr' = [mgr EXCEPT !.pc = "key", !.new = NewId],
           life' = [life EXCEPT ![NewId] = Life], UNCHANGED <<disk, tls, hs>>
    PROVE  ManagerInv'
<1> USE DEF ManagerInv
<1>1. /\ DOMAIN mgr' = MgrFields /\ mgr'.pc = "key" /\ mgr'.new = NewId /\ mgr'.loop = mgr.loop
      /\ mgr'.wait = mgr.wait /\ mgr'.entry = mgr.entry /\ mgr'.missed = mgr.missed
      /\ mgr'.current = mgr.current /\ mgr'.torn = mgr.torn
    BY DEF ManagerType, MgrFields
<1>2. /\ NewId \in Ids /\ NewId # mgr.current /\ NewId # disk.cert /\ NewId # tls.mtime.cert
      /\ \A h \in Handshakes : NewId # hs[h].stat.cert
    BY NewIdIsFresh
<1>3. /\ life \in [Ids -> 0 .. Life] /\ Life \in Nat /\ life' \in [Ids -> 0 .. Life]
      /\ life'[NewId] = Life /\ \A i \in Ids : i # NewId => life'[i] = life[i]
    BY <1>2, CertAssumption, SMT DEF ManagerType
<1>4. ManagerType'
    BY <1>1, <1>3 DEF ManagerType, Pcs, Files
<1>5. RenameInv' /\ PairInv'
    BY <1>1, <1>2, <1>3 DEF RenameInv, PairInv
<1>6. MissInv'
    <2>1. mgr'.loop = "rotation" => life'[mgr'.current] = life[mgr.current] /\ life'[disk.cert] = life[disk.cert]
        BY <1>1, <1>2, <1>3 DEF MissInv
    <2> QED BY <1>1, <2>1 DEF MissInv, monus
<1>7. CacheInv'
    <2>1. ASSUME NEW x, Past(x), x # NewId PROVE Past(x)'
        BY <1>1, <2>1 DEF Past
    <2> QED BY <1>1, <1>2, <2>1 DEF CacheInv
<1> QED BY <1>4, <1>5, <1>6, <1>7

\* The three renames, one by one.
LEMMA RenameKeeps == ASSUME ManagerInv, NEW f \in Files, writeAtomic(f) PROVE ManagerInv'
<1> USE DEF ManagerInv
<1>1. /\ DOMAIN mgr = MgrFields /\ disk \in [Files -> Contents] /\ life \in [Ids -> 0 .. Life]
      /\ Life \in Nat /\ mgr.pc = f /\ mgr.new \in Ids /\ life[mgr.new] = Life
      /\ disk' = [disk EXCEPT ![f] = mgr.new] /\ UNCHANGED <<life, hs>>
      /\ mgr.new \in Contents /\ mgr.new # NoFile
    BY CertAssumption DEF ManagerType, RenameInv, writeAtomic, Contents
<1>2. disk' \in [Files -> Contents]
    BY <1>1
<1>3. CASE f = "key" \/ f = "cert"
    <2>1. /\ DOMAIN mgr' = MgrFields /\ mgr'.new = mgr.new /\ mgr'.loop = mgr.loop
          /\ mgr'.wait = mgr.wait /\ mgr'.entry = mgr.entry /\ mgr'.missed = mgr.missed
          /\ mgr'.current = mgr.current /\ UNCHANGED tls
          /\ mgr'.pc = IF f = "key" THEN "cert" ELSE "ca"
        BY <1>1, <1>3 DEF writeAtomic, MgrFields
    <2>2. /\ f = "key" => disk'.key = mgr.new /\ disk'.cert = disk.cert
          /\ f = "cert" => disk'.key = disk.key /\ disk'.cert = mgr.new
        BY <1>1 DEF Files
    <2>3. ManagerType'
        BY <1>1, <1>2, <2>1 DEF ManagerType, Pcs, Files
    <2>4. RenameInv' /\ PairInv'
        BY <1>1, <1>3, <2>1, <2>2 DEF RenameInv, PairInv, Files
    <2>5. MissInv'
        <3>1. mgr.loop = "rotation" =>
                /\ disk'.cert \in Ids /\ life[mgr.current] <= life[disk'.cert]
            BY <1>1, <1>3, <2>2, SMT DEF MissInv
        <3> QED BY <1>1, <1>3, <2>1, <3>1 DEF MissInv, monus
    <2>6. CacheInv'
        <3>1. ASSUME NEW x, Past(x) PROVE Past(x)'
            BY <1>1, <1>3, <2>1, <2>2, <3>1 DEF Past
        <3>2. ASSUME NEW x, x = disk.cert PROVE x = disk'.cert \/ Past(x)'
            BY <1>1, <1>3, <2>1, <2>2, <3>2 DEF Past, RenameInv
        <3> QED BY <1>1, <2>1, <3>1, <3>2 DEF CacheInv
    <2> QED BY <2>3, <2>4, <2>5, <2>6
<1>4. CASE f = "ca"
    <2>1. /\ mgr' = rotating(mgr.new, Life)
          /\ tls' = IF mgr.loop = "start" THEN serving(disk') ELSE tls
        BY <1>1, <1>4 DEF writeAtomic
    <2>2. /\ DOMAIN mgr' = MgrFields /\ mgr'.pc = "wait" /\ mgr'.loop = "rotation"
          /\ mgr'.current = mgr.new /\ mgr'.wait = rotationWait(Life) /\ mgr'.missed = 0
          /\ mgr'.entry = Min({Life, RenewLeft + MinWait})
        BY <1>1, <2>1, RotatingFields, SMT
    <2>3. /\ mgr'.wait \in Nat /\ mgr'.entry \in Nat /\ mgr'.entry <= RenewLeft + MinWait
          /\ monus(Life, mgr'.wait) + (mgr'.missed + 1) * MinWait >= mgr'.entry
        BY <1>1, <2>2, MissesBegin
    <2>4. disk'.key = mgr.new /\ disk'.cert = mgr.new /\ disk'.ca = mgr.new /\ disk'.cert = disk.cert
        BY <1>1, <1>4 DEF RenameInv, Files
    <2>5. ManagerType'
        <3>1. tls' \in [cached : Contents, mtime : [Files -> Contents]]
            BY <1>1, <1>2, <2>1 DEF ManagerType, serving, Files
        <3> QED BY <1>1, <1>2, <2>2, <2>3, <3>1, SMT DEF ManagerType, Pcs, Loops
    <2>6. RenameInv' /\ PairInv'
        BY <1>1, <2>2, <2>4 DEF RenameInv, PairInv, Files
    <2>7. MissInv'
        BY <1>1, <2>2, <2>3, <2>4, SMT DEF MissInv, monus
    <2>8. CacheInv'
        <3>1. ASSUME NEW x, Past(x) PROVE Past(x)'
            BY <2>2, <2>4, <3>1 DEF Past
        <3>2. tls' = tls \/ tls'.cached = tls'.mtime.cert
            BY <2>1 DEF serving
        <3> QED BY <1>1, <2>4, <3>1, <3>2 DEF CacheInv
    <2> QED BY <2>5, <2>6, <2>7, <2>8
<1> QED BY <1>1, <1>3, <1>4 DEF Files

\* A handshake in getConfig: what it loads after it has looked at the times is as new.
LEMMA HandshakeKeeps == ASSUME ManagerInv, NEW h \in Handshakes, getConfig(h) PROVE ManagerInv'
<1> USE DEF ManagerInv
<1>1. /\ disk \in [Files -> Contents] /\ tls \in [cached : Contents, mtime : [Files -> Contents]]
      /\ hs \in [Handshakes -> Readers] /\ hs[h] \in Readers
    BY DEF ManagerType
<1>2. UNCHANGED <<disk, life, mgr>>
    BY DEF getConfig, statCert, statKey, statCA, loadCert, loadKey, install, Reading
<1>3. \A x : Past(x)' <=> Past(x)
    BY <1>2 DEF Past
<1>4. ASSUME NEW r \in Readers, hs' = [hs EXCEPT ![h] = r],
             r.pc # "idle" => r.stat.cert = disk.cert \/ Past(r.stat.cert),
             r.pc \in {"loadKey", "install"} => r.cert = r.stat.cert \/ Past(r.stat.cert),
             tls' \in [cached : Contents, mtime : [Files -> Contents]],
             tls'.cached = NoFile \/ tls'.cached = tls'.mtime.cert \/ Past(tls'.mtime.cert)
      PROVE  ManagerInv'
    <2>1. ManagerType' /\ RenameInv' /\ PairInv' /\ MissInv'
        BY <1>1, <1>2, <1>4 DEF ManagerType, RenameInv, PairInv, MissInv, monus
    <2>2. CacheInv'
        BY <1>1, <1>2, <1>3, <1>4 DEF CacheInv
    <2> QED BY <2>1, <2>2
<1>5. tls.cached = NoFile \/ tls.cached = tls.mtime.cert \/ Past(tls.mtime.cert)
    BY DEF CacheInv
<1>6. Unread \in Readers /\ Unread.pc = "idle" /\ Unread.stat \in [Files -> Contents]
    BY DEF Unread, Readers, NoFiles, Contents
<1>7. CASE statCert(h)
    <2> DEFINE r == [Unread EXCEPT !.pc = "statKey", !.stat.cert = disk.cert]
    <2>1. hs' = [hs EXCEPT ![h] = r] /\ UNCHANGED tls
        BY <1>7 DEF statCert, Reading
    <2>2. r = [Unread EXCEPT !.pc = "statKey", !.stat = [NoFiles EXCEPT !.cert = disk.cert]]
        BY DEF Unread, NoFiles, Files
    <2>3. [NoFiles EXCEPT !.cert = disk.cert] \in [Files -> Contents]
          /\ [NoFiles EXCEPT !.cert = disk.cert].cert = disk.cert
        BY <1>1 DEF NoFiles, Contents, Files
    <2>4. r \in Readers /\ r.pc = "statKey" /\ r.stat.cert = disk.cert
        BY <1>6, <2>2, <2>3 DEF Readers
    <2> HIDE DEF r
    <2> QED BY <1>1, <1>4, <1>5, <2>1, <2>4
<1>8. CASE statKey(h)
    <2> DEFINE r == [hs[h] EXCEPT !.pc = "statCA", !.stat.key = disk.key]
    <2>1. hs' = [hs EXCEPT ![h] = r] /\ UNCHANGED tls /\ hs[h].pc = "statKey"
        BY <1>8 DEF statKey, Reading
    <2>2. [hs[h].stat EXCEPT !.key = disk.key] \in [Files -> Contents]
          /\ [hs[h].stat EXCEPT !.key = disk.key].cert = hs[h].stat.cert
        BY <1>1 DEF Readers, Files
    <2>3. r = [hs[h] EXCEPT !.pc = "statCA", !.stat = [hs[h].stat EXCEPT !.key = disk.key]]
        BY <1>1 DEF Readers
    <2>4. r \in Readers /\ r.pc = "statCA" /\ r.stat.cert = hs[h].stat.cert
        BY <1>1, <2>2, <2>3 DEF Readers
    <2> HIDE DEF r
    <2> QED BY <1>1, <1>4, <1>5, <2>1, <2>4 DEF CacheInv
<1>9. CASE statCA(h)
    <2> DEFINE seen == [hs[h].stat EXCEPT !.ca = disk.ca]
               r == [hs[h] EXCEPT !.pc = "loadCert", !.stat = seen]
    <2>1. (hs' = [hs EXCEPT ![h] = Unread] \/ hs' = [hs EXCEPT ![h] = r]) /\ UNCHANGED tls
          /\ hs[h].pc = "statCA"
        BY <1>9 DEF statCA, Reading
    <2>2. seen \in [Files -> Contents] /\ seen.cert = hs[h].stat.cert
        BY <1>1 DEF Readers, Files
    <2> HIDE DEF seen
    <2>3. r \in Readers /\ r.pc = "loadCert" /\ r.stat.cert = hs[h].stat.cert
        BY <1>1, <2>2 DEF Readers
    <2> HIDE DEF r
    <2> QED BY <1>1, <1>4, <1>5, <1>6, <2>1, <2>3 DEF CacheInv
<1>10. CASE loadCert(h)
    <2> DEFINE r == [hs[h] EXCEPT !.pc = "loadKey", !.cert = disk.cert]
    <2>1. hs' = [hs EXCEPT ![h] = r] /\ UNCHANGED tls /\ hs[h].pc = "loadCert"
        BY <1>10 DEF loadCert, Reading
    <2>2. r \in Readers /\ r.pc = "loadKey" /\ r.stat = hs[h].stat /\ r.cert = disk.cert
        BY <1>1 DEF Readers, Files
    <2> HIDE DEF r
    <2> QED BY <1>1, <1>4, <1>5, <2>1, <2>2 DEF CacheInv
<1>11. CASE loadKey(h)
    <2> DEFINE r == [hs[h] EXCEPT !.pc = "install"]
    <2>1. (hs' = [hs EXCEPT ![h] = Unread] \/ hs' = [hs EXCEPT ![h] = r]) /\ UNCHANGED tls
          /\ hs[h].pc = "loadKey"
        BY <1>11 DEF loadKey, Reading
    <2>2. r \in Readers /\ r.pc = "install" /\ r.stat = hs[h].stat /\ r.cert = hs[h].cert
        BY <1>1 DEF Readers
    <2> HIDE DEF r
    <2> QED BY <1>1, <1>4, <1>5, <1>6, <2>1, <2>2 DEF CacheInv
<1>12. CASE install(h)
    <2>1. /\ hs' = [hs EXCEPT ![h] = Unread] /\ hs[h].pc = "install"
          /\ tls' = [cached |-> hs[h].cert, mtime |-> hs[h].stat]
        BY <1>12 DEF install, Reading
    <2>2. /\ tls' \in [cached : Contents, mtime : [Files -> Contents]]
          /\ tls'.cached = tls'.mtime.cert \/ Past(tls'.mtime.cert)
        BY <1>1, <2>1 DEF Readers, CacheInv
    <2> QED BY <1>4, <1>6, <2>1, <2>2
<1> QED BY <1>7, <1>8, <1>9, <1>10, <1>11, <1>12 DEF getConfig

\* A tick ages the certificates in use and the manager's timer alike.
LEMMA TickKeeps == ASSUME ManagerInv, Holder, certTick PROVE ManagerInv'
<1> USE DEF ManagerInv
<1>1. /\ DOMAIN mgr' = MgrFields /\ mgr'.pc = mgr.pc /\ mgr'.loop = mgr.loop
      /\ mgr'.wait = less(mgr.wait) /\ mgr'.entry = mgr.entry /\ mgr'.missed = mgr.missed
      /\ mgr'.current = mgr.current /\ mgr'.torn = mgr.torn /\ mgr'.new = mgr.new
      /\ UNCHANGED <<disk, tls, hs>>
      /\ mgr.pc \in {"down", "wait"} /\ (mgr.pc = "wait" => mgr.wait > 0)
      /\ life' = [i \in Ids |-> IF i \in Referenced THEN less(life[i]) ELSE 0]
      /\ life \in [Ids -> 0 .. Life] /\ Life \in Nat
    BY CertAssumption DEF ManagerType, MgrFields, certTick, clockReady
<1>2. ManagerType'
    <2>1. life' \in [Ids -> 0 .. Life] /\ mgr'.wait \in Nat
        BY <1>1, SMT DEF ManagerType, less
    <2> QED BY <1>1, <2>1 DEF ManagerType
<1>3. RenameInv' /\ PairInv'
    BY <1>1 DEF RenameInv, PairInv, Files
<1>4. MissInv'
    <2> SUFFICES ASSUME mgr'.pc # "down", mgr'.loop = "rotation" PROVE MissInv'
        BY DEF MissInv
    <2>1. /\ disk.cert \in Ids /\ mgr.current \in Ids /\ life[mgr.current] <= life[disk.cert]
          /\ mgr.entry <= RenewLeft + MinWait /\ mgr.pc = "wait" /\ mgr.wait > 0
          /\ monus(life[mgr.current], mgr.wait) + (mgr.missed + 1) * MinWait >= mgr.entry
        BY <1>1 DEF MissInv
    <2>2. mgr.current \in Referenced /\ disk.cert \in Referenced
        BY "cert" \in Files DEF Referenced, Files
    <2>3. /\ life'[mgr.current] = less(life[mgr.current]) /\ life'[disk.cert] = less(life[disk.cert])
          /\ life[mgr.current] \in Nat /\ life[disk.cert] \in Nat /\ mgr.wait \in Nat
        BY <1>1, <2>1, <2>2, SMT DEF ManagerType
    <2>4. monus(life'[mgr.current], mgr'.wait) = monus(life[mgr.current], mgr.wait)
        BY <1>1, <2>1, <2>3, TickKeepsRest, ZenonT(30)
    <2>5. life'[mgr.current] <= life'[disk.cert]
        BY <2>1, <2>3, SMT DEF less
    <2> QED BY <1>1, <2>1, <2>4, <2>5 DEF MissInv, monus
<1>5. CacheInv'
    BY <1>1 DEF CacheInv, Past
<1> QED BY <1>2, <1>3, <1>4, <1>5

\* Nothing of the service changes.
LEMMA StutterKeeps == ASSUME ManagerInv, UNCHANGED <<disk, life, mgr, tls, hs>> PROVE ManagerInv'
BY ZenonT(30) DEF ManagerInv, ManagerType, RenameInv, PairInv, MissInv, CacheInv, Past, monus

\* Every step of the scheduler's certificate manager, its handshakes, Vault and the clock.
LEMMA ManagerKeeps == ProvisionInv /\ ManagerInv /\ [Next]_vars => ManagerInv'
<1> SUFFICES ASSUME ProvisionInv, ManagerInv, [Next]_vars PROVE ManagerInv'
    OBVIOUS
<1>1. CASE Boots \/ BootFails \/ VaultRestarts \/ OperatorUnseals \/ UNCHANGED vars
    BY <1>1, StutterKeeps DEF Boots, BootFails, VaultRestarts, OperatorUnseals, certVars, vars
<1>2. CASE Starts
    BY <1>2, StartKeeps DEF Starts
<1>3. CASE newVaultClient(LoginAccepted)
    <2>1. attemptDue /\ UNCHANGED <<disk, life, hs>>
        BY <1>3 DEF newVaultClient
    <2>2. CASE mgr' = [mgr EXCEPT !.pc = "issue"] /\ UNCHANGED tls
        BY <2>1, <2>2, LoginKeeps
    <2>3. CASE attemptFailed(FALSE)
        <3>1. /\ mgr.pc \in {"login", "wait"} /\ mgr.pc # "down"
              /\ mgr.pc = "wait" => mgr.wait = 0
            BY <2>1 DEF attemptDue
        <3> QED BY <2>1, <2>3, <3>1, FailKeeps
    <2> QED BY <1>3, <2>2, <2>3 DEF newVaultClient
<1>4. CASE issueAndPersist(IssueAccepted)
    <2>1. mgr.pc = "issue" /\ UNCHANGED <<disk, hs>>
        BY <1>4 DEF issueAndPersist
    <2>2. CASE IssueAccepted
        BY <1>4, <2>1, <2>2, IssueKeeps DEF issueAndPersist
    <2>3. CASE ~IssueAccepted
        <3>1. attemptFailed(FALSE) /\ UNCHANGED life
            BY <1>4, <2>3 DEF issueAndPersist
        <3> QED BY <2>1, <3>1, FailKeeps
    <2> QED BY <2>2, <2>3
<1>5. ASSUME NEW f \in Files, writeFails(f) PROVE ManagerInv'
    <2>1. /\ mgr.pc = f /\ mgr.pc \in Files /\ attemptFailed(f # "key")
          /\ UNCHANGED <<disk, life, hs>>
        BY <1>5 DEF writeFails
    <2>2. CASE f = "key"
        <3>1. attemptFailed(FALSE)
            BY <2>1, <2>2 DEF attemptFailed
        <3> QED BY <2>1, <2>2, <3>1, FailKeeps
    <2>3. CASE f # "key"
        <3>1. attemptFailed(TRUE)
            BY <2>1, <2>3 DEF attemptFailed
        <3> QED BY <2>1, <2>3, <3>1, FailKeeps DEF Files
    <2> QED BY <2>2, <2>3
<1>6. CASE Restarts \/ Crash
    BY <1>6, StopKeeps DEF Restarts, Reconfigure, Crash
<1>7. ASSUME NEW h \in Handshakes, Handshake(h) PROVE ManagerInv'
    BY <1>7, HandshakeKeeps DEF Handshake
<1>8. CASE Tick
    BY <1>8, TickKeeps DEF Tick, ProvisionInv
<1> QED BY <1>1, <1>2, <1>3, <1>4, <1>5, <1>6, <1>7, <1>8, RenameKeeps DEF Next, Manages, ServiceFails

\* The invariant of the manager holds throughout.
LEMMA ManagerAlways == Spec => []ManagerInv
<1>1. Init => ManagerInv
    <2> SUFFICES ASSUME Init PROVE ManagerInv
        OBVIOUS
    <2>1. /\ disk \in {NoFiles, [f \in Files |-> Manual]} /\ life = [i \in Ids |-> 0]
          /\ mgr = Stopped /\ tls = [cached |-> NoFile, mtime |-> NoFiles]
          /\ hs = [h \in Handshakes |-> Unread] /\ Life \in Nat
        BY CertAssumption DEF Init, CertInit
    <2>2. NoFiles \in [Files -> Contents] /\ NoFile \in Contents /\ disk \in [Files -> Contents]
        BY <2>1 DEF NoFiles, Contents
    <2>3. tls \in [cached : Contents, mtime : [Files -> Contents]] /\ hs \in [Handshakes -> Readers]
        BY <2>1, <2>2 DEF Unread, Readers
    <2>4. /\ DOMAIN mgr = MgrFields /\ mgr.pc = "down" /\ mgr.loop = "start"
          /\ mgr.wait = 0 /\ mgr.entry = 0 /\ mgr.missed = 0
        BY <2>1 DEF Stopped, MgrFields
    <2>5. ManagerType
        BY <2>1, <2>2, <2>3, <2>4, SMT DEF ManagerType, Pcs, Loops
    <2>6. RenameInv /\ PairInv /\ MissInv
        BY <2>4 DEF RenameInv, PairInv, MissInv, Files
    <2>7. CacheInv
        BY <2>1 DEF CacheInv, Unread
    <2> QED BY <2>5, <2>6, <2>7 DEF ManagerInv
<1> QED BY <1>1, ProvisionBegins, ProvisionKeeps, ManagerKeeps, PTL DEF Spec

\* For any number of crashes, failed writes and rotations: whenever the service waits for
\* its next attempt, the key on disk belongs to the certificate on disk, unless the
\* attempt before failed between two renames.
THEOREM PairsMatch == Spec => []RunsOnMatchingPair
<1>1. ManagerInv => RunsOnMatchingPair
    BY DEF ManagerInv, PairInv, RunsOnMatchingPair
<1> QED BY <1>1, ManagerAlways, PTL

\* For any lifetime, MinWait and outages: a certificate under rotation expires only when
\* the attempts that failed fill what was left of its life when they began.
THEOREM ExpiryIsMissed == Spec => []ExpiryNeedsMisses
<1>1. ManagerInv => ExpiryNeedsMisses
    <2> SUFFICES ASSUME ManagerInv, mgr.pc # "down", mgr.loop = "rotation", life[disk.cert] = 0
                 PROVE  (mgr.missed + 1) * MinWait >= mgr.entry
        BY DEF ExpiryNeedsMisses
    <2>1. /\ mgr.current \in Ids /\ life[mgr.current] <= life[disk.cert]
          /\ monus(life[mgr.current], mgr.wait) + (mgr.missed + 1) * MinWait >= mgr.entry
          /\ life[mgr.current] \in Nat /\ mgr.wait \in Nat
        BY CertAssumption, SMT DEF ManagerInv, MissInv, ManagerType
    <2>2. monus(life[mgr.current], mgr.wait) = 0
        BY <2>1, SMT DEF monus
    <2>3. (mgr.missed + 1) * MinWait \in Nat
        BY CertAssumption, SMT DEF ManagerInv, ManagerType
    <2> QED BY <2>1, <2>2, <2>3, SMT
<1> QED BY <1>1, ManagerAlways, PTL

\* For any number of concurrent handshakes, renames and restarts: the provider never
\* takes a configuration for current that is not the certificate in the files.
THEOREM CacheIsCurrent == Spec => []CacheNeverStale
<1>1. ManagerInv => CacheNeverStale
    BY DEF ManagerInv, CacheInv, Past, CacheNeverStale
<1> QED BY <1>1, ManagerAlways, PTL
=============================================================================
