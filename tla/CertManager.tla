---------------------------- MODULE CertManager ----------------------------
(***************************************************************************)
(* persys-scheduler/internal/auth/vault.go (the gateway, forgery and       *)
(* automation carry copies of it): the manager that obtains the scheduler's *)
(* certificate from Vault and replaces it before it expires; and           *)
(* dynamicTLSProvider of cmd/scheduler/main.go, which every TLS handshake  *)
(* asks for the configuration and which reloads the files that changed.    *)
(*                                                                         *)
(* An id stands for one issued key pair and for the modification time of   *)
(* the files written with it.  Time passes in ticks; a wait shorter than a *)
(* tick counts as one, and an attempt takes less than a tick.              *)
(***************************************************************************)
EXTENDS Naturals, FiniteSets, FiniteSetsExt

CONSTANTS Ids,            \* issued key pairs that can be told apart
          Manual, NoFile, \* files installed by hand (another identity); no file
          Life,           \* VaultCertTTL
          MinWait,        \* minRotationWait
          RetryInterval,  \* VaultRetryInterval
          Handshakes,     \* concurrent TLS handshakes
          MaxFaults       \* bound on crashes of the service and failed file writes

ASSUME CertAssumption ==
    /\ IsFiniteSet(Ids) /\ Manual \notin Ids /\ NoFile \notin Ids \cup {Manual}
    /\ {Life, MinWait, RetryInterval} \subseteq Nat \ {0} /\ MaxFaults \in Nat

VARIABLES disk,   \* the id in each of the three files
          life,   \* what is left of the validity of each certificate
          mgr,    \* the manager, and the loop it is in
          tls,    \* what dynamicTLSProvider has cached
          hs,     \* the handshakes inside getConfig
          faults

certVars == <<disk, life, mgr, tls, hs, faults>>

Contents == Ids \cup {Manual, NoFile}
Files == {"key", "cert", "ca"}
NoFiles == [f \in Files |-> NoFile]

Stopped == [pc |-> "down", loop |-> "start", wait |-> 0, current |-> NoFile, new |-> NoFile,
            secret |-> 0, torn |-> FALSE, entry |-> 0, missed |-> 0]
Unread == [pc |-> "idle", stat |-> NoFiles, cert |-> NoFile]

CertInit ==
    /\ disk \in {NoFiles, [f \in Files |-> Manual]}
    /\ life = [i \in Ids |-> 0]
    /\ mgr = Stopped
    /\ tls = [cached |-> NoFile, mtime |-> NoFiles]
    /\ hs = [h \in Handshakes |-> Unread]
    /\ faults = 0

\* The ids that a file, the cache or a reader still refers to; the others are free.
Referenced ==
    {disk[f] : f \in Files} \cup {tls.mtime[f] : f \in Files}
    \cup (UNION {{hs[h].stat[f] : f \in Files} : h \in Handshakes}) \cup {hs[h].cert : h \in Handshakes}
    \cup {mgr.current, mgr.new, tls.cached}

NewId == CHOOSE i \in Ids : i \notin Referenced

\* Bound: a certificate is issued only while an id is free for it.
freeId == \E i \in Ids : i \notin Referenced

\* Mutant: any key goes with any certificate.
manualCertAvailableUnmatched == disk.cert # NoFile /\ disk.key # NoFile /\ disk.ca # NoFile

\* manualCertAvailable: the files are there, and the key belongs to the
\* certificate.  Whether the certificate has expired is not asked.
manualCertAvailable ==
    disk.cert # NoFile /\ disk.key = disk.cert /\ disk.ca # NoFile

\* loadExistingCertMeta with certMatchesExpectedIdentity
loadExistingCertMeta ==
    manualCertAvailable /\ disk.cert \in Ids /\ life[disk.cert] > 0

\* nextRenewAt: life left at 80% of the validity
RenewLeft == Life - (Life * 80) \div 100

\* Mutant: a wait for the whole life of the certificate.
rotationWaitWhole(left) == Max({MinWait, left})

\* The wait rotationLoop computes from the life left of the current certificate
rotationWait(left) == Max({MinWait, IF left > RenewLeft THEN left - RenewLeft ELSE 0})

\* The manager enters its rotation loop with certificate c
rotating(c, left) ==
    [mgr EXCEPT !.pc = "wait", !.loop = "rotation", !.current = c, !.new = NoFile,
                !.wait = rotationWait(left), !.torn = FALSE, !.missed = 0,
                !.entry = Min({left, RenewLeft + MinWait})]

\* What main's first getConfig caches, right after Start has returned: the loop
\* sleeps at least MinWait first, so the files cannot change in between.
serving(files) == [cached |-> files.cert, mtime |-> files]

\* Start, up to the first call to Vault; secret is the configured secret_id.
Start(secret) ==
    /\ mgr.pc = "down"
    /\ IF loadExistingCertMeta
       THEN /\ mgr' = [rotating(disk.cert, life[disk.cert]) EXCEPT !.secret = secret]
            /\ tls' = serving(disk)
       ELSE /\ mgr' = [Stopped EXCEPT !.pc = "login", !.secret = secret]
            /\ UNCHANGED tls
    /\ UNCHANGED <<disk, life, hs, faults>>

\* An attempt has failed: at startup the manager falls back to the files on disk
\* and its recovery loop, or gives up (main exits); a loop waits and tries again.
attemptFailed(torn) ==
    CASE mgr.loop = "start" /\ manualCertAvailable ->
            /\ mgr' = [mgr EXCEPT !.pc = "wait", !.loop = "recovery", !.wait = RetryInterval,
                                  !.new = NoFile]
            /\ tls' = serving(disk)
      [] mgr.loop = "start" /\ ~manualCertAvailable ->
            mgr' = Stopped /\ UNCHANGED tls
      [] mgr.loop = "recovery" ->
            /\ mgr' = [mgr EXCEPT !.pc = "wait", !.wait = RetryInterval, !.new = NoFile,
                                  !.torn = mgr.torn \/ torn]
            /\ UNCHANGED tls
      [] mgr.loop = "rotation" ->
            /\ mgr' = [mgr EXCEPT !.pc = "wait", !.wait = rotationWait(life[mgr.current]),
                                  !.new = NoFile, !.torn = mgr.torn \/ torn,
                                  !.missed = Min({@ + 1, RenewLeft})]
            /\ UNCHANGED tls

\* Start goes on to Vault, or the timer of a loop has fired.
attemptDue == mgr.pc = "login" \/ (mgr.pc = "wait" /\ mgr.wait = 0)

\* newVaultClient: AppRole login with the configured role_id and secret_id
newVaultClient(accepted) ==
    /\ attemptDue
    /\ UNCHANGED <<disk, life, hs, faults>>
    /\ IF accepted THEN mgr' = [mgr EXCEPT !.pc = "issue"] /\ UNCHANGED tls
                   ELSE attemptFailed(FALSE)

\* issueAndPersist up to the checked answer of Vault's issue endpoint
issueAndPersist(issued) ==
    /\ mgr.pc = "issue"
    /\ UNCHANGED <<disk, hs, faults>>
    /\ IF issued
       THEN /\ freeId
            /\ mgr' = [mgr EXCEPT !.pc = "key", !.new = NewId]
            /\ life' = [life EXCEPT ![NewId] = Life]
            /\ UNCHANGED tls
       ELSE attemptFailed(FALSE) /\ UNCHANGED life

\* writeCertBundleAtomic: key, certificate and CA, each renamed into place by
\* writeAtomic.  Only after the third does the manager's record change.
writeAtomic(f) ==
    /\ mgr.pc = f
    /\ disk' = [disk EXCEPT ![f] = mgr.new]
    /\ CASE f = "key" -> mgr' = [mgr EXCEPT !.pc = "cert"] /\ UNCHANGED tls
         [] f = "cert" -> mgr' = [mgr EXCEPT !.pc = "ca"] /\ UNCHANGED tls
         [] f = "ca" -> /\ mgr' = rotating(mgr.new, life[mgr.new])
                        /\ tls' = IF mgr.loop = "start" THEN serving(disk') ELSE tls
    /\ UNCHANGED <<life, hs, faults>>

\* A write fails (disk full, permissions): what was renamed before it stays.
writeFails(f) ==
    /\ mgr.pc = f /\ faults < MaxFaults
    /\ attemptFailed(f # "key")
    /\ faults' = faults + 1
    /\ UNCHANGED <<disk, life, hs>>

\* The process ends; the files stay.
stop ==
    /\ mgr' = Stopped
    /\ tls' = [cached |-> NoFile, mtime |-> NoFiles]
    /\ hs' = [h \in Handshakes |-> Unread]
    /\ UNCHANGED <<disk, life>>

Crash == mgr.pc # "down" /\ faults < MaxFaults /\ stop /\ faults' = faults + 1

\* The operator restarts the service to give it a new secret_id.
Reconfigure(printed) ==
    mgr.pc = "wait" /\ mgr.secret = 0 /\ printed > 0 /\ stop /\ UNCHANGED faults

----------------------------------------------------------------------------
\* getConfig, once per handshake: stat the three files, return the cached
\* configuration when nothing changed, else load the pair and the CA and cache
\* them under the modification times seen before loading.

Reading(h, r) == hs' = [hs EXCEPT ![h] = r] /\ UNCHANGED <<disk, life, mgr, faults>>

\* A handshake that meets neither a change nor a write under way returns the
\* cached configuration, and is left out.
statCert(h) ==
    /\ hs[h].pc = "idle" /\ tls.cached # NoFile
    /\ mgr.pc \in Files \/ disk # tls.mtime
    /\ Reading(h, [Unread EXCEPT !.pc = "statKey", !.stat.cert = disk.cert])
    /\ UNCHANGED tls

statKey(h) ==
    /\ hs[h].pc = "statKey"
    /\ Reading(h, [hs[h] EXCEPT !.pc = "statCA", !.stat.key = disk.key])
    /\ UNCHANGED tls

statCA(h) ==
    /\ hs[h].pc = "statCA"
    /\ LET seen == [hs[h].stat EXCEPT !.ca = disk.ca]
       IN  Reading(h, IF seen = tls.mtime THEN Unread
                      ELSE [hs[h] EXCEPT !.pc = "loadCert", !.stat = seen])
    /\ UNCHANGED tls

loadCert(h) ==
    /\ hs[h].pc = "loadCert"
    /\ Reading(h, [hs[h] EXCEPT !.pc = "loadKey", !.cert = disk.cert])
    /\ UNCHANGED tls

\* LoadX509KeyPair refuses a key of another certificate: the cached
\* configuration is served, and the next handshake tries again.
loadKey(h) ==
    /\ hs[h].pc = "loadKey"
    /\ Reading(h, IF disk.key = hs[h].cert THEN [hs[h] EXCEPT !.pc = "install"] ELSE Unread)
    /\ UNCHANGED tls

\* Mutant: the modification times are taken after loading.
installLate(h) ==
    /\ hs[h].pc = "install"
    /\ tls' = [cached |-> hs[h].cert, mtime |-> disk]
    /\ Reading(h, Unread)

\* The CA pool is read and the new configuration cached.
install(h) ==
    /\ hs[h].pc = "install"
    /\ tls' = [cached |-> hs[h].cert, mtime |-> hs[h].stat]
    /\ Reading(h, Unread)

getConfig(h) == statCert(h) \/ statKey(h) \/ statCA(h) \/ loadCert(h) \/ loadKey(h) \/ install(h)

\* One tick of the clock; the manager's attempts and the handshakes are quick.
clockReady ==
    /\ mgr.pc = "down" \/ (mgr.pc = "wait" /\ mgr.wait > 0)
    /\ \A h \in Handshakes : hs[h].pc = "idle"

less(n) == IF n = 0 THEN 0 ELSE n - 1

certTick ==
    /\ clockReady
    /\ life' = [i \in Ids |-> IF i \in Referenced THEN less(life[i]) ELSE 0]
    /\ mgr' = [mgr EXCEPT !.wait = less(@), !.secret = less(@)]
    /\ UNCHANGED <<disk, tls, hs, faults>>
=============================================================================
