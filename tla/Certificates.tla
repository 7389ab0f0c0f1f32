---------------------------- MODULE Certificates ----------------------------
(***************************************************************************)
(* The root certificate: its three files, the trust stores of the system,  *)
(* the TLS manager in memory and the one a running proxy captured, through *)
(* generation, rotation, removal, installation on devices and crashes.  A  *)
(* root is its number; a manager is the pair of roots its certificate and  *)
(* key came from.  No lock orders certificate commands: any number of them *)
(* is under way at once, and the proxy is started and stopped under them.  *)
(***************************************************************************)
EXTENDS Naturals, FiniteSets, Sequences

CONSTANTS
  CertCommands,  \* certificate commands under way or just answered
  Platforms,     \* platforms the application runs on
  Listings,      \* what a device bridge or the simulator tool may print: sets of rows
  BridgePlaces,  \* where a bridge may be found: sets of places
  MaxRoots,      \* bound: roots ever generated
  MaxCrashes,    \* bound: crashes of the application
  MaxToggles     \* bound: starts and stops of the proxy by the user

ASSUME CertificatesAssumption == {MaxRoots, MaxCrashes, MaxToggles} \subseteq Nat

VARIABLES
  platform,
  certFiles,  \* root on disk: key, certificate, installable copy
  trust,      \* roots each store trusts or holds
  certApp,    \* manager, ssl switch in memory and in the database, proxy, system proxy
  certCmd,    \* the certificate commands
  roots,      \* roots generated
  torn,       \* the files were last left by a step that failed, stopped half way or met another command's
  device,     \* proxy setting of a device
  budget      \* crashes and toggles left
certVars == <<platform, certFiles, trust, certApp, certCmd, roots, torn, device, budget>>

Pair(k, c) == [key |-> k, cert |-> c]
NoPair == Pair(0, 0)
Files(key, cert, install) == [key |-> key, cert |-> cert, install |-> install]
\* An installable copy that was opened for writing and not yet written.
Cut == MaxRoots + 1

\* "old" is the root the command found, "root" the one it made, "file" the
\* certificate it read, showed or handed over; "crossed" that another
\* command was under way meanwhile, "raced" that a start of the proxy was when
\* it looked for one that runs, "rerouted" that the user routed the system since.
CertIdle == [op |-> "none", at |-> "idle", old |-> 0, root |-> 0, file |-> 0, failed |-> {}, handback |-> FALSE,
             warned |-> FALSE, crossed |-> FALSE, raced |-> FALSE, rerouted |-> FALSE]

Active(c) == certCmd[c].at \notin {"idle", "ok", "err"}
\* Between its first file and its last one.
MidFiles(c) == certCmd[c].at \in {"cert", "install", "write", "fill"}
AmongOthers(c) == \E d \in CertCommands \ {c} : MidFiles(d)

-----------------------------------------------------------------------------
(* Storage.                                                                *)

\* Key and certificate are replaced atomically: one that is there is complete.
root_cert_exists == certFiles.key # 0 /\ certFiles.cert # 0
\* The pair is loaded as it stands: nothing checks that the key fits the certificate.
try_load_tls_manager == IF root_cert_exists THEN Pair(certFiles.key, certFiles.cert) ELSE NoPair

Stores ==
  CASE platform = "windows" -> {"currentUserRoot", "localMachineRoot"}
    [] platform = "macos" -> {"userDomain", "systemDomain", "loginKeychain", "systemKeychain"}
    [] OTHER -> {"anchors", "caStore"}
AllStores == {"currentUserRoot", "localMachineRoot", "userDomain", "systemDomain", "loginKeychain", "systemKeychain",
              "anchors", "caStore"}

is_trusted_windows(root) == \E s \in {"currentUserRoot", "localMachineRoot"} : root \in trust[s]
is_trusted_macos(root) == \E s \in {"userDomain", "systemDomain"} : root \in trust[s]
\* Anchors not yet applied count as well as the live store.
is_trusted_linux(root) == \E s \in {"anchors", "caStore"} : root \in trust[s]
is_cert_trusted_on_platform(root) ==
  CASE platform = "windows" -> is_trusted_windows(root)
    [] platform = "macos" -> is_trusted_macos(root)
    [] OTHER -> is_trusted_linux(root)

\* Best effort per store: one that refuses is reported, one that never held the
\* root succeeds.  A certificate that cannot be read is reported for one store
\* on Windows, for the keychains on macOS and for both stores on Linux.
Untrusted(root, stores) == [s \in AllStores |-> IF s \in stores THEN trust[s] \ {root} ELSE trust[s]]
remove_cert_trust_windows(root, refused, unread) ==
  IF unread THEN [trust |-> trust, failed |-> {"currentUserRoot"}]
  ELSE [trust |-> Untrusted(root, Stores \ refused), failed |-> refused]
remove_cert_trust_macos(root, refused, unread) ==
  LET failed == refused \cup IF unread THEN {"loginKeychain", "systemKeychain"} ELSE {} IN
  [trust |-> Untrusted(root, Stores \ failed), failed |-> failed]
\* The refresh rebuilds the live store from the anchors that are left.
remove_cert_trust_linux(root, refused, unread) ==
  LET anchors == IF "anchors" \in refused THEN trust["anchors"] ELSE trust["anchors"] \ {root} IN
  IF unread THEN [trust |-> trust, failed |-> Stores]
  ELSE [trust |-> [trust EXCEPT !["anchors"] = anchors, !["caStore"] = IF "caStore" \in refused THEN @ ELSE anchors],
        failed |-> refused]
remove_cert_trust_on_platform(root, refused, unread) ==
  CASE platform = "windows" -> remove_cert_trust_windows(root, refused, unread)
    [] platform = "macos" -> remove_cert_trust_macos(root, refused, unread)
    [] OTHER -> remove_cert_trust_linux(root, refused, unread)

\* macOS shows the installable copy.
certificate_display_path == IF platform = "macos" THEN certFiles.install ELSE certFiles.cert

-----------------------------------------------------------------------------
(* The proxy, as far as certificates are concerned.                        *)

\* The manager in memory if there is one, else the pair on disk; no pair, no start.
Interceptor(ssl) == IF ~ssl THEN NoPair ELSE IF certApp.mgr # NoPair THEN certApp.mgr ELSE try_load_tls_manager
MayStart(ssl) == ~ssl \/ Interceptor(ssl) # NoPair

StartProxy ==
  /\ ~certApp.running /\ certApp.starting = "no" /\ budget.toggles > 0
  /\ MayStart(certApp.sslMem)
  /\ certApp' = [certApp EXCEPT !.starting = "bound", !.next = Interceptor(certApp.sslMem),
                        !.mgr = IF certApp.sslMem THEN Interceptor(TRUE) ELSE @]
  /\ budget' = [budget EXCEPT !.toggles = @ - 1]
  /\ UNCHANGED <<platform, certFiles, trust, certCmd, roots, torn, device>>
ProxyStarted ==
  /\ certApp.starting = "bound"
  /\ certApp' = [certApp EXCEPT !.starting = "no", !.running = TRUE, !.serving = certApp.next, !.next = NoPair]
  /\ UNCHANGED <<platform, certFiles, trust, certCmd, roots, torn, device, budget>>
\* The system proxy is handed back first, if the system lets it.
StopProxy ==
  /\ certApp.running /\ budget.toggles > 0
  /\ \E restored \in BOOLEAN :
       certApp' = [certApp EXCEPT !.running = FALSE, !.serving = NoPair, !.sys = @ /\ ~restored]
  /\ budget' = [budget EXCEPT !.toggles = @ - 1]
  /\ UNCHANGED <<platform, certFiles, trust, certCmd, roots, torn, device>>
EnableSystemProxy ==
  /\ certApp.running /\ ~certApp.sys
  /\ certApp' = [certApp EXCEPT !.sys = TRUE]
  /\ certCmd' = [c \in CertCommands |-> [certCmd[c] EXCEPT !.rerouted = certCmd[c].op = "remove"]]
  /\ UNCHANGED <<platform, certFiles, trust, roots, torn, device, budget>>

\* A restart takes the lock the start holds; it re-applies a system proxy that is still on.
Restarted(ssl) == [certApp EXCEPT !.running = TRUE, !.serving = Interceptor(ssl)]
StoppedByRestart == [certApp EXCEPT !.running = FALSE, !.serving = NoPair]

-----------------------------------------------------------------------------
(* Commands.                                                               *)

At(c, op, at) == certCmd[c].op = op /\ certCmd[c].at = at
CertGoto(c, at) == certCmd' = [certCmd EXCEPT ![c].at = at]

\* A command begins while others are under way; the answers of those that
\* have ended are read by then.
Begin(c, op, at) ==
  /\ ~Active(c)
  /\ certCmd' = [d \in CertCommands |->
       IF d = c THEN [CertIdle EXCEPT !.op = op, !.at = at, !.old = IF root_cert_exists THEN certFiles.cert ELSE 0,
                                      !.crossed = \E e \in CertCommands \ {c} : Active(e)]
       ELSE IF Active(d) THEN [certCmd[d] EXCEPT !.crossed = TRUE] ELSE CertIdle]
  /\ UNCHANGED <<platform, certFiles, trust, certApp, roots, torn, device, budget>>

\* An existing pair is kept unless a rotation is forced.
BeginGenerate(c) ==
  /\ roots + Cardinality({d \in CertCommands : At(d, "generate", "untrust") \/ At(d, "generate", "key")}) < MaxRoots
  /\ \E force \in BOOLEAN :
       Begin(c, "generate", IF ~root_cert_exists THEN "key" ELSE IF force THEN "untrust" ELSE "status")
\* Files that are gone skip the revocation only.
BeginRemove(c) == Begin(c, "remove", IF root_cert_exists THEN "untrust" ELSE "key")
\* The status by itself, or to launch the installer.
BeginShow(c) == Begin(c, "show", "status")
BeginInstall(c, bridge) == root_cert_exists /\ Begin(c, bridge, IF bridge = "ios" THEN "open" ELSE "look")

\* The old root is untrusted while its file can still name it.
Revoke(c) ==
  /\ \E refused \in SUBSET Stores, unread \in BOOLEAN :
       LET report == remove_cert_trust_on_platform(certFiles.cert, refused, unread) IN
       /\ certFiles.cert = 0 => unread
       /\ trust' = report.trust
       /\ certCmd' = [certCmd EXCEPT ![c].at = "key", ![c].failed = report.failed]
  /\ UNCHANGED <<platform, certFiles, certApp, roots, torn, device, budget>>
UntrustOld(c) == At(c, "generate", "untrust") /\ Revoke(c)
RevokeTrust(c) == At(c, "remove", "untrust") /\ Revoke(c)

\* The key first, then the certificate and its copy; a failed write leaves the
\* rest.  The files are one root's again when a command wrote all of them and no
\* other was under way.
SaveKey(c) ==
  /\ At(c, "generate", "key")
  /\ \/ /\ certFiles' = [certFiles EXCEPT !.key = roots + 1]
        /\ certCmd' = [certCmd EXCEPT ![c].at = "cert", ![c].root = roots + 1]
        /\ roots' = roots + 1 /\ torn' = (torn \/ AmongOthers(c))
     \/ CertGoto(c, "err") /\ UNCHANGED <<certFiles, roots, torn>>
  /\ UNCHANGED <<platform, trust, certApp, device, budget>>
SaveCert(c) ==
  /\ At(c, "generate", "cert")
  /\ \/ certFiles' = [certFiles EXCEPT !.cert = certCmd[c].root] /\ CertGoto(c, "install") /\ UNCHANGED torn
     \/ CertGoto(c, "err") /\ torn' = TRUE /\ UNCHANGED certFiles
  /\ UNCHANGED <<platform, trust, certApp, roots, device, budget>>
\* Tightening the permissions may fail once the files are there.
SaveInstall(c) ==
  /\ At(c, "generate", "install")
  /\ \/ /\ certFiles' = [certFiles EXCEPT !.install = certCmd[c].root]
        /\ torn' = (torn /\ certCmd[c].crossed)
        /\ CertGoto(c, "publish") \/ CertGoto(c, "err")
     \/ CertGoto(c, "err") /\ torn' = TRUE /\ UNCHANGED certFiles
  /\ UNCHANGED <<platform, trust, certApp, roots, device, budget>>
save_root_cert(c) == SaveKey(c) \/ SaveCert(c) \/ SaveInstall(c)

PublishManager(c) ==
  /\ At(c, "generate", "publish")
  /\ \/ certApp' = [certApp EXCEPT !.mgr = Pair(certCmd[c].root, certCmd[c].root)] /\ CertGoto(c, "restart")
     \/ CertGoto(c, "err") /\ UNCHANGED certApp
  /\ UNCHANGED <<platform, certFiles, trust, roots, torn, device, budget>>

\* A manager the proxy captured is immutable: only a restart takes the new one.
RestartProxy(c, ssl) ==
  /\ \/ ~certApp.running /\ UNCHANGED certApp
        /\ certCmd' = [certCmd EXCEPT ![c].at = "status", ![c].raced = certApp.starting # "no"]
     \/ certApp.running /\ MayStart(ssl) /\ certApp' = Restarted(ssl) /\ CertGoto(c, "status")
     \/ certApp.running /\ certApp' = StoppedByRestart /\ CertGoto(c, "err")
  /\ UNCHANGED <<platform, certFiles, trust, roots, torn, device, budget>>
M_NoRestart(c) ==
  /\ At(c, "generate", "restart")
  /\ CertGoto(c, "status") /\ UNCHANGED <<platform, certFiles, trust, certApp, roots, torn, device, budget>>
GenerateRestart(c) == At(c, "generate", "restart") /\ RestartProxy(c, certApp.sslMem)

\* The signing key goes first; absent files are no error.
RemoveStep(c, at, file, next) ==
  /\ At(c, "remove", at)
  /\ \/ /\ certFiles' = [certFiles EXCEPT ![file] = 0] /\ CertGoto(c, next)
        /\ torn' = CASE at = "key" -> torn \/ AmongOthers(c)
                     [] at = "cert" -> torn
                     [] at = "install" -> torn /\ certCmd[c].crossed
     \/ certFiles[file] # 0 /\ CertGoto(c, "err") /\ torn' = (torn \/ at # "key") /\ UNCHANGED certFiles
  /\ UNCHANGED <<platform, trust, certApp, roots, device, budget>>
remove_root_cert(c) ==
  RemoveStep(c, "key", "key", "cert") \/ RemoveStep(c, "cert", "cert", "install") \/ RemoveStep(c, "install", "install", "demote")

\* The manager is dropped and the workspace demoted in memory, then in the database.
DemoteWorkspace(c) ==
  /\ At(c, "remove", "demote")
  /\ \E saved \in BOOLEAN :
       /\ certApp' = [certApp EXCEPT !.mgr = NoPair, !.sslMem = FALSE, !.sslDb = @ /\ ~saved]
       /\ certCmd' = [certCmd EXCEPT ![c].at = "handback", ![c].warned = ~saved]
  /\ UNCHANGED <<platform, certFiles, trust, roots, torn, device, budget>>

\* The system proxy is handed back before the restart could re-apply it.
HandBack(c) ==
  /\ At(c, "remove", "handback")
  /\ \/ certApp' = [certApp EXCEPT !.sys = FALSE] /\ CertGoto(c, "restart")
     \/ certApp.sys /\ certCmd' = [certCmd EXCEPT ![c].at = "restart", ![c].handback = TRUE] /\ UNCHANGED certApp
  /\ UNCHANGED <<platform, certFiles, trust, roots, torn, device, budget>>

RemoveRestart(c) == At(c, "remove", "restart") /\ RestartProxy(c, FALSE)

-----------------------------------------------------------------------------
(* Status and installation.                                                *)

\* A generation and a removal end with the status too; macOS prepares the
\* installable copy for it.  A pair that cannot be loaded is an error.
get_certificate_status(c) ==
  /\ certCmd[c].at = "status"
  /\ \/ CertGoto(c, IF ~root_cert_exists THEN "ok" ELSE IF platform = "macos" THEN "look" ELSE "open")
     \/ root_cert_exists /\ CertGoto(c, "err")
  /\ UNCHANGED <<platform, certFiles, trust, certApp, roots, torn, device, budget>>

\* Only a missing copy is written: looked for, read from the certificate, and
\* written in place, which a crash or a full disk can stop half way.
LookForCopy(c) ==
  /\ certCmd[c].at = "look" /\ CertGoto(c, IF certFiles.install # 0 THEN "open" ELSE "read")
  /\ UNCHANGED <<platform, certFiles, trust, certApp, roots, torn, device, budget>>
ReadForCopy(c) ==
  /\ certCmd[c].at = "read"
  /\ \/ /\ certFiles.cert # 0 /\ certCmd' = [certCmd EXCEPT ![c].at = "write", ![c].file = certFiles.cert]
        /\ torn' = (torn \/ AmongOthers(c))
     \/ CertGoto(c, "err") /\ UNCHANGED torn
  /\ UNCHANGED <<platform, certFiles, trust, certApp, roots, device, budget>>
OpenCopy(c) ==
  /\ certCmd[c].at = "write"
  /\ \/ certFiles' = [certFiles EXCEPT !.install = Cut] /\ CertGoto(c, "fill")
     \/ CertGoto(c, "err") /\ UNCHANGED certFiles
  /\ UNCHANGED <<platform, trust, certApp, roots, torn, device, budget>>
\* A copy another command has replaced or removed meanwhile may no longer be the file that is open.
FillCopy(c) ==
  /\ certCmd[c].at = "fill"
  /\ \/ /\ \/ certFiles' = [certFiles EXCEPT !.install = certCmd[c].file]
           \/ certFiles.install # Cut /\ UNCHANGED certFiles
        /\ CertGoto(c, "open") /\ UNCHANGED torn
     \/ CertGoto(c, "err") /\ torn' = TRUE /\ UNCHANGED certFiles
  /\ UNCHANGED <<platform, trust, certApp, roots, device, budget>>
ensure_root_cert_install_copy(c) == LookForCopy(c) \/ ReadForCopy(c) \/ OpenCopy(c) \/ FillCopy(c)

\* The first place that has the bridge.
FirstOf(places, found) ==
  IF \E i \in DOMAIN places : places[i] \in found
  THEN places[CHOOSE i \in DOMAIN places : places[i] \in found /\ \A j \in 1 .. i - 1 : places[j] \notin found]
  ELSE ""
resolve_adb_path(found) == FirstOf(<<"PATH", "ANDROID_HOME", "ANDROID_SDK_ROOT", "home">>, found)
resolve_hdc_path(found) == FirstOf(<<"PATH", "HDC_PATH", "home">>, found)
ios_simctl_available(found) == platform = "macos" /\ "xcrun" \in found

\* A row is its words; adb needs a serial and a state.
read_adb_devices(rows) == {[serial |-> r[1], state |-> r[2]] : r \in {x \in rows : Len(x) >= 2}}
is_hdc_device_state(word) == word \in {"Connected", "connected", "Offline", "Unauthorized"}
\* The first word that is a state, else the second one, else connected.
parse_hdc_row(r) ==
  LET known == {i \in DOMAIN r : is_hdc_device_state(r[i])}
      at == IF known = {} THEN 2 ELSE CHOOSE i \in known : \A j \in known : i <= j
  IN [serial |-> r[1], state |-> IF at <= Len(r) THEN r[at] ELSE "Connected"]
read_hdc_devices(rows) == {parse_hdc_row(r) : r \in {x \in rows : x # <<>>}}
\* Only booted simulators are listed.
read_ios_simulators(rows) == {[serial |-> r[1], state |-> r[2]] : r \in {x \in rows : Len(x) >= 2 /\ x[2] = "Booted"}}

\* The named device if it is ready; without a name the only ready one.
Target(devices, ready, wanted) ==
  LET usable == {d \in devices : d.state = ready} IN
  IF wanted # "" THEN {d.serial : d \in {x \in usable : x.serial = wanted}}
  ELSE IF Cardinality(usable) = 1 THEN {d.serial : d \in usable} ELSE {}
resolve_adb_target_device(rows, wanted) == Target(read_adb_devices(rows), "device", wanted)
resolve_harmony_target_device(rows, wanted) == Target(read_hdc_devices(rows), "Connected", wanted)
resolve_ios_simulator(rows, wanted) == Target(read_ios_simulators(rows), "Booted", wanted)

\* What the bridges may find, wherever they are installed and whatever they list.
AdbTargets ==
  {IF resolve_adb_path(found) = "" THEN {} ELSE resolve_adb_target_device(rows, wanted) :
     rows \in Listings, found \in BridgePlaces, wanted \in {"", "d1"}}
HdcTargets ==
  {IF resolve_hdc_path(found) = "" THEN {} ELSE resolve_harmony_target_device(rows, wanted) :
     rows \in Listings, found \in BridgePlaces, wanted \in {"", "d1"}}
Simulators ==
  {IF ios_simctl_available(found) THEN resolve_ios_simulator(rows, wanted) ELSE {} :
     rows \in Listings, found \in BridgePlaces, wanted \in {"", "d1"}}

\* The bridge takes the file to the device, or fails.
HandOver(c, targets, file) ==
  /\ certCmd[c].at = "open"
  /\ \/ UNION targets # {} /\ certCmd' = [certCmd EXCEPT ![c].at = "ok", ![c].file = file]
     \/ CertGoto(c, "err")
  /\ UNCHANGED <<platform, certFiles, trust, certApp, roots, torn, device, budget>>
install_android_certificate_via_adb(c) == certCmd[c].op = "android" /\ HandOver(c, AdbTargets, certFiles.install)
install_harmony_certificate_via_hdc(c) == certCmd[c].op = "harmony" /\ HandOver(c, HdcTargets, certFiles.install)
\* The simulator is given the certificate itself.
install_ios_certificate_via_simulator(c) == certCmd[c].op = "ios" /\ HandOver(c, Simulators, certFiles.cert)

\* The device's proxy setting is a command on the device, refused or done.
AdbShell(proxy) ==
  /\ UNION AdbTargets # {} /\ device' = proxy
  /\ UNCHANGED <<platform, certFiles, trust, certApp, certCmd, roots, torn, budget>>
set_android_proxy_via_adb == AdbShell("proxy")
clear_android_proxy_via_adb == AdbShell("none")

\* What the user may do with the certificate that is opened: one that is whole
\* is put in a store, and on macOS trusted in the domain of its keychain.
TrustedByUser(root) ==
  IF root \in {0, Cut} THEN {}
  ELSE CASE platform = "windows" -> {[trust EXCEPT ![s] = @ \cup {root}] : s \in Stores}
         [] platform = "macos" -> {[s \in AllStores |-> IF s \in places THEN trust[s] \cup {root} ELSE trust[s]] :
                                     places \in {{"loginKeychain", "userDomain"}, {"systemKeychain", "systemDomain"}}}
         [] OTHER -> {[trust EXCEPT !["anchors"] = @ \cup {root}, !["caStore"] = trust["anchors"] \cup {root}]}
\* The installer opens what the status shows; a generation opens the new certificate on macOS.
launch_certificate_installer(c) ==
  /\ certCmd[c].at = "open" /\ certCmd[c].op \in {"generate", "remove", "show"}
  /\ certCmd' = [certCmd EXCEPT ![c].at = "ok", ![c].file = certificate_display_path]
  /\ \/ UNCHANGED trust
     \/ /\ At(c, "show", "open") \/ (platform = "macos" /\ At(c, "generate", "open") /\ certCmd[c].root # 0)
        /\ trust' \in TrustedByUser(certificate_display_path)
  /\ UNCHANGED <<platform, certFiles, certApp, roots, torn, device, budget>>

-----------------------------------------------------------------------------

\* Files and trust survive; the switch comes back as the database has it.
CertCrash ==
  /\ budget.crashes > 0
  /\ certApp' = [mgr |-> NoPair, sslMem |-> certApp.sslDb, sslDb |-> certApp.sslDb, running |-> FALSE, starting |-> "no",
             next |-> NoPair, serving |-> NoPair, sys |-> FALSE]
  /\ torn' = (torn \/ \E c \in CertCommands : certCmd[c].at \in {"cert", "install", "fill"})
  /\ certCmd' = [c \in CertCommands |-> CertIdle]
  /\ budget' = [budget EXCEPT !.crashes = @ - 1]
  /\ UNCHANGED <<platform, certFiles, trust, roots, device>>

\* No root yet, or one from before the installable copy was made.
CertificatesInit ==
  /\ platform \in Platforms
  /\ roots \in {0, 1} /\ roots <= MaxRoots /\ certFiles = Files(roots, roots, 0)
  /\ trust = [s \in AllStores |-> {}]
  /\ certApp = [mgr |-> NoPair, sslMem |-> TRUE, sslDb |-> TRUE, running |-> FALSE, starting |-> "no",
            next |-> NoPair, serving |-> NoPair, sys |-> FALSE]
  /\ certCmd = [c \in CertCommands |-> CertIdle] /\ torn = FALSE /\ device = "none"
  /\ budget = [crashes |-> MaxCrashes, toggles |-> MaxToggles]

CertStep(c) ==
  \/ BeginGenerate(c) \/ UntrustOld(c) \/ save_root_cert(c) \/ PublishManager(c) \/ GenerateRestart(c)
  \/ BeginRemove(c) \/ RevokeTrust(c) \/ remove_root_cert(c) \/ DemoteWorkspace(c) \/ HandBack(c) \/ RemoveRestart(c)
  \/ BeginShow(c) \/ get_certificate_status(c) \/ ensure_root_cert_install_copy(c) \/ launch_certificate_installer(c)
  \/ \E bridge \in {"android", "harmony", "ios"} : BeginInstall(c, bridge)
  \/ install_android_certificate_via_adb(c) \/ install_harmony_certificate_via_hdc(c) \/ install_ios_certificate_via_simulator(c)
NextCertificates ==
  \/ StartProxy \/ ProxyStarted \/ StopProxy \/ EnableSystemProxy
  \/ \E c \in CertCommands : CertStep(c)
  \/ set_android_proxy_via_adb \/ clear_android_proxy_via_adb \/ CertCrash

CertificatesSpec == CertificatesInit /\ [][NextCertificates]_certVars

-----------------------------------------------------------------------------

\* The key, the certificate and its copy belong to one root, or to none.
OneRoot == certFiles.key = certFiles.cert /\ certFiles.install \in {0, certFiles.cert}

\* No lock orders the certificate commands (certificates.rs:136, 144), so what
\* one reports is promised only while it ran by itself.  A generation or
\* rotation that did and succeeded left all three files and the manager to its
\* new root, whatever a crash, a failed write or crossing commands had left
\* before; a removal left no file, no manager, no signing proxy, no switch that
\* comes back and no routed system it did not warn of.  After either the old
\* root is in a store only if some store was reported as failed, and no running
\* proxy signs with it (unless a start was under way when it looked for one).
\* Crossed or not, the files are of one root unless a step over them failed or
\* stopped half way, or two commands were between their first and last file at
\* once; what was then shown to the user or handed to a device is that root.
CertificateCommandsComplete ==
  /\ ~torn /\ (\A c \in CertCommands : ~MidFiles(c)) => OneRoot
  /\ \A c \in CertCommands : LET cmd == certCmd[c] IN
       cmd.at = "ok" /\ ~cmd.crossed =>
         /\ cmd.root # 0 => certFiles = Files(cmd.root, cmd.root, cmd.root) /\ certApp.mgr = Pair(cmd.root, cmd.root)
         /\ cmd.op = "remove" =>
              /\ certFiles = Files(0, 0, 0) /\ certApp.mgr = NoPair
              /\ ~cmd.raced => certApp.serving = NoPair
              /\ certApp.sslDb => cmd.warned
              /\ certApp.sys => cmd.handback \/ cmd.rerouted
         /\ (cmd.root # 0 \/ cmd.op = "remove") /\ cmd.old # 0 =>
              /\ \A s \in Stores : cmd.old \in trust[s] => cmd.failed # {}
              /\ ~cmd.raced /\ certApp.running => certApp.serving.cert # cmd.old
         /\ cmd.file # 0 /\ ~torn => cmd.file = certFiles.cert
=============================================================================
