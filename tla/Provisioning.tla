---------------------------- MODULE Provisioning ----------------------------
(***************************************************************************)
(* Runs that push a certificate to its place on a target and record what   *)
(* became of it (provisioning/engine.py, provisioning/drivers).  Runs of   *)
(* one installation overlap: a person starts one by hand while the cycle   *)
(* renews it, or two replicas do.  Each keeps the installation as it was   *)
(* when it loaded it.  From the first audit event of the issuance to its   *)
(* commit a run is alone, and what it does on the target it does then; but *)
(* for the key that the target makes, which it asks for before.            *)
(*                                                                         *)
(* An installation's status, error and backoff are left out here; the      *)
(* backoff is in RenewDue.  A key is called after the certificate that it  *)
(* is made for.                                                            *)
(***************************************************************************)
CONSTANTS
  Pushed,    \* the certificates there can be
  Run,       \* runs of the installation at the same time
  Nothing    \* no certificate, no key, no run

ASSUME NothingAssumption == Pushed # {} /\ Nothing \notin Pushed \cup Run

VARIABLES
  setup,     \* how the target is driven; does not change
  host,      \* the target: the key made last, the key, the certificate, and what is served
  installed, \* the installation's certificate_id
  standing,  \* the status of the certificates; lost: issued and rolled back
  successor, \* their replaced_by
  run,       \* what each run is doing
  pushing,   \* the run that holds the audit lock
  last,      \* how the last run ended that wrote to the target
  delivered  \* the certificates that reached the target, and were seen there if that is checked

provVars == <<setup, host, installed, standing, successor, run, pushing, last, delivered>>

-----------------------------------------------------------------------------

\* files: written one by one (ssh.py); or one call to an API that replaces all.
\* device: the target makes the key.  reloads: there is a reload command.
\* checked: there is an endpoint to look at.
Setup == {s \in [files : BOOLEAN, device : BOOLEAN, reloads : BOOLEAN, checked : BOOLEAN] :
            s.device \/ s.reloads => s.files}

Place == Pushed \cup {Nothing}

Rest == [pc |-> "rest", seen |-> Nothing, cert |-> Nothing, done |-> FALSE]

Moves(w, pc) == run' = [run EXCEPT ![w].pc = pc]

OnTarget == UNCHANGED <<setup, installed, standing, successor, pushing, delivered>>

-----------------------------------------------------------------------------
(* A run *)

Begin(w) ==
  /\ run[w] = Rest
  /\ run' = [run EXCEPT ![w] = [Rest EXCEPT !.pc = "key", !.seen = installed]]
  /\ UNCHANGED <<setup, host, installed, standing, successor, pushing, last, delivered>>

Unused == {c \in Pushed : standing[c] = "none" /\ \A w \in Run : run[w].cert # c}

\* A key is made here, or next to the one in use (device_csr).
MakeKey(w) ==
  LET c == CHOOSE d \in Unused : TRUE
  IN  /\ run[w].pc = "key" /\ Unused # {}
      /\ run' = [run EXCEPT ![w].pc = "sign", ![w].cert = c]
      /\ host' = IF setup.device THEN [host EXCEPT !.next = c] ELSE host
      /\ UNCHANGED <<setup, installed, standing, successor, pushing, last, delivered>>

\* request_certificate
Sign(w) ==
  /\ run[w].pc = "sign" /\ pushing = Nothing
  /\ pushing' = w
  /\ Moves(w, IF setup.files THEN "place_key" ELSE "put")
  /\ UNCHANGED <<setup, host, installed, standing, successor, last, delivered>>

PlaceKey(w) ==
  /\ run[w].pc = "place_key"
  /\ setup.device => host.next # Nothing
  /\ host' = IF setup.device THEN [host EXCEPT !.key = host.next, !.next = Nothing]
             ELSE [host EXCEPT !.key = run[w].cert]
  /\ last' = "unknown"
  /\ Moves(w, "place_cert")
  /\ OnTarget

PlaceCert(w) ==
  /\ run[w].pc = "place_cert"
  /\ host' = [host EXCEPT !.file = run[w].cert]
  /\ Moves(w, "reload")
  /\ UNCHANGED last /\ OnTarget

\* A server takes up its files only if they belong together.
Served(h) == IF h.key = h.file THEN [h EXCEPT !.served = h.file] ELSE h

Reload(w) ==
  /\ run[w].pc = "reload"
  /\ host' = IF setup.reloads THEN Served(host) ELSE host
  /\ run' = [run EXCEPT ![w].pc = "check", ![w].done = TRUE]
  /\ UNCHANGED last /\ OnTarget

\* The target replaces key and certificate; its answer may be lost.
Put(w, heard) ==
  /\ run[w].pc = "put"
  /\ host' = [host EXCEPT !.key = run[w].cert, !.file = run[w].cert, !.served = run[w].cert]
  /\ last' = "unknown"
  /\ run' = [run EXCEPT ![w].pc = IF heard THEN "check" ELSE "failed", ![w].done = heard]
  /\ OnTarget

\* A step fails and changes nothing.
StepFails(w) ==
  /\ run[w].pc \in {"put", "place_key", "place_cert", "reload"}
  /\ Moves(w, "failed")
  /\ UNCHANGED <<host, last>> /\ OnTarget

\* wait_until_served, if there is an endpoint; it may also fail to connect.
Check(w) ==
  /\ run[w].pc = "check"
  /\ \/ /\ setup.checked => host.served = run[w].cert
        /\ Moves(w, "ok")
        /\ delivered' = delivered \cup {run[w].cert}
     \/ setup.checked /\ Moves(w, "failed") /\ UNCHANGED delivered
  /\ UNCHANGED <<setup, host, installed, standing, successor, pushing, last>>

\* The certificate that the installation had when the run loaded it is superseded
\* if it is still active.
Succeeds(w) ==
  LET c == run[w].cert
      p == run[w].seen
      ends == {d \in Pushed \ {c} : d = p /\ standing[d] = "active"}
  IN  /\ run[w].pc = "ok"
      /\ standing' = [d \in Pushed |-> IF d = c THEN "active"
                                       ELSE IF d \in ends THEN "superseded" ELSE standing[d]]
      /\ successor' = [d \in Pushed |-> IF d \in ends THEN c ELSE successor[d]]
      /\ installed' = c
      /\ last' = "ok"
      /\ run' = [run EXCEPT ![w] = Rest]
      /\ pushing' = Nothing
      /\ UNCHANGED <<setup, host, delivered>>

\* Mutant: the installation is written as the run loaded it.
Fails_Stale(w) ==
  LET c == run[w].cert
  IN  /\ run[w].pc = "failed"
      /\ \/ standing' = [standing EXCEPT ![c] = IF run[w].done THEN "active" ELSE "revoked"]
         \/ standing' = [standing EXCEPT ![c] = "active"]
      /\ installed' = IF run[w].done THEN c ELSE run[w].seen
      /\ last' = IF last = "unknown" THEN (IF run[w].done THEN "installed" ELSE "failed") ELSE last
      /\ run' = [run EXCEPT ![w] = Rest]
      /\ pushing' = Nothing
      /\ UNCHANGED <<setup, host, successor, delivered>>

\* Mutant: a certificate that is installed but not served is not recorded.
Fails_Unrecorded(w) ==
  LET c == run[w].cert
  IN  /\ run[w].pc = "failed"
      /\ standing' = [standing EXCEPT ![c] = IF run[w].done THEN "active" ELSE "revoked"]
      /\ last' = IF last = "unknown" THEN (IF run[w].done THEN "installed" ELSE "failed") ELSE last
      /\ run' = [run EXCEPT ![w] = Rest]
      /\ pushing' = Nothing
      /\ UNCHANGED <<setup, host, installed, successor, delivered>>

\* What install did not return for is revoked, unless that fails as well; what is
\* installed is recorded, for the next run to replace.
Fails(w) ==
  LET c == run[w].cert
  IN  /\ run[w].pc = "failed"
      /\ \/ standing' = [standing EXCEPT ![c] = IF run[w].done THEN "active" ELSE "revoked"]
         \/ standing' = [standing EXCEPT ![c] = "active"]
      /\ installed' = IF run[w].done THEN c ELSE installed
      /\ last' = IF last = "unknown" THEN (IF run[w].done THEN "installed" ELSE "failed") ELSE last
      /\ run' = [run EXCEPT ![w] = Rest]
      /\ pushing' = Nothing
      /\ UNCHANGED <<setup, host, successor, delivered>>

\* A run fails before anything is issued, or its process dies and its transaction
\* is rolled back: no one knows its certificate any more.
Dies(w) ==
  /\ run[w] # Rest
  /\ run' = [run EXCEPT ![w] = Rest]
  /\ standing' = [c \in Pushed |-> IF c = run[w].cert THEN "lost" ELSE standing[c]]
  /\ pushing' = IF pushing = w THEN Nothing ELSE pushing
  /\ UNCHANGED <<setup, host, installed, successor, last, delivered>>

\* Somebody restarts the server.
Restart ==
  /\ setup.files /\ host' = Served(host)
  /\ UNCHANGED <<setup, installed, standing, successor, run, pushing, last, delivered>>

-----------------------------------------------------------------------------

\* An installation that was never run, or one that is in order.
ProvInit ==
  /\ setup \in Setup
  /\ \E c \in {Nothing, CHOOSE d \in Pushed : TRUE} :
       /\ host = [next |-> Nothing, key |-> c, file |-> c, served |-> c]
       /\ installed = c
       /\ standing = [d \in Pushed |-> IF d = c THEN "active" ELSE "none"]
       /\ delivered = {c} \ {Nothing}
  /\ successor = [c \in Pushed |-> Nothing]
  /\ run = [w \in Run |-> Rest]
  /\ pushing = Nothing
  /\ last = "ok"

Step(w) ==
  \/ Begin(w) \/ MakeKey(w) \/ Sign(w) \/ PlaceKey(w) \/ PlaceCert(w) \/ Reload(w)
  \/ \E heard \in BOOLEAN : Put(w, heard)
  \/ StepFails(w) \/ Check(w) \/ Succeeds(w) \/ Fails(w) \/ Dies(w)

ProvNext == Restart \/ \E w \in Run : Step(w)

ProvSpec == ProvInit /\ [][ProvNext]_provVars

-----------------------------------------------------------------------------
(* Properties *)

ProvTypeOK ==
  /\ setup \in Setup
  /\ host \in [next : Place, key : Place, file : Place, served : Place]
  /\ installed \in Place
  /\ standing \in [Pushed -> {"none", "lost", "active", "superseded", "revoked"}]
  /\ successor \in [Pushed -> Place]
  /\ run \in [Run -> [pc : {"rest", "key", "sign", "put", "place_key", "place_cert", "reload",
                            "check", "ok", "failed"},
                      seen : Place, cert : Place, done : BOOLEAN]]
  /\ pushing \in Run \cup {Nothing}
  /\ last \in {"ok", "installed", "failed", "unknown"}
  /\ delivered \subseteq Pushed

\* If the last run that wrote to the target has installed its certificate, served
\* or not, then the certificate on record is the one on the target; and where a run
\* saw it served, the target serves it, with the key that belongs to it.
RecordedIsInstalled ==
  /\ last \in {"ok", "installed"} => installed = host.file
  /\ last = "ok" /\ setup.checked => host.served = installed /\ host.key = installed

\* Whatever runs overlap, fail or die: the certificate on record is active, and one
\* that is superseded was replaced by one that reached the target and, where there
\* is an endpoint, was seen there.
NothingLost ==
  /\ installed # Nothing => standing[installed] = "active"
  /\ \A c \in Pushed : standing[c] = "superseded" => successor[c] \in delivered

=============================================================================
