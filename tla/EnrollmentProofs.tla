-------------------------- MODULE EnrollmentProofs --------------------------
(***************************************************************************)
(* What the runs of Provisioning and the cycle of RenewDue guarantee, for  *)
(* any number of certificates, runs and installations, and that this, and  *)
(* what Acme guarantees, holds of the three together.                      *)
(***************************************************************************)
EXTENDS MCEnrollment, AcmeProofs

USE NothingAssumption

-----------------------------------------------------------------------------
(* The inductive invariant *)

\* A run that has signed is alone until it commits.
OneWrites ==
  \A w \in Run :
    run[w].pc \in {"put", "place_key", "place_cert", "reload", "check", "ok", "failed"}
      <=> pushing = w

\* No two runs make the same certificate.
Distinct == \A v, w \in Run : v # w /\ run[v].cert = run[w].cert => run[v].cert = Nothing

\* What no run has made yet is not on the target.
Fresh ==
  \A c \in Unused : host.file # c /\ host.served # c

\* How far a run has come, and what the target shows of it.
Made(w) ==
  /\ run[w].pc \in {"rest", "key"} => run[w].cert = Nothing
  /\ run[w].pc \notin {"rest", "key"} => run[w].cert \in Pushed /\ standing[run[w].cert] = "none"

Placed(w) ==
  /\ run[w].pc \in {"sign", "put", "place_key", "place_cert"} =>
       host.file # run[w].cert /\ host.served # run[w].cert
  /\ run[w].pc \in {"reload", "check", "ok"} =>
       host.file = run[w].cert /\ (host.served = run[w].cert => host.key = run[w].cert)
  /\ run[w].pc = "ok" =>
       run[w].cert \in delivered /\ (setup.checked => host.served = run[w].cert)

\* From its first write on the target until it commits, how a run ends is unknown.
Writing(w) ==
  /\ run[w].done => run[w].pc \in {"check", "ok", "failed"} /\ host.file = run[w].cert
  /\ run[w].pc \in {"check", "ok"} => run[w].done
  /\ run[w].done \/ run[w].pc \in {"place_cert", "reload"} => last = "unknown"

ProvInv ==
  /\ ProvTypeOK /\ OneWrites /\ Distinct /\ Fresh
  /\ \A w \in Run : Made(w) /\ Placed(w) /\ Writing(w)
  /\ RecordedIsInstalled /\ NothingLost

-----------------------------------------------------------------------------
(* Steps of a run *)

RunRow == [pc : {"rest", "key", "sign", "put", "place_key", "place_cert", "reload",
                 "check", "ok", "failed"},
           seen : Place, cert : Place, done : BOOLEAN]

HostRow == [next : Place, key : Place, file : Place, served : Place]

\* Only w moves.
MovesTo(w, pc, seen, c) ==
  /\ run' \in [Run -> RunRow]
  /\ \A v \in Run : v # w => run'[v] = run[v]
  /\ run'[w].pc = pc /\ run'[w].seen = seen /\ run'[w].cert = c

\* A run that has not begun.
LEMMA RestRow == Rest \in RunRow
BY DEF Rest, RunRow, Place

\* The target was asked to install: whether it is known to have done so is d.
LEMMA DoneGoes ==
  ASSUME run \in [Run -> RunRow], NEW w \in Run, NEW pc \in {"check", "failed"},
         NEW d \in BOOLEAN, run' = [run EXCEPT ![w].pc = pc, ![w].done = d]
  PROVE  MovesTo(w, pc, run[w].seen, run[w].cert) /\ run'[w].done = d
BY DEF MovesTo, RunRow

-----------------------------------------------------------------------------
(* Every action keeps the invariant *)

\* A run begins and makes its key.
LEMMA BeginStep ==
  ASSUME ProvInv, NEW w \in Run, Begin(w)
  PROVE  ProvInv'
<1> USE DEF RunRow, HostRow, Place
<1>0. ProvTypeOK
  BY DEF ProvInv
<1>a. MovesTo(w, "key", installed, Nothing) /\ ~run'[w].done /\ run[w].pc = "rest" /\ run[w].cert = Nothing
  BY <1>0, RestRow DEF ProvTypeOK, Begin, MovesTo, Rest
<1>b. /\ setup' = setup /\ host' = host /\ installed' = installed
      /\ standing' = standing /\ successor' = successor /\ pushing' = pushing
      /\ last' = last /\ delivered' = delivered
  BY DEF Begin
<1>1. ProvTypeOK'
  BY <1>0, <1>a, <1>b DEF ProvTypeOK, MovesTo
<1>2. OneWrites'
  BY <1>0, <1>a, <1>b DEF ProvInv, OneWrites, MovesTo
<1>3. Distinct'
  BY <1>0, <1>a, <1>b DEF ProvInv, Distinct, Made, MovesTo, Unused
<1>4. Fresh'
  BY <1>0, <1>a, <1>b DEF ProvInv, Fresh, Unused, Made, Placed, MovesTo
<1>5. ASSUME NEW v \in Run PROVE Made(v)'
  BY <1>0, <1>a, <1>b DEF ProvInv, Made, Distinct, MovesTo, Unused, NothingLost
<1>6. ASSUME NEW v \in Run PROVE Placed(v)'
  BY <1>0, <1>a, <1>b DEF ProvInv, Placed, Made, Distinct, OneWrites, Fresh, Unused, MovesTo
<1>7. ASSUME NEW v \in Run PROVE Writing(v)'
  BY <1>0, <1>a, <1>b DEF ProvInv, Writing, OneWrites, Made, Placed, MovesTo
<1>8. RecordedIsInstalled'
  BY <1>0, <1>a, <1>b DEF ProvInv, RecordedIsInstalled, Writing, Placed, MovesTo
<1>9. NothingLost'
  BY <1>0, <1>a, <1>b DEF ProvInv, NothingLost, Made, Placed, ProvTypeOK
<1> QED BY <1>1, <1>2, <1>3, <1>4, <1>5, <1>6, <1>7, <1>8, <1>9 DEF ProvInv

LEMMA MakeKeyStep ==
  ASSUME ProvInv, NEW w \in Run, MakeKey(w)
  PROVE  ProvInv'
<1> USE DEF RunRow, HostRow, Place
<1>0. ProvTypeOK
  BY DEF ProvInv
<1>a. PICK c \in Unused :
        /\ run' = [run EXCEPT ![w].pc = "sign", ![w].cert = c]
        /\ host' = IF setup.device THEN [host EXCEPT !.next = c] ELSE host
  <2>1. (CHOOSE d \in Unused : TRUE) \in Unused
    BY DEF MakeKey
  <2> QED BY <2>1 DEF MakeKey
<1>b. MovesTo(w, "sign", run[w].seen, c) /\ run'[w].done = run[w].done /\ run[w].pc = "key"
  BY <1>0, <1>a DEF ProvTypeOK, MakeKey, MovesTo, Unused
<1>c. host' \in HostRow /\ host'.file = host.file /\ host'.served = host.served /\ host'.key = host.key
  BY <1>0, <1>a DEF ProvTypeOK, Unused
<1>d. /\ setup' = setup /\ installed' = installed /\ standing' = standing
      /\ successor' = successor /\ pushing' = pushing /\ last' = last
      /\ delivered' = delivered
  BY DEF MakeKey
<1>1. ProvTypeOK'
  BY <1>0, <1>a, <1>b, <1>c, <1>d DEF ProvTypeOK, MovesTo
<1>2. OneWrites'
  BY <1>0, <1>a, <1>b, <1>c, <1>d DEF ProvInv, OneWrites, MovesTo
<1>3. Distinct'
  BY <1>0, <1>a, <1>b, <1>c, <1>d DEF ProvInv, Distinct, Made, MovesTo, Unused
<1>4. Fresh'
  BY <1>0, <1>a, <1>b, <1>c, <1>d DEF ProvInv, Fresh, Unused, Made, Placed, MovesTo
<1>5. ASSUME NEW v \in Run PROVE Made(v)'
  BY <1>0, <1>a, <1>b, <1>c, <1>d DEF ProvInv, Made, Distinct, MovesTo, Unused, NothingLost
<1>6. ASSUME NEW v \in Run PROVE Placed(v)'
  BY <1>0, <1>a, <1>b, <1>c, <1>d DEF ProvInv, Placed, Made, Distinct, OneWrites, Fresh,
     Unused, MovesTo
<1>7. ASSUME NEW v \in Run PROVE Writing(v)'
  BY <1>0, <1>a, <1>b, <1>c, <1>d DEF ProvInv, Writing, OneWrites, Made, Placed, MovesTo
<1>8. RecordedIsInstalled'
  BY <1>0, <1>a, <1>b, <1>c, <1>d DEF ProvInv, RecordedIsInstalled, Writing, Placed, MovesTo
<1>9. NothingLost'
  BY <1>0, <1>a, <1>b, <1>c, <1>d DEF ProvInv, NothingLost, Made, Placed, ProvTypeOK
<1> QED BY <1>1, <1>2, <1>3, <1>4, <1>5, <1>6, <1>7, <1>8, <1>9 DEF ProvInv

\* It asks for its certificate, and writes on the target,
LEMMA SignStep ==
  ASSUME ProvInv, NEW w \in Run, Sign(w)
  PROVE  ProvInv'
<1> USE DEF RunRow, HostRow, Place
<1>0. ProvTypeOK
  BY DEF ProvInv
<1>a. PICK pc \in {"place_key", "put"} : MovesTo(w, pc, run[w].seen, run[w].cert) /\ run'[w].done = run[w].done
  BY <1>0 DEF ProvTypeOK, Sign, Moves, MovesTo
<1>b. run[w].pc = "sign" /\ pushing = Nothing /\ pushing' = w
  BY DEF Sign
<1>c. /\ setup' = setup /\ host' = host /\ installed' = installed
      /\ standing' = standing /\ successor' = successor /\ last' = last
      /\ delivered' = delivered
  BY DEF Sign
<1>1. ProvTypeOK'
  BY <1>0, <1>a, <1>b, <1>c DEF ProvTypeOK, MovesTo
<1>2. OneWrites'
  BY <1>0, <1>a, <1>b, <1>c DEF ProvInv, OneWrites, MovesTo
<1>3. Distinct'
  BY <1>0, <1>a, <1>b, <1>c DEF ProvInv, Distinct, Made, MovesTo, Unused
<1>4. Fresh'
  BY <1>0, <1>a, <1>b, <1>c DEF ProvInv, Fresh, Unused, Made, Placed, MovesTo
<1>5. ASSUME NEW v \in Run PROVE Made(v)'
  BY <1>0, <1>a, <1>b, <1>c DEF ProvInv, Made, Distinct, MovesTo, Unused, NothingLost
<1>6. ASSUME NEW v \in Run PROVE Placed(v)'
  BY <1>0, <1>a, <1>b, <1>c DEF ProvInv, Placed, Made, Distinct, OneWrites, Fresh, Unused, MovesTo
<1>7. ASSUME NEW v \in Run PROVE Writing(v)'
  BY <1>0, <1>a, <1>b, <1>c DEF ProvInv, Writing, OneWrites, Made, Placed, MovesTo
<1>8. RecordedIsInstalled'
  BY <1>0, <1>a, <1>b, <1>c DEF ProvInv, RecordedIsInstalled, Writing, Placed, MovesTo
<1>9. NothingLost'
  BY <1>0, <1>a, <1>b, <1>c DEF ProvInv, NothingLost, Made, Placed, ProvTypeOK
<1> QED BY <1>1, <1>2, <1>3, <1>4, <1>5, <1>6, <1>7, <1>8, <1>9 DEF ProvInv

LEMMA PlaceKeyStep ==
  ASSUME ProvInv, NEW w \in Run, PlaceKey(w)
  PROVE  ProvInv'
<1> USE DEF RunRow, HostRow, Place
<1>0. ProvTypeOK
  BY DEF ProvInv
<1>a. MovesTo(w, "place_cert", run[w].seen, run[w].cert) /\ run'[w].done = run[w].done /\ run[w].pc = "place_key"
  BY <1>0 DEF ProvTypeOK, PlaceKey, Moves, MovesTo
<1>b. host' \in HostRow /\ host'.file = host.file /\ host'.served = host.served
  BY <1>0 DEF ProvTypeOK, PlaceKey
<1>c. /\ last' = "unknown" /\ setup' = setup /\ installed' = installed
      /\ standing' = standing /\ successor' = successor /\ pushing' = pushing
      /\ delivered' = delivered
  BY DEF PlaceKey, OnTarget
<1>1. ProvTypeOK'
  BY <1>0, <1>a, <1>b, <1>c DEF ProvTypeOK, MovesTo
<1>2. OneWrites'
  BY <1>0, <1>a, <1>b, <1>c DEF ProvInv, OneWrites, MovesTo
<1>3. Distinct'
  BY <1>0, <1>a, <1>b, <1>c DEF ProvInv, Distinct, Made, MovesTo, Unused
<1>4. Fresh'
  BY <1>0, <1>a, <1>b, <1>c DEF ProvInv, Fresh, Unused, Made, Placed, MovesTo
<1>5. ASSUME NEW v \in Run PROVE Made(v)'
  BY <1>0, <1>a, <1>b, <1>c DEF ProvInv, Made, Distinct, MovesTo, Unused, NothingLost
<1>6. ASSUME NEW v \in Run PROVE Placed(v)'
  BY <1>0, <1>a, <1>b, <1>c DEF ProvInv, Placed, Made, Distinct, OneWrites, Fresh, Unused, MovesTo
<1>7. ASSUME NEW v \in Run PROVE Writing(v)'
  BY <1>0, <1>a, <1>b, <1>c DEF ProvInv, Writing, OneWrites, Made, Placed, MovesTo
<1>8. RecordedIsInstalled'
  BY <1>0, <1>a, <1>b, <1>c DEF ProvInv, RecordedIsInstalled, Writing, Placed, MovesTo
<1>9. NothingLost'
  BY <1>0, <1>a, <1>b, <1>c DEF ProvInv, NothingLost, Made, Placed, ProvTypeOK
<1> QED BY <1>1, <1>2, <1>3, <1>4, <1>5, <1>6, <1>7, <1>8, <1>9 DEF ProvInv

LEMMA PlaceCertStep ==
  ASSUME ProvInv, NEW w \in Run, PlaceCert(w)
  PROVE  ProvInv'
<1> USE DEF RunRow, HostRow, Place
<1>0. ProvTypeOK
  BY DEF ProvInv
<1>a. MovesTo(w, "reload", run[w].seen, run[w].cert) /\ run'[w].done = run[w].done /\ run[w].pc = "place_cert"
  BY <1>0 DEF ProvTypeOK, PlaceCert, Moves, MovesTo
<1>b. host' \in HostRow /\ host'.file = run[w].cert /\ host'.served = host.served /\ host'.key = host.key
  BY <1>0 DEF ProvTypeOK, PlaceCert
<1>c. /\ setup' = setup /\ installed' = installed /\ standing' = standing
      /\ successor' = successor /\ pushing' = pushing /\ last' = last
      /\ delivered' = delivered
  BY DEF PlaceCert, OnTarget
<1>1. ProvTypeOK'
  BY <1>0, <1>a, <1>b, <1>c DEF ProvTypeOK, MovesTo
<1>2. OneWrites'
  BY <1>0, <1>a, <1>b, <1>c DEF ProvInv, OneWrites, MovesTo
<1>3. Distinct'
  BY <1>0, <1>a, <1>b, <1>c DEF ProvInv, Distinct, Made, MovesTo, Unused
<1>4. Fresh'
  BY <1>0, <1>a, <1>b, <1>c DEF ProvInv, Fresh, Unused, Made, Placed, MovesTo
<1>5. ASSUME NEW v \in Run PROVE Made(v)'
  BY <1>0, <1>a, <1>b, <1>c DEF ProvInv, Made, Distinct, MovesTo, Unused, NothingLost
<1>6. ASSUME NEW v \in Run PROVE Placed(v)'
  BY <1>0, <1>a, <1>b, <1>c DEF ProvInv, Placed, Made, Distinct, OneWrites, Fresh, Unused, MovesTo
<1>7. ASSUME NEW v \in Run PROVE Writing(v)'
  BY <1>0, <1>a, <1>b, <1>c DEF ProvInv, Writing, OneWrites, Made, Placed, MovesTo
<1>8. RecordedIsInstalled'
  BY <1>0, <1>a, <1>b, <1>c DEF ProvInv, RecordedIsInstalled, Writing, Placed, MovesTo
<1>9. NothingLost'
  BY <1>0, <1>a, <1>b, <1>c DEF ProvInv, NothingLost, Made, Placed, ProvTypeOK
<1> QED BY <1>1, <1>2, <1>3, <1>4, <1>5, <1>6, <1>7, <1>8, <1>9 DEF ProvInv

LEMMA ReloadStep ==
  ASSUME ProvInv, NEW w \in Run, Reload(w)
  PROVE  ProvInv'
<1> USE DEF RunRow, HostRow, Place
<1>0. ProvTypeOK
  BY DEF ProvInv
<1>a. PICK t : t = TRUE /\ run' = [run EXCEPT ![w].pc = "check", ![w].done = t]
  BY Zenon DEF Reload
<1>b. run[w].pc = "reload"
  BY DEF Reload
<1>c. MovesTo(w, "check", run[w].seen, run[w].cert) /\ run'[w].done
  BY <1>0, <1>a, DoneGoes DEF ProvTypeOK
<1>d. /\ host' \in HostRow /\ host'.file = host.file /\ host'.key = host.key
      /\ host'.served = host.served \/ (host'.served = host.file /\ host.key = host.file)
  BY <1>0 DEF ProvTypeOK, Reload, Served
<1>e. /\ setup' = setup /\ installed' = installed /\ standing' = standing
      /\ successor' = successor /\ pushing' = pushing /\ last' = last
      /\ delivered' = delivered
  BY DEF Reload, OnTarget
<1>1. ProvTypeOK'
  BY <1>0, <1>a, <1>b, <1>c, <1>d, <1>e DEF ProvTypeOK, MovesTo
<1>2. OneWrites'
  BY <1>0, <1>a, <1>b, <1>c, <1>d, <1>e DEF ProvInv, OneWrites, MovesTo
<1>3. Distinct'
  BY <1>0, <1>a, <1>b, <1>c, <1>d, <1>e DEF ProvInv, Distinct, Made, MovesTo, Unused
<1>4. Fresh'
  BY <1>0, <1>a, <1>b, <1>c, <1>d, <1>e DEF ProvInv, Fresh, Unused, Made, Placed, MovesTo
<1>5. ASSUME NEW v \in Run PROVE Made(v)'
  BY <1>0, <1>a, <1>b, <1>c, <1>d, <1>e DEF ProvInv, Made, Distinct, MovesTo, Unused,
     NothingLost
<1>6. ASSUME NEW v \in Run PROVE Placed(v)'
  BY <1>0, <1>a, <1>b, <1>c, <1>d, <1>e DEF ProvInv, Placed, Made, Distinct, OneWrites,
     Fresh, Unused, MovesTo
<1>7. ASSUME NEW v \in Run PROVE Writing(v)'
  BY <1>0, <1>a, <1>b, <1>c, <1>d, <1>e DEF ProvInv, Writing, OneWrites, Made, Placed, MovesTo
<1>8. RecordedIsInstalled'
  BY <1>0, <1>a, <1>b, <1>c, <1>d, <1>e DEF ProvInv, RecordedIsInstalled, Writing,
     Placed, MovesTo
<1>9. NothingLost'
  BY <1>0, <1>a, <1>b, <1>c, <1>d, <1>e DEF ProvInv, NothingLost, Made, Placed, ProvTypeOK
<1> QED BY <1>1, <1>2, <1>3, <1>4, <1>5, <1>6, <1>7, <1>8, <1>9 DEF ProvInv

\* or calls an API whose answer it hears, or does not.
LEMMA HeardStep ==
  ASSUME ProvInv, NEW w \in Run, Put(w, TRUE)
  PROVE  ProvInv'
<1> USE DEF RunRow, HostRow, Place
<1>0. ProvTypeOK
  BY DEF ProvInv
<1>a. PICK t : t = TRUE /\ run' = [run EXCEPT ![w].pc = "check", ![w].done = t]
  BY Zenon DEF Put
<1>b. run[w].pc = "put"
  BY DEF Put
<1>c. MovesTo(w, "check", run[w].seen, run[w].cert) /\ run'[w].done
  BY <1>0, <1>a, DoneGoes DEF ProvTypeOK
<1>d. host' \in HostRow /\ host'.file = run[w].cert /\ host'.key = run[w].cert /\ host'.served = run[w].cert
  BY <1>0 DEF ProvTypeOK, Put
<1>e. /\ last' = "unknown" /\ setup' = setup /\ installed' = installed
      /\ standing' = standing /\ successor' = successor /\ pushing' = pushing
      /\ delivered' = delivered
  BY DEF Put, OnTarget
<1>1. ProvTypeOK'
  BY <1>0, <1>a, <1>b, <1>c, <1>d, <1>e DEF ProvTypeOK, MovesTo
<1>2. OneWrites'
  BY <1>0, <1>a, <1>b, <1>c, <1>d, <1>e DEF ProvInv, OneWrites, MovesTo
<1>3. Distinct'
  BY <1>0, <1>a, <1>b, <1>c, <1>d, <1>e DEF ProvInv, Distinct, Made, MovesTo, Unused
<1>4. Fresh'
  BY <1>0, <1>a, <1>b, <1>c, <1>d, <1>e DEF ProvInv, Fresh, Unused, Made, Placed, MovesTo
<1>5. ASSUME NEW v \in Run PROVE Made(v)'
  BY <1>0, <1>a, <1>b, <1>c, <1>d, <1>e DEF ProvInv, Made, Distinct, MovesTo, Unused,
     NothingLost
<1>6. ASSUME NEW v \in Run PROVE Placed(v)'
  BY <1>0, <1>a, <1>b, <1>c, <1>d, <1>e DEF ProvInv, Placed, Made, Distinct, OneWrites,
     Fresh, Unused, MovesTo
<1>7. ASSUME NEW v \in Run PROVE Writing(v)'
  BY <1>0, <1>a, <1>b, <1>c, <1>d, <1>e DEF ProvInv, Writing, OneWrites, Made, Placed, MovesTo
<1>8. RecordedIsInstalled'
  BY <1>0, <1>a, <1>b, <1>c, <1>d, <1>e DEF ProvInv, RecordedIsInstalled, Writing,
     Placed, MovesTo
<1>9. NothingLost'
  BY <1>0, <1>a, <1>b, <1>c, <1>d, <1>e DEF ProvInv, NothingLost, Made, Placed, ProvTypeOK
<1> QED BY <1>1, <1>2, <1>3, <1>4, <1>5, <1>6, <1>7, <1>8, <1>9 DEF ProvInv

LEMMA UnheardStep ==
  ASSUME ProvInv, NEW w \in Run, Put(w, FALSE)
  PROVE  ProvInv'
<1> USE DEF RunRow, HostRow, Place
<1>0. ProvTypeOK
  BY DEF ProvInv
<1>a. PICK t : t = FALSE /\ run' = [run EXCEPT ![w].pc = "failed", ![w].done = t]
  BY Zenon DEF Put
<1>b. run[w].pc = "put"
  BY DEF Put
<1>c. MovesTo(w, "failed", run[w].seen, run[w].cert) /\ ~run'[w].done
  BY <1>0, <1>a, DoneGoes DEF ProvTypeOK
<1>d. host' \in HostRow /\ host'.file = run[w].cert /\ host'.key = run[w].cert /\ host'.served = run[w].cert
  BY <1>0 DEF ProvTypeOK, Put
<1>e. /\ last' = "unknown" /\ setup' = setup /\ installed' = installed
      /\ standing' = standing /\ successor' = successor /\ pushing' = pushing
      /\ delivered' = delivered
  BY DEF Put, OnTarget
<1>1. ProvTypeOK'
  BY <1>0, <1>a, <1>b, <1>c, <1>d, <1>e DEF ProvTypeOK, MovesTo
<1>2. OneWrites'
  BY <1>0, <1>a, <1>b, <1>c, <1>d, <1>e DEF ProvInv, OneWrites, MovesTo
<1>3. Distinct'
  BY <1>0, <1>a, <1>b, <1>c, <1>d, <1>e DEF ProvInv, Distinct, Made, MovesTo, Unused
<1>4. Fresh'
  BY <1>0, <1>a, <1>b, <1>c, <1>d, <1>e DEF ProvInv, Fresh, Unused, Made, Placed, MovesTo
<1>5. ASSUME NEW v \in Run PROVE Made(v)'
  BY <1>0, <1>a, <1>b, <1>c, <1>d, <1>e DEF ProvInv, Made, Distinct, MovesTo, Unused,
     NothingLost
<1>6. ASSUME NEW v \in Run PROVE Placed(v)'
  BY <1>0, <1>a, <1>b, <1>c, <1>d, <1>e DEF ProvInv, Placed, Made, Distinct, OneWrites,
     Fresh, Unused, MovesTo
<1>7. ASSUME NEW v \in Run PROVE Writing(v)'
  BY <1>0, <1>a, <1>b, <1>c, <1>d, <1>e DEF ProvInv, Writing, OneWrites, Made, Placed, MovesTo
<1>8. RecordedIsInstalled'
  BY <1>0, <1>a, <1>b, <1>c, <1>d, <1>e DEF ProvInv, RecordedIsInstalled, Writing,
     Placed, MovesTo
<1>9. NothingLost'
  BY <1>0, <1>a, <1>b, <1>c, <1>d, <1>e DEF ProvInv, NothingLost, Made, Placed, ProvTypeOK
<1> QED BY <1>1, <1>2, <1>3, <1>4, <1>5, <1>6, <1>7, <1>8, <1>9 DEF ProvInv

\* A step on the target fails.
LEMMA StepFailsStep ==
  ASSUME ProvInv, NEW w \in Run, StepFails(w)
  PROVE  ProvInv'
<1> USE DEF RunRow, HostRow, Place
<1>0. ProvTypeOK
  BY DEF ProvInv
<1>a. /\ MovesTo(w, "failed", run[w].seen, run[w].cert) /\ run'[w].done = run[w].done
      /\ run[w].pc \in {"put", "place_key", "place_cert", "reload"}
  BY <1>0 DEF ProvTypeOK, StepFails, Moves, MovesTo
<1>b. /\ setup' = setup /\ host' = host /\ installed' = installed
      /\ standing' = standing /\ successor' = successor /\ pushing' = pushing
      /\ last' = last /\ delivered' = delivered
  BY DEF StepFails, OnTarget
<1>1. ProvTypeOK'
  BY <1>0, <1>a, <1>b DEF ProvTypeOK, MovesTo
<1>2. OneWrites'
  BY <1>0, <1>a, <1>b DEF ProvInv, OneWrites, MovesTo
<1>3. Distinct'
  BY <1>0, <1>a, <1>b DEF ProvInv, Distinct, Made, MovesTo, Unused
<1>4. Fresh'
  BY <1>0, <1>a, <1>b DEF ProvInv, Fresh, Unused, Made, Placed, MovesTo
<1>5. ASSUME NEW v \in Run PROVE Made(v)'
  BY <1>0, <1>a, <1>b DEF ProvInv, Made, Distinct, MovesTo, Unused, NothingLost
<1>6. ASSUME NEW v \in Run PROVE Placed(v)'
  BY <1>0, <1>a, <1>b DEF ProvInv, Placed, Made, Distinct, OneWrites, Fresh, Unused, MovesTo
<1>7. ASSUME NEW v \in Run PROVE Writing(v)'
  BY <1>0, <1>a, <1>b DEF ProvInv, Writing, OneWrites, Made, Placed, MovesTo
<1>8. RecordedIsInstalled'
  BY <1>0, <1>a, <1>b DEF ProvInv, RecordedIsInstalled, Writing, Placed, MovesTo
<1>9. NothingLost'
  BY <1>0, <1>a, <1>b DEF ProvInv, NothingLost, Made, Placed, ProvTypeOK
<1> QED BY <1>1, <1>2, <1>3, <1>4, <1>5, <1>6, <1>7, <1>8, <1>9 DEF ProvInv

\* The certificate is seen at the endpoint, or is not.
LEMMA ServedStep ==
  ASSUME ProvInv, NEW w \in Run, Check(w), run'[w].pc = "ok"
  PROVE  ProvInv'
<1> USE DEF RunRow, HostRow, Place
<1>0. ProvTypeOK
  BY DEF ProvInv
<1>a. MovesTo(w, "ok", run[w].seen, run[w].cert) /\ run'[w].done = run[w].done /\ run[w].pc = "check"
  BY <1>0 DEF ProvTypeOK, Check, Moves, MovesTo
<1>b. (setup.checked => host.served = run[w].cert) /\ delivered' = delivered \cup {run[w].cert}
  BY <1>0 DEF ProvTypeOK, Check, Moves
<1>c. /\ setup' = setup /\ host' = host /\ installed' = installed
      /\ standing' = standing /\ successor' = successor /\ pushing' = pushing
      /\ last' = last
  BY DEF Check
<1>1. ProvTypeOK'
  BY <1>0, <1>a, <1>b, <1>c DEF ProvTypeOK, MovesTo, ProvInv, Made
<1>2. OneWrites'
  BY <1>0, <1>a, <1>b, <1>c DEF ProvInv, OneWrites, MovesTo
<1>3. Distinct'
  BY <1>0, <1>a, <1>b, <1>c DEF ProvInv, Distinct, Made, MovesTo, Unused
<1>4. Fresh'
  BY <1>0, <1>a, <1>b, <1>c DEF ProvInv, Fresh, Unused, Made, Placed, MovesTo
<1>5. ASSUME NEW v \in Run PROVE Made(v)'
  BY <1>0, <1>a, <1>b, <1>c DEF ProvInv, Made, Distinct, MovesTo, Unused, NothingLost
<1>6. ASSUME NEW v \in Run PROVE Placed(v)'
  BY <1>0, <1>a, <1>b, <1>c DEF ProvInv, Placed, Made, Distinct, OneWrites, Fresh, Unused, MovesTo
<1>7. ASSUME NEW v \in Run PROVE Writing(v)'
  BY <1>0, <1>a, <1>b, <1>c DEF ProvInv, Writing, OneWrites, Made, Placed, MovesTo
<1>8. RecordedIsInstalled'
  BY <1>0, <1>a, <1>b, <1>c DEF ProvInv, RecordedIsInstalled, Writing, Placed, MovesTo
<1>9. NothingLost'
  BY <1>0, <1>a, <1>b, <1>c DEF ProvInv, NothingLost, Made, Placed, ProvTypeOK
<1> QED BY <1>1, <1>2, <1>3, <1>4, <1>5, <1>6, <1>7, <1>8, <1>9 DEF ProvInv

LEMMA UnservedStep ==
  ASSUME ProvInv, NEW w \in Run, Check(w), run'[w].pc # "ok"
  PROVE  ProvInv'
<1> USE DEF RunRow, HostRow, Place
<1>0. ProvTypeOK
  BY DEF ProvInv
<1>a. MovesTo(w, "failed", run[w].seen, run[w].cert) /\ run'[w].done = run[w].done /\ run[w].pc = "check"
  BY <1>0 DEF ProvTypeOK, Check, Moves, MovesTo
<1>b. /\ setup' = setup /\ host' = host /\ installed' = installed
      /\ standing' = standing /\ successor' = successor /\ pushing' = pushing
      /\ last' = last /\ delivered' = delivered
  BY <1>0 DEF ProvTypeOK, Check, Moves
<1>1. ProvTypeOK'
  BY <1>0, <1>a, <1>b DEF ProvTypeOK, MovesTo
<1>2. OneWrites'
  BY <1>0, <1>a, <1>b DEF ProvInv, OneWrites, MovesTo
<1>3. Distinct'
  BY <1>0, <1>a, <1>b DEF ProvInv, Distinct, Made, MovesTo, Unused
<1>4. Fresh'
  BY <1>0, <1>a, <1>b DEF ProvInv, Fresh, Unused, Made, Placed, MovesTo
<1>5. ASSUME NEW v \in Run PROVE Made(v)'
  BY <1>0, <1>a, <1>b DEF ProvInv, Made, Distinct, MovesTo, Unused, NothingLost
<1>6. ASSUME NEW v \in Run PROVE Placed(v)'
  BY <1>0, <1>a, <1>b DEF ProvInv, Placed, Made, Distinct, OneWrites, Fresh, Unused, MovesTo
<1>7. ASSUME NEW v \in Run PROVE Writing(v)'
  BY <1>0, <1>a, <1>b DEF ProvInv, Writing, OneWrites, Made, Placed, MovesTo
<1>8. RecordedIsInstalled'
  BY <1>0, <1>a, <1>b DEF ProvInv, RecordedIsInstalled, Writing, Placed, MovesTo
<1>9. NothingLost'
  BY <1>0, <1>a, <1>b DEF ProvInv, NothingLost, Made, Placed, ProvTypeOK
<1> QED BY <1>1, <1>2, <1>3, <1>4, <1>5, <1>6, <1>7, <1>8, <1>9 DEF ProvInv

\* The run commits its end.
LEMMA SucceedsStep ==
  ASSUME ProvInv, NEW w \in Run, Succeeds(w)
  PROVE  ProvInv'
<1> USE DEF RunRow, HostRow, Place
<1>0. ProvTypeOK
  BY DEF ProvInv
<1>a. MovesTo(w, "rest", Nothing, Nothing) /\ ~run'[w].done /\ run[w].pc = "ok"
  BY <1>0, RestRow DEF ProvTypeOK, Succeeds, MovesTo, Rest
<1>b. /\ standing' \in [Pushed -> {"none", "lost", "active", "superseded", "revoked"}]
      /\ \A d \in Pushed : d = run[w].cert => standing'[d] = "active"
      /\ \A d \in Pushed : standing'[d] = "none" => standing[d] = "none" /\ d # run[w].cert
      /\ \A d \in Pushed : standing[d] = "none" /\ d # run[w].cert => standing'[d] = "none"
      /\ \A d \in Pushed : standing'[d] = "superseded" =>
           \/ standing[d] = "superseded" /\ successor'[d] = successor[d]
           \/ successor'[d] = run[w].cert
      /\ successor' \in [Pushed -> Place]
  BY <1>0 DEF ProvTypeOK, Succeeds
<1>c. /\ installed' = run[w].cert /\ last' = "ok" /\ pushing' = Nothing
      /\ setup' = setup /\ host' = host /\ delivered' = delivered
  BY DEF Succeeds
<1>1. ProvTypeOK'
  BY <1>0, <1>a, <1>b, <1>c DEF ProvTypeOK, MovesTo
<1>2. OneWrites'
  BY <1>0, <1>a, <1>b, <1>c DEF ProvInv, OneWrites, MovesTo
<1>3. Distinct'
  BY <1>0, <1>a, <1>b, <1>c DEF ProvInv, Distinct, Made, MovesTo, Unused
<1>4. Fresh'
  BY <1>0, <1>a, <1>b, <1>c DEF ProvInv, Fresh, Unused, Made, Placed, MovesTo
<1>5. ASSUME NEW v \in Run PROVE Made(v)'
  BY <1>0, <1>a, <1>b, <1>c DEF ProvInv, Made, Distinct, MovesTo, Unused, NothingLost
<1>6. ASSUME NEW v \in Run PROVE Placed(v)'
  BY <1>0, <1>a, <1>b, <1>c DEF ProvInv, Placed, Made, Distinct, OneWrites, Fresh, Unused, MovesTo
<1>7. ASSUME NEW v \in Run PROVE Writing(v)'
  BY <1>0, <1>a, <1>b, <1>c DEF ProvInv, Writing, OneWrites, Made, Placed, MovesTo
<1>8. RecordedIsInstalled'
  BY <1>0, <1>a, <1>b, <1>c DEF ProvInv, RecordedIsInstalled, Writing, Placed, MovesTo
<1>9. NothingLost'
  BY <1>0, <1>a, <1>b, <1>c DEF ProvInv, NothingLost, Made, Placed, ProvTypeOK
<1> QED BY <1>1, <1>2, <1>3, <1>4, <1>5, <1>6, <1>7, <1>8, <1>9 DEF ProvInv

LEMMA FailsStep ==
  ASSUME ProvInv, NEW w \in Run, Fails(w)
  PROVE  ProvInv'
<1> USE DEF RunRow, HostRow, Place
<1>0. ProvTypeOK
  BY DEF ProvInv
<1>a. MovesTo(w, "rest", Nothing, Nothing) /\ ~run'[w].done /\ run[w].pc = "failed"
  BY <1>0, RestRow DEF ProvTypeOK, Fails, MovesTo, Rest
<1>b. /\ standing' \in [Pushed -> {"none", "lost", "active", "superseded", "revoked"}]
      /\ run[w].done => standing'[run[w].cert] = "active"
      /\ run[w].cert \in Pushed /\ standing'[run[w].cert] \in {"active", "revoked"}
      /\ \A d \in Pushed : d # run[w].cert => standing'[d] = standing[d]
  <2>1. run[w].cert \in Pushed
    BY <1>a DEF ProvInv, Made
  <2> QED BY <1>0, <2>1 DEF ProvTypeOK, Fails
<1>c. /\ installed' = IF run[w].done THEN run[w].cert ELSE installed
      /\ last' = IF last = "unknown" THEN (IF run[w].done THEN "installed" ELSE "failed") ELSE last
      /\ pushing' = Nothing /\ setup' = setup /\ host' = host /\ successor' = successor
      /\ delivered' = delivered
  BY DEF Fails
<1>1. ProvTypeOK'
  BY <1>0, <1>a, <1>b, <1>c DEF ProvTypeOK, MovesTo
<1>2. OneWrites'
  BY <1>0, <1>a, <1>b, <1>c DEF ProvInv, OneWrites, MovesTo
<1>3. Distinct'
  BY <1>0, <1>a, <1>b, <1>c DEF ProvInv, Distinct, Made, MovesTo, Unused
<1>4. Fresh'
  BY <1>0, <1>a, <1>b, <1>c DEF ProvInv, Fresh, Unused, Made, Placed, MovesTo
<1>5. ASSUME NEW v \in Run PROVE Made(v)'
  BY <1>0, <1>a, <1>b, <1>c DEF ProvInv, Made, Distinct, MovesTo, Unused, NothingLost
<1>6. ASSUME NEW v \in Run PROVE Placed(v)'
  BY <1>0, <1>a, <1>b, <1>c DEF ProvInv, Placed, Made, Distinct, OneWrites, Fresh, Unused, MovesTo
<1>7. ASSUME NEW v \in Run PROVE Writing(v)'
  BY <1>0, <1>a, <1>b, <1>c DEF ProvInv, Writing, OneWrites, Made, Placed, MovesTo
<1>8. RecordedIsInstalled'
  BY <1>0, <1>a, <1>b, <1>c DEF ProvInv, RecordedIsInstalled, Writing, Placed, MovesTo
<1>9. NothingLost'
  BY <1>0, <1>a, <1>b, <1>c DEF ProvInv, NothingLost, Made, Placed, ProvTypeOK
<1> QED BY <1>1, <1>2, <1>3, <1>4, <1>5, <1>6, <1>7, <1>8, <1>9 DEF ProvInv

\* Nobody knows its certificate any more.
LEMMA DiesStep ==
  ASSUME ProvInv, NEW w \in Run, Dies(w)
  PROVE  ProvInv'
<1> USE DEF RunRow, HostRow, Place
<1>0. ProvTypeOK
  BY DEF ProvInv
<1>a. MovesTo(w, "rest", Nothing, Nothing) /\ ~run'[w].done
  BY <1>0, RestRow DEF ProvTypeOK, Dies, MovesTo, Rest
<1>b. /\ standing' \in [Pushed -> {"none", "lost", "active", "superseded", "revoked"}]
      /\ \A d \in Pushed : standing'[d] = IF d = run[w].cert THEN "lost" ELSE standing[d]
  BY <1>0 DEF ProvTypeOK, Dies
<1>c. /\ pushing' = (IF pushing = w THEN Nothing ELSE pushing) /\ setup' = setup
      /\ host' = host /\ installed' = installed /\ successor' = successor
      /\ last' = last /\ delivered' = delivered
  BY DEF Dies
<1>1. ProvTypeOK'
  BY <1>0, <1>a, <1>b, <1>c DEF ProvTypeOK, MovesTo
<1>2. OneWrites'
  BY <1>0, <1>a, <1>b, <1>c DEF ProvInv, OneWrites, MovesTo
<1>3. Distinct'
  BY <1>0, <1>a, <1>b, <1>c DEF ProvInv, Distinct, Made, MovesTo, Unused
<1>4. Fresh'
  BY <1>0, <1>a, <1>b, <1>c DEF ProvInv, Fresh, Unused, Made, Placed, MovesTo
<1>5. ASSUME NEW v \in Run PROVE Made(v)'
  BY <1>0, <1>a, <1>b, <1>c DEF ProvInv, Made, Distinct, MovesTo, Unused, NothingLost
<1>6. ASSUME NEW v \in Run PROVE Placed(v)'
  BY <1>0, <1>a, <1>b, <1>c DEF ProvInv, Placed, Made, Distinct, OneWrites, Fresh, Unused, MovesTo
<1>7. ASSUME NEW v \in Run PROVE Writing(v)'
  BY <1>0, <1>a, <1>b, <1>c DEF ProvInv, Writing, OneWrites, Made, Placed, MovesTo
<1>8. RecordedIsInstalled'
  BY <1>0, <1>a, <1>b, <1>c DEF ProvInv, RecordedIsInstalled, Writing, Placed, MovesTo
<1>9. NothingLost'
  BY <1>0, <1>a, <1>b, <1>c DEF ProvInv, NothingLost, Made, Placed, ProvTypeOK
<1> QED BY <1>1, <1>2, <1>3, <1>4, <1>5, <1>6, <1>7, <1>8, <1>9 DEF ProvInv

\* A server that is restarted takes up files that belong together.
LEMMA RestartStep ==
  ASSUME ProvInv, Restart
  PROVE  ProvInv'
<1> USE DEF RunRow, HostRow, Place
<1>0. ProvTypeOK
  BY DEF ProvInv
<1>a. run' = run
  BY DEF Restart
<1>b. /\ host' \in HostRow /\ host'.file = host.file /\ host'.key = host.key
      /\ host'.served = host.served \/ (host'.served = host.file /\ host.key = host.file)
  BY <1>0 DEF ProvTypeOK, Restart, Served
<1>c. /\ setup' = setup /\ installed' = installed /\ standing' = standing
      /\ successor' = successor /\ pushing' = pushing /\ last' = last
      /\ delivered' = delivered
  BY DEF Restart
<1>1. ProvTypeOK'
  BY <1>0, <1>a, <1>b, <1>c DEF ProvTypeOK, MovesTo
<1>2. OneWrites'
  BY <1>0, <1>a, <1>b, <1>c DEF ProvInv, OneWrites, MovesTo
<1>3. Distinct'
  BY <1>0, <1>a, <1>b, <1>c DEF ProvInv, Distinct, Made, MovesTo, Unused
<1>4. Fresh'
  BY <1>0, <1>a, <1>b, <1>c DEF ProvInv, Fresh, Unused, Made, Placed, MovesTo
<1>5. ASSUME NEW v \in Run PROVE Made(v)'
  BY <1>0, <1>a, <1>b, <1>c DEF ProvInv, Made, Distinct, MovesTo, Unused, NothingLost
<1>6. ASSUME NEW v \in Run PROVE Placed(v)'
  BY <1>0, <1>a, <1>b, <1>c DEF ProvInv, Placed, Made, Distinct, OneWrites, Fresh, Unused, MovesTo
<1>7. ASSUME NEW v \in Run PROVE Writing(v)'
  BY <1>0, <1>a, <1>b, <1>c DEF ProvInv, Writing, OneWrites, Made, Placed, MovesTo
<1>8. RecordedIsInstalled'
  BY <1>0, <1>a, <1>b, <1>c DEF ProvInv, RecordedIsInstalled, Writing, Placed, MovesTo
<1>9. NothingLost'
  BY <1>0, <1>a, <1>b, <1>c DEF ProvInv, NothingLost, Made, Placed, ProvTypeOK
<1> QED BY <1>1, <1>2, <1>3, <1>4, <1>5, <1>6, <1>7, <1>8, <1>9 DEF ProvInv

-----------------------------------------------------------------------------
(* The specification *)

\* The initial states, and every step.
LEMMA InitProvInv == ProvInit => ProvInv
<1> USE DEF RunRow, HostRow, Place
<1> SUFFICES ASSUME ProvInit PROVE ProvInv
  OBVIOUS
<1>1. PICK c \in {Nothing, CHOOSE d \in Pushed : TRUE} :
        /\ host = [next |-> Nothing, key |-> c, file |-> c, served |-> c]
        /\ installed = c
        /\ standing = [d \in Pushed |-> IF d = c THEN "active" ELSE "none"]
        /\ delivered = {c} \ {Nothing}
  BY DEF ProvInit
<1>2. /\ setup \in Setup /\ successor = [d \in Pushed |-> Nothing]
      /\ run = [w \in Run |-> Rest] /\ pushing = Nothing /\ last = "ok"
  BY DEF ProvInit
<1>3. c \in Place
  <2>1. (CHOOSE d \in Pushed : TRUE) \in Pushed
    BY NothingAssumption
  <2> QED BY <2>1
<1>4. \A w \in Run : run[w].pc = "rest" /\ run[w].cert = Nothing /\ ~run[w].done
  BY <1>2 DEF Rest
<1>5. ProvTypeOK
  BY <1>1, <1>2, <1>3, RestRow DEF ProvTypeOK
<1>6. OneWrites /\ Distinct
  BY <1>2, <1>4 DEF OneWrites, Distinct
<1>7. Fresh
  BY <1>1 DEF Fresh, Unused
<1>8. \A w \in Run : Made(w) /\ Placed(w) /\ Writing(w)
  BY <1>4 DEF Made, Placed, Writing
<1>9. RecordedIsInstalled /\ NothingLost
  BY <1>1, <1>2, <1>3 DEF RecordedIsInstalled, NothingLost
<1> QED BY <1>5, <1>6, <1>7, <1>8, <1>9 DEF ProvInv

LEMMA NextProvInv == ProvInv /\ [ProvNext]_provVars => ProvInv'
<1> SUFFICES ASSUME ProvInv, [ProvNext]_provVars PROVE ProvInv'
  OBVIOUS
<1>1. CASE Restart
  BY <1>1, RestartStep
<1>2. ASSUME NEW w \in Run, NEW heard \in BOOLEAN, Put(w, heard) PROVE ProvInv'
  BY <1>2, HeardStep, UnheardStep
<1>3. ASSUME NEW w \in Run, Check(w) PROVE ProvInv'
  BY <1>3, ServedStep, UnservedStep
<1>4. ASSUME NEW w \in Run, Step(w) PROVE ProvInv'
  BY <1>2, <1>3, <1>4, BeginStep, MakeKeyStep, SignStep, PlaceKeyStep, PlaceCertStep,
     ReloadStep,
     StepFailsStep, SucceedsStep, FailsStep, DiesStep DEF Step
<1>5. CASE UNCHANGED provVars
  BY <1>5 DEF provVars, ProvInv, ProvTypeOK, OneWrites, Distinct, Fresh, Unused, Made,
     Placed, Writing,
     RecordedIsInstalled, NothingLost
<1> QED BY <1>1, <1>4, <1>5 DEF ProvNext

\* ProvInv holds in every state of every behaviour: what the runs of
\* provisioning/engine.py have done, what the target shows and what is recorded agree.
THEOREM ProvCorrect == ProvSpec => []ProvInv
BY InitProvInv, NextProvInv, PTL DEF ProvSpec

\* Every variable of Provisioning keeps its type (provisioning/engine.py).
THEOREM ProvTypeCorrect == ProvSpec => []ProvTypeOK
<1>1. ProvInv => ProvTypeOK
  BY DEF ProvInv
<1> QED BY <1>1, ProvCorrect, PTL

\* run_installation never leaves an installation with a certificate that is not active,
\* and supersedes one only for another that reached the target, whatever runs overlap,
\* fail at a step or die.
THEOREM NothingIsLost == ProvSpec => []NothingLost
<1>1. ProvInv => NothingLost
  BY DEF ProvInv
<1> QED BY <1>1, ProvCorrect, PTL

\* After a run of run_installation that did not die, the certificate on record is the
\* one on the target, and what a run saw served is served with its key.
THEOREM RecordIsTrue == ProvSpec => []RecordedIsInstalled
<1>1. ProvInv => RecordedIsInstalled
  BY DEF ProvInv
<1> QED BY <1>1, ProvCorrect, PTL

-----------------------------------------------------------------------------
(* The cycle that renews what is due *)

LEMMA BackoffType == \A p \in 0..MAX_BACKOFF : Backoff(p) \in 0..MAX_BACKOFF
BY CycleAssumption DEF Backoff

LEMMA LaterType ==
  ASSUME DueTypeOK, NEW i \in Inst
  PROVE  Later(i) \in (0..MAX_BACKOFF) \cup (0..LIFE)
<1>1. wait[i] \in (0..MAX_BACKOFF) \cup (0..LIFE)
  BY DEF DueTypeOK
<1> QED
  BY <1>1, CycleAssumption DEF Later

LEMMA InitDueType == DueInit => DueTypeOK
<1>1. Pauses \subseteq 0..MAX_BACKOFF
  BY DEF Pauses
<1>2. ASSUME DueInit PROVE pause \in [Inst -> 0..MAX_BACKOFF] /\ wait = pause
  BY <1>1, <1>2 DEF DueInit
<1>3. ASSUME DueInit PROVE wait \in [Inst -> (0..MAX_BACKOFF) \cup (0..LIFE)]
  BY <1>2, <1>3
<1> QED
  BY <1>2, <1>3 DEF DueInit, DueTypeOK

LEMMA NextDueType == DueTypeOK /\ [DueNext]_dueVars => DueTypeOK'
<1> SUFFICES ASSUME DueTypeOK, [DueNext]_dueVars PROVE DueTypeOK'
  OBVIOUS
<1>1. CASE Cycle
  <2>1. Picked \subseteq Inst
    BY DEF Picked, DueTypeOK
  <2> QED
    BY <1>1, <2>1, LaterType DEF Cycle, DueTypeOK
<1>2. ASSUME NEW i \in Inst, Renew(i) PROVE DueTypeOK'
  <2>1. Backoff(pause[i]) \in 0..MAX_BACKOFF
    BY BackoffType DEF DueTypeOK
  <2>2. 0 \in 0..MAX_BACKOFF /\ LIFE \in 0..LIFE
    BY CycleAssumption
  <2>3. pause' \in [Inst -> 0..MAX_BACKOFF]
    BY <1>2, <2>1, <2>2 DEF Renew, DueTypeOK
  <2>4. wait' \in [Inst -> (0..MAX_BACKOFF) \cup (0..LIFE)]
    BY <1>2, <2>1, <2>2 DEF Renew, DueTypeOK
  <2>5. down' \subseteq Inst /\ due' \subseteq Inst /\ queue' \subseteq Inst
        /\ aborted' \in BOOLEAN
    BY <1>2 DEF Renew, DueTypeOK
  <2> QED
    BY <2>3, <2>4, <2>5 DEF DueTypeOK
<1>3. CASE Abort
  BY <1>3 DEF Abort, DueTypeOK
<1>4. ASSUME NEW i \in Inst, Expires(i) PROVE DueTypeOK'
  BY <1>4 DEF Expires, DueTypeOK
<1>5. CASE UNCHANGED dueVars
  BY <1>5 DEF dueVars, DueTypeOK
<1> QED
  BY <1>1, <1>2, <1>3, <1>4, <1>5 DEF DueNext

\* For any number of installations, of runs a cycle takes and of failures before it
\* began, every variable of RenewDue keeps its type: no pause grows past
\* MAX_BACKOFF (renew_due, provisioning/engine.py).
THEOREM DueTypeCorrect == DueSpec => []DueTypeOK
BY InitDueType, NextDueType, PTL DEF DueSpec

-----------------------------------------------------------------------------
(* The ways to a certificate together *)

\* They share nothing, so that what holds of each of them holds beside the others.
LEMMA EachPart ==
  [EnrollNext]_enrollVars =>
    [Next]_vars /\ [ProvNext]_provVars /\ [DueNext]_dueVars
BY DEF EnrollNext, enrollVars, InAcme, InCycle

EnrollInv == IInv /\ ProvInv /\ DueTypeOK

\* A behaviour of the three is one of orders (enrollment/acme.py) and of runs
\* (provisioning/engine.py), and keeps the invariant of each of them.
THEOREM EachGoesOn == EnrollSpec => Spec /\ ProvSpec /\ []EnrollInv
<1>1. EnrollInit => Init /\ ProvInit /\ DueInit
  BY DEF EnrollInit
<1>2. EnrollSpec => EnrollInit /\ [][EnrollNext]_enrollVars
  BY PTL DEF EnrollSpec
<1>3. EnrollSpec => Spec /\ ProvSpec
  BY <1>1, <1>2, EachPart, PTL DEF Spec, ProvSpec
<1>4. EnrollSpec => []DueTypeOK
  BY <1>1, <1>2, EachPart, InitDueType, NextDueType, PTL
<1> QED
  BY <1>3, <1>4, Invariance, ProvCorrect, PTL DEF EnrollInv

\* Every table and every request and run keeps its type, whichever of the
\* three goes on.
THEOREM EnrollTypeCorrect == EnrollSpec => []EnrollTypeOK
<1>1. EnrollInv => EnrollTypeOK
  BY DEF EnrollInv, EnrollTypeOK, IInv, ProvInv
<1> QED
  BY <1>1, EachGoesOn, PTL

\* ACME's and provisioning's guarantees (enrollment/acme.py, provisioning/engine.py)
\* hold of the whole: nothing is issued unproven, and nothing in use is lost.
THEOREM EnrollSafe ==
  EnrollSpec => /\ [](IssuedProven /\ ReadyWhenProven)
                /\ [](RecordedIsInstalled /\ NothingLost)
BY EachGoesOn, IssuedProvenAlways, ReadyWhenProvenAlways, RecordIsTrue, NothingIsLost, PTL

=============================================================================
