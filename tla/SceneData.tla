----------------------------- MODULE SceneData -----------------------------
(***************************************************************************)
(* The scenes of the knowledge base, as kb-src/scenes-data.js registers    *)
(* them: the actors on the platform, the actor over whom Dilly stands, the *)
(* one beside whom the audit chain grows, and for each step its moves.     *)
(*                                                                         *)
(* Of a move only what the player acts on is kept: between whom it goes,   *)
(* whether it flies as an envelope or is played where its actor stands     *)
(* (local), whether it adds a block to the chain (effect "store") and the  *)
(* mood it leaves Dilly in.  Wording, colours, places and the effects that *)
(* only draw a ring are left out.  No scene gives a step an effect or a    *)
(* mood of its own: moods and effects all come with a move.                *)
(***************************************************************************)
EXTENDS Sequences

Happy == "happy"
Keep == "keep"   \* the move says nothing of the mood

Mood == {Happy, "worried", "rolled"}

Move(a, b, isLocal, isStore, m) ==
  [from |-> a, to |-> b, local |-> isLocal, store |-> isStore, dilly |-> m]

MoveType ==
  [from : STRING, to : STRING, local : BOOLEAN, store : BOOLEAN,
   dilly : Mood \cup {Keep}]

Msg(a, b)      == Move(a, b, FALSE, FALSE, Keep)
Store(a, b)    == Move(a, b, FALSE, TRUE, Keep)
Local(a)       == Move(a, a, TRUE, FALSE, Keep)
Feel(m, mv)    == [mv EXCEPT !.dilly = m]

AcmeScene == [
  actors |-> {"operator", "certbot", "web", "acme", "ra", "ca", "hsm", "db"},
  dilly |-> "ra", chainAt |-> "db",
  steps |-> <<
    <<Msg("operator", "acme"), Store("acme", "db"), Msg("acme", "operator")>>,
    <<Msg("certbot", "acme"), Msg("acme", "certbot")>>,
    <<Msg("certbot", "acme"), Msg("acme", "certbot")>>,
    <<Msg("certbot", "acme"), Msg("acme", "ra"), Store("ra", "db"),
      Msg("acme", "certbot")>>,
    <<Msg("certbot", "acme"), Feel(Happy, Msg("acme", "ra")),
      Msg("acme", "certbot")>>,
    <<Msg("certbot", "acme"), Feel("worried", Msg("acme", "ra")),
      Store("ra", "db"), Msg("acme", "certbot")>>,
    <<Feel(Happy, Msg("certbot", "acme")), Msg("acme", "certbot")>>,
    <<Msg("certbot", "web")>>,
    <<Msg("certbot", "acme"), Msg("acme", "web"), Msg("web", "acme")>>,
    <<Msg("certbot", "acme"), Msg("acme", "ra"), Msg("ra", "ca"),
      Msg("ca", "hsm"), Msg("hsm", "ca")>>,
    <<Store("ca", "db")>>,
    <<Msg("certbot", "acme"), Msg("acme", "certbot")>>,
    <<Msg("certbot", "acme"), Store("acme", "db"), Msg("acme", "certbot")>>>>]

DevicesScene == [
  actors |-> {"atm", "router", "mdm", "est", "scep", "ra", "ca", "hsm",
    "db"},
  dilly |-> "ra", chainAt |-> "db",
  steps |-> <<
    <<Msg("atm", "est"), Msg("est", "atm")>>,
    <<Msg("atm", "est"), Feel(Happy, Msg("est", "ra")), Msg("ra", "ca"),
      Msg("ca", "hsm"), Store("ca", "db"), Msg("est", "atm")>>,
    <<Msg("atm", "est"), Msg("est", "ra"), Store("ra", "db"),
      Msg("est", "atm")>>,
    <<Msg("mdm", "scep"), Store("scep", "db"), Msg("scep", "mdm"),
      Msg("mdm", "router")>>,
    <<Msg("router", "scep"), Msg("scep", "router")>>,
    <<Local("router")>>,
    <<Msg("router", "scep"), Local("scep"), Msg("scep", "db"),
      Msg("scep", "ra"), Msg("ra", "ca"), Msg("ca", "hsm"),
      Store("ca", "db")>>,
    <<Msg("scep", "router"), Local("router")>>,
    <<Msg("router", "scep"), Feel("worried", Msg("scep", "db")),
      Store("scep", "db"), Msg("scep", "router")>>,
    <<Msg("router", "scep"), Feel(Happy, Msg("scep", "ra")), Msg("ra", "ca"),
      Msg("scep", "router")>>,
    <<Msg("router", "scep"), Feel("worried", Store("scep", "db")),
      Msg("scep", "router"), Msg("mdm", "ra"), Msg("router", "scep"),
      Feel(Happy, Msg("scep", "router"))>>>>]

RevocationScene == [
  actors |-> {"rp", "server", "cdn", "ocsp", "operator", "api", "ca", "hsm",
    "db", "prom"},
  dilly |-> "api", chainAt |-> "db",
  steps |-> <<
    <<Msg("server", "rp")>>,
    <<Msg("rp", "ocsp"), Msg("ocsp", "db"), Msg("db", "ocsp"),
      Msg("ocsp", "rp")>>,
    <<Feel("worried", Msg("operator", "api")), Store("api", "db")>>,
    <<Msg("api", "ca"), Msg("ca", "hsm"), Msg("ca", "cdn")>>,
    <<Msg("rp", "ocsp"), Msg("ocsp", "db"), Msg("db", "ocsp"),
      Msg("ocsp", "rp")>>,
    <<Msg("rp", "cdn"), Msg("cdn", "rp")>>,
    <<Feel(Happy, Msg("ca", "hsm")), Msg("ca", "ocsp")>>,
    <<Msg("prom", "api"), Msg("api", "prom")>>>>]

PlatformScene == [
  actors |-> {"team", "approver", "console", "protocols", "ra", "ca", "hsm",
    "db", "scanner", "alerts", "prom"},
  dilly |-> "ra", chainAt |-> "db",
  steps |-> <<
    <<Msg("team", "console"), Store("console", "db")>>,
    <<Msg("console", "approver"), Msg("approver", "console"),
      Store("console", "db")>>,
    <<Msg("console", "team")>>,
    <<Msg("team", "protocols"), Feel(Happy, Msg("protocols", "ra"))>>,
    <<Msg("ra", "ca"), Msg("ca", "hsm"), Store("ca", "db"),
      Msg("protocols", "team")>>,
    <<Feel("worried", Store("scanner", "db"))>>,
    <<Feel("rolled", Msg("db", "alerts")), Msg("alerts", "team")>>,
    <<Msg("team", "protocols"), Msg("protocols", "ra"), Msg("ra", "ca"),
      Feel(Happy, Store("ca", "db")), Msg("db", "alerts")>>,
    <<Msg("prom", "db"), Msg("db", "prom")>>>>]

AriScene == [
  actors |-> {"operator", "client", "dnsint", "dnspub", "acme", "ra", "ca",
    "db", "alerts"},
  dilly |-> "ra", chainAt |-> "db",
  steps |-> <<
    <<Msg("client", "acme"), Feel(Happy, Msg("acme", "ra")),
      Msg("acme", "client")>>,
    <<Msg("client", "acme"), Msg("acme", "client")>>,
    <<Msg("client", "dnsint")>>,
    <<Msg("client", "acme"), Msg("acme", "dnsint"), Msg("dnsint", "acme")>>,
    <<Msg("client", "acme"), Msg("acme", "ra"), Msg("ra", "ca"),
      Store("ca", "db")>>,
    <<Msg("client", "acme"), Msg("acme", "client")>>,
    <<Msg("operator", "acme"), Feel("worried", Store("acme", "db"))>>,
    <<Msg("client", "acme"), Msg("acme", "client")>>,
    <<Msg("client", "acme"), Msg("acme", "ra"), Msg("ra", "ca"),
      Feel(Happy, Store("ca", "db"))>>,
    <<Msg("operator", "acme"), Msg("acme", "ca"), Store("ca", "db")>>,
    <<Feel("rolled", Msg("db", "alerts")), Msg("operator", "acme"),
      Store("acme", "db")>>>>]

EstLbScene == [
  actors |-> {"device", "mfr", "lb", "attacker", "est", "ra", "ca", "db"},
  dilly |-> "ra", chainAt |-> "db",
  steps |-> <<
    <<Msg("mfr", "ra"), Store("ra", "db")>>,
    <<Msg("device", "lb"), Msg("lb", "device")>>,
    <<Msg("device", "lb"), Msg("lb", "est"), Msg("est", "device")>>,
    <<Msg("device", "lb"), Msg("lb", "est"), Feel(Happy, Msg("est", "ra")),
      Msg("ra", "ca"), Store("ca", "db"), Msg("est", "device")>>,
    <<Msg("device", "lb"), Msg("lb", "est"), Msg("est", "ra"),
      Msg("ra", "ca"), Msg("est", "device")>>,
    <<Msg("attacker", "est"), Feel("worried", Msg("est", "attacker"))>>,
    <<Msg("device", "lb"), Msg("lb", "est"), Msg("est", "ca"),
      Msg("est", "device")>>>>]

CmpScene == [
  actors |-> {"operator", "plc", "cmp", "ra", "approver", "ca", "hsm", "db"},
  dilly |-> "ra", chainAt |-> "db",
  steps |-> <<
    <<Msg("operator", "cmp"), Store("cmp", "db"), Msg("cmp", "operator"),
      Msg("operator", "plc")>>,
    <<Msg("plc", "cmp"), Feel(Happy, Msg("cmp", "ra")), Msg("ra", "ca"),
      Msg("ca", "hsm"), Msg("hsm", "ca")>>,
    <<Store("cmp", "db"), Msg("cmp", "plc")>>,
    <<Msg("plc", "cmp"), Msg("cmp", "plc")>>,
    <<Msg("plc", "cmp"), Msg("cmp", "ra"), Msg("ra", "ca"),
      Msg("cmp", "plc")>>,
    <<Msg("plc", "cmp"), Feel("worried", Store("cmp", "db")),
      Msg("cmp", "plc"), Msg("plc", "cmp"), Msg("cmp", "plc")>>,
    <<Msg("approver", "cmp"), Feel(Happy, Msg("cmp", "ca")),
      Msg("plc", "cmp"), Msg("cmp", "plc")>>,
    <<Msg("plc", "cmp"), Msg("cmp", "ca"), Msg("cmp", "plc")>>>>]

AdcsScene == [
  actors |-> {"operator", "client", "dc", "ra", "gw", "msca", "ca", "db"},
  dilly |-> "ra", chainAt |-> "db",
  steps |-> <<
    <<Msg("ra", "dc"), Msg("dc", "ra")>>,
    <<Msg("ra", "db")>>,
    <<Msg("client", "ra"), Msg("ra", "dc"), Msg("dc", "ra")>>,
    <<Msg("ra", "ca"), Store("ca", "db"), Msg("ra", "client")>>,
    <<Store("ra", "db"), Msg("gw", "ra"), Msg("gw", "msca")>>,
    <<Msg("gw", "ra"), Store("ra", "db")>>>>]

ProvisionScene == [
  actors |-> {"admin", "vault", "engine", "ra", "ca", "web", "f5", "db"},
  dilly |-> "ra", chainAt |-> "db",
  steps |-> <<
    <<Msg("admin", "engine"), Store("engine", "db")>>,
    <<Msg("admin", "engine"), Store("engine", "db")>>,
    <<Msg("engine", "vault"), Msg("vault", "engine"), Msg("engine", "web"),
      Msg("web", "engine")>>,
    <<Msg("engine", "ra"), Feel(Happy, Msg("ra", "ca")),
      Msg("ca", "engine")>>,
    <<Msg("engine", "web"), Msg("engine", "web"), Store("engine", "db")>>,
    <<Msg("engine", "ra"), Msg("engine", "f5"), Msg("engine", "f5")>>,
    <<Feel("worried", Msg("f5", "engine")), Msg("engine", "ca"),
      Store("engine", "db")>>>>]

PolicyTreeScene == [
  actors |-> {"admin", "approver", "bank", "payments", "cards", "policy",
    "app", "db"},
  dilly |-> "policy", chainAt |-> "db",
  steps |-> <<
    <<Msg("admin", "policy"), Store("policy", "db")>>,
    <<Msg("approver", "db"), Msg("db", "bank"), Msg("bank", "payments"),
      Msg("payments", "cards")>>,
    <<Msg("bank", "policy"), Msg("payments", "policy"),
      Msg("cards", "policy"), Msg("policy", "app")>>,
    <<Msg("app", "policy"), Feel("worried", Msg("policy", "app"))>>,
    <<Msg("admin", "payments"), Msg("payments", "admin")>>,
    <<Msg("db", "app"), Msg("app", "policy"),
      Feel("rolled", Msg("policy", "db"))>>>>]

UpstreamScene == [
  actors |-> {"app", "ra", "acme", "le", "dns", "db"},
  dilly |-> "ra", chainAt |-> "db",
  steps |-> <<
    <<Msg("app", "ra")>>,
    <<Msg("ra", "acme")>>,
    <<Msg("acme", "le"), Msg("le", "acme")>>,
    <<Msg("acme", "dns"), Msg("le", "dns"), Msg("le", "acme")>>,
    <<Msg("acme", "le"), Msg("le", "acme"), Msg("acme", "dns")>>,
    <<Msg("acme", "ra"), Feel(Happy, Store("ra", "db")), Msg("ra", "app")>>,
    <<Feel("worried", Msg("acme", "ra"))>>>>]

DiscoverScene == [
  actors |-> {"host", "ra", "cloud", "ct", "bell", "team", "db"},
  dilly |-> "ra", chainAt |-> "db",
  steps |-> <<
    <<Local("host")>>,
    <<Msg("host", "ra"), Store("ra", "db")>>,
    <<Feel("worried", Msg("ra", "bell")), Msg("bell", "team"),
      Msg("team", "host")>>,
    <<Msg("ra", "cloud"), Msg("cloud", "ra"), Store("ra", "db")>>,
    <<Msg("ra", "ct"), Msg("ct", "ra")>>,
    <<Store("ra", "db"), Msg("ra", "bell")>>,
    <<Msg("team", "ra"), Feel(Happy, Store("ra", "db"))>>>>]

AuditShipScene == [
  actors |-> {"ops", "db", "shipper", "siem", "s3", "auditor", "attacker"},
  dilly |-> "shipper", chainAt |-> "db",
  steps |-> <<
    <<Store("ops", "db")>>,
    <<Msg("db", "shipper"), Local("shipper")>>,
    <<Msg("shipper", "siem"), Store("shipper", "s3")>>,
    <<Msg("s3", "auditor"), Feel(Happy, Local("auditor"))>>,
    <<Feel("worried", Msg("attacker", "db"))>>,
    <<Msg("db", "shipper"), Feel("rolled", Msg("shipper", "siem"))>>,
    <<Local("auditor")>>>>]

OfflineRootScene == [
  actors |-> {"operator", "witness", "offline", "root", "server", "hsm",
    "db"},
  dilly |-> "server", chainAt |-> "db",
  steps |-> <<
    <<Msg("operator", "offline"), Msg("offline", "root")>>,
    <<Msg("server", "hsm"), Store("server", "db")>>,
    <<Msg("server", "offline"), Msg("root", "offline"),
      Msg("witness", "offline")>>,
    <<Msg("offline", "server"), Feel(Happy, Msg("server", "hsm")),
      Store("server", "db")>>,
    <<Feel("worried", Msg("offline", "server"))>>,
    <<Msg("root", "offline"), Msg("offline", "server"),
      Store("server", "db")>>>>]

CodeSignScene == [
  actors |-> {"ci", "svc", "approver", "hsm", "tsa", "verifier", "db"},
  dilly |-> "svc", chainAt |-> "db",
  steps |-> <<
    <<Msg("approver", "svc"), Msg("svc", "hsm"), Store("svc", "db")>>,
    <<Msg("ci", "svc"), Store("svc", "db")>>,
    <<Feel(Happy, Msg("approver", "svc")), Msg("svc", "hsm"),
      Msg("hsm", "svc")>>,
    <<Msg("svc", "tsa"), Msg("tsa", "svc"), Store("svc", "db"),
      Msg("svc", "ci")>>,
    <<Msg("ci", "verifier"), Local("verifier")>>,
    <<Feel("worried", Msg("ci", "svc"))>>>>]

(* The scenes by the id of their page, as register() files them. *)
Scene == [
  acme |-> AcmeScene,
  devices |-> DevicesScene,
  revocation |-> RevocationScene,
  platform |-> PlatformScene,
  ari |-> AriScene,
  estlb |-> EstLbScene,
  cmp |-> CmpScene,
  adcs |-> AdcsScene,
  provision |-> ProvisionScene,
  policytree |-> PolicyTreeScene,
  upstream |-> UpstreamScene,
  discover |-> DiscoverScene,
  auditship |-> AuditShipScene,
  offlineroot |-> OfflineRootScene,
  codesign |-> CodeSignScene]

=============================================================================
