CONSTANTS
  MaxActs = 3
  NoView = NoView
  Guide = {"home", "acme-guide"}
  Home = "home"
  Nowhere = "nowhere"
  Linked = {"home", "acme-guide", "acme", "auditship"}
  AdminKey = {k1}
  OperatorKey = {}
  ReaderKey = {k2}
  BadKey = {}
  NoKey = NoKey
  Choice = {x}
  NoChoice = NoChoice
  App = {a1}
  NoApp = NoApp
  Folder = {f1}
  NoFolder = NoFolder
  Opened = {"onboard", "discovery", "provisioning", "policy", "sshkeys"}
  MaxInputs = 2
  MaxFailures = 1
SPECIFICATION Spec
INVARIANTS
  KBTypeOK
  ShownIsPlayed
  OnePlayer
  SettledOnHash
  HitsOfText
  ConsoleTypeOK
  SettledPage
  ChangesHidden
  ButtonsComeBack
  WizardFits
  RulesOfFolder
PROPERTIES
  PlaysOn
  AnswersKeepEdits
CHECK_DEADLOCK FALSE
