--------------------------- MODULE MCWebFrontEnd ---------------------------
(***************************************************************************)
(* The two pages of the web front end for TLC: the knowledge base and the  *)
(* console, each in a browser of its own.  They share nothing, so one of   *)
(* them is used in a behaviour, and the other lies as it was opened.       *)
(***************************************************************************)
EXTENDS KnowledgeBase, Console

VARIABLE site

vars == <<kbVars, consoleVars, site>>

\* What the page that is not used was opened with.
KBUnused == hash = Home /\ view = NoView
ConsoleUnused == KEY = NoKey /\ tab = CHOOSE t \in Opened : TRUE

Init ==
  /\ KBInit /\ ConsoleInit
  /\ \/ site = "kb" /\ ConsoleUnused
     \/ site = "console" /\ KBUnused

Next ==
  \/ site = "kb" /\ KBNext /\ UNCHANGED <<consoleVars, site>>
  \/ site = "console" /\ ConsoleNext /\ UNCHANGED <<kbVars, site>>

Spec == Init /\ [][Next]_vars /\ KBFairness
=============================================================================
