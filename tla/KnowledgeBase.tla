--------------------------- MODULE KnowledgeBase ---------------------------
(***************************************************************************)
(* The shell of the knowledge base (kb-src/kb-app.js): the hash names the  *)
(* page, a page with a scene mounts its player (Walkthrough), a search box *)
(* lists hits.                                                             *)
(*                                                                         *)
(* The browser changes the hash at once and calls hashchange later, so     *)
(* that two navigations may lie between two calls; route() looks at the    *)
(* hash of the moment it runs.  A tour's page has the id of its scene here. *)
(***************************************************************************)
EXTENDS Walkthrough

CONSTANTS
  Guide,      \* pages without a scene
  Home,       \* the first page, shown for a hash that names none
  Linked,     \* bound: the pages the reader goes to from another one
  Nowhere     \* a hash that names no page

ASSUME PagesAssumption ==
  Home \in Guide /\ DOMAIN Scene \cap Guide = {}

VARIABLES
  hash,      \* location.hash, "" when there is none
  events,    \* hashchange calls that are due
  current,   \* the page shown
  anchor,    \* pendingAnchor: the page of the link it was taken from, or ""
  at,        \* the top of the page, or the anchor it was scrolled to
  kbLast,    \* sessionStorage kb-last, "" when not stored
  mounted,   \* the number of players mounted so far
  alive,     \* players whose loop and listeners go on
  search     \* the search box and its list of hits

shellVars == <<hash, events, current, anchor, at, kbLast, mounted, alive, search>>

kbVars == <<shellVars, playerVars>>

Tour == DOMAIN Scene    \* every scene has a page, and is named as that is
Page == Guide \cup Tour

ASSUME LinkedAssumption == Linked \subseteq Page

NoText == ""   \* no hash, nothing stored, an empty box
NoAnchor == NoText
Top == "top"

\* A query finds the page it is named for; NoText stands for fewer than two
\* letters.
Closed == [text |-> NoText, hits |-> NoText, hidden |-> TRUE]

\* Mutant: without "|| pages[0]".
Resolve_Unknown(slug) == slug

Resolve(slug) == IF slug \in Page THEN slug ELSE Home

-----------------------------------------------------------------------------
(* route() and render() *)

\* Mutant: render() forgets the player before it disposes of it.
Disposed_Forgotten == alive

\* The loop and the listeners of the player that was shown end.
Disposed == IF view = NoView THEN alive ELSE alive \ {mounted}

\* The page p, scrolled to the anchor a if it has one of that name.
Render(p, a) ==
  /\ current' = p
  /\ \/ /\ p \in Tour /\ Mountable(p)
        /\ view' = Mounted(p) /\ mounted' = mounted + 1
        /\ alive' = Disposed \cup {mounted + 1}
     \/ \* No scene, no WebGL, no three.js.
        /\ view' = NoView /\ alive' = Disposed /\ UNCHANGED mounted
  /\ \/ a # NoAnchor /\ at' = a /\ UNCHANGED kbLast
     \/ at' = Top /\ kbLast' = p

\* Mutant: the page shown last comes before the hash.
Route_LastFirst(h) ==
  Render(Resolve(IF kbLast # NoText THEN kbLast ELSE h), anchor) /\ anchor' = NoAnchor

Route(h) ==
  LET slug == IF h # NoText THEN h ELSE IF kbLast # NoText THEN kbLast ELSE Home
  IN Render(Resolve(slug), anchor) /\ anchor' = NoAnchor

HashChange ==
  /\ events > 0
  /\ events' = events - 1
  /\ Route(hash)
  /\ UNCHANGED <<hash, search, acts>>

-----------------------------------------------------------------------------
(* The reader *)

\* The browser goes to a hash: no call is due when it is the same one.
GoToHash(h) ==
  /\ hash' = h
  /\ events' = IF h = hash THEN events ELSE events + 1

\* A link of the menu, the pager or a page; Back and Forward, or typing a hash.
Follow ==
  /\ Act
  /\ \E h \in Linked \cup {Nowhere, NoText} : GoToHash(h)
  /\ UNCHANGED <<current, anchor, at, kbLast, mounted, alive, search, view>>

\* A link with an anchor: on its own page it only scrolls.  Opened in another
\* tab it leaves its anchor behind without a navigation of this one.
FollowAnchor ==
  /\ Act
  /\ \E p \in Guide :
       \/ p = current /\ at' = p /\ UNCHANGED <<hash, events, anchor>>
       \/ /\ p # current /\ anchor' = p /\ UNCHANGED at
          /\ \/ GoToHash(p)
             \/ UNCHANGED <<hash, events>>
  /\ UNCHANGED <<current, kbLast, mounted, alive, search, view>>

\* The page is loaded again: only the hash and the session's storage are left.
Reload ==
  /\ Act
  /\ current' = Resolve(IF hash # NoText THEN hash
                        ELSE IF kbLast # NoText THEN kbLast ELSE Home)
  /\ \/ /\ current' \in Tour /\ Mountable(current')
        /\ view' = Mounted(current') /\ mounted' = mounted + 1
        /\ alive' = {mounted + 1}
     \/ view' = NoView /\ alive' = {} /\ UNCHANGED mounted
  /\ events' = 0 /\ anchor' = NoAnchor /\ at' = Top
  /\ kbLast' = current' /\ search' = Closed
  /\ UNCHANGED hash

\* Mutant: a query that is too short returns before the list is hidden.
Type_Short ==
  /\ Act
  /\ \E q \in Linked \cup {NoText} :
       search' = IF q = NoText THEN [search EXCEPT !.text = NoText]
                 ELSE [text |-> q, hits |-> q, hidden |-> FALSE]
  /\ UNCHANGED <<hash, events, current, anchor, at, kbLast, mounted, alive,
                 view>>

Type ==
  /\ Act
  /\ \E q \in Linked \cup {NoText} :
       search' = IF q = NoText THEN [search EXCEPT !.text = NoText, !.hidden = TRUE]
                 ELSE [text |-> q, hits |-> q, hidden |-> FALSE]
  /\ UNCHANGED <<hash, events, current, anchor, at, kbLast, mounted, alive,
                 view>>

\* Enter opens the first link of the list, shown or not.
Enter ==
  /\ Act
  /\ search.hits # NoText
  /\ GoToHash(search.hits)
  /\ search' = [search EXCEPT !.hidden = TRUE]
  /\ UNCHANGED <<current, anchor, at, kbLast, mounted, alive, view>>

ClickHit ==
  /\ Act
  /\ ~search.hidden
  /\ GoToHash(search.hits)
  /\ search' = [search EXCEPT !.hidden = TRUE, !.text = NoText]
  /\ UNCHANGED <<current, anchor, at, kbLast, mounted, alive, view>>

\* Escape, or a click elsewhere.
CloseHits ==
  /\ Act
  /\ search' = [search EXCEPT !.hidden = TRUE]
  /\ UNCHANGED <<hash, events, current, anchor, at, kbLast, mounted, alive,
                 view>>

-----------------------------------------------------------------------------

KBInit ==
  /\ hash \in Page \cup {Nowhere, NoText}
  /\ events = 0 /\ anchor = NoAnchor /\ at = Top
  /\ current = Resolve(hash)
  /\ kbLast = current
  /\ \/ current \in Tour /\ Mountable(current) /\ view = Mounted(current)
     \/ view = NoView
  /\ mounted = 1
  /\ alive = IF view = NoView THEN {} ELSE {1}
  /\ acts = 0 /\ search = Closed

KBNext ==
  \/ HashChange
  \/ Follow \/ FollowAnchor \/ Reload
  \/ Type \/ Enter \/ ClickHit \/ CloseHits
  \/ PlayerNext /\ UNCHANGED shellVars

\* The browser calls what is due, and loop() on every frame.
KBFairness ==
  WF_kbVars(HashChange) /\ WF_kbVars(Frames /\ UNCHANGED shellVars)

KBSpec == KBInit /\ [][KBNext]_kbVars /\ KBFairness

-----------------------------------------------------------------------------
(* Properties *)

KBTypeOK ==
  /\ hash \in Page \cup {Nowhere, NoText}
  /\ events \in 0 .. MaxActs
  /\ current \in Page
  /\ {anchor, kbLast} \subseteq Page \cup {NoText}
  /\ at \in Guide \cup {Top}
  /\ alive \subseteq 1 .. mounted
  /\ search \in [text : Page \cup {NoText}, hits : Page \cup {NoText}, hidden : BOOLEAN]
  /\ PlayerTypeOK

\* However fast the reader goes from page to page, one player is left alive,
\* that of the page shown (kb-app.js render(), SceneView.dispose()).
OnePlayer ==
  /\ view # NoView => view.scene = current
  /\ alive = IF view = NoView THEN {} ELSE {mounted}

\* When the browser has nothing left to call, the page shown is the one the
\* hash names, whatever was followed in between.
SettledOnHash == events = 0 /\ hash # NoText => current = Resolve(hash)

\* A list of hits that is shown is that of what the box says.
HitsOfText == ~search.hidden => search.hits = search.text /\ search.text # NoText
=============================================================================
