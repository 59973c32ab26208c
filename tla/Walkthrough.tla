---------------------------- MODULE Walkthrough ----------------------------
(***************************************************************************)
(* The player of a 3D walkthrough (kb-src/scenes-engine.js, SceneView).    *)
(*                                                                         *)
(* A step's moves are played one after the other: an envelope flies, or    *)
(* its actor is lit for a moment (local); when it is over its effect is    *)
(* applied and the next move starts.  loop() runs on every frame and finds *)
(* out what is over; between two frames the reader presses buttons.  How   *)
(* long a flight, a pause and the reading of a step take is left open.     *)
(* Steps are numbered from 1 (the code counts from 0).                     *)
(*                                                                         *)
(* goTo() sets the chain of blocks and Dilly's mood to what all earlier    *)
(* steps leave (settle), whatever was on the platform before.              *)
(***************************************************************************)
EXTENDS SceneData, SequencesExt, Naturals, FiniteSets

CONSTANTS
  MaxActs,     \* bound: what a reader does
  NoView       \* no scene is mounted

ASSUME MaxActsAssumption == MaxActs \in Nat

\* What a SceneView can be; a page without one has none of these.
View ==
  [scene : DOMAIN Scene, step : Nat, queue : Seq(MoveType), running : BOOLEAN,
   packets : SUBSET MoveType, local : BOOLEAN, playing : BOOLEAN, chain : Nat,
   mood : Mood, visible : BOOLEAN]

ASSUME NoViewAssumption == NoView \notin View

VARIABLES
  view,     \* the mounted SceneView, or NoView
  acts      \* what the reader has done

playerVars == <<view, acts>>

Steps(v) == Scene[v.scene].steps

StepNumbers(v) == 1 .. Len(Steps(v))

-----------------------------------------------------------------------------
(* What moves leave on the platform *)

\* The moves of all steps of scene s before step n.
MovesBefore ==
  [s \in DOMAIN Scene |->
     [n \in 1 .. Len(Scene[s].steps) |->
        FlattenSeq(SubSeq(Scene[s].steps, 1, n - 1))]]

Before(v, n) == MovesBefore[v.scene][n]

Blocks(moves) == Cardinality({i \in 1 .. Len(moves) : moves[i].store})

\* The mood the last move that has one leaves.
MoodAfter(moves) ==
  LET felt == {i \in 1 .. Len(moves) : moves[i].dilly # Keep}
  IN IF felt = {} THEN Happy ELSE moves[Max(felt)].dilly

\* Deterministic state for a step: chain length and Dilly's mood.
Settle(v, n) ==
  [v EXCEPT !.chain = Blocks(Before(v, n)), !.mood = MoodAfter(Before(v, n))]

ApplyEffect(v, m) ==
  [v EXCEPT !.mood = IF m.dilly = Keep THEN @ ELSE m.dilly,
            !.chain = IF m.store THEN @ + 1 ELSE @]

-----------------------------------------------------------------------------
(* The player *)

Known(v, m) == m.local \/ {m.from, m.to} \subseteq Scene[v.scene].actors

\* What the scenes are, every one of them: steps of moves, and a move between
\* actors that are not there stores nothing and leaves the mood alone.
ASSUME ScenesAssumption ==
  \A s \in DOMAIN Scene :
    /\ Scene[s].steps \in Seq(Seq(MoveType)) \ {<<>>}
    /\ MovesBefore[s] \in [1 .. Len(Scene[s].steps) -> Seq(MoveType)]
    /\ \A ms \in Range(Scene[s].steps) : \A m \in Range(ms) :
         Known([scene |-> s], m) \/ (~m.store /\ m.dilly = Keep)

\* Mutant: a step whose moves are over runs on.
StartNextMove_RunsOn(v) ==
  LET w == [v EXCEPT !.queue = IF @ = <<>> THEN @ ELSE Tail(@)]
  IN IF v.queue = <<>> THEN v
     ELSE IF Head(v.queue).local
     THEN [ApplyEffect(w, Head(v.queue)) EXCEPT !.local = TRUE]
     ELSE [w EXCEPT !.packets = @ \cup {Head(v.queue)}, !.local = FALSE]

\* The next move of the step: an envelope between actors the scene does not
\* have is passed over; with none left the step has stopped running.
StartNextMove(v) ==
  LET k == SelectInSeq(v.queue, LAMBDA m : Known(v, m))
      m == v.queue[k]
      w == [v EXCEPT !.queue = SubSeq(@, k + 1, Len(@))]
  IN IF k = 0
     THEN [v EXCEPT !.queue = <<>>, !.running = FALSE,
                    !.local = @ /\ v.queue = <<>>]
     ELSE IF m.local
     THEN [ApplyEffect(w, m) EXCEPT !.local = TRUE]
     ELSE [w EXCEPT !.packets = @ \cup {m}, !.local = FALSE]

\* Mutant: the platform is left as it was.
GoTo_Unsettled(v, n) ==
  StartNextMove([v EXCEPT
    !.packets = {}, !.step = n, !.queue = Steps(v)[n], !.running = TRUE])

GoTo(v, n) ==
  StartNextMove([Settle(v, n) EXCEPT
    !.packets = {}, !.step = n, !.queue = Steps(v)[n], !.running = TRUE])

\* The constructor.
Mounted(s) ==
  GoTo([scene |-> s, step |-> 0, queue |-> <<>>, running |-> FALSE,
        packets |-> {}, local |-> FALSE, playing |-> FALSE, chain |-> 0,
        mood |-> Happy, visible |-> TRUE], 1)

\* mount(): an actor the scene names must be on the platform, or building it
\* throws and the page shows its text alone.
Mountable(s) == {Scene[s].dilly, Scene[s].chainAt} \subseteq Scene[s].actors

Play(v) ==
  LET w == [v EXCEPT !.playing = TRUE]
  IN IF v.running THEN w
     ELSE IF v.step >= Len(Steps(v)) THEN GoTo(w, 1)
     ELSE GoTo(w, v.step + 1)

Pause(v) == [v EXCEPT !.playing = FALSE]

Later(v) == IF v.step < Len(Steps(v)) THEN v.step + 1 ELSE v.step
Earlier(v) == IF v.step > 1 THEN v.step - 1 ELSE v.step

-----------------------------------------------------------------------------
(* The reader *)

Act == acts < MaxActs /\ acts' = acts + 1

Press(v) == Act /\ view' = v

TogglePlay == Press(IF view.playing THEN Pause(view) ELSE Play(view))

NextStep == Press(GoTo(Pause(view), Later(view)))

PrevStep == Press(GoTo(Pause(view), Earlier(view)))

Restart == Press(Play(GoTo(view, 1)))

PickStep == \E n \in StepNumbers(view) : Press(GoTo(Pause(view), n))

\* The arrow keys do not stop the playing.
ArrowKey == \E n \in {Later(view), Earlier(view)} : Press(GoTo(view, n))

\* The scene is scrolled out of sight, or back.
Scroll == Press([view EXCEPT !.visible = ~@])

Reader ==
  /\ view # NoView
  /\ \/ TogglePlay \/ NextStep \/ PrevStep \/ Restart \/ PickStep \/ ArrowKey
     \/ Scroll

-----------------------------------------------------------------------------
(* Frames: loop() does nothing for a scene out of sight *)

Frame(v) == view # NoView /\ view.visible /\ view' = v /\ UNCHANGED acts

\* An envelope arrives.  The next one joins the list that filter() is walking
\* through; what filter() kept then takes the place of that list.
Arrive ==
  /\ view # NoView
  /\ \E m \in view.packets :
       Frame([StartNextMove(ApplyEffect(view, m)) EXCEPT
                !.packets = view.packets \ {m}])

\* A local move has been lit long enough.
LocalOver ==
  /\ view # NoView /\ view.local
  /\ Frame(StartNextMove([view EXCEPT !.local = FALSE]))

\* The step has been read.  (A local move is over before any step is read.)
ReadOn ==
  /\ view # NoView /\ view.playing /\ ~view.running /\ ~view.local
  /\ view.packets = {}
  /\ Frame(IF view.step < Len(Steps(view)) THEN GoTo(view, view.step + 1)
           ELSE Pause(view))

Frames == Arrive \/ LocalOver \/ ReadOn

PlayerInit ==
  /\ view \in {Mounted(s) : s \in {t \in DOMAIN Scene : Mountable(t)}}
  /\ acts = 0

PlayerNext == Reader \/ Frames

\* Browsers call loop() on every frame.
PlayerSpec == PlayerInit /\ [][PlayerNext]_playerVars

FairPlayerSpec == PlayerSpec /\ WF_playerVars(Frames)

-----------------------------------------------------------------------------
(* Properties *)

ViewType(v) ==
  /\ v \in View
  /\ v.step \in StepNumbers(v)
  /\ Range(v.queue) \cup v.packets \subseteq Range(Steps(v)[v.step])

PlayerTypeOK == acts \in 0 .. MaxActs /\ (view # NoView => ViewType(view))

\* The moves of the step that are over, or local and lit.
Played(v) ==
  LET begun == Len(Steps(v)[v.step]) - Len(v.queue)
  IN SubSeq(Steps(v)[v.step], 1,
       IF v.running /\ ~v.local THEN begun - 1 ELSE begun)

\* Deterministic state for a step (settle's comment): whichever way the reader
\* came to a step, playing, skipping or going back in the middle of a flight,
\* the blocks on the chain and Dilly's mood are those of the moves before it.
ShownIsPlayed ==
  view # NoView =>
    LET told == Before(view, view.step) \o Played(view)
    IN view.chain = Blocks(told) /\ view.mood = MoodAfter(told)

\* "The 3D walkthroughs show each protocol message by message": as long as a
\* step runs, one of its moves is on its way.
MessageByMessage ==
  view # NoView /\ view.running => view.packets # {} \/ view.local

\* No envelope follows an envelope in the step.
Smooth(v) ==
  LET ms == Steps(v)[v.step]
  IN \A i \in 1 .. Len(ms) - 1 : ms[i].local \/ ms[i + 1].local

\* A walkthrough that plays goes on from step to step until it ends, is out of
\* sight, or comes to a step in which an envelope follows an envelope.
PlaysOn ==
  (view # NoView /\ view.playing) ~>
    (view = NoView \/ ~view.playing \/ ~view.visible \/ ~Smooth(view))
=============================================================================
