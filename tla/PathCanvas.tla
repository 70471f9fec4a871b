----------------------------- MODULE PathCanvas -----------------------------
(***************************************************************************)
(* The canvas of the Path Explorer and what floats over it: pan, zoom and  *)
(* fit (path/usePathController.ts), the minimap, the selection and the     *)
(* modal code overlay (path/PathView.tsx, path/CodeOverlay.tsx).           *)
(*                                                                         *)
(* The layout that is drawn is input: it changes with the tree that the    *)
(* page shows (see PathExplorer), by what the user does or by an answer.   *)
(* A step is one browser event with its render and effects: a mouse or key *)
(* event, an animation frame, or a new tree.                               *)
(*                                                                         *)
(* Abstracted: coordinates (a transform is what set it and for what), the  *)
(* animation of a switch, the contents of drawer and overlay, the window's *)
(* size.                                                                   *)
(***************************************************************************)
EXTENDS FiniteSets

CONSTANTS
  Layouts,    \* results of layoutTree
  Cards,      \* node ids
  CardsIn,    \* the nodes of a layout
  First,      \* and the first of them
  Size,       \* its world size
  HasSource,  \* nodes with a task_path
  Nothing,    \* null
  Spinner,    \* the page before its first tree
  Error       \* the page without a tree that could not be loaded

ASSUME PathCanvasAssumption ==
  /\ CardsIn \in [Layouts -> SUBSET Cards]
  /\ {Spinner, Error} \cap Layouts = {} /\ Spinner # Error
  /\ Nothing \notin Cards

VARIABLES
  page,       \* the layout, the spinner or the error page
  loaded,     \* a tree has been there
  by,         \* who set the transform: "mount", "fit" or "user"
  to,         \* the layout it was fitted to
  frame,      \* a fit waits for the next animation frame
  sized,      \* cw and ch have been measured
  canvas,     \* the canvas element is in the document
  wheel,      \* the element that has the wheel listener
  press,      \* the mouse button: up, or down with the card under it
  moved,      \* and whether the mouse moved since
  selectedId, \* of the drawer
  source,     \* sourceNodeId
  fresh       \* (history) the user set the transform in what is drawn now

stage == <<page, loaded, canvas, wheel>>
fit  == <<by, to, frame, sized, fresh>>
canvasVars == <<stage, fit, press, moved, selectedId, source>>

CanvasTypeOK ==
  /\ page \in Layouts \cup {Spinner, Error}
  /\ by \in {"mount", "fit", "user"} /\ to \in Layouts \cup {Nothing}
  /\ by = "fit" => to \in Layouts
  /\ press \in Cards \cup {"up", "background"}
  /\ selectedId \in Cards \cup {Nothing} /\ source \in HasSource \cup {Nothing}
  /\ wheel \in {"none", "canvas"}
  /\ {loaded, frame, sized, canvas, moved, fresh} \subseteq BOOLEAN

Drawn == page \in Layouts

DrawerShown == Drawn /\ selectedId \in CardsIn[page]
OverlayOpen == Drawn /\ source \in CardsIn[page]

\* Mutants: the key by the layout's identity, and by its size.
FitKeyByIdentity(p) == IF p \in Layouts THEN <<p>> ELSE <<>>
FitKeyBySize(p)     == IF p \in Layouts THEN <<Size[p]>> ELSE <<>>

\* The signature of a layout that decides whether to fit again.
FitKey(p) ==
  IF p \in Layouts THEN <<Cardinality(CardsIn[p]), First[p], Size[p]>> ELSE <<>>

SameContent(p, q) ==
  p = q \/ /\ {p, q} \subseteq Layouts
           /\ CardsIn[p] = CardsIn[q] /\ Size[p] = Size[q]

\* Mutant: the listener is bound once, when the page is mounted.
BindOnce(p) == wheel

\* The wheel listener is bound anew when a layout comes or goes.
Bind(p) ==
  IF (p \in Layouts) = Drawn THEN wheel
  ELSE IF p \in Layouts THEN "canvas" ELSE "none"

\* The page is rendered with p: elements are mounted, effects of what changed run.
Draw(p) ==
  /\ page' = p /\ loaded' = (loaded \/ p \in Layouts)
  /\ canvas' = (p # Spinner)
  /\ wheel' = Bind(p)
  /\ frame' = IF FitKey(p) = FitKey(page) THEN frame ELSE FitKey(p) # <<>>
  /\ fresh' = (fresh /\ SameContent(page, p))
  /\ UNCHANGED <<by, to, sized>>

CanvasInit ==
  /\ page \in Layouts \cup {Spinner}
  /\ loaded = Drawn /\ canvas = Drawn
  /\ wheel = IF Drawn THEN "canvas" ELSE "none"
  /\ by = "mount" /\ to = Nothing /\ frame = Drawn /\ sized = FALSE /\ fresh = FALSE
  /\ press = "up" /\ moved = FALSE
  /\ selectedId = Nothing /\ source = Nothing

(***************************************************************************)
(* Trees that come, and the animation frame                                *)
(***************************************************************************)
\* The tree of the view, of another iteration, with other branches, or none.
TreeChanges(p) ==
  /\ p # page
  /\ p = Spinner => ~loaded
  /\ Draw(p)
  /\ UNCHANGED <<press, moved, selectedId, source>>

AnimationFrame ==
  /\ frame
  /\ IF Drawn THEN by' = "fit" /\ to' = page /\ sized' = TRUE /\ fresh' = FALSE
              ELSE UNCHANGED <<by, to, sized, fresh>>
  /\ frame' = FALSE
  /\ UNCHANGED <<stage, press, moved, selectedId, source>>

(***************************************************************************)
(* The user.  The overlay is modal.                                        *)
(***************************************************************************)
PageIsFree == page # Spinner /\ ~OverlayOpen

ByUser ==
  /\ by' = "user" /\ to' = Nothing /\ fresh' = (Drawn /\ ~frame)
  /\ UNCHANGED <<frame, sized>>

\* Another view is entered, or left: its tree is there or the page goes on
\* showing the one before it.
Navigate(p) ==
  /\ PageIsFree /\ press = "up"
  /\ Draw(p)
  /\ selectedId' = Nothing
  /\ UNCHANGED <<press, moved, source>>

Wheel ==
  /\ PageIsFree /\ wheel = "canvas"
  /\ ByUser
  /\ UNCHANGED <<stage, press, moved, selectedId, source>>

MinimapJump ==
  /\ PageIsFree /\ Drawn /\ sized /\ press = "up"
  /\ ByUser
  /\ UNCHANGED <<stage, press, moved, selectedId, source>>

MouseDown(on) ==
  /\ PageIsFree /\ Drawn /\ press = "up"
  /\ on \in CardsIn[page] \cup {"background"}
  /\ press' = on /\ moved' = FALSE
  /\ UNCHANGED <<stage, fit, selectedId, source>>

\* The listeners are the window's: they work on whatever the page shows.
MouseMove(far) ==
  /\ press # "up"
  /\ moved' = (moved \/ far)
  /\ ByUser
  /\ UNCHANGED <<stage, press, selectedId, source>>

\* A press that did not move deselects; the click on the card that the press
\* began on, if it is still under the mouse, follows and selects it.
MouseUp(click) ==
  /\ press # "up"
  /\ click => Drawn /\ press \in CardsIn[page]
  /\ press' = "up" /\ moved' = FALSE
  /\ selectedId' = IF click THEN press ELSE IF moved THEN selectedId ELSE Nothing
  /\ UNCHANGED <<stage, fit, source>>

CloseDrawer ==
  /\ PageIsFree /\ DrawerShown
  /\ selectedId' = Nothing
  /\ UNCHANGED <<stage, fit, press, moved, source>>

ViewSource ==
  /\ PageIsFree /\ DrawerShown /\ press = "up" /\ selectedId \in HasSource
  /\ source' = selectedId
  /\ UNCHANGED <<stage, fit, press, moved, selectedId>>

\* Escape reaches the drawer's listener too.
CloseOverlay(escape) ==
  /\ OverlayOpen
  /\ source' = Nothing
  /\ selectedId' = IF escape /\ DrawerShown THEN Nothing ELSE selectedId
  /\ UNCHANGED <<stage, fit, press, moved>>

CanvasNext ==
  \/ \E p \in Layouts \cup {Spinner, Error} : TreeChanges(p)
  \/ AnimationFrame
  \/ \E p \in Layouts : Navigate(p)
  \/ Wheel \/ MinimapJump
  \/ \E on \in Cards \cup {"background"} : MouseDown(on)
  \/ \E b \in BOOLEAN : MouseMove(b) \/ MouseUp(b) \/ CloseOverlay(b)
  \/ CloseDrawer \/ ViewSource

CanvasSpec == CanvasInit /\ [][CanvasNext]_canvasVars

(***************************************************************************)
(* Properties                                                              *)
(***************************************************************************)
\* The signature tells what is drawn apart: what PictureIsPlaced and GestureStays rest
\* on, for it has the number of the nodes, the first of them and the size only.
KeyIsFaithful ==
  \A p, q \in Layouts : (FitKey(p) = FitKey(q)) = SameContent(p, q)

\* A transform never outlives the picture it was made for: what is drawn is
\* fitted, or about to be, or the user has moved this very picture.
PictureIsPlaced ==
  Drawn /\ ~frame => \/ by = "fit" /\ Size[to] = Size[page]
                     \/ by = "user" /\ fresh

\* What the user did to the picture is not undone while the picture is the
\* same, whatever is rendered (usePathController.ts: "no clobber loop").
GestureStays == [][by = "user" /\ fresh => by' = "user"]_canvasVars

\* The wheel listener is on the element that is there (the page starts as a
\* spinner, and may fall back to it).
WheelWorks == Drawn => canvas /\ wheel = "canvas"
=============================================================================
