---------------------------- MODULE TreeCanvas -----------------------------
(***************************************************************************)
(* The passive tree on screen: TreeCanvas under the viewport TreePanel     *)
(* keeps.  A handler reads the viewport of the last render; what it sets   *)
(* is on screen after the next one, and other events may come before that. *)
(* Only the horizontal axis is kept (the vertical one behaves alike), and  *)
(* one wheel notch doubles or halves the scale.  Lengths are fifths of a   *)
(* pixel, which makes the thresholds of the code 20, 60 and 320.           *)
(***************************************************************************)
EXTENDS Integers, Sequences, FiniteSets

CONSTANTS
  NodeAt,      \* the world position of each node, in the order of graph.nodes
  Titles,      \* the words of each node's titles and aliases, as lists of letters
  Cursors,     \* the screen positions the mouse goes to
  Queries,     \* what is typed in the search box, as lists of letters
  MaxEvents    \* bound on the events of a behaviour

(* The unit is chosen so that the positions are whole at every scale: a world    *)
(* point under the mouse is then a whole number, as it is a float in the code.  *)
ASSUME CanvasAssumption ==
  /\ \A x \in Cursors : x \in Int /\ x % 4 = 0
  /\ \A n \in DOMAIN NodeAt : NodeAt[n] \in Int

VARIABLES
  viewport,    \* TreePanel: the viewport last set
  rendered,    \* the viewport props.viewport holds since the last render
  query,       \* TreePanel: the search box
  localHover,  \* TreePanel: what onHoverNode was last called with
  hoverRef,    \* TreeCanvas: the node last reported
  dragRef,     \* TreeCanvas: the press in progress
  cursor,      \* where the mouse is, or off the canvas
  grab,        \* history: the world position held since the drag became a pan
  lost,        \* history: an update since the press was computed from a stale viewport
  panned,      \* history: the view was panned since the press
  clicked,     \* history: the press and the release of the last onAllocate
  events

canvasVars == <<viewport, rendered, query, localHover, hoverRef, dragRef, cursor,
                grab, lost, panned, clicked, events>>

MinScale == 1
MaxScale == 4
Width == 800
CullMargin == 320
ClickDragThreshold == 20
HitRadius == 60

NoNode == 0
NoDrag == [startX |-> 0, lastX |-> 0, moved |-> FALSE, down |-> FALSE]
Off == 9999

Abs(n) == IF n < 0 THEN -n ELSE n
Clamp(n) == IF n < MinScale THEN MinScale ELSE IF n > MaxScale THEN MaxScale ELSE n

worldToScreen(vp, x) == x * vp.scale + vp.offsetX
screenToWorld(vp, x) == (x - vp.offsetX) \div vp.scale
panBy(vp, dx) == [vp EXCEPT !.offsetX = @ + dx]

(* Bug: the world point is taken after the scale has changed. *)
zoomAtNewScale(vp, cx, scale) ==
  [scale |-> Clamp(scale),
   offsetX |-> cx - screenToWorld([vp EXCEPT !.scale = Clamp(scale)], cx) * Clamp(scale)]

(* The world point under the cursor stays under it. *)
zoomAt(vp, cx, scale) ==
  [scale |-> Clamp(scale), offsetX |-> cx - screenToWorld(vp, cx) * Clamp(scale)]

centreOn(vp, x) == [vp EXCEPT !.offsetX = Width \div 2 - x * vp.scale]

visibleNodes(vp) ==
  {n \in DOMAIN NodeAt : LET s == worldToScreen(vp, NodeAt[n])
                         IN s >= -CullMargin /\ s <= Width + CullMargin}

(* The nearest visible node in reach; of equally near ones the last. *)
hitTest(vp, x) ==
  LET away(n) == Abs(worldToScreen(vp, NodeAt[n]) - x)
      near == {n \in visibleNodes(vp) : away(n) <= HitRadius}
      best == {n \in near : \A m \in near : away(n) <= away(m)}
  IN IF best = {} THEN NoNode ELSE CHOOSE n \in best : \A m \in best : m <= n

(* A node is found by the beginning of any one of its words. *)
search(q) ==
  IF q = <<>> THEN {}
  ELSE {n \in DOMAIN NodeAt : \E w \in Titles[n] : Len(q) <= Len(w) /\ SubSeq(w, 1, Len(q)) = q}

CanvasInit ==
  /\ viewport = [scale |-> 2, offsetX |-> 0]
  /\ rendered = viewport
  /\ query = <<>>
  /\ localHover = NoNode /\ hoverRef = NoNode
  /\ dragRef = NoDrag
  /\ cursor = Off
  /\ grab = 0 /\ lost = FALSE /\ panned = FALSE
  /\ clicked = [at |-> Off, from |-> Off, panned |-> FALSE]
  /\ events = 0

Event == events < MaxEvents /\ events' = events + 1

(* updateViewport: the next viewport is computed from the one rendered last. *)
Update(vp) ==
  /\ viewport' = vp
  /\ lost' = (lost \/ rendered # viewport)

(* React renders what was set. *)
Render ==
  /\ rendered # viewport
  /\ rendered' = viewport
  /\ UNCHANGED <<viewport, query, localHover, hoverRef, dragRef, cursor, grab, lost, panned,
                 clicked, events>>

handleMouseDown ==
  /\ Event /\ cursor # Off
  /\ dragRef' = [startX |-> cursor, lastX |-> cursor, moved |-> FALSE, down |-> TRUE]
  /\ lost' = FALSE /\ panned' = FALSE
  /\ UNCHANGED <<viewport, rendered, query, localHover, hoverRef, cursor, grab, clicked>>

Hover(x) ==
  /\ hoverRef' = hitTest(rendered, x)
  /\ localHover' = IF hoverRef' = hoverRef THEN localHover ELSE hoverRef'

(* Bug: how far the mouse went is measured from the last event. *)
MovedFromLast(x) == dragRef.moved \/ Abs(x - dragRef.lastX) > ClickDragThreshold

Moved(x) == dragRef.moved \/ Abs(x - dragRef.startX) > ClickDragThreshold

(* Bug: the last position is only taken once the drag is a pan. *)
TrackOnlyPans(x) ==
  [dragRef EXCEPT !.lastX = IF Moved(x) THEN x ELSE @, !.moved = Moved(x)]

Track(x) == [dragRef EXCEPT !.lastX = x, !.moved = Moved(x)]

handleMouseMove(x) ==
  /\ Event /\ x # cursor
  /\ cursor' = x
  /\ IF dragRef.down
       THEN /\ dragRef' = Track(x)
            /\ IF Moved(x)
                 THEN /\ Update(panBy(rendered, x - dragRef.lastX))
                      /\ panned' = TRUE
                      /\ grab' = IF dragRef.moved THEN grab ELSE screenToWorld(rendered, cursor)
                      /\ UNCHANGED <<hoverRef, localHover>>
                 ELSE Hover(x) /\ UNCHANGED <<viewport, lost, panned, grab>>
       ELSE Hover(x) /\ UNCHANGED <<dragRef, viewport, lost, panned, grab>>
  /\ UNCHANGED <<rendered, query, clicked>>

handleMouseUp ==
  /\ Event /\ cursor # Off
  /\ dragRef' = NoDrag
  /\ clicked' = IF dragRef.down /\ ~dragRef.moved /\ hitTest(rendered, cursor) # NoNode
                  THEN [at |-> cursor, from |-> dragRef.startX, panned |-> panned] ELSE clicked
  /\ UNCHANGED <<viewport, rendered, query, localHover, hoverRef, cursor, grab, lost, panned>>

handleMouseLeave ==
  /\ Event /\ cursor # Off
  /\ cursor' = Off
  /\ dragRef' = NoDrag
  /\ hoverRef' = NoNode /\ localHover' = IF hoverRef = NoNode THEN localHover ELSE NoNode
  /\ UNCHANGED <<viewport, rendered, query, grab, lost, panned, clicked>>

handleWheel(up) ==
  /\ Event /\ cursor # Off
  /\ Update(zoomAt(rendered, cursor, IF up THEN rendered.scale * 2 ELSE rendered.scale \div 2))
  /\ UNCHANGED <<rendered, query, localHover, hoverRef, dragRef, cursor, grab, panned, clicked>>

TypeQuery(q) ==
  /\ Event /\ cursor = Off
  /\ query' = q
  /\ UNCHANGED <<viewport, rendered, localHover, hoverRef, dragRef, cursor, grab, lost, panned,
                 clicked>>

(* The mouse is over the list of results, off the canvas. *)
handleSelectResult(n) ==
  /\ Event /\ cursor = Off
  /\ n \in search(query)
  /\ Update(centreOn(rendered, NodeAt[n]))
  /\ UNCHANGED <<rendered, query, localHover, hoverRef, dragRef, cursor, grab, panned, clicked>>

CanvasNext ==
  \/ handleMouseDown
  \/ \E x \in Cursors : handleMouseMove(x)
  \/ handleMouseUp
  \/ handleMouseLeave
  \/ \E up \in BOOLEAN : handleWheel(up)
  \/ \E q \in Queries : TypeQuery(q)
  \/ \E n \in DOMAIN NodeAt : handleSelectResult(n)
  \/ Render

CanvasSpec == CanvasInit /\ [][CanvasNext]_canvasVars

-----------------------------------------------------------------------------
(* What the mouse grabbed stays under it while it pans and zooms, as long as    *)
(* every update was rendered before the next event: an event that comes earlier *)
(* overwrites the update before it, and the tree slips.                         *)
PanKeepsWhatItHolds ==
  dragRef.moved /\ ~lost => worldToScreen(viewport, grab) = cursor

(* A node is allocated by a click only: press and release lie within the        *)
(* threshold of each other and the view was not panned in between, in however   *)
(* small steps the mouse moved.                                                 *)
ClicksAreNotPans ==
  ~clicked.panned /\ Abs(clicked.at - clicked.from) <= ClickDragThreshold
=============================================================================
