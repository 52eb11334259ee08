--------------------------- MODULE AttachedClient ---------------------------
(***************************************************************************)
(* Clients attached to the server (terminal/attach.rs): the panes each one *)
(* shows, the terminals its multiplex connection carries, and the views    *)
(* where layouts are stored.                                               *)
(*                                                                         *)
(* A client is one task: while a handler waits for an answer of the server *)
(* it takes no key.  Each of its calls is an action here, and the commands *)
(* of others come in between, as does the end of the client.  The order    *)
(* and the timeouts of the answers on the connection are not modelled, nor *)
(* a failing dup of a PTY.  Clients use ids; names are in SessionServer.   *)
(***************************************************************************)
EXTENDS PaneLayout

CONSTANTS
  Clients,   \* attached clients
  TermIds,   \* ids of terminals, none drawn twice
  Views,     \* ids of views
  Areas,     \* the sizes the pane area of a client's window can have
  Delta,     \* how far a key moves a ratio, in twentieths (1 in the code)
  None,      \* no view, no layout
  Ops        \* what may happen: "Resize", "Switch", "Kill", "Add"

ASSUME NoneAssumption  == None \notin Views
ASSUME DeltaAssumption == Delta \in Nat \ {0}
ASSUME AreasAssumption == Areas \subseteq Rectangles

VARIABLES
  terms,     \* TerminalManager: the terminals that exist
  drawn,     \* the ids drawn so far
  views,     \* ViewManager: terminal_ids and layout (with its focus) of each view
  session,   \* TuiSession of each client, with the handler it is in
  mux        \* the keys of pty_writers of its connection

vars == <<terms, drawn, views, session, mux>>

Off == [at |-> "off"]

On(c) == session[c].at = "run"

\* The session of c goes to `at` with the fields of f changed.
Goes(c, at, f) == session' = [session EXCEPT ![c] = [f EXCEPT !.at = at]]

Init ==
  /\ \E shell \in [Views -> TermIds] :
       /\ terms = {shell[v] : v \in Views}
       /\ views = [v \in Views |-> [terminal_ids |-> <<shell[v]>>, layout |-> None]]
  /\ drawn = terms
  /\ session = [c \in Clients |-> Off]
  /\ mux = [c \in Clients |-> {}]

-----------------------------------------------------------------------------
(* Attaching *)

\* attach_view: the client asks what to attach to; a view that lists nothing
\* is refused.
ViewAttach(c, v) ==
  /\ session[c] = Off
  /\ views[v].terminal_ids # <<>>
  /\ session' = [session EXCEPT ![c] = [at |-> "attaching", view_id |-> v,
                                        ids |-> views[v].terminal_ids,
                                        saved |-> views[v].layout]]
  /\ UNCHANGED <<terms, drawn, views, mux>>

\* attach: one terminal, no view.
TerminalAttach(c, t) ==
  /\ session[c] = Off
  /\ session' = [session EXCEPT ![c] = [at |-> "attaching", view_id |-> None,
                                        ids |-> <<t>>, saved |-> None]]
  /\ UNCHANGED <<terms, drawn, views, mux>>

\* run_tui: the stored layout, or a column for each terminal.
Opened(ids, saved) ==
  IF saved # None THEN saved
  ELSE LET column[n \in 1 .. Len(ids)] ==
             IF n = 1 THEN New(ids[1]) ELSE SplitFocused(column[n - 1], "Vertical", ids[n])
       IN  column[Len(ids)]

\* local_mux_connect and run_tui: the server attaches the terminals that
\* still exist and hangs up when there are none.
MultiplexAttach(c) ==
  LET s == session[c] IN
  /\ s.at = "attaching"
  /\ mux' = [mux EXCEPT ![c] = ToSet(s.ids) \cap terms]
  /\ \E area \in Areas :
       session' = [session EXCEPT ![c] =
         IF mux'[c] = {} THEN Off
         ELSE [at |-> "run", view_id |-> s.view_id, layout |-> Opened(s.ids, s.saved),
               restored |-> IF s.saved = None THEN {} ELSE Panes(s.saved.root),
               vterms |-> ToSet(s.ids), area |-> area, todo |-> <<>>]]
  /\ UNCHANGED <<terms, drawn, views>>

\* Detach, or the end of the client at any point of a handler.
Leave(c) ==
  /\ session[c] # Off
  /\ session' = [session EXCEPT ![c] = Off]
  /\ mux' = [mux EXCEPT ![c] = {}]
  /\ UNCHANGED <<terms, drawn, views>>

-----------------------------------------------------------------------------
(* handle_split *)

FocusedRect(s) == Rects(s.layout.root, s.area)[PathOf(s.layout.root, s.layout.focused)]

\* Mutant of TooSmall: room for the separator and one cell will do.
TooSmallIfTiny(s, dir) ==
  /\ s.layout.focused \in Panes(s.layout.root)
  /\ IF dir = "Vertical" THEN FocusedRect(s).width < 2 ELSE FocusedRect(s).height < 2

TooSmall(s, dir) ==
  /\ s.layout.focused \in Panes(s.layout.root)
  /\ IF dir = "Vertical" THEN FocusedRect(s).width < 4 ELSE FocusedRect(s).height < 4

\* CreateTerminal: the server attaches the new terminal to the connection.
SplitCreate(c, dir, new) ==
  /\ On(c) /\ ~ TooSmall(session[c], dir)
  /\ new \in TermIds \ drawn
  /\ terms' = terms \cup {new}
  /\ drawn' = drawn \cup {new}
  /\ mux' = [mux EXCEPT ![c] = @ \cup {new}]
  /\ Goes(c, dir, [session[c] EXCEPT !.todo = <<new>>])
  /\ UNCHANGED views

\* AddTerminal: attached once more, and shown; unless it was killed.
SplitAdd(c, dir) ==
  LET s == session[c]  new == Head(s.todo) IN
  /\ s.at = dir
  /\ IF new \in terms
     THEN /\ mux' = [mux EXCEPT ![c] = @ \cup {new}]
          /\ LET shown == [s EXCEPT !.vterms = @ \cup {new},
                                    !.layout = SplitFocused(@, dir, new)] IN
             Goes(c, IF s.view_id = None THEN "run" ELSE "adding", shown)
     ELSE Goes(c, "undo", s) /\ UNCHANGED mux
  /\ UNCHANGED <<terms, drawn, views>>

\* retain: what a list has besides t.
Without(ids, t) ==
  LET kept[n \in 0 .. Len(ids)] ==
        IF n = 0 THEN <<>>
        ELSE IF ids[n] = t THEN kept[n - 1] ELSE Append(kept[n - 1], ids[n])
  IN  kept[Len(ids)]

Sweep(t) ==
  views' = [v \in Views |-> [views[v] EXCEPT !.terminal_ids = Without(@, t)]]

\* KillTerminal: detached in any case; killed and swept when it exists.
SplitUndo(c) ==
  LET s == session[c]  new == Head(s.todo) IN
  /\ s.at = "undo"
  /\ mux' = [mux EXCEPT ![c] = @ \ {new}]
  /\ terms' = terms \ {new}
  /\ IF new \in terms THEN Sweep(new) ELSE UNCHANGED views
  /\ Goes(c, "run", s)
  /\ UNCHANGED drawn

\* add_terminal: a view lists a terminal once.
Listed(v, t) == IF t \in ToSet(views[v].terminal_ids) THEN views
                ELSE [views EXCEPT ![v].terminal_ids = Append(@, t)]

\* ViewAddTerminal: the new terminal enters the view, if it still exists.
SplitView(c) ==
  LET s == session[c] IN
  /\ s.at = "adding"
  /\ views' = IF Head(s.todo) \in terms THEN Listed(s.view_id, Head(s.todo)) ELSE views
  /\ Goes(c, "syncing", s)
  /\ UNCHANGED <<terms, drawn, mux>>

\* sync_layout
SyncLayout(c) ==
  LET s == session[c] IN
  /\ s.at = "syncing"
  /\ views' = [views EXCEPT ![s.view_id].layout = s.layout]
  /\ Goes(c, "run", s)
  /\ UNCHANGED <<terms, drawn, mux>>

-----------------------------------------------------------------------------
(* handle_close: the terminal goes on, it only leaves the client and its view *)

\* Mutant of CloseRemove: the connection goes on carrying the terminal.
CloseRemoveKeepsStream(c) ==
  LET s == session[c]  closed == s.layout.focused IN
  /\ On(c) /\ CanClose(s.layout)
  /\ Goes(c, IF s.view_id = None THEN "run" ELSE "removing",
          [s EXCEPT !.layout = CloseFocused(@), !.vterms = @ \ {closed},
                    !.todo = <<closed>>])
  /\ UNCHANGED <<terms, drawn, views, mux>>

CloseRemove(c) ==
  LET s == session[c]  closed == s.layout.focused IN
  /\ On(c) /\ CanClose(s.layout)
  /\ mux' = [mux EXCEPT ![c] = @ \ {closed}]
  /\ Goes(c, IF s.view_id = None THEN "run" ELSE "removing",
          [s EXCEPT !.layout = CloseFocused(@), !.vterms = @ \ {closed},
                    !.todo = <<closed>>])
  /\ UNCHANGED <<terms, drawn, views>>

\* ViewRemoveTerminal
CloseView(c) ==
  LET s == session[c] IN
  /\ s.at = "removing"
  /\ views' = [views EXCEPT ![s.view_id].terminal_ids = Without(@, Head(s.todo))]
  /\ Goes(c, "syncing", s)
  /\ UNCHANGED <<terms, drawn, mux>>

-----------------------------------------------------------------------------
(* The other keys, and the window *)

PaneResize(c, key) ==
  /\ "Resize" \in Ops
  /\ On(c)
  /\ Goes(c, IF session[c].view_id = None THEN "run" ELSE "syncing",
          [session[c] EXCEPT !.layout = ResizeFocused(@, key, Delta)])
  /\ UNCHANGED <<terms, drawn, views, mux>>

PaneNavigate(c, key) ==
  /\ On(c)
  /\ Goes(c, "run", [session[c] EXCEPT !.layout = Navigate(@, key, session[c].area)])
  /\ UNCHANGED <<terms, drawn, views, mux>>

Resize(c, area) ==
  /\ On(c)
  /\ Goes(c, "run", [session[c] EXCEPT !.area = area])
  /\ UNCHANGED <<terms, drawn, views, mux>>

\* switch_view: the terminals of another view, as ViewList gave them.  What is
\* not among them is detached; view_id stays that of the view attached to.
ViewSwitch(c, v) ==
  LET s == session[c]  ids == views[v].terminal_ids IN
  /\ "Switch" \in Ops
  /\ On(c) /\ ids # <<>>
  /\ mux' = [mux EXCEPT ![c] = @ \ (s.vterms \ ToSet(ids))]
  /\ Goes(c, "switching", [s EXCEPT !.vterms = @ \cap ToSet(ids), !.restored = {},
                                    !.layout = New(Head(ids)), !.todo = ids])
  /\ UNCHANGED <<terms, drawn, views>>

\* Mutant of SwitchTerminal: a terminal that has a pane gets another one.
SwitchTerminalAgain(c) ==
  LET s == session[c]  t == Head(s.todo) IN
  /\ s.at = "switching"
  /\ mux' = [mux EXCEPT ![c] = IF t \in terms \ s.vterms THEN @ \cup {t} ELSE @]
  /\ Goes(c, IF Len(s.todo) = 1 THEN "run" ELSE "switching",
          [s EXCEPT !.todo = Tail(@),
                    !.vterms = IF t \in terms THEN @ \cup {t} ELSE @,
                    !.layout = IF t \in terms \cup s.vterms
                               THEN SplitFocused(@, "Vertical", t) ELSE @])
  /\ UNCHANGED <<terms, drawn, views>>

\* One round of its loop: AddTerminal for a terminal the client does not have,
\* and a pane; a terminal that is gone is passed over.
SwitchTerminal(c) ==
  LET s == session[c]  t == Head(s.todo) IN
  /\ s.at = "switching"
  /\ mux' = [mux EXCEPT ![c] = IF t \in terms \ s.vterms THEN @ \cup {t} ELSE @]
  /\ Goes(c, IF Len(s.todo) = 1 THEN "run" ELSE "switching",
          [s EXCEPT !.todo = Tail(@),
                    !.vterms = IF t \in terms THEN @ \cup {t} ELSE @,
                    !.layout = IF t \in terms \cup s.vterms /\ t \notin Panes(@.root)
                               THEN SplitFocused(@, "Vertical", t) ELSE @])
  /\ UNCHANGED <<terms, drawn, views>>

-----------------------------------------------------------------------------
(* What other commands do to terminals and views *)

TerminalKill(t) ==
  /\ "Kill" \in Ops
  /\ t \in terms
  /\ terms' = terms \ {t}
  /\ Sweep(t)
  /\ UNCHANGED <<drawn, session, mux>>

ViewAddTerminal(v, t) ==
  /\ "Add" \in Ops
  /\ t \in terms
  /\ views' = Listed(v, t)
  /\ UNCHANGED <<terms, drawn, session, mux>>

Handler(c) ==
  \/ MultiplexAttach(c)
  \/ \E dir \in Directions : SplitAdd(c, dir)
  \/ SplitUndo(c)
  \/ SplitView(c)
  \/ SyncLayout(c)
  \/ CloseView(c)
  \/ SwitchTerminal(c)

Key(c) ==
  \/ \E dir \in Directions, new \in TermIds : SplitCreate(c, dir, new)
  \/ CloseRemove(c)
  \/ \E key \in Keys : PaneResize(c, key) \/ PaneNavigate(c, key)
  \/ \E area \in Areas : Resize(c, area)
  \/ \E v \in Views : ViewSwitch(c, v)

Next ==
  \/ \E c \in Clients : \/ \E v \in Views : ViewAttach(c, v)
                        \/ \E t \in terms : TerminalAttach(c, t)
                        \/ Leave(c)
                        \/ Handler(c)
                        \/ Key(c)
  \/ \E t \in TermIds : TerminalKill(t) \/ \E v \in Views : ViewAddTerminal(v, t)

Spec == Init /\ [][Next]_vars
-----------------------------------------------------------------------------
(* Properties *)

\* The clients that show panes.
Shown == {c \in Clients : session[c].at \notin {"off", "attaching"}}

\* What clients show and views store.
LayoutsInUse == {session[c].layout : c \in Shown}
                  \cup ({views[v].layout : v \in Views} \ {None})

\* Where a client that shows panes can be: between handlers, or in one of them.
Phases == {"run", "undo", "adding", "removing", "syncing", "switching"} \cup Directions

\* Every variable has its type; the layouts are trees.
TypeOK ==
  /\ terms \subseteq drawn /\ drawn \subseteq TermIds
  /\ mux \in [Clients -> SUBSET TermIds]
  /\ DOMAIN views = Views /\ DOMAIN session = Clients
  /\ \A v \in Views : views[v].terminal_ids \in Seq(TermIds)
  /\ \A layout \in LayoutsInUse : IsTree(layout.root, TermIds)
  /\ \A c \in Clients :
       LET s == session[c] IN
       \/ s = Off
       \/ /\ s.at = "attaching"
          /\ s \in [at : {s.at}, view_id : Views \cup {None}, ids : Seq(TermIds),
                    saved : {s.saved}]
       \/ /\ s.at \in Phases
          /\ s \in [at : {s.at}, view_id : Views \cup {None}, layout : {s.layout},
                    restored : SUBSET TermIds, vterms : SUBSET TermIds, area : Areas,
                    todo : Seq(TermIds)]

\* Splits, closes, restored layouts and switches of view never put a terminal
\* in two panes, nor the focus on a terminal without a pane: with either,
\* split and close would act on another pane or on none.
PanesAreDistinct ==
  \A layout \in LayoutsInUse :
    /\ layout.focused \in Panes(layout.root)
    /\ \A p, q \in Leaves(layout.root) : layout.root[p] = layout.root[q] => p = q

Cells(r) == (r.x .. r.x + r.width - 1) \X (r.y .. r.y + r.height - 1)

\* In a window of any size, too small ones included: no two panes overlap,
\* none leaves the area, and what no pane covers is a separator.
PanesTile ==
  \A c \in Shown :
    LET root   == session[c].layout.root
        area   == session[c].area
        rects  == Rects(root, area)
        panes  == {Cells(rects[p]) : p \in Leaves(root)}
        lines  == {Cells(Separator(rects[p], root[p])) : p \in DOMAIN root \ Leaves(root)}
    IN  /\ UNION panes \subseteq Cells(area) /\ Cells(area) \subseteq UNION (panes \cup lines)
        /\ \A p, q \in Leaves(root) : p # q => Cells(rects[p]) \cap Cells(rects[q]) = {}

\* As long as no pane is empty, the keys of navigation lead from every pane
\* to every other one: there is no group of panes they cannot leave.
PanesAreReachable ==
  \A c \in Shown :
    LET layout == session[c].layout
        area   == session[c].area
        panes  == Panes(layout.root)
        goes(t, key) == Navigate([layout EXCEPT !.focused = t], key, area).focused
    IN  (\A p \in Leaves(layout.root) : Cells(Rects(layout.root, area)[p]) # {})
          => \A S \in (SUBSET panes) \ {{}, panes} :
               \E t \in S, key \in Keys : goes(t, key) \notin S

\* Right and Down never make the focused pane smaller, nor Left and Up larger,
\* whichever half of how many splits it is in.
ResizeFollowsKey ==
  [][\A c \in Clients, key \in Keys :
       PaneResize(c, key) =>
         LET before == FocusedRect(session[c])
             after  == FocusedRect(session'[c])
         IN  IF key \in {"Right", "Down"}
             THEN after.width >= before.width /\ after.height >= before.height
             ELSE after.width <= before.width /\ after.height <= before.height]_vars

\* A split of a pane that has a cell leaves two panes that each have one
\* ("too_small"), though the room was looked for before the server was asked.
\* A pane of no rows or columns, as a resize or a small window makes it, may be
\* split along its other side, into two that are empty like itself: handle_split
\* looks at the side it divides only.
SplitsFit ==
  [][\A c \in Clients, dir \in Directions :
       SplitAdd(c, dir) /\ session[c].layout # session'[c].layout
         /\ HasCells(FocusedRect(session[c]))
         => \A t \in {session[c].layout.focused, session'[c].layout.focused} :
              LET s == session'[c] IN
              HasCells(Rects(s.layout.root, s.area)[PathOf(s.layout.root, t)])]_vars

\* Between handlers, the client emulates what its connection carries, and each
\* pane it opened itself is of a terminal the connection carries, but for
\* terminals that were killed.
SidesMatch ==
  \A c \in Clients : On(c) =>
    /\ mux[c] \subseteq session[c].vterms
    /\ (session[c].vterms \cup (Panes(session[c].layout.root) \ session[c].restored))
          \cap terms \subseteq mux[c]

\* "Create vterms for all terminals (already attached via mux handshake)": a
\* pane whose terminal exists is of a terminal that is attached.
PanesAreAttached ==
  \A c \in Clients : On(c) => Panes(session[c].layout.root) \cap terms \subseteq mux[c]

=============================================================================
