------------------------------ MODULE Registry ------------------------------
(***************************************************************************)
(* The two tables of the kexsh server and the operations of their owners,  *)
(* TerminalManager (terminal/manager.rs) and ViewManager (view/manager.rs).*)
(*                                                                         *)
(* A table is a function whose domain is the set of ids in use.  A         *)
(* terminal is represented by its name (None when it has none); a view by  *)
(* its name, the terminals it lists, its layout and the focused terminal.  *)
(* The ids and names inside a view are the texts clients sent: a view may  *)
(* list a terminal by id or by name, and nothing ties it to the terminal   *)
(* table.  The order of the list is display order and is not kept.         *)
(*                                                                         *)
(* An id is the first eight characters of a uuid, drawn again while the    *)
(* table holds it (the code's loop), so a fresh id is any id not in use.   *)
(***************************************************************************)
EXTENDS Functions

CONSTANTS
  TermIds,     \* ids a terminal can get
  TermNames,   \* names a user can give a terminal
  ViewIds,     \* ids a view can get
  ViewNames,   \* names a user can give a view
  Layouts,     \* layouts an attached client can store
  None         \* no name, no layout

ASSUME NoneAssumption == None \notin TermIds \cup TermNames \cup ViewIds
                                       \cup ViewNames \cup Layouts

TermRefs == TermIds \cup TermNames       \* "Terminal ID or name"
ViewRefs == ViewIds \cup ViewNames       \* "View ID or name"

MaybeTermName == TermNames \cup {None}
MaybeViewName == ViewNames \cup {None}

View == [name         : MaybeViewName,
         terminal_ids : SUBSET TermRefs,
         layout       : Layouts \cup {None},
         focused      : TermRefs]

\* f is a table with keys among Keys and entries in Entry.
IsTable(f, Keys, Entry) == /\ DOMAIN f \subseteq Keys
                           /\ f \in [DOMAIN f -> Entry]

EmptyTable == [k \in {} |-> None]

\* HashMap::insert and HashMap::remove
Put(f, k, e)  == [x \in DOMAIN f \cup {k} |-> IF x = k THEN e ELSE f[x]]
Drop(f, k)    == Restrict(f, DOMAIN f \ {k})

-----------------------------------------------------------------------------
(* TerminalManager *)

\* resolve_id: the id itself when the table has it, else the first terminal
\* of that name the HashMap iterates over: any of them.
TermMatches(terms, ref) ==
  IF ref \in DOMAIN terms THEN {ref} ELSE {i \in DOMAIN terms : terms[i] = ref}

HasTerminal(terms, ref) == TermMatches(terms, ref) # {}

FreshTermIds(terms) == TermIds \ DOMAIN terms

-----------------------------------------------------------------------------
(* ViewManager *)

ViewMatches(vs, ref) ==
  IF ref \in DOMAIN vs THEN {ref} ELSE {v \in DOMAIN vs : vs[v].name = ref}

FreshViewIds(vs) == ViewIds \ DOMAIN vs

NewView(name, terminal) ==
  [name |-> name, terminal_ids |-> {terminal}, layout |-> None, focused |-> terminal]

\* update_layout and remove_terminal_from_view look the id up as it is: no
\* resolve_id, and nothing happens when the table does not hold it.
UpdateLayout(vs, id, layout, focused) ==
  IF id \in DOMAIN vs
  THEN [vs EXCEPT ![id].layout = layout, ![id].focused = focused]
  ELSE vs

RemoveTerminalFromView(vs, id, terminal) ==
  IF id \in DOMAIN vs
  THEN [vs EXCEPT ![id].terminal_ids = @ \ {terminal}]
  ELSE vs

AddTerminal(vs, id, terminal) ==
  [vs EXCEPT ![id].terminal_ids = @ \cup {terminal}]

\* Mutant of RemoveTerminal: a view keeps the terminal it focuses.
RemoveTerminalUnlessFocused(vs, terminal) ==
  [v \in DOMAIN vs |->
     IF vs[v].focused # terminal
     THEN [vs[v] EXCEPT !.terminal_ids = @ \ {terminal}]
     ELSE vs[v]]

\* remove_terminal: the literal text leaves every view's list; layouts and
\* focus are left as they are.
RemoveTerminal(vs, terminal) ==
  [v \in DOMAIN vs |-> [vs[v] EXCEPT !.terminal_ids = @ \ {terminal}]]

=============================================================================
