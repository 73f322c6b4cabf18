------------------------------ MODULE Palette ------------------------------
(***************************************************************************)
(* The global search: the palette of the top bar (GlobalSearch), the route  *)
(* that relays its calls and SearchService.  What is typed is searched       *)
(* after a pause, and each new text cancels the search of the previous one;  *)
(* the palette keeps on showing the answer it has until another one comes.   *)
(***************************************************************************)
EXTENDS Ordering

CONSTANTS
    Terms,        \* what can be typed, "" included
    Short,        \* those of fewer than two characters
    Entries,      \* what there is: [group, key, terms, organization], a key for one of a group
    Viewer,       \* who searches: [internal, organization, readsUsers]
    MaxTyped,     \* bound of the model: the keystrokes
    MaxFailures     \* bound of the model: the searches that fail

ASSUME PaletteAssumption ==
    /\ "" \in Short /\ Short \subseteq Terms
    /\ IsFiniteSet(Entries)
    /\ \A e \in Entries : e.key \in Nat
    /\ \A e, f \in Entries : e.group = f.group /\ e.key = f.key => e = f
    /\ {MaxTyped, MaxFailures} \subseteq Nat

VARIABLES
    palette,   \* what the palette holds
    searches,  \* the calls under way: the last one, and the cancelled ones
    chosen,    \* history: the entries opened
    typed, failed

paletteVars == <<palette, searches, chosen, typed, failed>>

-----------------------------------------------------------------------------
(* SearchService.search: what a viewer may find, group by group.             *)
Searchable(entry) ==
    CASE entry.group = "request" -> Viewer.internal \/ entry.organization = Viewer.organization
      [] entry.group = "user"    -> Viewer.readsUsers
      [] OTHER                   -> Viewer.internal

Search(term) == {e \in Entries : term \in e.terms /\ Searchable(e)}

\* The answer as a list, one group after the other.
Lines(found, group) == InOrder({e \in found : e.group = group}, LAMBDA a, b : a.key < b.key)
flattenResults(found) ==
    Lines(found, "request") \o Lines(found, "user") \o Lines(found, "product") \o Lines(found, "category")

Items == flattenResults(palette.results)

-----------------------------------------------------------------------------
(* `timer` is the pause before a search; `settled` is history: the search of   *)
(* the text in the field was answered, and whether it failed.                *)
OpenedPalette ==
    [open |-> TRUE, query |-> "", results |-> {}, loading |-> FALSE, active |-> 0,
     timer |-> palette.timer \/ palette.query # "",
     settled |-> IF palette.query = "" THEN palette.settled ELSE "no"]

PaletteInit ==
    /\ palette = [open |-> FALSE, query |-> "", results |-> {}, loading |-> FALSE, active |-> 0,
                  timer |-> TRUE, settled |-> "no"]
    /\ searches = {}
    /\ chosen = {}
    /\ typed = 0 /\ failed = 0

\* The text in the field changes: the pause starts again, the search under way is cancelled.
Cancelled_Wrong == searches       \* the answers of cancelled searches are still awaited

Cancelled == {}

openPalette ==
    /\ ~palette.open
    /\ palette' = OpenedPalette
    /\ searches' = IF palette.query = "" THEN searches ELSE Cancelled
    /\ UNCHANGED <<chosen, typed, failed>>

Close ==
    /\ palette.open
    /\ palette' = [palette EXCEPT !.open = FALSE]
    /\ UNCHANGED <<searches, chosen, typed, failed>>

Type(term) ==
    /\ palette.open /\ term # palette.query
    /\ typed < MaxTyped /\ typed' = typed + 1
    /\ palette' = [palette EXCEPT !.query = term, !.timer = TRUE, !.settled = "no",
                                  !.loading = IF searches = {} THEN @ ELSE FALSE]
    /\ searches' = Cancelled
    /\ UNCHANGED <<chosen, failed>>

\* The pause is over: a short text empties the list, another one is searched.
Pause ==
    /\ palette.timer
    /\ IF palette.query \in Short
       THEN /\ palette' = [palette EXCEPT !.timer = FALSE, !.results = {}, !.loading = FALSE,
                                          !.settled = "answered"]
            /\ UNCHANGED searches
       ELSE /\ palette' = [palette EXCEPT !.timer = FALSE, !.loading = TRUE]
            /\ searches' = searches \cup {palette.query}
    /\ UNCHANGED <<chosen, typed, failed>>

\* An answer replaces the list and puts the selection back on its first line.
ResultsCome(term) ==
    /\ term \in searches
    /\ palette' = [palette EXCEPT !.results = Search(term), !.active = 0, !.loading = FALSE,
                                  !.settled = "answered"]
    /\ searches' = searches \ {term}
    /\ UNCHANGED <<chosen, typed, failed>>

\* A refusal empties the list; without the network the list stays as it was.
SearchFails(term) ==
    /\ term \in searches
    /\ failed < MaxFailures /\ failed' = failed + 1
    /\ \E kept \in BOOLEAN :
          palette' = [palette EXCEPT !.results = IF kept THEN @ ELSE {}, !.loading = FALSE,
                                     !.settled = "failed"]
    /\ searches' = searches \ {term}
    /\ UNCHANGED <<chosen, typed>>

Arrow ==
    /\ palette.open
    /\ \E step \in {1, Len(Items) - 1} :
          palette' = [palette EXCEPT !.active = IF Items = <<>> THEN 0
                                                ELSE (@ + step) % Len(Items)]
    /\ UNCHANGED <<searches, chosen, typed, failed>>

\* Enter opens the selected line, whatever the text in the field is by then.
Enter ==
    /\ palette.open
    /\ palette.active < Len(Items)
    /\ chosen' = chosen \cup {[entry |-> Items[palette.active + 1], query |-> palette.query,
                               settled |-> palette.settled]}
    /\ palette' = [palette EXCEPT !.open = FALSE]
    /\ UNCHANGED <<searches, typed, failed>>

PaletteNext ==
    \/ openPalette \/ Close \/ Pause \/ Arrow \/ Enter
    \/ \E term \in Terms : Type(term) \/ ResultsCome(term) \/ SearchFails(term)

PaletteSpec == PaletteInit /\ [][PaletteNext]_paletteVars

-----------------------------------------------------------------------------
(* What Enter opens was found for the text in the field, once its search was    *)
(* answered: an answer that comes late never passes for that of a newer text,  *)
(* and the selection is always a line of the list.  During the pause and the   *)
(* search, or after a failure, it is still the list of an earlier text.       *)
EnterOpensWhatIsSearched ==
    /\ \A c \in chosen : c.settled = "answered" => c.entry \in Search(c.query)
    /\ palette.settled = "answered" /\ palette.query \notin Short =>
          palette.results = Search(palette.query)
    /\ Items # <<>> => palette.active < Len(Items)
=============================================================================
