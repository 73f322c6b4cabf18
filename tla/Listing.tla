------------------------------ MODULE Listing ------------------------------
(***************************************************************************)
(* The lists of the API and the screens that show them. A list gives pages *)
(* of a table that others change meanwhile, and an opaque cursor to go on  *)
(* from. The screens never follow the cursor: they fetch one page, filter, *)
(* sort and cut it themselves, from what their address says; to most of    *)
(* them, a call that fails is an empty page.                               *)
(***************************************************************************)
EXTENDS Values, Ordering, SequencesExt

CONSTANTS Rows,         \* bound of the model: ids, whose order is not that of creation
          Scenarios,    \* who reads which table, what others may save in it and how often
          MaxClock,     \* bound of the model: the last instant of the database
          Millisecond,  \* how many instants of the database fall in one millisecond
          Limits,       \* the page lengths a reader of the API asks for
          Fetch,        \* the page length a screen asks for
          BugCategories,  \* the groups of requests the bugs screen shows
          PageSizes, DefaultPageSize

\* What may be saved in a row: its name or code, what the API filters by (a role, a
\* country, an assignee), what else it is sorted by (a last login, a priority), and whether
\* it is active (a request: open). An instant of the database; what a cursor holds.
Content == [name : Nat, group : Nat, rank : Nat, active : BOOLEAN]
Instant == 0..MaxClock
Row == [name : Nat, group : Nat, rank : Nat, active : BOOLEAN,
        created : Instant, updated : Instant, deleted : BOOLEAN]
Position == [at : Instant, id : Rows]
Scenario == [kind : {"walk", "screen"}, table : [Rows -> Row \cup {NULL}],
             fresh : SUBSET Content, changes : Nat, choices : Nat, failures : Nat]

ASSUME ListingAssumption ==
    /\ Rows \subseteq Nat /\ IsFiniteSet(Rows)
    /\ NULL \notin Row \cup Position \cup Nat \cup {"created", "updated"}
    /\ MaxClock \in Nat /\ Scenarios \subseteq Scenario
    /\ Limits \subseteq Nat \ {0}
    /\ Millisecond \in Nat \ {0}
    /\ Fetch \in Nat \ {0} /\ BugCategories \subseteq Nat
    /\ PageSizes \subseteq Nat \ {0} /\ DefaultPageSize \in PageSizes

VARIABLES
    table,     \* the table: NULL until a row is inserted
    clock,     \* the database's clock
    reader,    \* who reads it: a walk through pages, or a screen
    scenario   \* what may still happen, and the table at first
listingVars == <<table, clock, reader, scenario>>

-----------------------------------------------------------------------------
(* The lists of the API.                                                    *)

\* How a list is ordered, and the timestamp its cursor compares (NULL: it has none).
Ordered(order, cursor) == [order |-> order, cursor |-> cursor]
UsersList == Ordered("created_desc", "created")
OrganizationsList == Ordered("created_desc", "created")
CategoriesList == Ordered("created_desc", "created")
ProductsList == Ordered("created_desc", "created")
CountriesList == Ordered("name_asc", "created")
CitiesList == Ordered("name_asc", "created")
RolesList == Ordered("name_asc", NULL)
RequestsList(sort) == Ordered(sort, IF sort = "activity_desc" THEN "updated" ELSE NULL)

RequestSorts == {"activity_desc", "created_desc", "created_asc", "priority_asc"}

Lists == {UsersList, OrganizationsList, CategoriesList, ProductsList, CountriesList, CitiesList}
           \cup {RequestsList(sort) : sort \in RequestSorts}

Present == {r \in Rows : table[r] # NULL /\ ~table[r].deleted}

\* r comes before s (ORDER BY).
Precedes(order, r, s) ==
    LET a == table[r]  b == table[s] IN
    CASE order = "created_desc" -> a.created > b.created \/ (a.created = b.created /\ r > s)
      [] order = "created_asc" -> a.created < b.created \/ (a.created = b.created /\ r < s)
      [] order = "activity_desc" -> a.updated > b.updated \/ (a.updated = b.updated /\ r > s)
      [] order = "name_asc" -> a.name < b.name \/ (a.name = b.name /\ r > s)
      [] order = "priority_asc" ->
            \/ a.rank < b.rank
            \/ a.rank = b.rank /\ (a.updated > b.updated \/ (a.updated = b.updated /\ r > s))

\* The cursor is a JavaScript date: what is below the millisecond is lost.
ToISOString(t) == t - (t % Millisecond)
Cursor(column, r) == [at |-> ToISOString(table[r][column]), id |-> r]

\* (column, id) < (cursor.at, cursor.id)
IsAfter(column, r, cursor) ==
    \/ table[r][column] < cursor.at
    \/ table[r][column] = cursor.at /\ r < cursor.id

\* The rows of a page: one more than asked for is read, to know whether any is left.
Cut(sorted, limit) ==
    [items |-> SubSeq(sorted, 1, IF Len(sorted) > limit THEN limit ELSE Len(sorted)),
     more |-> Len(sorted) > limit]
\* A plausible bug: the cursor is taken from the extra row, which is then never given.
GetPage_Wrong(list, cursor, limit) ==
    LET kept == {r \in Present : cursor # NULL /\ list.cursor # NULL => IsAfter(list.cursor, r, cursor)}
        sorted == InOrder(kept, LAMBDA r, s : Precedes(list.order, r, s))
        page == Cut(sorted, limit)
    IN  [items |-> page.items,
         next |-> IF page.more /\ list.cursor # NULL THEN Cursor(list.cursor, sorted[limit + 1]) ELSE NULL]
GetPage(list, cursor, limit) ==
    LET kept == {r \in Present : cursor # NULL /\ list.cursor # NULL => IsAfter(list.cursor, r, cursor)}
        page == Cut(InOrder(kept, LAMBDA r, s : Precedes(list.order, r, s)), limit)
    IN  [items |-> page.items,
         next |-> IF page.more /\ list.cursor # NULL THEN Cursor(list.cursor, Last(page.items)) ELSE NULL]

-----------------------------------------------------------------------------
(* The screens: what each lets its user choose, and where it is applied.     *)

\* A screen fetches a list. What it offers to choose is applied by the API if delegated, by
\* the screen otherwise; what is a link (or a plain form) builds its address anew.
Screen(list, offers, delegated, links, sorts) ==
    [list |-> list, offers |-> offers, delegated |-> delegated, links |-> links, sorts |-> sorts]

UsersScreen == Screen(UsersList, {"group", "status", "search"}, {"group"}, {},
                      {"created_desc", "created_asc", "name_asc", "last_login_desc"})
OrganizationsScreen == Screen(OrganizationsList, {"status", "search"}, {}, {},
                              {"created_desc", "created_asc", "name_asc"})
CountriesScreen == Screen(CountriesList, {"status", "search"}, {}, {}, {"name_asc", "created_desc"})
CitiesScreen == Screen(CitiesList, {"group", "status", "search"}, {"group"}, {},
                       {"name_asc", "created_desc"})
RolesScreen == Screen(RolesList, {"group", "status", "search"}, {"group"}, {}, {"as_fetched"})
ProductsScreen == Screen(ProductsList, {"status", "search"}, {}, {"status", "search"}, {"name_asc"})
CategoriesScreen == Screen(CategoriesList, {"search"}, {}, {"search"}, {"name_asc"})
\* The requests are filtered and sorted by the API; their screens only cut them.
ClientRequestsScreen == Screen(RequestsList("activity_desc"), {"status"}, {"status", "sort"}, {},
                               RequestSorts)
StaffRequestsScreen == Screen(RequestsList("activity_desc"), {"group", "status"},
                              {"group", "status", "sort"}, {"group"}, RequestSorts)
\* All of the latest requests, of which it keeps those of the categories for bugs.
BugsScreen == Screen(RequestsList("activity_desc"), {}, {}, {}, {"as_fetched"})

Screens == {UsersScreen, OrganizationsScreen, CountriesScreen, CitiesScreen, RolesScreen,
            ProductsScreen, CategoriesScreen, ClientRequestsScreen, StaffRequestsScreen, BugsScreen}

\* The calls of a screen that fall back on nothing. A failure of the categories' own
\* screen is an error page instead, of which there is nothing to say.
FallsBack(screen) == CASE screen = CategoriesScreen -> {}
                       [] screen = BugsScreen -> {"list", "categories"}
                       [] OTHER -> {"list"}

Groups == {row.group : row \in scenario.fresh}
Names == {row.name : row \in scenario.fresh}

\* The parameters a toolbar can put in the address, one set per choice.
GroupChoices(screen) == IF "group" \in screen.offers THEN Groups \cup {NULL} ELSE {NULL}
StatusChoices(screen) == IF "status" \in screen.offers THEN {"ALL", "ACTIVE", "INACTIVE"} ELSE {"ALL"}
SearchChoices(screen) == IF "search" \in screen.offers THEN Names \cup {NULL} ELSE {NULL}

\* A sort left out of the address is the order of the list, where it is one of them.
DefaultSort(screen) == IF screen.list.order \in screen.sorts THEN screen.list.order
                       ELSE CHOOSE sort \in screen.sorts : TRUE
FirstAddress(screen) ==
    [group |-> NULL, status |-> "ALL", query |-> NULL,
     sort |-> DefaultSort(screen), page |-> 1, size |-> DefaultPageSize]

HasStatus(row, status) == /\ status = "ACTIVE" => row.active
                          /\ status = "INACTIVE" => ~row.active
Matches(screen, row, url) ==
    /\ url.group # NULL => row.group = url.group
    /\ HasStatus(row, url.status)
    /\ url.query # NULL => row.name = url.query
    /\ screen = BugsScreen => row.group \in BugCategories
Matching(screen, url) == {r \in Present : Matches(screen, table[r], url)}

\* The order the API gives the screen its rows in.
FetchedOrder(screen, sort) == IF "sort" \in screen.delegated THEN sort ELSE screen.list.order

\* What the API answers to the screen, of which it shows no more: nothing, if the call
\* failed. A role list is never cut.
Fetched(screen, url, failed) ==
    LET rows == {r \in Present : /\ url.group # NULL => table[r].group = url.group
                                 /\ "status" \in screen.delegated => HasStatus(table[r], url.status)}
    IN  IF "list" \in failed THEN {}
        ELSE IF screen.list = RolesList THEN rows
        ELSE FirstOf(rows, Fetch, LAMBDA r, s : Precedes(FetchedOrder(screen, url.sort), r, s))

\* Of these, what the screen keeps: the bugs screen, the categories that it read.
KeptRows(screen, url, failed) ==
    {r \in Fetched(screen, url, failed) :
        /\ Matches(screen, table[r], url)
        /\ ~(screen = BugsScreen /\ "categories" \in failed)}

\* The screen's own sort: rows it does not tell apart stay in the order they came in.
Compares(sort, r, s) ==
    LET a == table[r]  b == table[s] IN
    CASE sort = "created_desc" -> ToISOString(a.created) > ToISOString(b.created)
      [] sort = "created_asc" -> ToISOString(a.created) < ToISOString(b.created)
      [] sort = "name_asc" -> a.name < b.name
      [] sort = "last_login_desc" -> a.rank > b.rank
      [] sort = "as_fetched" -> FALSE
ShownBefore(screen, sort, r, s) ==
    LET own == IF "sort" \in screen.delegated THEN "as_fetched" ELSE sort
    IN  \/ Compares(own, r, s)
        \/ ~Compares(own, s, r) /\ Precedes(FetchedOrder(screen, sort), r, s)

\* The screen's own filter and sort, over what it fetched.
ClientSideView(screen, url, failed) ==
    InOrder(KeptRows(screen, url, failed), LAMBDA r, s : ShownBefore(screen, url.sort, r, s))

CeilingOf(n, size) == (n + size - 1) \div size
Pages(n, size) == IF n = 0 THEN 1 ELSE CeilingOf(n, size)
\* A plausible bug: the page of the address is taken as it is.
SafePage_Wrong(n, page, size) == IF page < 1 THEN 1 ELSE page
SafePage(n, page, size) ==
    IF page < 1 THEN 1 ELSE IF page > Pages(n, size) THEN Pages(n, size) ELSE page

PageItems(rows, page, size) ==
    LET start == (SafePage(Len(rows), page, size) - 1) * size
        end == start + size
    IN  SubSeq(rows, start + 1, IF end > Len(rows) THEN Len(rows) ELSE end)

Shown(screen, url, failed) == PageItems(ClientSideView(screen, url, failed), url.page, url.size)

-----------------------------------------------------------------------------
(* Steps.                                                                    *)

Written(row, created, t) ==
    [name |-> row.name, group |-> row.group, rank |-> row.rank, active |-> row.active,
     created |-> created, updated |-> t, deleted |-> FALSE]

\* A row is created now.
Insert(r) ==
    /\ table[r] = NULL
    /\ \E row \in scenario.fresh, t \in clock..MaxClock :
          /\ clock' = t
          /\ table' = [table EXCEPT ![r] = Written(row, t, t)]
    /\ UNCHANGED reader
\* A row is saved again, whatever it then holds.
Save(r) ==
    /\ r \in Present
    /\ \E row \in scenario.fresh, t \in clock..MaxClock :
          /\ clock' = t
          /\ table' = [table EXCEPT ![r] = Written(row, table[r].created, t)]
    /\ reader' = IF reader.kind = "walk" THEN [reader EXCEPT !.moved = @ \cup {r}] ELSE reader
\* Rows are only marked as deleted.
RemoveRow(r) ==
    /\ r \in Present
    /\ table' = [table EXCEPT ![r].deleted = TRUE]
    /\ UNCHANGED <<clock, reader>>

Change(r) ==
    /\ scenario.changes > 0
    /\ Insert(r) \/ Save(r) \/ RemoveRow(r)
    /\ scenario' = [scenario EXCEPT !.changes = @ - 1]

\* The rows of one millisecond are one instant for a cursor.
Crowded(column) ==
    {r \in Present : \E s \in Present \ {r} : ToISOString(table[s][column]) = ToISOString(table[r][column])}

\* The next page, from the cursor of the previous one.
FollowCursor ==
    /\ reader.kind = "walk" /\ reader.more
    /\ LET page == GetPage(reader.list, reader.cursor, reader.limit)
       IN  reader' = [reader EXCEPT !.got = @ \o page.items, !.cursor = page.next,
                                    !.more = page.next # NULL,
                                    !.crowded = @ \cup (IF reader.list.cursor = NULL THEN {}
                                                        ELSE Crowded(reader.list.cursor))]
    /\ UNCHANGED <<table, clock, scenario>>

Chosen(next) ==
    /\ reader.kind = "screen" /\ scenario.choices > 0
    /\ reader' = [reader EXCEPT !.next = next]
    /\ scenario' = [scenario EXCEPT !.choices = @ - 1]
    /\ UNCHANGED <<table, clock>>

\* A choice replaces the address once the navigation it starts has ended. The menus
\* are disabled meanwhile; the links and the search field are not. A menu keeps the page
\* and its size, a link does not.
Open(what) == reader.kind = "screen" /\ (reader.next = NULL \/ what \in reader.screen.links)
From(what) == IF what \in reader.screen.links
              THEN [reader.url EXCEPT !.page = 1, !.size = DefaultPageSize] ELSE reader.url

ChooseGroup ==
    /\ Open("group")
    /\ \E group \in GroupChoices(reader.screen) : Chosen([From("group") EXCEPT !.group = group])
ChooseStatus ==
    /\ Open("status")
    /\ \E status \in StatusChoices(reader.screen) : Chosen([From("status") EXCEPT !.status = status])
ChooseSort ==
    /\ Open("sort")
    /\ \E sort \in reader.screen.sorts : Chosen([reader.url EXCEPT !.sort = sort])
SubmitSearch ==
    /\ reader.kind = "screen"
    /\ \E query \in SearchChoices(reader.screen) : Chosen([From("search") EXCEPT !.query = query])

\* The footer is there when there is something to cut: the size of the pages, which goes
\* back to the first one, and the links around the page that is shown.
ChangeSize ==
    /\ reader.kind = "screen"
    /\ KeptRows(reader.screen, reader.url, reader.failed) # {}
    /\ \E size \in PageSizes : Chosen([reader.url EXCEPT !.size = size, !.page = 1])
TurnPage ==
    /\ reader.kind = "screen"
    /\ LET rows == ClientSideView(reader.screen, reader.url, reader.failed)
           page == SafePage(Len(rows), reader.url.page, reader.url.size)
       IN  \E p \in {page - 1, page + 1} \cap 1..Pages(Len(rows), reader.url.size) :
              Chosen([reader.url EXCEPT !.page = p])

\* The server renders the screen again; a call of it may fail.
Renders(screen, url) ==
    \E failed \in SUBSET FallsBack(screen) :
        /\ failed # {} => scenario.failures > 0
        /\ reader' = [kind |-> "screen", screen |-> screen, url |-> url, next |-> NULL,
                      failed |-> failed]
        /\ scenario' = [scenario EXCEPT !.failures = IF failed = {} THEN @ ELSE @ - 1]
        /\ UNCHANGED <<table, clock>>
Navigated ==
    /\ reader.kind = "screen" /\ reader.next # NULL
    /\ Renders(reader.screen, reader.next)

StartWalk ==
    /\ reader.kind = "idle" /\ scenario.kind = "walk"
    /\ \E list \in Lists, limit \in Limits :
          reader' = [kind |-> "walk", list |-> list, limit |-> limit, cursor |-> NULL, more |-> TRUE,
                     got |-> <<>>, present |-> Present, moved |-> {}, crowded |-> {}]
    /\ UNCHANGED <<table, clock, scenario>>
OpenScreen ==
    /\ reader.kind = "idle" /\ scenario.kind = "screen"
    /\ \E screen \in Screens : Renders(screen, FirstAddress(screen))

ListingInit ==
    /\ scenario \in Scenarios
    /\ table = scenario.table
    /\ clock = CHOOSE t \in Instant : \A r \in Rows : table[r] # NULL => table[r].updated <= t
    /\ reader = [kind |-> "idle"]
ListingNext ==
    \/ \E r \in Rows : Change(r)
    \/ StartWalk \/ FollowCursor
    \/ OpenScreen \/ Navigated
    \/ ChooseGroup \/ ChooseStatus \/ ChooseSort \/ SubmitSearch \/ ChangeSize \/ TurnPage
ListingSpec == ListingInit /\ [][ListingNext]_listingVars

-----------------------------------------------------------------------------
(* Properties.                                                               *)

Walk == [kind : {"walk"}, list : Lists, limit : Limits,
         cursor : Position \cup {NULL}, more : BOOLEAN, got : Seq(Rows),
         present : SUBSET Rows, moved : SUBSET Rows, crowded : SUBSET Rows]
Address(screen) == [group : Nat \cup {NULL}, status : {"ALL", "ACTIVE", "INACTIVE"},
                    query : Nat \cup {NULL}, sort : screen.sorts, page : Nat \ {0}, size : PageSizes]
Reading(screen) == [kind : {"screen"}, screen : {screen}, url : Address(screen),
                    next : Address(screen) \cup {NULL}, failed : SUBSET {"list", "categories"}]

\* The table, its reader and the instants of the database have their types: an address
\* only says what the toolbars of its screen can put in it.
ListingTypeOK ==
    /\ scenario \in Scenario /\ table \in [Rows -> Row \cup {NULL}] /\ clock \in Instant
    /\ reader.kind = "walk" => reader \in Walk
    /\ reader.kind = "screen" =>
          reader.screen \in Screens /\ reader \in Reading(reader.screen)

\* The order of the list is that of its cursor.
FollowsItsCursor(list) ==
    \/ list.order = "created_desc" /\ list.cursor = "created"
    \/ list.order = "activity_desc" /\ list.cursor = "updated"
\* A reader who follows the cursors to the end of a list whose order is that of its
\* cursor gets every row that was there from the first page to the last and was not
\* saved meanwhile, unless it shared its millisecond with another one; and no unsaved
\* row twice, whatever others insert, save or remove (the list methods, cursor.util.ts).
WalkReturnsEachRowOnce ==
    reader.kind = "walk" /\ FollowsItsCursor(reader.list) =>
        /\ \A i, j \in 1..Len(reader.got) :
              i # j /\ reader.got[i] = reader.got[j] => reader.got[i] \in reader.moved
        /\ ~reader.more =>
              (reader.present \cap Present) \ (reader.moved \cup reader.crowded) \subseteq ToSet(reader.got)

\* Whatever the address says, and whatever was removed since it was built, a screen
\* is empty only when it keeps nothing of what it fetched; and while the table fits what
\* it fetches, its pages together show each matching row exactly once, unless a call of
\* it failed: that is shown as an empty table, which the reader cannot tell from there
\* being no row (applyClientSideView, paginate, the toolbars, which keep the page, and
\* apiFetchOr).
ScreenShowsWhatMatches ==
    reader.kind = "screen" =>
        LET url == reader.url
            rows == ClientSideView(reader.screen, url, reader.failed)
            of(p) == ToSet(Shown(reader.screen, [url EXCEPT !.page = p], reader.failed))
        IN  /\ rows # <<>> => Shown(reader.screen, url, reader.failed) # <<>>
            /\ reader.failed = {} /\ Cardinality(Present) <= Fetch =>
                  \A r \in Matching(reader.screen, url) :
                     Cardinality({p \in 1..Pages(Len(rows), url.size) : r \in of(p)}) = 1
=============================================================================
