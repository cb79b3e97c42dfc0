------------------------------ MODULE Audience ------------------------------
(***************************************************************************)
(* Which alerts a record is sent: the categories, routes and zones columns *)
(* as sign-up and the preference page write them, as mergeOnConfirm        *)
(* combines them when records of one rider are folded together, and as     *)
(* the dispatcher matches them against an alert.                           *)
(***************************************************************************)

CONSTANTS
    Records,      \* ids of subscription records
    Categories,   \* kinds of alert
    RouteIds,     \* routes offered, as strings
    ZoneIds       \* zones offered, as strings

VARIABLES
    live,   \* records that exist and were not folded into another
    cols,   \* the three columns of each record
    asked   \* history: the choices that the record stands for

audienceVars == <<live, cols, asked>>

-----------------------------------------------------------------------------
(* A routes or zones column is NULL, the literal "ALL", or a JSON array of  *)
(* ids.  A body may give an id as a string or as a number: the check        *)
(* compares String(v) with what is offered, and stores v.                   *)

Element(Ids) == [id : Ids, text : BOOLEAN]

Null == [kind |-> "null", list |-> {}]
All == [kind |-> "all", list |-> {}]
Listed(S) == [kind |-> "list", list |-> S]

\* A list that audienceErrors accepts: what is offered, at least one.
ListsOf(Ids) == {Listed(S) : S \in (SUBSET Element(Ids)) \ {{}}}

\* What POST /subscribers stores, and what the preference page's PUT stores: a
\* sign-up may leave the field out, the page may not.
SignUpColumns(Ids) == {Null, All} \cup ListsOf(Ids)
PageColumns(Ids) == {All} \cup ListsOf(Ids)

Choices(routeColumns, zoneColumns) ==
    [categories : (SUBSET Categories) \ {{}}, routes : routeColumns, zones : zoneColumns]

AllChoices == Choices(SignUpColumns(RouteIds), SignUpColumns(ZoneIds))

\* parseList: every value becomes a string.
ParsedList(column) == {[e EXCEPT !.text = TRUE] : e \in column.list}

\* Mutant of UnionAudience: the list of the record that was there first.
UnionAudienceFirst(a, b) ==
    IF a.kind = "all" \/ b.kind = "all" THEN All
    ELSE IF a.kind = "null" THEN b ELSE a

\* Mutant of UnionAudience: "ALL" yields to a list, as NULL does.
UnionAudienceNamed(a, b) ==
    IF a.kind # "list" /\ b.kind # "list" THEN (IF a.kind = "all" THEN a ELSE b)
    ELSE Listed(ParsedList(a) \cup ParsedList(b))

\* unionAudience: "ALL" wins, NULL yields, lists are united.
UnionAudience(a, b) ==
    IF a.kind = "all" \/ b.kind = "all" THEN All
    ELSE IF a.kind = "null" /\ b.kind = "null" THEN Null
    ELSE Listed(ParsedList(a) \cup ParsedList(b))

\* audienceMatches(parseAudience(column), named): NULL and "ALL" take every
\* alert, an alert that names none goes to everyone, and of a list only the
\* strings count.
AudienceMatches(column, named) ==
    \/ column.kind \in {"null", "all"}
    \/ named = {}
    \/ \E e \in column.list : e.text /\ e.id \in named

\* The dispatcher sends the record an alert of category k that names these
\* routes and zones.
IsSent(choice, k, routes, zones) ==
    /\ k \in choice.categories
    /\ AudienceMatches(choice.routes, routes)
    /\ AudienceMatches(choice.zones, zones)

-----------------------------------------------------------------------------
AudienceInit ==
    /\ live = {}
    /\ cols = [r \in Records |->
                  [categories |-> {}, routes |-> Null, zones |-> Null]]
    /\ asked = [r \in Records |-> {}]

\* POST /subscribers.
SignUp(r, choice) ==
    /\ asked[r] = {}
    /\ live' = live \cup {r}
    /\ cols' = [cols EXCEPT ![r] = choice]
    /\ asked' = [asked EXCEPT ![r] = {choice}]

\* PUT /subscribers/preferences replaces all three columns.
WriteColumns(r, choice) ==
    /\ r \in live
    /\ cols' = [cols EXCEPT ![r] = choice]
    /\ asked' = [asked EXCEPT ![r] = {choice}]
    /\ UNCHANGED live

\* What foldInto writes to the survivor.
FoldedColumns(v, r) ==
    [categories |-> cols[v].categories \cup cols[r].categories,
     routes |-> UnionAudience(cols[v].routes, cols[r].routes),
     zones |-> UnionAudience(cols[v].zones, cols[r].zones)]

\* foldInto: record r goes, its preferences join v's.
FoldInto(v, r) ==
    /\ v \in live /\ r \in live \ {v}
    /\ live' = live \ {r}
    /\ cols' = [cols EXCEPT ![v] = FoldedColumns(v, r)]
    /\ asked' = [asked EXCEPT ![v] = @ \cup asked[r]]

AudienceNext ==
    \/ \E r \in Records, choice \in AllChoices : SignUp(r, choice)
    \/ \E r \in Records, choice \in Choices(PageColumns(RouteIds), PageColumns(ZoneIds)) :
          WriteColumns(r, choice)
    \/ \E v, r \in Records : FoldInto(v, r)

AudienceSpec == AudienceInit /\ [][AudienceNext]_audienceVars

-----------------------------------------------------------------------------
AudienceTypeOK ==
    /\ live \subseteq Records
    /\ cols \in [Records -> [categories : SUBSET Categories,
                             routes : SignUpColumns(RouteIds),
                             zones : SignUpColumns(ZoneIds)]]
    /\ asked \in [Records -> SUBSET AllChoices]

\* The ids a column names, whatever their JSON type.
Names(column) == {e.id : e \in column.list}

\* What a set of columns comes to, in whatever order they were folded.
Combined(columns) ==
    IF All \in columns THEN [kind |-> "all", names |-> {}]
    ELSE IF columns \subseteq {Null} THEN [kind |-> "null", names |-> {}]
    ELSE [kind |-> "list", names |-> UNION {Names(c) : c \in columns}]

\* Whatever the order of sign-ups, page edits and merges, the columns of a
\* record are the union of all the choices it stands for: none is dropped by a
\* later fold, and nothing is in it that nobody chose.
ColumnsAreWhatWasAsked ==
    \A r \in live :
        /\ cols[r].categories = UNION {q.categories : q \in asked[r]}
        /\ [kind |-> cols[r].routes.kind, names |-> Names(cols[r].routes)]
              = Combined({q.routes : q \in asked[r]})
        /\ [kind |-> cols[r].zones.kind, names |-> Names(cols[r].zones)]
              = Combined({q.zones : q \in asked[r]})

\* Neither record's columns are NULL.
Specified(v, r) ==
    \A c \in {cols[v].routes, cols[v].zones, cols[r].routes, cols[r].zones} : c.kind # "null"

\* A merge of two records that both say which routes and zones they want costs
\* the rider no alert that either record was sent.
FoldKeepsNamedAlerts ==
    [][\A v, r \in Records : FoldInto(v, r) /\ Specified(v, r) =>
         \A k \in Categories, routes \in SUBSET RouteIds, zones \in SUBSET ZoneIds :
            IsSent(cols[v], k, routes, zones) \/ IsSent(cols[r], k, routes, zones)
                => IsSent(cols'[v], k, routes, zones)]_audienceVars

=============================================================================
