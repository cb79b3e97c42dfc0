--------------------------- MODULE Audience_proofs ---------------------------
(***************************************************************************)
(* For any records, categories, routes and zones: folding records together *)
(* neither drops nor adds a choice, and costs no alert that a record with  *)
(* given routes and zones was sent.                                        *)
(***************************************************************************)
EXTENDS Audience, TLAPS

\* The shape of a column.
LEMMA ColumnShape ==
    ASSUME NEW Ids, NEW c \in SignUpColumns(Ids)
    PROVE  /\ c.kind \in {"null", "all", "list"}
           /\ c.list \in SUBSET Element(Ids)
           /\ c.kind # "list" => c.list = {}
           /\ c.kind = "list" => c.list # {}
           /\ c.kind = "all" <=> c = All
           /\ c.kind = "null" <=> c = Null
    <1>1. CASE c \in {Null, All}
        BY <1>1 DEF Null, All
    <1>2. CASE c \in ListsOf(Ids)
        <2>1. PICK S \in (SUBSET Element(Ids)) \ {{}} : c = [kind |-> "list", list |-> S]
            BY <1>2 DEF ListsOf, Listed
        <2> QED
            BY <2>1 DEF Null, All
    <1> QED
        BY <1>1, <1>2 DEF SignUpColumns

\* parseList keeps what a list names, as strings, and loses no element.
LEMMA ParsedNames ==
    ASSUME NEW Ids, NEW c \in SignUpColumns(Ids)
    PROVE  /\ ParsedList(c) \in SUBSET Element(Ids)
           /\ \A e \in ParsedList(c) : e.text
           /\ \A id : (\E e \in ParsedList(c) : e.id = id) <=> (\E e \in c.list : e.id = id)
           /\ c.list # {} => ParsedList(c) # {}
    <1>1. c.list \in SUBSET Element(Ids)
        BY ColumnShape
    <1>2. \A e \in c.list : /\ e \in [id : Ids, text : BOOLEAN]
                            /\ [e EXCEPT !.text = TRUE] \in [id : Ids, text : BOOLEAN]
                            /\ [e EXCEPT !.text = TRUE].id = e.id
                            /\ [e EXCEPT !.text = TRUE].text = TRUE
        BY <1>1 DEF Element
    <1> QED
        BY <1>1, <1>2 DEF ParsedList, Element

\* unionAudience of two columns is a column; what it names is what they name;
\* "ALL" wins, and only two NULLs give NULL.
LEMMA UnionShape ==
    ASSUME NEW Ids, NEW a \in SignUpColumns(Ids), NEW b \in SignUpColumns(Ids)
    PROVE  /\ UnionAudience(a, b) \in SignUpColumns(Ids)
           /\ UnionAudience(a, b).kind =
                 IF a.kind = "all" \/ b.kind = "all" THEN "all"
                 ELSE IF a.kind = "null" /\ b.kind = "null" THEN "null" ELSE "list"
           /\ UnionAudience(a, b).kind = "list" =>
                 Names(UnionAudience(a, b)) = Names(a) \cup Names(b)
    <1> DEFINE S == ParsedList(a) \cup ParsedList(b)
    <1>1. CASE a.kind = "all" \/ b.kind = "all"
        BY <1>1 DEF UnionAudience, All, SignUpColumns
    <1>2. CASE a.kind = "null" /\ b.kind = "null"
        BY <1>2 DEF UnionAudience, All, Null, SignUpColumns
    <1>3. CASE /\ ~(a.kind = "all" \/ b.kind = "all")
               /\ ~(a.kind = "null" /\ b.kind = "null")
        <2>1. UnionAudience(a, b) = Listed(S)
            BY <1>3 DEF UnionAudience
        <2>2. S \in (SUBSET Element(Ids)) \ {{}}
            BY <1>3, ColumnShape, ParsedNames
        <2>3. Listed(S) \in SignUpColumns(Ids)
            BY <2>2 DEF SignUpColumns, ListsOf
        <2>4. Listed(S).kind = "list" /\ Listed(S).list = S
            BY DEF Listed
        <2>5. \A id : (\E e \in S : e.id = id) <=>
                         (\E e \in a.list : e.id = id) \/ (\E e \in b.list : e.id = id)
            BY ParsedNames
        <2>6. Names(Listed(S)) = Names(a) \cup Names(b)
            <3>1. Names(Listed(S)) = {e.id : e \in S}
                BY <2>4 DEF Names
            <3> HIDE DEF S
            <3>2. \A id : id \in {e.id : e \in S} <=> id \in Names(a) \cup Names(b)
                BY <2>5 DEF Names
            <3> QED
                BY <3>1, <3>2
        <2> QED
            BY <1>3, <2>1, <2>3, <2>4, <2>6
    <1> QED
        BY <1>1, <1>2, <1>3

\* A column that is not NULL matches nothing that its union with another does
\* not match.
LEMMA UnionKeepsMatches ==
    ASSUME NEW Ids, NEW a \in SignUpColumns(Ids), NEW b \in SignUpColumns(Ids),
           a.kind # "null", b.kind # "null", NEW named,
           AudienceMatches(a, named) \/ AudienceMatches(b, named)
    PROVE  AudienceMatches(UnionAudience(a, b), named)
    <1>1. CASE named = {}
        BY <1>1 DEF AudienceMatches
    <1>2. CASE a.kind = "all" \/ b.kind = "all"
        BY <1>2, UnionShape DEF AudienceMatches
    <1>3. CASE named # {} /\ a.kind = "list" /\ b.kind = "list"
        <2>1. UnionAudience(a, b) = Listed(ParsedList(a) \cup ParsedList(b))
            BY <1>3 DEF UnionAudience
        <2>2. \E e \in a.list \cup b.list : e.id \in named
            BY <1>3 DEF AudienceMatches
        <2>3. \E e \in ParsedList(a) \cup ParsedList(b) : e.text /\ e.id \in named
            <3>1. PICK e \in a.list \cup b.list : e.id \in named
                BY <2>2
            <3>2. CASE e \in a.list
                <4>1. PICK f \in ParsedList(a) : f.id = e.id
                    BY <3>2, ParsedNames
                <4>2. f.text
                    BY ParsedNames
                <4> QED
                    BY <3>1, <4>1, <4>2
            <3>3. CASE e \in b.list
                <4>1. PICK f \in ParsedList(b) : f.id = e.id
                    BY <3>3, ParsedNames
                <4>2. f.text
                    BY ParsedNames
                <4> QED
                    BY <3>1, <4>1, <4>2
            <3> QED
                BY <3>1, <3>2, <3>3
        <2>4. UnionAudience(a, b).list = ParsedList(a) \cup ParsedList(b)
            BY <2>1 DEF Listed
        <2> HIDE DEF UnionAudience, ParsedList
        <2> QED
            BY <2>3, <2>4 DEF AudienceMatches
    <1> QED
        BY <1>1, <1>2, <1>3, ColumnShape

-----------------------------------------------------------------------------
\* A page edit writes columns that a sign-up could have written.
LEMMA PageIsChoice ==
    Choices(PageColumns(RouteIds), PageColumns(ZoneIds)) \subseteq AllChoices
    BY DEF Choices, AllChoices, PageColumns, SignUpColumns

\* The columns of any two records fold into columns.
LEMMA FoldedTypes ==
    ASSUME AudienceTypeOK, NEW v \in Records, NEW r \in Records
    PROVE  FoldedColumns(v, r) \in [categories : SUBSET Categories,
                                    routes : SignUpColumns(RouteIds),
                                    zones : SignUpColumns(ZoneIds)]
    BY UnionShape DEF AudienceTypeOK, FoldedColumns

\* Every column stays one of the shapes the code writes.
THEOREM AudienceTypeCorrect == AudienceSpec => []AudienceTypeOK
    <1>1. AudienceInit => AudienceTypeOK
        BY DEF AudienceInit, AudienceTypeOK, SignUpColumns
    <1>2. AudienceTypeOK /\ [AudienceNext]_audienceVars => AudienceTypeOK'
        <2> SUFFICES ASSUME AudienceTypeOK, [AudienceNext]_audienceVars PROVE AudienceTypeOK'
            OBVIOUS
        <2>1. ASSUME NEW r \in Records, NEW choice \in AllChoices, SignUp(r, choice)
              PROVE  AudienceTypeOK'
            BY <2>1 DEF AudienceTypeOK, SignUp, AllChoices, Choices
        <2>2. ASSUME NEW r \in Records,
                     NEW choice \in Choices(PageColumns(RouteIds), PageColumns(ZoneIds)),
                     WriteColumns(r, choice)
              PROVE  AudienceTypeOK'
            <3>1. choice \in AllChoices
                BY PageIsChoice
            <3> QED
                BY <2>2, <3>1 DEF AudienceTypeOK, WriteColumns, AllChoices, Choices
        <2>3. ASSUME NEW v \in Records, NEW r \in Records, FoldInto(v, r)
              PROVE  AudienceTypeOK'
            BY <2>3, FoldedTypes DEF AudienceTypeOK, FoldInto
        <2>4. CASE UNCHANGED audienceVars
            BY <2>4 DEF AudienceTypeOK, audienceVars
        <2> QED
            BY <2>1, <2>2, <2>3, <2>4 DEF AudienceNext
    <1> QED
        BY <1>1, <1>2, PTL DEF AudienceSpec

\* A fold of two records that both give routes and zones loses no alert.
THEOREM NamedAlertsAreKept == AudienceSpec => FoldKeepsNamedAlerts
    <1>1. ASSUME AudienceTypeOK, NEW v \in Records, NEW r \in Records,
                 FoldInto(v, r), Specified(v, r),
                 NEW k \in Categories, NEW routes \in SUBSET RouteIds,
                 NEW zones \in SUBSET ZoneIds,
                 IsSent(cols[v], k, routes, zones) \/ IsSent(cols[r], k, routes, zones)
          PROVE  IsSent(cols'[v], k, routes, zones)
        <2>1. cols'[v] = FoldedColumns(v, r)
            BY <1>1 DEF FoldInto, AudienceTypeOK
        <2>2. /\ cols[v].routes \in SignUpColumns(RouteIds)
              /\ cols[r].routes \in SignUpColumns(RouteIds)
              /\ cols[v].zones \in SignUpColumns(ZoneIds)
              /\ cols[r].zones \in SignUpColumns(ZoneIds)
            BY <1>1 DEF AudienceTypeOK
        <2>3. AudienceMatches(UnionAudience(cols[v].routes, cols[r].routes), routes)
            BY <1>1, <2>2, UnionKeepsMatches DEF IsSent, Specified
        <2>4. AudienceMatches(UnionAudience(cols[v].zones, cols[r].zones), zones)
            BY <1>1, <2>2, UnionKeepsMatches DEF IsSent, Specified
        <2>5. k \in cols[v].categories \cup cols[r].categories
            BY <1>1 DEF IsSent
        <2> QED
            BY <2>1, <2>3, <2>4, <2>5 DEF IsSent, FoldedColumns
    <1>2. AudienceTypeOK /\ [AudienceNext]_audienceVars =>
            [\A v, r \in Records : FoldInto(v, r) /\ Specified(v, r) =>
                \A k \in Categories, routes \in SUBSET RouteIds, zones \in SUBSET ZoneIds :
                    IsSent(cols[v], k, routes, zones) \/ IsSent(cols[r], k, routes, zones)
                        => IsSent(cols'[v], k, routes, zones)]_audienceVars
        BY <1>1
    <1> QED
        BY <1>2, AudienceTypeCorrect, PTL DEF AudienceSpec, FoldKeepsNamedAlerts

-----------------------------------------------------------------------------
\* What a column is, its ids' JSON types aside.
Reading(column) == [kind |-> column.kind, names |-> Names(column)]

\* One column is what it comes to itself.
LEMMA CombinedOne ==
    ASSUME NEW Ids, NEW c \in SignUpColumns(Ids)
    PROVE  Reading(c) = Combined({c})
    <1>1. CASE c.kind = "list"
        <2>1. All \notin {c} /\ ~({c} \subseteq {Null})
            BY <1>1, ColumnShape
        <2>2. UNION {Names(d) : d \in {c}} = Names(c)
            OBVIOUS
        <2> QED
            BY <1>1, <2>1, <2>2 DEF Combined, Reading
    <1>2. CASE c.kind # "list"
        <2>1. Names(c) = {} /\ (c = All \/ c = Null)
            BY <1>2, ColumnShape DEF Names
        <2> QED
            BY <2>1 DEF Combined, Reading, All, Null
    <1> QED
        BY <1>1, <1>2

\* unionAudience of two readings is the reading of both sets of choices.
LEMMA CombinedUnion ==
    ASSUME NEW Ids, NEW a \in SignUpColumns(Ids), NEW b \in SignUpColumns(Ids),
           NEW P, NEW Q, Reading(a) = Combined(P), Reading(b) = Combined(Q)
    PROVE  Reading(UnionAudience(a, b)) = Combined(P \cup Q)
    <1> DEFINE u == UnionAudience(a, b)
    <1>1. /\ a.kind = IF All \in P THEN "all" ELSE IF P \subseteq {Null} THEN "null" ELSE "list"
          /\ b.kind = IF All \in Q THEN "all" ELSE IF Q \subseteq {Null} THEN "null" ELSE "list"
          /\ a.kind = "list" => Names(a) = UNION {Names(c) : c \in P}
          /\ b.kind = "list" => Names(b) = UNION {Names(c) : c \in Q}
        BY DEF Reading, Combined
    <1>2. /\ u \in SignUpColumns(Ids)
          /\ u.kind = IF a.kind = "all" \/ b.kind = "all" THEN "all"
                      ELSE IF a.kind = "null" /\ b.kind = "null" THEN "null" ELSE "list"
          /\ u.kind = "list" => Names(u) = Names(a) \cup Names(b)
        BY UnionShape
    <1>3. Names(Null) = {}
        BY DEF Names, Null
    <1>4. CASE u.kind = "all"
        <2>1. Names(u) = {}
            BY <1>2, <1>4, ColumnShape DEF Names
        <2>2. All \in P \cup Q
            BY <1>1, <1>2, <1>4
        <2> QED
            BY <1>4, <2>1, <2>2 DEF Reading, Combined
    <1>5. CASE u.kind = "null"
        <2>1. Names(u) = {}
            BY <1>2, <1>5, ColumnShape DEF Names
        <2>2. All \notin P \cup Q /\ P \cup Q \subseteq {Null}
            BY <1>1, <1>2, <1>5
        <2> QED
            BY <1>5, <2>1, <2>2 DEF Reading, Combined
    <1>6. CASE u.kind = "list"
        <2>1. All \notin P \cup Q /\ ~(P \cup Q \subseteq {Null})
            BY <1>1, <1>2, <1>6
        <2>2. Names(a) = UNION {Names(c) : c \in P}
            <3>1. CASE a.kind = "list"
                BY <1>1, <3>1
            <3>2. CASE a.kind # "list"
                <4>1. a.kind = "null" /\ P \subseteq {Null}
                    BY <1>1, <1>2, <1>6, <3>2
                <4>2. Names(a) = {}
                    BY <3>2, ColumnShape DEF Names
                <4> QED
                    BY <4>1, <4>2, <1>3
            <3> QED
                BY <3>1, <3>2
        <2>3. Names(b) = UNION {Names(c) : c \in Q}
            <3>1. CASE b.kind = "list"
                BY <1>1, <3>1
            <3>2. CASE b.kind # "list"
                <4>1. b.kind = "null" /\ Q \subseteq {Null}
                    BY <1>1, <1>2, <1>6, <3>2
                <4>2. Names(b) = {}
                    BY <3>2, ColumnShape DEF Names
                <4> QED
                    BY <4>1, <4>2, <1>3
            <3> QED
                BY <3>1, <3>2
        <2>4. Names(u) = UNION {Names(c) : c \in P \cup Q}
            BY <1>2, <1>6, <2>2, <2>3
        <2> QED
            BY <1>6, <2>1, <2>4 DEF Reading, Combined
    <1> QED
        BY <1>2, <1>4, <1>5, <1>6

\* The columns are the union of the choices that the record stands for,
\* whatever was signed up, edited and folded, in whatever order.
THEOREM ColumnsAreTheUnion == AudienceSpec => []ColumnsAreWhatWasAsked
    <1> DEFINE RoutesOf(qs) == {q.routes : q \in qs}
               ZonesOf(qs) == {q.zones : q \in qs}
               KindsOf(qs) == UNION {q.categories : q \in qs}
               Right(r) == /\ cols[r].categories = KindsOf(asked[r])
                           /\ Reading(cols[r].routes) = Combined(RoutesOf(asked[r]))
                           /\ Reading(cols[r].zones) = Combined(ZonesOf(asked[r]))
    <1>0. ColumnsAreWhatWasAsked <=> \A r \in live : Right(r)
        BY DEF ColumnsAreWhatWasAsked, Reading
    <1>1. ASSUME NEW choice \in AllChoices
          PROVE  /\ choice.categories = KindsOf({choice})
                 /\ Reading(choice.routes) = Combined(RoutesOf({choice}))
                 /\ Reading(choice.zones) = Combined(ZonesOf({choice}))
        <2>1. /\ choice.routes \in SignUpColumns(RouteIds)
              /\ choice.zones \in SignUpColumns(ZoneIds)
            BY DEF AllChoices, Choices
        <2>2. /\ KindsOf({choice}) = choice.categories
              /\ RoutesOf({choice}) = {choice.routes}
              /\ ZonesOf({choice}) = {choice.zones}
            OBVIOUS
        <2> QED
            BY <2>1, <2>2, CombinedOne
    <1>2. ASSUME NEW P, NEW Q
          PROVE  /\ KindsOf(P \cup Q) = KindsOf(P) \cup KindsOf(Q)
                 /\ RoutesOf(P \cup Q) = RoutesOf(P) \cup RoutesOf(Q)
                 /\ ZonesOf(P \cup Q) = ZonesOf(P) \cup ZonesOf(Q)
        OBVIOUS
    <1> HIDE DEF RoutesOf, ZonesOf, KindsOf
    <1>3. AudienceInit => ColumnsAreWhatWasAsked
        BY DEF AudienceInit, ColumnsAreWhatWasAsked
    <1>4. ASSUME AudienceTypeOK, ColumnsAreWhatWasAsked, [AudienceNext]_audienceVars
          PROVE  ColumnsAreWhatWasAsked'
        <2>1. ASSUME NEW r \in Records, NEW choice \in AllChoices,
                     cols' = [cols EXCEPT ![r] = choice],
                     asked' = [asked EXCEPT ![r] = {choice}],
                     live' \subseteq live \cup {r}
              PROVE  ColumnsAreWhatWasAsked'
            <3>1. /\ cols'[r] = choice /\ asked'[r] = {choice}
                  /\ \A o \in Records \ {r} : cols'[o] = cols[o] /\ asked'[o] = asked[o]
                BY <1>4, <2>1 DEF AudienceTypeOK
            <3>2. \A o \in live' : Right(o)'
                BY <1>0, <1>1, <1>4, <2>1, <3>1 DEF AudienceTypeOK
            <3> QED
                BY <3>2 DEF ColumnsAreWhatWasAsked, Reading, KindsOf, RoutesOf, ZonesOf
        <2>2. ASSUME NEW v \in Records, NEW r \in Records, FoldInto(v, r)
              PROVE  ColumnsAreWhatWasAsked'
            <3>1. /\ v \in live /\ r \in live /\ live' \subseteq live
                  /\ cols'[v] = FoldedColumns(v, r) /\ asked'[v] = asked[v] \cup asked[r]
                  /\ \A o \in Records \ {v} : cols'[o] = cols[o] /\ asked'[o] = asked[o]
                BY <1>4, <2>2 DEF AudienceTypeOK, FoldInto
            <3>2. Right(v) /\ Right(r)
                BY <1>0, <1>4, <3>1
            <3>3. /\ cols[v].routes \in SignUpColumns(RouteIds)
                  /\ cols[r].routes \in SignUpColumns(RouteIds)
                  /\ cols[v].zones \in SignUpColumns(ZoneIds)
                  /\ cols[r].zones \in SignUpColumns(ZoneIds)
                BY <1>4 DEF AudienceTypeOK
            <3>4. /\ cols'[v].categories = KindsOf(asked[v] \cup asked[r])
                  /\ Reading(cols'[v].routes) = Combined(RoutesOf(asked[v] \cup asked[r]))
                  /\ Reading(cols'[v].zones) = Combined(ZonesOf(asked[v] \cup asked[r]))
                <4>1. /\ cols'[v].categories = cols[v].categories \cup cols[r].categories
                      /\ cols'[v].routes = UnionAudience(cols[v].routes, cols[r].routes)
                      /\ cols'[v].zones = UnionAudience(cols[v].zones, cols[r].zones)
                    BY <3>1 DEF FoldedColumns
                <4>2. Reading(cols'[v].routes) =
                         Combined(RoutesOf(asked[v]) \cup RoutesOf(asked[r]))
                    BY <4>1, <3>2, <3>3, CombinedUnion
                <4>3. Reading(cols'[v].zones) =
                         Combined(ZonesOf(asked[v]) \cup ZonesOf(asked[r]))
                    BY <4>1, <3>2, <3>3, CombinedUnion
                <4>4. /\ KindsOf(asked[v] \cup asked[r]) = KindsOf(asked[v]) \cup KindsOf(asked[r])
                      /\ RoutesOf(asked[v] \cup asked[r]) = RoutesOf(asked[v]) \cup RoutesOf(asked[r])
                      /\ ZonesOf(asked[v] \cup asked[r]) = ZonesOf(asked[v]) \cup ZonesOf(asked[r])
                    BY <1>2
                <4>5. /\ cols[v].categories = KindsOf(asked[v])
                      /\ cols[r].categories = KindsOf(asked[r])
                    BY <3>2
                <4> QED
                    BY <4>1, <4>2, <4>3, <4>4, <4>5
            <3>5. \A o \in live' : Right(o)'
                BY <1>0, <1>4, <3>1, <3>4 DEF AudienceTypeOK
            <3> QED
                BY <3>5 DEF ColumnsAreWhatWasAsked, Reading, KindsOf, RoutesOf, ZonesOf
        <2>3. CASE UNCHANGED audienceVars
            BY <1>4, <2>3 DEF ColumnsAreWhatWasAsked, audienceVars, Names
        <2> QED
            BY <1>4, <2>1, <2>2, <2>3, PageIsChoice DEF AudienceNext, SignUp, WriteColumns
    <1> QED
        BY <1>3, <1>4, AudienceTypeCorrect, PTL DEF AudienceSpec

=============================================================================
