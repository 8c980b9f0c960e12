------------------------------- MODULE Members -------------------------------
(***************************************************************************)
(* The member screens: the list of the shop's members with its search      *)
(* (MShopMemberListViewController) and the page of one member, where the   *)
(* employee who looks after her is assigned (MShopMemberDetailView-        *)
(* Controller).                                                            *)
(*                                                                         *)
(* The page shares the member object with the row it was opened from, and  *)
(* writes the assignment into it before the server has been asked.         *)
(***************************************************************************)
EXTENDS FiniteSets, SequencesExt

CONSTANTS
    Individuals,    \* the members of the shop
    Maintainers,    \* who may look after one
    Texts,          \* what may be typed and is searched for
    Matches(_),     \* the members the server finds for a text (external)
    Partial,        \* a text that is blank or an incomplete number
    Nothing,
    MaxRequests     \* BOUND: requests in flight

ASSUME MembersAssumption ==
    /\ Nothing \notin Maintainers \cup Individuals
    /\ Partial \notin Texts
    /\ \A t \in Texts : Matches(t) \subseteq Individuals
    /\ MaxRequests \in Nat \ {0}

VARIABLES
    maintainer, \* maintainer[m]: the employee the server has for m
    individuals,\* _individualArray, as maintainEmployeeId by member
    results,    \* _searchIndividualArray, likewise
    text,       \* the text in the search bar
    page,       \* the member page, or Nothing
    asked,      \* the requests in flight, in the order they were started
    sound       \* history: the parts of the screen whose last change was
                \* neither late nor lost nor refused

memberVars == <<maintainer, individuals, results, text, page, asked, sound>>

Values == Maintainers \cup {Nothing}
Listings == UNION {[S -> Values] : S \in SUBSET Individuals}

Asked ==
    [kind : {"list"}, about : {Nothing}, to : {Nothing}, answer : Listings \cup {Nothing}]
    \cup [kind : {"search"}, about : Texts, to : {Nothing}, answer : Listings \cup {Nothing}]
    \cup [kind : {"info", "gone"}, about : Individuals, to : {Nothing},
           answer : Listings \cup {Nothing}]
    \cup [kind : {"modify"}, about : Individuals, to : Maintainers,
           answer : Listings \cup {Nothing}]

\* The object the page shows is the one of a row, or its own.
Pages == [member : Individuals, object : {"list", "results", "own"},
         value : Values, chosen : Values]

\* No page is none.
ASSUME NothingAssumption == Nothing \notin Pages

MemberTypeOK ==
    /\ maintainer \in [Individuals -> Values]
    /\ individuals \in Listings /\ results \in Listings
    /\ text \in Texts \cup {Partial}
    /\ page \in Pages \cup {Nothing}
    /\ asked \in Seq(Asked) /\ Len(asked) <= MaxRequests
    /\ sound \subseteq {"list", "results", "page"}

Empty == [m \in {} |-> Nothing]

Ask(kind, about, to) ==
    [kind |-> kind, about |-> about, to |-> to, answer |-> Nothing]

InFlight(kind) == \E i \in DOMAIN asked : asked[i].kind = kind

\* The HUD of these two lies over the window, but not over the keyboard.
TouchesBlocked == InFlight("search") \/ InFlight("modify")

\* The page is gone that waited for a member to be read.
Abandoned ==
    [i \in DOMAIN asked |->
        IF asked[i].kind = "info" THEN [asked[i] EXCEPT !.kind = "gone"] ELSE asked[i]]

\* Writes into rows what the page writes into the object it shares with them.
Shared(rows, where, e) ==
    IF page.object = where THEN [rows EXCEPT ![page.member] = e] ELSE rows

\* viewDidLoad has asked for the list.
MemberInit ==
    /\ maintainer \in [Individuals -> Values]
    /\ individuals = Empty /\ results = Empty
    /\ text = Partial
    /\ page = Nothing
    /\ asked = <<Ask("list", Nothing, Nothing)>>
    /\ sound = {"list"}

-----------------------------------------------------------------------------
(* Seeded faults.  No step uses these operators: each is a definition      *)
(* below with a mistake one could make in the code, and the property named *)
(* fails when it takes that definition's place.                            *)

\* The results stay until the next answer: SettledResultsAgree.
FaultResultsKept(t) ==
    /\ page = Nothing /\ Len(asked) < MaxRequests
    /\ text' = t
    /\ asked' = IF t = Partial THEN asked ELSE Append(asked, Ask("search", t, Nothing))
    /\ sound' = sound \cup {"results"}
    /\ UNCHANGED <<maintainer, individuals, results, page>>

\* The request is built before the object is changed: SettledPageAgrees.
FaultOldValueSent(e) ==
    /\ page # Nothing /\ ~ TouchesBlocked /\ Len(asked) < MaxRequests
    /\ page.value # Nothing
    /\ page' = [page EXCEPT !.value = e, !.chosen = e]
    /\ individuals' = Shared(individuals, "list", e) /\ results' = Shared(results, "results", e)
    /\ asked' = Append(asked, Ask("modify", page.member, page.value))
    /\ sound' = sound \ (IF page.object = "own" THEN {"page", "results"} ELSE {"page"})
    /\ UNCHANGED <<maintainer, text>>

\* The list is not fetched again on the way back: SettledIndividualsAgree.
FaultNoFreshList ==
    /\ page # Nothing /\ ~ TouchesBlocked /\ Len(asked) < MaxRequests
    /\ page' = Nothing
    /\ asked' = Abandoned
    /\ sound' = sound \ {"page"}
    /\ UNCHANGED <<maintainer, individuals, results, text>>

\* The search key does not look at the text first: MemberTypeOK.
FaultAnyTextSearched ==
    /\ page = Nothing /\ Len(asked) < MaxRequests
    /\ asked' = Append(asked, Ask("search", text, Nothing))
    /\ UNCHANGED <<maintainer, individuals, results, text, page, sound>>

-----------------------------------------------------------------------------
(* What the clerk does.                                                    *)

\* doSearch: empties the results, which the search bar then reloads, and asks
\* when there is something to ask for.  Typing is possible under the HUD.
DoSearch(t) ==
    /\ page = Nothing /\ Len(asked) < MaxRequests
    /\ text' = t
    /\ results' = Empty
    /\ asked' = IF t = Partial THEN asked ELSE Append(asked, Ask("search", t, Nothing))
    /\ sound' = sound \cup {"results"}
    /\ UNCHANGED <<maintainer, individuals, page>>

\* The search key asks again for the same text and empties nothing.
PressSearchKey ==
    /\ page = Nothing /\ text # Partial /\ Len(asked) < MaxRequests
    /\ asked' = Append(asked, Ask("search", text, Nothing))
    /\ UNCHANGED <<maintainer, individuals, results, text, page, sound>>

\* The table of the results lies over the list while there is a text.
ShowIndividualInfo(m) ==
    LET where == IF text = Partial THEN "list" ELSE "results"
        rows == IF text = Partial THEN individuals ELSE results
    IN  /\ page = Nothing /\ ~ TouchesBlocked
        /\ m \in DOMAIN rows
        /\ page' = [member |-> m, object |-> where, value |-> rows[m], chosen |-> Nothing]
        /\ UNCHANGED <<maintainer, individuals, results, text, asked, sound>>

\* A page that has been read again no longer shares its object with a row of the
\* results, which nothing fetches again on the way back.
OnDidSelectEmployee(e) ==
    /\ page # Nothing /\ ~ TouchesBlocked /\ Len(asked) < MaxRequests
    /\ page' = [page EXCEPT !.value = e, !.chosen = e]
    /\ individuals' = Shared(individuals, "list", e) /\ results' = Shared(results, "results", e)
    /\ asked' = Append(asked, Ask("modify", page.member, e))
    /\ sound' = sound \ (IF page.object = "own" THEN {"page", "results"} ELSE {"page"})
    /\ UNCHANGED <<maintainer, text>>

\* Back to the list, which is fetched again.
OnClickBackBtn ==
    /\ page # Nothing /\ ~ TouchesBlocked /\ Len(asked) < MaxRequests
    /\ page' = Nothing
    /\ asked' = Append(Abandoned, Ask("list", Nothing, Nothing))
    /\ sound' = (sound \ {"page"}) \cup (IF InFlight("list") THEN {} ELSE {"list"})
    /\ UNCHANGED <<maintainer, individuals, results, text>>

-----------------------------------------------------------------------------
(* What the server does (external).                                        *)

Found(r) ==
    CASE r.kind = "list"   -> Individuals
      [] r.kind = "search" -> Matches(r.about)
      [] OTHER             -> {r.about}

ServeAsked(i) ==
    /\ asked[i].answer = Nothing
    /\ maintainer' = IF asked[i].kind = "modify"
                     THEN [maintainer EXCEPT ![asked[i].about] = asked[i].to]
                     ELSE maintainer
    /\ asked' = [asked EXCEPT ![i].answer =
                    [m \in Found(asked[i]) |-> maintainer'[m]]]
    /\ UNCHANGED <<individuals, results, text, page, sound>>

-----------------------------------------------------------------------------
(* What the completion blocks do.                                          *)

\* The parts of the screen that a request is about.
Parts(r) ==
    CASE r.kind = "list" -> {"list"} [] r.kind = "search" -> {"results"}
      [] r.kind = "info" -> {"page"} [] r.kind = "modify" -> {"page", "results"}
      [] OTHER -> {}

\* A refusal (before or after the server has acted on the request), an error or
\* an expired token: a tip.  What was written in advance is not taken back.
LoseAnswer(i) ==
    /\ asked' = RemoveAt(asked, i)
    /\ sound' = sound \ Parts(asked[i])
    /\ UNCHANGED <<maintainer, individuals, results, text, page>>

\* An earlier request for the same part is still under way.
Overtaking(i) == \E j \in 1 .. i - 1 : asked[j].kind = asked[i].kind

\* Rows that are replaced leave the page with an object of its own.
Kept(where) ==
    IF page # Nothing THEN [page EXCEPT !.object = IF @ = where THEN "own" ELSE @]
                      ELSE Nothing

ListAnswered(i) ==
    /\ asked[i].kind = "list"
    /\ individuals' = asked[i].answer
    /\ page' = Kept("list")
    /\ sound' = sound \ (IF Overtaking(i) THEN {"list"} ELSE {})
    /\ asked' = RemoveAt(asked, i)
    /\ UNCHANGED <<maintainer, results, text>>

\* Nothing ties the answer to the text that is in the search bar now.
SearchAnswered(i) ==
    /\ asked[i].kind = "search"
    /\ results' = asked[i].answer
    /\ page' = Kept("results")
    /\ sound' = IF asked[i].about = text THEN sound \cup {"results"}
                ELSE sound \ {"results"}
    /\ asked' = RemoveAt(asked, i)
    /\ UNCHANGED <<maintainer, individuals, text>>

\* A tip, and the member is asked for.
ModifyAnswered(i) ==
    /\ asked[i].kind = "modify"
    /\ asked' = Append(RemoveAt(asked, i), Ask("info", page.member, Nothing))
    /\ sound' = sound \cup {"page"}
    /\ UNCHANGED <<maintainer, individuals, results, text, page>>

\* The page gets a new object; the row keeps the old one.
InfoAnswered(i) ==
    /\ asked[i].kind = "info"
    /\ page' = [page EXCEPT !.object = "own", !.value = asked[i].answer[asked[i].about]]
    /\ sound' = sound \ (IF Overtaking(i) THEN {"page"} ELSE {})
    /\ asked' = RemoveAt(asked, i)
    /\ UNCHANGED <<maintainer, individuals, results, text>>

\* The page that waited for it is no longer shown.
GoneAnswered(i) ==
    /\ asked[i].kind = "gone"
    /\ asked' = RemoveAt(asked, i)
    /\ UNCHANGED <<maintainer, individuals, results, text, page, sound>>

AnswerShown(i) ==
    /\ asked[i].answer # Nothing
    /\ \/ ListAnswered(i) \/ SearchAnswered(i) \/ ModifyAnswered(i)
       \/ InfoAnswered(i) \/ GoneAnswered(i)

-----------------------------------------------------------------------------
MemberNext ==
    \/ \E t \in Texts \cup {Partial} : DoSearch(t)
    \/ PressSearchKey
    \/ \E m \in Individuals : ShowIndividualInfo(m)
    \/ \E e \in Maintainers : OnDidSelectEmployee(e)
    \/ OnClickBackBtn
    \/ \E i \in DOMAIN asked : ServeAsked(i) \/ LoseAnswer(i) \/ AnswerShown(i)

MemberSpec == MemberInit /\ [][MemberNext]_memberVars

-----------------------------------------------------------------------------
(* Properties.                                                             *)

\* On the list, once no list is owed and the last ones were neither lost nor
\* overtaken, every row shows the server's assignment, whatever was written
\* into its object in advance and refused later: each way back fetches the list
\* again (onClickBackBtn, freshMemberList).
SettledIndividualsAgree ==
    page = Nothing /\ ~ InFlight("list") /\ "list" \in sound => individuals = maintainer

\* Once no search is owed, the results are those of the text that is in the bar,
\* with the server's assignments, and there are none for an incomplete text:
\* whatever order texts and answers came in before, unless the last answer was
\* late or lost, or an assignment since then failed or was written into an
\* object that is no longer the row's (doSearch, doSearchIndividual,
\* didSearchViewTableSelect).
SettledResultsAgree ==
    page = Nothing /\ ~ InFlight("search") /\ "results" \in sound =>
        results = IF text = Partial THEN Empty
                  ELSE [m \in Matches(text) |-> maintainer[m]]

\* After an assignment that succeeded and was read back in order, the page and
\* the server have the employee who was chosen last, even when the member was
\* assigned again while she was being read (onDidSelectEmployee,
\* getIndividualInfo).
SettledPageAgrees ==
    page # Nothing /\ ~ InFlight("modify") /\ ~ InFlight("info") /\ "page" \in sound =>
        /\ page.value = maintainer[page.member]
        /\ page.value = page.chosen
=============================================================================
