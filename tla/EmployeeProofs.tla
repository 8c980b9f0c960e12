---------------------------- MODULE EmployeeProofs ----------------------------
(***************************************************************************)
(* What is proved of the screens on which employees are managed: the       *)
(* member screens, where an employee is assigned to a member (Members),    *)
(* and the one that freezes and unfreezes them (FrozenEmployees).  All of  *)
(* it holds for any members, employees and texts and for any number of     *)
(* requests, batches and operations in flight.                             *)
(*                                                                         *)
(* Both keep a sequence of requests in flight, so the lemmas about         *)
(* sequences come first and serve both.                                    *)
(***************************************************************************)
EXTENDS Members, FrozenEmployees, FiniteSetTheorems, TLAPS

\* What is proved of batches, for the batches of the screen.
Proved == INSTANCE BatchRequestProofs

-----------------------------------------------------------------------------
(* Sequences of requests.                                                  *)

\* The places of the requests of a kind, if there are any, and the last of them.
Of(s, kind) == {i \in DOMAIN s : s[i].kind = kind}
Idle(s, kind) == \A i \in DOMAIN s : s[i].kind # kind
LastOf(s, kind, i) == i \in Of(s, kind) /\ \A j \in Of(s, kind) : j <= i

LEMMA Element ==
    ASSUME NEW S, NEW s \in Seq(S), NEW i \in DOMAIN s
    PROVE  s[i] \in S
  OBVIOUS

LEMMA Together ==
    ASSUME NEW S, NEW s \in Seq(S), NEW t \in Seq(S)
    PROVE  /\ s \o t \in Seq(S) /\ Len(s \o t) = Len(s) + Len(t)
           /\ \A k \in 1 .. Len(s) + Len(t) :
                 (s \o t)[k] = IF k <= Len(s) THEN s[k] ELSE t[k - Len(s)]
  OBVIOUS

LEMMA Appended ==
    ASSUME NEW S, NEW s \in Seq(S), NEW e \in S
    PROVE  /\ Append(s, e) \in Seq(S) /\ Len(Append(s, e)) = Len(s) + 1
           /\ Append(s, e)[Len(s) + 1] = e
           /\ \A k \in DOMAIN s : k \in DOMAIN Append(s, e) /\ Append(s, e)[k] = s[k]
           /\ \A k \in DOMAIN Append(s, e) : k \in DOMAIN s \/ k = Len(s) + 1
  OBVIOUS

\* What is left when one is taken out keeps its order.
LEMMA Removed ==
    ASSUME NEW S, NEW s \in Seq(S), NEW i \in DOMAIN s
    PROVE  /\ RemoveAt(s, i) \in Seq(S) /\ Len(RemoveAt(s, i)) = Len(s) - 1
           /\ \A k \in 1 .. Len(s) - 1 :
                 RemoveAt(s, i)[k] = IF k < i THEN s[k] ELSE s[k + 1]
<1> DEFINE before == SubSeq(s, 1, i - 1)
           after == SubSeq(s, i + 1, Len(s))
<1>1. i \in 1 .. Len(s) /\ Len(s) \in Nat
  OBVIOUS
<1>2. before \in Seq(S) /\ Len(before) = i - 1 /\ \A k \in 1 .. i - 1 : before[k] = s[k]
  BY <1>1
<1>3. /\ after \in Seq(S) /\ Len(after) = Len(s) - i
      /\ \A k \in 1 .. Len(s) - i : after[k] = s[k + i]
  BY <1>1
<1>4. RemoveAt(s, i) = before \o after
  BY DEF RemoveAt
<1> HIDE DEF before, after
<1>5. /\ before \o after \in Seq(S) /\ Len(before \o after) = Len(before) + Len(after)
      /\ \A k \in 1 .. Len(before) + Len(after) :
           (before \o after)[k] = IF k <= Len(before) THEN before[k] ELSE after[k - Len(before)]
  BY <1>2, <1>3, Together
<1>l. (i - 1) + (Len(s) - i) = Len(s) - 1
  BY <1>1
<1>e. \A k \in 1 .. Len(s) - 1 :
        (before \o after)[k] = IF k <= i - 1 THEN before[k] ELSE after[k - (i - 1)]
  <2>1. Len(before) = i - 1 /\ Len(before) + Len(after) = Len(s) - 1
    BY <1>2, <1>3, <1>l
  <2> QED
    BY <1>5, <2>1
<1>6. ASSUME NEW k \in 1 .. Len(s) - 1
      PROVE  (before \o after)[k] = IF k < i THEN s[k] ELSE s[k + 1]
  <2>1. CASE k < i
    BY <1>1, <1>2, <1>e, <2>1
  <2>2. CASE ~ k < i
    <3>1. (before \o after)[k] = after[k - (i - 1)]
      <4>1. ~ (k <= i - 1)
        BY <1>1, <2>2
      <4> QED
        BY <1>e, <4>1
    <3>2. k - (i - 1) \in 1 .. Len(s) - i /\ (k - (i - 1)) + i = k + 1
      BY <1>1, <2>2
    <3> QED
      BY <1>3, <2>2, <3>1, <3>2
  <2> QED
    BY <2>1, <2>2
<1>7. Len(before \o after) = Len(s) - 1
  BY <1>2, <1>3, <1>5, <1>l
<1> QED
  BY <1>4, <1>5, <1>6, <1>7

LEMMA RemovedKinds ==
    ASSUME NEW S, NEW s \in Seq(S), NEW i \in DOMAIN s, NEW t, t = RemoveAt(s, i)
    PROVE  /\ \A j \in DOMAIN t : \E k \in DOMAIN s :
                 /\ k # i /\ t[j] = s[k] /\ j = (IF k < i THEN k ELSE k - 1)
                 /\ \A kind : LastOf(t, kind, j) =>
                       LastOf(s, kind, k) \/ (LastOf(s, kind, i) /\ k < i /\ k \in Of(s, kind))
           /\ \A k \in DOMAIN s : k # i => \E j \in DOMAIN t : t[j] = s[k]
<1>0. Len(s) \in Nat /\ DOMAIN s = 1 .. Len(s) /\ i \in 1 .. Len(s)
  OBVIOUS
<1>1. /\ DOMAIN t = 1 .. Len(s) - 1
      /\ \A k \in 1 .. Len(s) - 1 : t[k] = IF k < i THEN s[k] ELSE s[k + 1]
  <2>1. t \in Seq(S) /\ Len(t) = Len(s) - 1
    BY Removed
  <2>2. DOMAIN t = 1 .. Len(t)
    BY <2>1
  <2>3. \A k \in 1 .. Len(s) - 1 :
          RemoveAt(s, i)[k] = IF k < i THEN s[k] ELSE s[k + 1]
    BY Removed
  <2> QED
    BY <2>1, <2>2, <2>3
<1>2. ASSUME NEW k \in DOMAIN s, k # i
      PROVE  \E j \in DOMAIN t : t[j] = s[k] /\ j = IF k < i THEN k ELSE k - 1
  <2>1. CASE k < i
    BY <1>0, <1>1, <2>1
  <2>2. CASE k > i
    <3>1. k - 1 \in DOMAIN t /\ ~ (k - 1 < i) /\ (k - 1) + 1 = k
      BY <1>0, <1>1, <2>2
    <3> QED
      BY <1>0, <1>1, <2>2, <3>1
  <2> QED
    BY <1>0, <1>2, <2>1, <2>2
<1>3. ASSUME NEW j \in DOMAIN t
      PROVE  \E k \in DOMAIN s :
                 /\ k # i /\ t[j] = s[k] /\ j = (IF k < i THEN k ELSE k - 1)
                 /\ \A kind : LastOf(t, kind, j) =>
                       LastOf(s, kind, k) \/ (LastOf(s, kind, i) /\ k < i /\ k \in Of(s, kind))
  <2> DEFINE k == IF j < i THEN j ELSE j + 1
  <2>1. k \in DOMAIN s /\ k # i /\ t[j] = s[k] /\ j = (IF k < i THEN k ELSE k - 1)
    BY <1>0, <1>1
  <2>2. ASSUME NEW kind, LastOf(t, kind, j)
        PROVE  LastOf(s, kind, k) \/ (LastOf(s, kind, i) /\ k < i /\ k \in Of(s, kind))
    <3> HIDE DEF k
    <3>1. k \in Of(s, kind)
      BY <2>1, <2>2 DEF LastOf, Of, Idle
    <3>2. ASSUME NEW l \in Of(s, kind), l # i
          PROVE  l <= k
      <4>1. l \in DOMAIN s
        BY DEF Of, Idle
      <4>2. PICK m \in DOMAIN t : t[m] = s[l] /\ m = IF l < i THEN l ELSE l - 1
        BY <1>2, <3>2, <4>1
      <4>3. m <= j
        BY <2>2, <4>2 DEF LastOf, Of, Idle
      <4> QED
        BY <1>0, <2>1, <3>2, <4>1, <4>2, <4>3
    <3>3. CASE i \in Of(s, kind) /\ k < i
      BY <1>0, <2>1, <3>1, <3>2, <3>3 DEF LastOf, Of, Idle
    <3>4. CASE i \notin Of(s, kind) \/ k > i
      BY <1>0, <2>1, <3>1, <3>2, <3>4 DEF LastOf, Of, Idle
    <3> QED
      BY <1>0, <2>1, <3>3, <3>4
  <2> QED
    BY <2>1, <2>2
<1> QED
  BY <1>2, <1>3

-----------------------------------------------------------------------------
(* Members: types.                                                         *)

\* What a member was read as can be looked up, and nobody waits for a page that
\* is not there.
Readable ==
    \A i \in Of(asked, "info") :
        asked[i].answer # Nothing => asked[i].about \in DOMAIN asked[i].answer

PageThere == page = Nothing => Idle(asked, "modify") /\ Idle(asked, "info")

MemberTypes == MemberTypeOK /\ Readable /\ PageThere

LEMMA AskIsAsked ==
    ASSUME NEW kind, NEW about, NEW to,
           \/ kind = "list" /\ about = Nothing /\ to = Nothing
           \/ kind = "search" /\ about \in Texts /\ to = Nothing
           \/ kind = "info" /\ about \in Individuals /\ to = Nothing
           \/ kind = "modify" /\ about \in Individuals /\ to \in Maintainers
    PROVE  /\ Ask(kind, about, to) \in Asked
           /\ Ask(kind, about, to).kind = kind /\ Ask(kind, about, to).answer = Nothing
           /\ Ask(kind, about, to).about = about /\ Ask(kind, about, to).to = to
  BY DEF Ask, Asked

LEMMA AskedFields ==
    ASSUME NEW r \in Asked
    PROVE  /\ r.answer \in Listings \cup {Nothing}
           /\ r.kind \in {"list", "search", "info", "gone", "modify"}
           /\ r.kind = "search" => r.about \in Texts
           /\ r.kind \in {"info", "gone", "modify"} => r.about \in Individuals
           /\ r.kind = "modify" => r.to \in Maintainers
  BY DEF Asked

LEMMA RowsWritten ==
    ASSUME NEW rs \in Listings, NEW m, NEW e \in Values
    PROVE  [rs EXCEPT ![m] = e] \in Listings
<1>1. PICK S \in SUBSET Individuals : rs \in [S -> Values]
  BY DEF Listings
<1>2. [rs EXCEPT ![m] = e] \in [S -> Values]
  BY <1>1
<1> QED
  BY <1>2 DEF Listings

LEMMA SharedRows ==
    ASSUME NEW rs \in Listings, NEW where, NEW e \in Maintainers
    PROVE  Shared(rs, where, e) \in Listings
<1>1. e \in Values
  BY DEF Values
<1> QED
  BY <1>1, RowsWritten DEF Shared

LEMMA RowsHold ==
    ASSUME NEW rs \in Listings, NEW m \in DOMAIN rs
    PROVE  rs[m] \in Values /\ m \in Individuals
<1>1. PICK S \in SUBSET Individuals : rs \in [S -> Values]
  BY DEF Listings
<1> QED
  BY <1>1

LEMMA MemberInitTypes == MemberInit => MemberTypes
<1> SUFFICES ASSUME MemberInit PROVE MemberTypes
  OBVIOUS
<1>1. Empty \in Listings
  <2>1. Empty \in [{} -> Values] /\ {} \in SUBSET Individuals
    BY DEF Empty
  <2> QED
    BY <2>1 DEF Listings
<1>2. Ask("list", Nothing, Nothing) \in Asked /\ Ask("list", Nothing, Nothing).kind = "list"
  BY AskIsAsked
<1>3. /\ asked \in Seq(Asked) /\ Len(asked) <= MaxRequests
      /\ DOMAIN asked = {1} /\ asked[1].kind = "list"
  BY <1>2, MembersAssumption DEF MemberInit
<1>4. Idle(asked, "modify") /\ Idle(asked, "info")
  BY <1>3 DEF Of, Idle
<1> QED
  BY <1>1, <1>3, <1>4 DEF MemberInit, MemberTypes, MemberTypeOK, Readable, PageThere, Of, Idle

\* Requests are taken from a longer sequence and asked anew; the rest is as it was.
LEMMA AskingKeepsTypes ==
    ASSUME MemberTypes, NEW r \in Asked, Len(asked) < MaxRequests,
           asked' = Append(asked, r), r.kind = "info" => r.answer = Nothing,
           r.kind \in {"modify", "info"} => page' # Nothing,
           page' = Nothing => page = Nothing
    PROVE  asked' \in Seq(Asked) /\ Len(asked') <= MaxRequests /\ Readable' /\ PageThere'
<1>1. asked \in Seq(Asked)
  BY DEF MemberTypes, MemberTypeOK
<1>2. asked' \in Seq(Asked) /\ Len(asked') = Len(asked) + 1 /\ Len(asked) \in Nat
  BY <1>1, Appended
<1>3. \A j \in DOMAIN asked' :
        (j \in DOMAIN asked /\ asked'[j] = asked[j]) \/ asked'[j] = r
  BY <1>1, Appended
<1>4. Readable'
  BY <1>3 DEF MemberTypes, Readable, Of, Idle
<1>5. PageThere'
  BY <1>3 DEF MemberTypes, PageThere, Of, Idle
<1> QED
  BY <1>2, <1>4, <1>5, MembersAssumption

LEMMA RemovingKeepsTypes ==
    ASSUME MemberTypes, NEW i \in DOMAIN asked, asked' = RemoveAt(asked, i),
           page' = Nothing => page = Nothing
    PROVE  asked' \in Seq(Asked) /\ Len(asked') <= MaxRequests /\ Readable' /\ PageThere'
<1>1. asked \in Seq(Asked)
  BY DEF MemberTypes, MemberTypeOK
<1>2. asked' \in Seq(Asked) /\ Len(asked') = Len(asked) - 1 /\ Len(asked) \in Nat
  BY <1>1, Removed
<1>3. \A j \in DOMAIN asked' : \E k \in DOMAIN asked : asked'[j] = asked[k]
  BY <1>1, RemovedKinds
<1>4. Readable'
  BY <1>3 DEF MemberTypes, Readable, Of, Idle
<1>5. PageThere'
  BY <1>3 DEF MemberTypes, PageThere, Of, Idle
<1>6. Len(asked) <= MaxRequests
  BY DEF MemberTypes, MemberTypeOK
<1> QED
  BY <1>2, <1>4, <1>5, <1>6, MembersAssumption

LEMMA SearchKeepsTypes ==
    ASSUME MemberTypes, NEW t \in Texts \cup {Partial}, DoSearch(t)
    PROVE  MemberTypes'
<1>1. Empty \in Listings
  <2>1. Empty \in [{} -> Values] /\ {} \in SUBSET Individuals
    BY DEF Empty
  <2> QED
    BY <2>1 DEF Listings
<1>2. asked' \in Seq(Asked) /\ Len(asked') <= MaxRequests /\ Readable' /\ PageThere'
  <2>1. CASE t = Partial
    BY <2>1 DEF DoSearch, MemberTypes, MemberTypeOK, Readable, PageThere
  <2>2. CASE t # Partial
    <3>1. /\ Ask("search", t, Nothing) \in Asked
          /\ Ask("search", t, Nothing).kind = "search"
      BY <2>2, AskIsAsked
    <3> QED
      BY <2>2, <3>1, AskingKeepsTypes DEF DoSearch
  <2> QED
    BY <2>1, <2>2
<1> QED
  BY <1>1, <1>2 DEF DoSearch, MemberTypes, MemberTypeOK

LEMMA KeyKeepsTypes ==
    ASSUME MemberTypes, PressSearchKey
    PROVE  MemberTypes'
<1>1. text \in Texts
  BY DEF MemberTypes, MemberTypeOK, PressSearchKey
<1>2. Ask("search", text, Nothing) \in Asked /\ Ask("search", text, Nothing).kind = "search"
  BY <1>1, AskIsAsked
<1>3. asked' \in Seq(Asked) /\ Len(asked') <= MaxRequests /\ Readable' /\ PageThere'
  BY <1>2, AskingKeepsTypes DEF PressSearchKey
<1> QED
  BY <1>3 DEF PressSearchKey, MemberTypes, MemberTypeOK

LEMMA ShownPage ==
    ASSUME MemberTypes, NEW m \in Individuals, ShowIndividualInfo(m)
    PROVE  page' \in Pages
<1>1. individuals \in Listings /\ results \in Listings
  BY DEF MemberTypes, MemberTypeOK
<1>2. /\ m \in DOMAIN individuals => individuals[m] \in Values
      /\ m \in DOMAIN results => results[m] \in Values
  BY <1>1, RowsHold
<1>3. Nothing \in Values
  BY DEF Values
<1> QED
  BY <1>2, <1>3 DEF ShowIndividualInfo, Pages

LEMMA InfoKeepsTypes ==
    ASSUME MemberTypes, NEW m \in Individuals, ShowIndividualInfo(m)
    PROVE  MemberTypes'
<1>1. page' \in Pages
  BY ShownPage
<1>2. Readable' /\ PageThere'
  BY DEF ShowIndividualInfo, MemberTypes, Readable, PageThere
<1> QED
  BY <1>1, <1>2 DEF ShowIndividualInfo, MemberTypes, MemberTypeOK

LEMMA SelectKeepsTypes ==
    ASSUME MemberTypes, NEW e \in Maintainers, OnDidSelectEmployee(e)
    PROVE  MemberTypes'
<1>1. page \in Pages /\ e \in Values
  BY DEF MemberTypes, MemberTypeOK, OnDidSelectEmployee, Values
<1>2. page' \in Pages /\ page' # Nothing
  <2>1. page' = [page EXCEPT !.value = e, !.chosen = e]
    BY DEF OnDidSelectEmployee
  <2>2. page' \in Pages
    BY <1>1, <2>1 DEF Pages
  <2> QED
    BY <2>2, NothingAssumption
<1>3. individuals' \in Listings /\ results' \in Listings
  BY SharedRows DEF MemberTypes, MemberTypeOK, OnDidSelectEmployee
<1>4. /\ Ask("modify", page.member, e) \in Asked
      /\ Ask("modify", page.member, e).kind = "modify"
  BY <1>1, AskIsAsked DEF Pages
<1>5. asked' \in Seq(Asked) /\ Len(asked') <= MaxRequests /\ Readable' /\ PageThere'
  BY <1>2, <1>4, AskingKeepsTypes DEF OnDidSelectEmployee
<1>6. sound' \subseteq {"list", "results", "page"}
  BY DEF MemberTypes, MemberTypeOK, OnDidSelectEmployee
<1> QED
  BY <1>2, <1>3, <1>5, <1>6 DEF OnDidSelectEmployee, MemberTypes, MemberTypeOK

LEMMA AbandonedAre ==
    ASSUME MemberTypeOK
    PROVE  /\ Abandoned \in Seq(Asked) /\ Len(Abandoned) = Len(asked)
           /\ DOMAIN Abandoned = DOMAIN asked
           /\ \A i \in DOMAIN asked :
                 /\ asked[i].kind # "info" => Abandoned[i] = asked[i]
                 /\ asked[i].kind = "info" => Abandoned[i].kind = "gone"
<1>1. asked \in Seq(Asked)
  BY DEF MemberTypeOK
<1>2. ASSUME NEW i \in DOMAIN asked
      PROVE  /\ Abandoned[i] \in Asked
             /\ asked[i].kind # "info" => Abandoned[i] = asked[i]
             /\ asked[i].kind = "info" => Abandoned[i].kind = "gone"
  <2>1. asked[i] \in Asked
    BY <1>1, Element
  <2>2. Abandoned[i] = IF asked[i].kind = "info" THEN [asked[i] EXCEPT !.kind = "gone"]
                       ELSE asked[i]
    BY DEF Abandoned
  <2>3. CASE asked[i].kind = "info"
    <3>1. asked[i] \in [kind : {"info", "gone"}, about : Individuals, to : {Nothing},
                        answer : Listings \cup {Nothing}]
      BY <2>1, <2>3 DEF Asked
    <3>2. Abandoned[i] \in [kind : {"info", "gone"}, about : Individuals, to : {Nothing},
                            answer : Listings \cup {Nothing}]
      BY <2>2, <2>3, <3>1
    <3>3. Abandoned[i].kind = "gone"
      BY <2>2, <2>3, <3>1
    <3> QED
      BY <2>3, <3>2, <3>3 DEF Asked
  <2>4. CASE asked[i].kind # "info"
    BY <2>1, <2>2, <2>4
  <2> QED
    BY <2>3, <2>4
<1>3. Len(asked) \in Nat /\ DOMAIN asked = 1 .. Len(asked)
  BY <1>1
<1>4. Abandoned \in [1 .. Len(asked) -> Asked]
  BY <1>2, <1>3 DEF Abandoned
<1>5. Abandoned \in Seq(Asked) /\ Len(Abandoned) = Len(asked)
  BY <1>3, <1>4
<1> QED
  BY <1>2, <1>3, <1>4, <1>5

LEMMA BackKeepsTypes ==
    ASSUME MemberTypes, OnClickBackBtn
    PROVE  MemberTypes'
<1> DEFINE r == Ask("list", Nothing, Nothing)
<1>1. r \in Asked /\ r.kind = "list"
  BY AskIsAsked
<1>2. /\ Abandoned \in Seq(Asked) /\ Len(Abandoned) = Len(asked) /\ Len(asked) \in Nat
      /\ asked' = Append(Abandoned, r) /\ Len(asked) < MaxRequests
  BY AbandonedAre DEF MemberTypes, MemberTypeOK, OnClickBackBtn
<1> HIDE DEF r
<1>3. asked' \in Seq(Asked) /\ Len(asked') <= MaxRequests
  BY <1>1, <1>2, Appended, MembersAssumption
<1>4. \A j \in DOMAIN asked' :
        (j \in DOMAIN Abandoned /\ asked'[j] = Abandoned[j]) \/ asked'[j] = r
  BY <1>1, <1>2, Appended
<1>5. ASSUME NEW j \in DOMAIN asked'
      PROVE  asked'[j].kind \notin {"info", "modify"}
  <2>1. CASE asked'[j] = r
    BY <1>1, <2>1
  <2>2. CASE j \in DOMAIN Abandoned /\ asked'[j] = Abandoned[j]
    <3>1. j \in DOMAIN asked /\ asked[j].kind # "modify"
      BY <2>2, AbandonedAre DEF MemberTypes, OnClickBackBtn, TouchesBlocked, InFlight
    <3> QED
      BY <2>2, <3>1, AbandonedAre DEF MemberTypes
  <2> QED
    BY <1>4, <2>1, <2>2
<1>6. Readable' /\ PageThere'
  BY <1>5 DEF Readable, PageThere, Of, Idle
<1>7. sound' \subseteq {"list", "results", "page"}
  BY DEF MemberTypes, MemberTypeOK, OnClickBackBtn
<1> QED
  BY <1>3, <1>6, <1>7 DEF OnClickBackBtn, MemberTypes, MemberTypeOK

\* The server answers from what it holds.
LEMMA ServedIs ==
    ASSUME MemberTypes, NEW i \in DOMAIN asked, ServeAsked(i)
    PROVE  /\ maintainer' \in [Individuals -> Values]
           /\ DOMAIN asked' = DOMAIN asked /\ Len(asked') = Len(asked)
           /\ asked' \in Seq(Asked)
           /\ \A j \in DOMAIN asked : j # i => asked'[j] = asked[j]
           /\ asked'[i].kind = asked[i].kind /\ asked'[i].about = asked[i].about
           /\ asked'[i].to = asked[i].to
           /\ asked'[i].answer = [m \in Found(asked[i]) |-> maintainer'[m]]
<1>0. asked \in Seq(Asked) /\ maintainer \in [Individuals -> Values]
  BY DEF MemberTypes, MemberTypeOK
<1>1. asked[i] \in Asked
  BY <1>0, Element
<1>2. maintainer' \in [Individuals -> Values]
  <2>1. asked[i].kind = "modify" => asked[i].about \in Individuals /\ asked[i].to \in Values
    BY <1>1, AskedFields DEF Values
  <2> QED
    BY <1>0, <2>1 DEF ServeAsked
<1>3. Found(asked[i]) \subseteq Individuals
  BY <1>1, AskedFields, MembersAssumption DEF Found
<1> DEFINE given == [m \in Found(asked[i]) |-> maintainer'[m]]
           new == [asked[i] EXCEPT !.answer = given]
<1>4. given \in Listings
  <2>1. given \in [Found(asked[i]) -> Values]
    BY <1>2, <1>3
  <2> QED
    BY <1>3, <2>1 DEF Listings
<1>5. asked' = [asked EXCEPT ![i] = new]
  BY DEF ServeAsked
<1> HIDE DEF given
<1>6. /\ new \in Asked /\ new.answer = given /\ new.kind = asked[i].kind
      /\ new.about = asked[i].about /\ new.to = asked[i].to
  BY <1>1, <1>4 DEF Asked
<1> HIDE DEF new
<1>7. /\ asked' \in Seq(Asked) /\ Len(asked') = Len(asked) /\ DOMAIN asked' = DOMAIN asked
      /\ asked'[i] = new /\ \A j \in DOMAIN asked : j # i => asked'[j] = asked[j]
  BY <1>0, <1>5, <1>6
<1> QED
  BY <1>2, <1>6, <1>7 DEF given

LEMMA ServeKeepsTypes ==
    ASSUME MemberTypes, NEW i \in DOMAIN asked, ServeAsked(i)
    PROVE  MemberTypes'
<1>1. Readable'
  <2> SUFFICES ASSUME NEW j \in Of(asked', "info"), asked'[j].answer # Nothing
               PROVE  asked'[j].about \in DOMAIN asked'[j].answer
    BY DEF Readable
  <2>1. j \in DOMAIN asked
    BY ServedIs DEF Of, Idle
  <2>2. CASE j # i
    BY <2>1, <2>2, ServedIs DEF MemberTypes, Readable, Of, Idle
  <2>3. CASE j = i
    <3>1. asked[i].kind = "info"
      BY <2>3, ServedIs DEF Of, Idle
    <3>2. asked'[i].answer = [m \in Found(asked[i]) |-> maintainer'[m]]
      BY ServedIs
    <3>3. Found(asked[i]) = {asked[i].about}
      BY <3>1 DEF Found
    <3>4. DOMAIN asked'[i].answer = {asked[i].about}
      BY <3>2, <3>3
    <3> QED
      BY <2>3, <3>4, ServedIs
  <2> QED
    BY <2>2, <2>3
<1>2. PageThere'
  <2>1. \A j \in DOMAIN asked' : j \in DOMAIN asked /\ asked'[j].kind = asked[j].kind
    BY ServedIs
  <2> QED
    BY <2>1 DEF MemberTypes, PageThere, Of, Idle, ServeAsked
<1>3. asked' \in Seq(Asked) /\ Len(asked') = Len(asked) /\ maintainer' \in [Individuals -> Values]
  BY ServedIs
<1> QED
  BY <1>1, <1>2, <1>3 DEF ServeAsked, MemberTypes, MemberTypeOK

LEMMA LoseKeepsTypes ==
    ASSUME MemberTypes, NEW i \in DOMAIN asked, LoseAnswer(i)
    PROVE  MemberTypes'
<1>1. asked' \in Seq(Asked) /\ Len(asked') <= MaxRequests /\ Readable' /\ PageThere'
  BY RemovingKeepsTypes DEF LoseAnswer
<1> QED
  BY <1>1 DEF LoseAnswer, MemberTypes, MemberTypeOK

LEMMA KeptIs ==
    ASSUME MemberTypes, NEW where
    PROVE  /\ Kept(where) \in Pages \cup {Nothing}
           /\ Kept(where) = Nothing <=> page = Nothing
           /\ page # Nothing =>
                /\ Kept(where).member = page.member /\ Kept(where).value = page.value
                /\ Kept(where).chosen = page.chosen
                /\ Kept(where).object \in {page.object, "own"}
<1>1. CASE page = Nothing
  BY <1>1 DEF Kept
<1>2. CASE page # Nothing
  <2>1. page \in Pages
    BY <1>2 DEF MemberTypes, MemberTypeOK
  <2>2. Kept(where) = [page EXCEPT !.object = IF @ = where THEN "own" ELSE @]
    BY <1>2 DEF Kept
  <2>3. /\ Kept(where) \in Pages
        /\ Kept(where).member = page.member /\ Kept(where).value = page.value
        /\ Kept(where).chosen = page.chosen /\ Kept(where).object \in {page.object, "own"}
    BY <2>1, <2>2 DEF Pages
  <2> QED
    BY <1>2, <2>3, NothingAssumption
<1> QED
  BY <1>1, <1>2

LEMMA RowsAnsweredKeepTypes ==
    ASSUME MemberTypes, NEW i \in DOMAIN asked, asked[i].answer # Nothing,
           ListAnswered(i) \/ SearchAnswered(i)
    PROVE  MemberTypes'
<1>1. asked[i].answer \in Listings
  <2>1. asked[i] \in Asked
    BY Element DEF MemberTypes, MemberTypeOK
  <2> QED
    BY <2>1, AskedFields
<1>2. page' \in Pages \cup {Nothing} /\ (page' = Nothing => page = Nothing)
  BY KeptIs DEF ListAnswered, SearchAnswered
<1>3. asked' \in Seq(Asked) /\ Len(asked') <= MaxRequests /\ Readable' /\ PageThere'
  <2>1. asked' = RemoveAt(asked, i)
    BY DEF ListAnswered, SearchAnswered
  <2> QED
    BY <1>2, <2>1, RemovingKeepsTypes
<1>4. individuals' \in Listings /\ results' \in Listings /\ sound' \subseteq {"list", "results", "page"}
  BY <1>1 DEF ListAnswered, SearchAnswered, MemberTypes, MemberTypeOK
<1>5. UNCHANGED <<maintainer, text>>
  BY DEF ListAnswered, SearchAnswered
<1> QED
  BY <1>2, <1>3, <1>4, <1>5 DEF MemberTypes, MemberTypeOK

LEMMA ModifyKeepsTypes ==
    ASSUME MemberTypes, NEW i \in DOMAIN asked, ModifyAnswered(i)
    PROVE  MemberTypes'
<1> DEFINE left == RemoveAt(asked, i)
           r == Ask("info", page.member, Nothing)
<1>1. page # Nothing /\ page \in Pages
  <2>1. ~ Idle(asked, "modify")
    BY DEF ModifyAnswered, Of, Idle
  <2> QED
    BY <2>1 DEF MemberTypes, MemberTypeOK, PageThere
<1>2. r \in Asked /\ r.kind = "info" /\ r.answer = Nothing
  BY <1>1, AskIsAsked DEF Pages
<1>3. /\ asked \in Seq(Asked) /\ Len(asked) \in Nat /\ Len(asked) <= MaxRequests
      /\ asked' = Append(left, r)
  BY DEF MemberTypes, MemberTypeOK, ModifyAnswered
<1>4. /\ left \in Seq(Asked) /\ Len(left) = Len(asked) - 1
      /\ \A j \in DOMAIN left : \E k \in DOMAIN asked : left[j] = asked[k]
  BY <1>3, Removed, RemovedKinds
<1> HIDE DEF left, r
<1>5. asked' \in Seq(Asked) /\ Len(asked') = Len(asked)
  BY <1>2, <1>3, <1>4, Appended
<1>6. \A j \in DOMAIN asked' : asked'[j] = r \/ \E k \in DOMAIN asked : asked'[j] = asked[k]
  <2>1. \A j \in DOMAIN asked' : asked'[j] = r \/ (j \in DOMAIN left /\ asked'[j] = left[j])
    BY <1>2, <1>3, <1>4, Appended
  <2> QED
    BY <1>4, <2>1
<1>7. Readable'
  BY <1>2, <1>6 DEF MemberTypes, Readable, Of, Idle
<1>8. PageThere'
  BY <1>1 DEF PageThere, ModifyAnswered
<1> QED
  BY <1>3, <1>5, <1>7, <1>8 DEF ModifyAnswered, MemberTypes, MemberTypeOK

LEMMA InfoAnsweredIs ==
    ASSUME MemberTypes, NEW i \in DOMAIN asked, asked[i].answer # Nothing, InfoAnswered(i)
    PROVE  /\ page \in Pages /\ page # Nothing /\ page' \in Pages /\ page' # Nothing
           /\ page'.member = page.member /\ page'.object = "own"
           /\ page'.chosen = page.chosen
           /\ page'.value = asked[i].answer[asked[i].about]
<1>1. page # Nothing /\ page \in Pages /\ asked[i].about \in DOMAIN asked[i].answer
  <2>1. ~ Idle(asked, "info")
    BY DEF InfoAnswered, Idle
  <2> QED
    BY <2>1 DEF MemberTypes, MemberTypeOK, PageThere, Readable, Of, InfoAnswered
<1> DEFINE read == asked[i].answer[asked[i].about]
<1>2. read \in Values
  <2>1. asked[i] \in Asked
    BY Element DEF MemberTypes, MemberTypeOK
  <2>2. asked[i].answer \in Listings
    BY <2>1, AskedFields
  <2> QED
    BY <1>1, <2>2, RowsHold
<1>3. page' = [page EXCEPT !.object = "own", !.value = read]
  BY DEF InfoAnswered
<1> HIDE DEF read
<1>4. /\ page' \in Pages /\ page'.member = page.member /\ page'.object = "own"
      /\ page'.chosen = page.chosen /\ page'.value = read
  BY <1>1, <1>2, <1>3 DEF Pages
<1> QED
  BY <1>1, <1>4, NothingAssumption DEF read

LEMMA PageAnsweredKeepTypes ==
    ASSUME MemberTypes, NEW i \in DOMAIN asked, asked[i].answer # Nothing,
           InfoAnswered(i) \/ GoneAnswered(i)
    PROVE  MemberTypes'
<1>1. page' \in Pages \cup {Nothing} /\ (page' = Nothing => page = Nothing)
  BY InfoAnsweredIs DEF GoneAnswered, MemberTypes, MemberTypeOK
<1>2. asked' \in Seq(Asked) /\ Len(asked') <= MaxRequests /\ Readable' /\ PageThere'
  <2>1. asked' = RemoveAt(asked, i)
    BY DEF InfoAnswered, GoneAnswered
  <2> QED
    BY <1>1, <2>1, RemovingKeepsTypes
<1>3. sound' \subseteq {"list", "results", "page"}
  BY DEF InfoAnswered, GoneAnswered, MemberTypes, MemberTypeOK
<1>4. UNCHANGED <<maintainer, individuals, results, text>>
  BY DEF InfoAnswered, GoneAnswered
<1> QED
  BY <1>1, <1>2, <1>3, <1>4 DEF MemberTypes, MemberTypeOK

LEMMA MemberNextTypes == MemberTypes /\ [MemberNext]_memberVars => MemberTypes'
<1> SUFFICES ASSUME MemberTypes, [MemberNext]_memberVars PROVE MemberTypes'
  OBVIOUS
<1>1. CASE UNCHANGED memberVars
  BY <1>1 DEF memberVars, MemberTypes, MemberTypeOK, Readable, PageThere
<1>2. ASSUME NEW i \in DOMAIN asked, ServeAsked(i) \/ LoseAnswer(i) \/ AnswerShown(i)
      PROVE  MemberTypes'
  BY <1>2, ServeKeepsTypes, LoseKeepsTypes, RowsAnsweredKeepTypes, ModifyKeepsTypes,
     PageAnsweredKeepTypes DEF AnswerShown
<1> QED
  BY <1>1, <1>2, SearchKeepsTypes, KeyKeepsTypes, InfoKeepsTypes, SelectKeepsTypes,
     BackKeepsTypes DEF MemberNext

\* The member screens keep their types, for any members, employees and texts:
\* nothing is searched for that is no text, and a member that has been read is on
\* the page that asked for her.
THEOREM MembersTypeCorrect == MemberSpec => []MemberTypeOK
<1>1. MemberTypes => MemberTypeOK
  BY DEF MemberTypes
<1> QED
  BY <1>1, MemberInitTypes, MemberNextTypes, PTL DEF MemberSpec

-----------------------------------------------------------------------------
(* Members: what is shown agrees with the server.                          *)

\* A request that is in flight; the last one of its kind; no two of a kind.
Waits(s, r) == \E i \in DOMAIN s : s[i] = r
Newest(s, kind, r) == \E i \in DOMAIN s : LastOf(s, kind, i) /\ s[i] = r
Single(s, kind) == \A i, j \in Of(s, kind) : i = j

LEMMA AskedPlaces ==
    ASSUME NEW s \in Seq(Asked), NEW r \in Asked, NEW t, t = Append(s, r)
    PROVE  /\ \A j \in DOMAIN t :
                (j \in DOMAIN s /\ t[j] = s[j]) \/ (j = Len(s) + 1 /\ t[j] = r)
           /\ \A j \in DOMAIN s : j \in DOMAIN t /\ t[j] = s[j]
           /\ Len(s) + 1 \in DOMAIN t /\ t[Len(s) + 1] = r
           /\ \A j \in DOMAIN s : j \in Nat /\ j < Len(s) + 1
           /\ Len(s) \in Nat
  BY Appended

LEMMA AskedWaits ==
    ASSUME NEW s \in Seq(Asked), NEW r \in Asked, NEW t, t = Append(s, r),
           NEW q, Waits(t, q)
    PROVE  q = r \/ Waits(s, q)
  BY AskedPlaces DEF Waits

LEMMA AskedBusy ==
    ASSUME NEW s \in Seq(Asked), NEW r \in Asked, NEW t, t = Append(s, r)
    PROVE  ~ Idle(t, r.kind)
  BY AskedPlaces DEF Idle

LEMMA AskedIdle ==
    ASSUME NEW s \in Seq(Asked), NEW r \in Asked, NEW t, t = Append(s, r),
           NEW kind, kind # r.kind
    PROVE  Idle(t, kind) <=> Idle(s, kind)
  BY AskedPlaces DEF Idle

LEMMA AskedNewest ==
    ASSUME NEW s \in Seq(Asked), NEW r \in Asked, NEW t, t = Append(s, r),
           NEW kind, NEW q, Newest(t, kind, q)
    PROVE  IF kind = r.kind THEN q = r ELSE Newest(s, kind, q)
<1>1. PICK j \in DOMAIN t : LastOf(t, kind, j) /\ t[j] = q
  BY DEF Newest
<1>2. CASE kind = r.kind
  <2>1. Len(s) + 1 \in Of(t, kind)
    BY <1>2, AskedPlaces DEF Of
  <2> QED
    BY <1>1, <1>2, <2>1, AskedPlaces DEF LastOf
<1>3. CASE kind # r.kind
  <2>1. \A k : k \in Of(t, kind) <=> k \in Of(s, kind)
    BY <1>3, AskedPlaces DEF Of
  <2>2. j \in DOMAIN s /\ s[j] = q
    BY <1>1, <1>3, AskedPlaces DEF LastOf, Of
  <2> QED
    BY <1>1, <1>3, <2>1, <2>2 DEF LastOf, Newest
<1> QED
  BY <1>2, <1>3

LEMMA AskedIsNewest ==
    ASSUME NEW s \in Seq(Asked), NEW r \in Asked, NEW t, t = Append(s, r),
           NEW q, Newest(t, r.kind, q)
    PROVE  q = r
  BY AskedNewest

LEMMA AskedSingle ==
    ASSUME NEW s \in Seq(Asked), NEW r \in Asked, NEW t, t = Append(s, r),
           Idle(s, r.kind)
    PROVE  Single(t, r.kind)
  BY AskedPlaces DEF Single, Of, Idle

\* What is left when an answer has come, or is lost.
LEMMA LeftPlaces ==
    ASSUME MemberTypes, NEW i \in DOMAIN asked, NEW t, t = RemoveAt(asked, i)
    PROVE  /\ \A j \in DOMAIN t : \E k \in DOMAIN asked :
                /\ k # i /\ t[j] = asked[k] /\ j = (IF k < i THEN k ELSE k - 1)
                /\ \A kind : LastOf(t, kind, j) =>
                      \/ LastOf(asked, kind, k)
                      \/ LastOf(asked, kind, i) /\ k < i /\ k \in Of(asked, kind)
           /\ \A k \in DOMAIN asked : k # i => \E j \in DOMAIN t : t[j] = asked[k]
<1>0. asked \in Seq(Asked)
  BY DEF MemberTypes, MemberTypeOK
<1> QED
  BY <1>0, RemovedKinds

LEMMA LeftIsSeq ==
    ASSUME MemberTypes, NEW i \in DOMAIN asked, NEW t, t = RemoveAt(asked, i)
    PROVE  t \in Seq(Asked)
<1>0. asked \in Seq(Asked)
  BY DEF MemberTypes, MemberTypeOK
<1> QED
  BY <1>0, Removed

LEMMA LeftWaits ==
    ASSUME MemberTypes, NEW i \in DOMAIN asked, NEW t, t = RemoveAt(asked, i),
           NEW q, Waits(t, q)
    PROVE  Waits(asked, q)
  BY LeftPlaces DEF Waits

LEMMA LeftIdle ==
    ASSUME MemberTypes, NEW i \in DOMAIN asked, NEW t, t = RemoveAt(asked, i), NEW kind
    PROVE  IF kind = asked[i].kind
           THEN Idle(t, kind) => Newest(asked, kind, asked[i])
           ELSE Idle(t, kind) <=> Idle(asked, kind)
<1>0. DOMAIN asked = 1 .. Len(asked) /\ Len(asked) \in Nat
  BY DEF MemberTypes, MemberTypeOK
<1>1. CASE kind # asked[i].kind
  BY <1>1, LeftPlaces DEF Idle
<1>2. ASSUME kind = asked[i].kind, Idle(t, kind)
      PROVE  Newest(asked, kind, asked[i])
  <2>1. \A k \in Of(asked, kind) : k = i
    BY <1>2, LeftPlaces DEF Of, Idle
  <2> QED
    BY <1>0, <1>2, <2>1 DEF Newest, LastOf, Of
<1> QED
  BY <1>1, <1>2

LEMMA LeftNewest ==
    ASSUME MemberTypes, NEW i \in DOMAIN asked, NEW t, t = RemoveAt(asked, i),
           NEW kind, NEW q, Newest(t, kind, q), kind # asked[i].kind \/ ~ Overtaking(i)
    PROVE  Newest(asked, kind, q)
<1>0. DOMAIN asked = 1 .. Len(asked) /\ Len(asked) \in Nat
  BY DEF MemberTypes, MemberTypeOK
<1>1. PICK j \in DOMAIN t : LastOf(t, kind, j) /\ t[j] = q
  BY DEF Newest
<1>2. PICK k \in DOMAIN asked :
         /\ t[j] = asked[k]
         /\ \/ LastOf(asked, kind, k)
            \/ LastOf(asked, kind, i) /\ k < i /\ k \in Of(asked, kind)
  BY <1>1, LeftPlaces
<1>3. LastOf(asked, kind, i) /\ k < i /\ k \in Of(asked, kind) => Overtaking(i)
  BY <1>0 DEF Overtaking, LastOf, Of
<1>4. LastOf(asked, kind, i) => kind = asked[i].kind
  BY DEF LastOf, Of
<1> QED
  BY <1>1, <1>2, <1>3, <1>4 DEF Newest

LEMMA LeftSingle ==
    ASSUME MemberTypes, NEW i \in DOMAIN asked, NEW t, t = RemoveAt(asked, i),
           NEW kind, Single(asked, kind)
    PROVE  Single(t, kind) /\ (asked[i].kind = kind => Idle(t, kind))
<1>0. DOMAIN asked = 1 .. Len(asked) /\ Len(asked) \in Nat
  BY DEF MemberTypes, MemberTypeOK
<1>1. ASSUME NEW k \in Of(t, kind), NEW l \in Of(t, kind)
      PROVE  k = l
  <2>1. PICK m \in DOMAIN asked : t[k] = asked[m] /\ k = IF m < i THEN m ELSE m - 1
    BY LeftPlaces DEF Of
  <2>2. PICK n \in DOMAIN asked : t[l] = asked[n] /\ l = IF n < i THEN n ELSE n - 1
    BY LeftPlaces DEF Of
  <2>3. m = n
    BY <2>1, <2>2 DEF Of, Single
  <2> QED
    BY <2>1, <2>2, <2>3
<1>2. asked[i].kind = kind => Idle(t, kind)
  BY LeftPlaces DEF Of, Idle, Single
<1> QED
  BY <1>1, <1>2 DEF Single

\* The server answers one; the others, and the kinds, stay.
LEMMA ServedWaits ==
    ASSUME MemberTypes, NEW i \in DOMAIN asked, ServeAsked(i), NEW q, Waits(asked', q)
    PROVE  q = asked'[i] \/ Waits(asked, q)
  BY ServedIs DEF Waits

LEMMA ServedIdle ==
    ASSUME MemberTypes, NEW i \in DOMAIN asked, ServeAsked(i), NEW kind
    PROVE  /\ Idle(asked', kind) <=> Idle(asked, kind)
           /\ Single(asked, kind) => Single(asked', kind)
<1>1. \A j : j \in Of(asked', kind) <=> j \in Of(asked, kind)
  BY ServedIs DEF Of
<1>2. Idle(asked', kind) <=> Idle(asked, kind)
  BY ServedIs DEF Idle
<1>3. Single(asked, kind) => Single(asked', kind)
  BY <1>1 DEF Single
<1> QED
  BY <1>2, <1>3

LEMMA ServedNewest ==
    ASSUME MemberTypes, NEW i \in DOMAIN asked, ServeAsked(i),
           NEW kind, NEW q, Newest(asked', kind, q)
    PROVE  Newest(asked, kind, q) \/ (q = asked'[i] /\ kind = asked[i].kind)
<1>1. PICK j \in DOMAIN asked' : LastOf(asked', kind, j) /\ asked'[j] = q
  BY DEF Newest
<1>2. \A k : k \in Of(asked', kind) <=> k \in Of(asked, kind)
  BY ServedIs DEF Of
<1>3. LastOf(asked, kind, j) /\ j \in DOMAIN asked
  BY <1>1, <1>2, ServedIs DEF LastOf
<1>4. CASE j = i
  BY <1>1, <1>3, <1>4 DEF LastOf, Of
<1>5. CASE j # i
  <2>1. asked[j] = q
    BY <1>1, <1>3, <1>5, ServedIs
  <2> QED
    BY <1>3, <2>1 DEF Newest
<1> QED
  BY <1>4, <1>5

\* While a page is shown nothing is searched for; what it waits for is about its
\* member, and it waits for one assignment at most, the last one chosen.
OfThePage ==
    /\ page # Nothing =>
         Idle(asked, "search") /\ (page.object = "list" => text = Partial)
    /\ \A r \in Asked : Waits(asked, r) /\ r.kind \in {"modify", "info"} =>
         r.about = page.member
    /\ \A r \in Asked : Waits(asked, r) /\ r.kind = "modify" =>
         /\ r.to = page.chosen
         /\ r.answer # Nothing => maintainer[page.member] = page.chosen
    /\ Single(asked, "modify")

\* The last list asked for was asked for when the page was left, and nothing has
\* been assigned since.
ListDue ==
    page = Nothing /\ "list" \in sound =>
        /\ Idle(asked, "list") => individuals = maintainer
        /\ \A r \in Asked : Newest(asked, "list", r) => r.answer \in {Nothing, maintainer}

SearchDue ==
    \A r \in Asked : Waits(asked, r) /\ r.kind = "search" =>
        r.answer \in {Nothing, [m \in Matches(r.about) |-> maintainer[m]]}

\* What the server has for a member, or is about to have.
Due(m) ==
    IF ~ Idle(asked, "modify") /\ m = page.member THEN page.chosen ELSE maintainer[m]

ResultsDue ==
    Idle(asked, "search") /\ "results" \in sound =>
        results = IF text = Partial THEN Empty ELSE [m \in Matches(text) |-> Due(m)]

\* The member is read last after the last assignment.
PageDue ==
    "page" \in sound =>
        /\ page # Nothing /\ Idle(asked, "modify")
        /\ maintainer[page.member] = page.chosen
        /\ Idle(asked, "info") => page.value = page.chosen
        /\ \A r \in Asked : Newest(asked, "info", r) =>
              r.answer = Nothing \/ r.answer[page.member] = page.chosen

Agreement == OfThePage /\ ListDue /\ SearchDue /\ ResultsDue /\ PageDue

LEMMA MemberInitAgrees == MemberInit => Agreement
<1> SUFFICES ASSUME MemberInit PROVE Agreement
  OBVIOUS
<1>1. DOMAIN asked = {1} /\ asked[1].kind = "list" /\ asked[1].answer = Nothing
  BY DEF MemberInit, Ask
<1>2. Idle(asked, "modify") /\ Idle(asked, "search") /\ ~ Idle(asked, "list")
  BY <1>1 DEF Idle
<1>3. \A r : Waits(asked, r) => r.kind = "list" /\ r.answer = Nothing
  BY <1>1 DEF Waits
<1>4. \A r : Newest(asked, "list", r) => r.answer = Nothing
  BY <1>1 DEF Newest
<1>5. Single(asked, "modify")
  BY <1>1 DEF Single, Of
<1>6. OfThePage
  BY <1>3, <1>5 DEF OfThePage, MemberInit
<1>7. ListDue
  BY <1>2, <1>4 DEF ListDue
<1>8. SearchDue
  BY <1>3 DEF SearchDue
<1>9. ResultsDue /\ PageDue
  BY DEF ResultsDue, PageDue, MemberInit
<1> QED
  BY <1>6, <1>7, <1>8, <1>9 DEF Agreement

LEMMA SearchKeepsAgreement ==
    ASSUME MemberTypes, Agreement, NEW t \in Texts \cup {Partial},
           DoSearch(t) \/ (PressSearchKey /\ t = text)
    PROVE  Agreement'
<1>0. /\ page = Nothing /\ page' = page /\ asked \in Seq(Asked)
      /\ UNCHANGED <<maintainer, individuals>>
      /\ (sound' = sound \cup {"results"} \/ sound' = sound)
  BY DEF DoSearch, PressSearchKey, MemberTypes, MemberTypeOK
<1>1. CASE t = Partial
  <2>1. asked' = asked /\ results' = Empty /\ text' = Partial
    BY <1>1 DEF DoSearch, PressSearchKey
  <2> QED
    BY <1>0, <2>1 DEF Agreement, OfThePage, ListDue, SearchDue, ResultsDue, PageDue
<1>2. CASE t # Partial
  <2> DEFINE q == Ask("search", t, Nothing)
  <2>1. asked' = Append(asked, q) /\ t \in Texts
    BY <1>2 DEF DoSearch, PressSearchKey
  <2>2. q \in Asked /\ q.kind = "search" /\ q.answer = Nothing
    BY <2>1, AskIsAsked
  <2> HIDE DEF q
  <2>3. \A r \in Asked : Waits(asked', r) => r = q \/ Waits(asked, r)
    BY <1>0, <2>1, <2>2, AskedWaits
  <2>4. OfThePage'
    <3>1. Idle(asked, "modify")
      BY <1>0 DEF MemberTypes, PageThere
    <3>2. Idle(asked', "modify")
      BY <1>0, <2>1, <2>2, <3>1, AskedIdle
    <3>3. Single(asked', "modify")
      BY <3>2 DEF Single, Of, Idle
    <3>4. UNCHANGED <<page, maintainer>> /\ OfThePage
      BY <1>0 DEF Agreement
    <3> QED
      BY <1>0, <2>2, <2>3, <3>3, <3>4 DEF OfThePage
  <2>5. ListDue'
    <3>1. Idle(asked', "list") <=> Idle(asked, "list")
      BY <1>0, <2>1, <2>2, AskedIdle
    <3>2. \A r \in Asked : Newest(asked', "list", r) => Newest(asked, "list", r)
      BY <1>0, <2>1, <2>2, AskedNewest
    <3> QED
      BY <1>0, <3>1, <3>2 DEF Agreement, ListDue
  <2>6. SearchDue'
    BY <1>0, <2>2, <2>3 DEF Agreement, SearchDue
  <2>7. ResultsDue'
    <3>1. ~ Idle(asked', q.kind)
      BY <1>0, <2>1, <2>2, AskedBusy
    <3> QED
      BY <2>2, <3>1 DEF ResultsDue
  <2>8. PageDue'
    BY <1>0 DEF Agreement, PageDue
  <2> QED
    BY <2>4, <2>5, <2>6, <2>7, <2>8 DEF Agreement
<1> QED
  BY <1>1, <1>2

LEMMA InfoKeepsAgreement ==
    ASSUME MemberTypes, Agreement, NEW m \in Individuals, ShowIndividualInfo(m)
    PROVE  Agreement'
<1>0. page = Nothing /\ UNCHANGED <<maintainer, individuals, results, text, asked, sound>>
  BY DEF ShowIndividualInfo
<1>1. Idle(asked, "search") /\ Idle(asked, "modify") /\ Idle(asked, "info")
  BY DEF ShowIndividualInfo, TouchesBlocked, InFlight, Idle, MemberTypes, PageThere
<1>2. page'.object = "list" => text = Partial
  BY DEF ShowIndividualInfo
<1>3. \A r : Waits(asked, r) => r.kind \notin {"modify", "info"}
  BY <1>1 DEF Waits, Idle
<1>4. OfThePage'
  BY <1>0, <1>1, <1>2, <1>3 DEF Agreement, OfThePage
<1>5. page' # Nothing
  BY ShownPage, NothingAssumption
<1>6. ListDue' /\ SearchDue'
  BY <1>0, <1>5 DEF Agreement, ListDue, SearchDue
<1>7. ResultsDue'
  BY <1>0, <1>1 DEF Agreement, ResultsDue, Due
<1>8. PageDue'
  BY <1>0 DEF Agreement, PageDue
<1> QED
  BY <1>4, <1>6, <1>7, <1>8 DEF Agreement

LEMMA SelectKeepsAgreement ==
    ASSUME MemberTypes, Agreement, NEW e \in Maintainers, OnDidSelectEmployee(e)
    PROVE  Agreement'
<1> DEFINE q == Ask("modify", page.member, e)
<1>0. /\ page # Nothing /\ page \in Pages /\ asked \in Seq(Asked) /\ asked' = Append(asked, q)
      /\ UNCHANGED <<maintainer, text>> /\ maintainer \in [Individuals -> Values]
  BY DEF OnDidSelectEmployee, MemberTypes, MemberTypeOK
<1>1. Idle(asked, "search") /\ Idle(asked, "modify")
  BY DEF OnDidSelectEmployee, TouchesBlocked, InFlight, Idle
<1>2. /\ q \in Asked /\ q.kind = "modify" /\ q.answer = Nothing
      /\ q.about = page.member /\ q.to = e
  BY <1>0, AskIsAsked DEF Pages
<1>3. /\ page' # Nothing /\ page'.member = page.member /\ page'.chosen = e
      /\ page'.object = page.object
  <2>1. page' = [page EXCEPT !.value = e, !.chosen = e] /\ e \in Values
    BY DEF OnDidSelectEmployee, Values
  <2>2. /\ page' \in Pages /\ page'.member = page.member /\ page'.chosen = e
        /\ page'.object = page.object
    BY <1>0, <2>1 DEF Pages
  <2> QED
    BY <2>2, NothingAssumption
<1> HIDE DEF q
<1>4. \A r \in Asked : Waits(asked', r) => r = q \/ Waits(asked, r)
  BY <1>0, <1>2, AskedWaits
<1>5. ~ Idle(asked', "modify")
  BY <1>0, <1>2, AskedBusy
<1>6. Single(asked', "modify")
  BY <1>0, <1>1, <1>2, AskedSingle
<1>7. Idle(asked', "search")
  BY <1>0, <1>1, <1>2, AskedIdle
<1>8. \A r : Waits(asked, r) => r.kind \notin {"modify", "search"}
  BY <1>1 DEF Waits, Idle
<1>9. OfThePage'
  BY <1>0, <1>2, <1>3, <1>4, <1>6, <1>7, <1>8 DEF Agreement, OfThePage
<1>10. ListDue'
  BY <1>3 DEF ListDue
<1>11. SearchDue'
  BY <1>2, <1>4, <1>8 DEF SearchDue
<1>12. ResultsDue'
  <2> SUFFICES ASSUME "results" \in sound'
               PROVE  results' = IF text' = Partial THEN Empty
                                 ELSE [m \in Matches(text') |-> Due(m)']
    BY DEF ResultsDue
  <2>1. page.object # "own" /\ "results" \in sound
    BY DEF OnDidSelectEmployee
  <2>2. results = IF text = Partial THEN Empty ELSE [m \in Matches(text) |-> maintainer[m]]
    <3>1. \A m : Due(m) = maintainer[m]
      BY <1>1 DEF Due
    <3> QED
      BY <1>1, <2>1, <3>1 DEF Agreement, ResultsDue
  <2>3. \A m : Due(m)' = IF m = page.member THEN e ELSE maintainer[m]
    BY <1>0, <1>3, <1>5 DEF Due
  <2>4. CASE text = Partial
    <3>1. results' = results
      <4>1. results = Empty /\ [results EXCEPT ![page.member] = e] = Empty
        BY <2>2, <2>4 DEF Empty
      <4> QED
        BY <4>1 DEF OnDidSelectEmployee, Shared
    <3> QED
      BY <1>0, <2>2, <2>4, <3>1
  <2>5. CASE text # Partial
    <3>1. page.object = "results"
      BY <1>0, <2>1, <2>5 DEF Agreement, OfThePage, Pages
    <3>2. results' = [results EXCEPT ![page.member] = e]
      BY <3>1 DEF OnDidSelectEmployee, Shared
    <3>3. results = [m \in Matches(text) |-> maintainer[m]]
      BY <2>2, <2>5
    <3>4. results' = [m \in Matches(text) |-> IF m = page.member THEN e ELSE maintainer[m]]
      BY <3>2, <3>3
    <3> QED
      BY <1>0, <2>3, <2>5, <3>4
  <2> QED
    BY <2>4, <2>5
<1>13. PageDue'
  BY DEF OnDidSelectEmployee, PageDue
<1> QED
  BY <1>9, <1>10, <1>11, <1>12, <1>13 DEF Agreement

LEMMA BackKeepsAgreement ==
    ASSUME MemberTypes, Agreement, OnClickBackBtn
    PROVE  Agreement'
<1> DEFINE q == Ask("list", Nothing, Nothing)
<1>1. q \in Asked /\ q.kind = "list" /\ q.answer = Nothing
  BY AskIsAsked
<1>2. /\ Abandoned \in Seq(Asked) /\ DOMAIN Abandoned = DOMAIN asked
      /\ \A i \in DOMAIN asked :
            /\ asked[i].kind # "info" => Abandoned[i] = asked[i]
            /\ asked[i].kind = "info" => Abandoned[i].kind = "gone"
      /\ asked' = Append(Abandoned, q)
  BY AbandonedAre DEF MemberTypes, OnClickBackBtn
<1> HIDE DEF q
<1>3. /\ page # Nothing /\ page' = Nothing
      /\ UNCHANGED <<maintainer, individuals, results, text>>
      /\ "page" \notin sound' /\ ("results" \in sound' => "results" \in sound)
  BY DEF OnClickBackBtn
<1>4. Idle(asked, "search") /\ Idle(asked, "modify")
  BY DEF OnClickBackBtn, TouchesBlocked, InFlight, Idle
<1>5. Idle(Abandoned, "search") /\ Idle(Abandoned, "modify") /\ Idle(Abandoned, "info")
  BY <1>2, <1>4 DEF Idle
<1>6. Idle(asked', "search") /\ Idle(asked', "modify") /\ Idle(asked', "info")
  BY <1>1, <1>2, <1>5, AskedIdle
<1>7. ~ Idle(asked', "list")
  BY <1>1, <1>2, AskedBusy
<1>8. \A r \in Asked : Newest(asked', "list", r) => r = q
  <2>1. \A r \in Asked : Newest(asked', q.kind, r) => r = q
    BY <1>1, <1>2, AskedIsNewest
  <2> QED
    BY <1>1, <2>1
<1>9. \A r : Waits(asked', r) => r.kind \notin {"modify", "info", "search"}
  BY <1>6 DEF Waits, Idle
<1>10. OfThePage'
  <2>1. Single(asked', "modify")
    BY <1>6 DEF Single, Of, Idle
  <2> QED
    BY <1>3, <1>9, <2>1 DEF OfThePage
<1>11. ListDue'
  BY <1>1, <1>7, <1>8 DEF ListDue
<1>12. ResultsDue'
  BY <1>3, <1>4, <1>6 DEF Agreement, ResultsDue, Due
<1>13. SearchDue' /\ PageDue'
  BY <1>3, <1>9 DEF SearchDue, PageDue
<1> QED
  BY <1>10, <1>11, <1>12, <1>13 DEF Agreement

LEMMA ServeKeepsAgreement ==
    ASSUME MemberTypes, Agreement, NEW i \in DOMAIN asked, ServeAsked(i)
    PROVE  Agreement'
<1> DEFINE a == asked[i]
           b == asked'[i]
<1>0. /\ UNCHANGED <<individuals, results, text, page, sound>>
      /\ maintainer \in [Individuals -> Values] /\ maintainer' \in [Individuals -> Values]
      /\ asked \in Seq(Asked) /\ asked' \in Seq(Asked)
  BY ServedIs DEF ServeAsked, MemberTypes, MemberTypeOK
<1>1. a \in Asked /\ Waits(asked, a) /\ a.answer = Nothing
  BY <1>0, Element DEF Waits, ServeAsked
<1>2. /\ b \in Asked /\ b.kind = a.kind /\ b.about = a.about /\ b.to = a.to
      /\ b.answer = [m \in Found(a) |-> maintainer'[m]]
  <2>1. i \in DOMAIN asked'
    BY ServedIs
  <2> QED
    BY <1>0, <2>1, Element, ServedIs
<1>3. IF a.kind = "modify" THEN maintainer' = [maintainer EXCEPT ![a.about] = a.to]
                           ELSE maintainer' = maintainer
  BY DEF ServeAsked
<1>4. \A r \in Asked : Waits(asked', r) => r = b \/ Waits(asked, r)
  BY ServedWaits
<1>5. a.kind = "modify" => /\ ~ Idle(asked, "modify") /\ page # Nothing
                           /\ a.about = page.member /\ a.to = page.chosen
                           /\ page.member \in Individuals
  <2> SUFFICES ASSUME a.kind = "modify"
               PROVE  /\ ~ Idle(asked, "modify") /\ page # Nothing
                      /\ a.about = page.member /\ a.to = page.chosen
                      /\ page.member \in Individuals
    OBVIOUS
  <2>1. ~ Idle(asked, "modify") /\ page # Nothing
    BY DEF Idle, MemberTypes, PageThere
  <2>2. a.about = page.member /\ a.to = page.chosen
    BY <1>1 DEF Agreement, OfThePage
  <2>3. page.member \in Individuals
    BY <1>1, <2>2, AskedFields
  <2> QED
    BY <2>1, <2>2, <2>3
<1>6. a.kind = "modify" => maintainer'[page.member] = page.chosen
  BY <1>0, <1>3, <1>5
<1> HIDE DEF a, b
<1>7. OfThePage'
  <2>1. ASSUME NEW r \in Asked, Waits(asked', r), r.kind \in {"modify", "info"}
        PROVE  r.about = page.member
    BY <1>1, <1>2, <1>4, <2>1 DEF Agreement, OfThePage
  <2>2. ASSUME NEW r \in Asked, Waits(asked', r), r.kind = "modify"
        PROVE  r.to = page.chosen /\ (r.answer # Nothing => maintainer'[page.member] = page.chosen)
    <3>1. CASE r = b
      BY <1>2, <1>5, <1>6, <2>2, <3>1
    <3>2. CASE r # b
      <4>1. Waits(asked, r)
        BY <1>4, <2>2, <3>2
      <4>2. /\ r.to = page.chosen
            /\ r.answer # Nothing => maintainer[page.member] = page.chosen
        BY <2>2, <4>1 DEF Agreement, OfThePage
      <4> QED
        BY <1>3, <1>6, <4>2
    <3> QED
      BY <3>1, <3>2
  <2>3. Single(asked', "modify") /\ (Idle(asked', "search") <=> Idle(asked, "search"))
    BY ServedIdle DEF Agreement, OfThePage
  <2> QED
    BY <1>0, <2>1, <2>2, <2>3 DEF Agreement, OfThePage
<1>8. ListDue'
  <2> SUFFICES ASSUME page = Nothing, "list" \in sound
               PROVE  /\ Idle(asked', "list") => individuals = maintainer'
                      /\ \A r \in Asked : Newest(asked', "list", r) =>
                            r.answer \in {Nothing, maintainer'}
    BY <1>0 DEF ListDue
  <2>1. maintainer' = maintainer
    BY <1>3, <1>5
  <2>2. Idle(asked', "list") <=> Idle(asked, "list")
    BY ServedIdle
  <2>3. ASSUME NEW r \in Asked, Newest(asked', "list", r)
        PROVE  r.answer \in {Nothing, maintainer'}
    <3>1. CASE Newest(asked, "list", r)
      BY <2>1, <3>1 DEF Agreement, ListDue
    <3>2. CASE r = b /\ a.kind = "list"
      <4>1. Found(a) = Individuals
        BY <3>2 DEF Found
      <4>2. r.answer = [m \in Individuals |-> maintainer'[m]]
        BY <1>2, <3>2, <4>1
      <4> QED
        BY <1>0, <4>2
    <3> QED
      BY <2>3, <3>1, <3>2, ServedNewest DEF a, b
  <2> QED
    BY <2>1, <2>2, <2>3 DEF Agreement, ListDue
<1>9. SearchDue'
  <2> SUFFICES ASSUME NEW r \in Asked, Waits(asked', r), r.kind = "search"
               PROVE  r.answer \in {Nothing, [m \in Matches(r.about) |-> maintainer'[m]]}
    BY DEF SearchDue
  <2>1. CASE r = b
    <3>1. Found(a) = Matches(r.about)
      BY <1>2, <2>1 DEF Found
    <3> QED
      BY <1>2, <2>1, <3>1
  <2>2. CASE Waits(asked, r)
    <3>1. page = Nothing
      BY <2>2 DEF Agreement, OfThePage, Waits, Idle
    <3>2. maintainer' = maintainer
      BY <1>3, <1>5, <3>1
    <3> QED
      BY <2>2, <3>2 DEF Agreement, SearchDue
  <2> QED
    BY <1>4, <2>1, <2>2
<1>10. ResultsDue'
  <2> SUFFICES ASSUME Idle(asked', "search"), "results" \in sound
               PROVE  results = IF text = Partial THEN Empty
                                ELSE [m \in Matches(text) |-> Due(m)']
    BY <1>0 DEF ResultsDue
  <2>1. results = IF text = Partial THEN Empty ELSE [m \in Matches(text) |-> Due(m)]
    <3>1. Idle(asked, "search")
      BY ServedIdle
    <3> QED
      BY <3>1 DEF Agreement, ResultsDue
  <2>2. Idle(asked', "modify") <=> Idle(asked, "modify")
    BY ServedIdle
  <2>3. ASSUME NEW m \in Individuals
        PROVE  Due(m)' = Due(m)
    <3>1. m # page.member => maintainer'[m] = maintainer[m]
      BY <1>0, <1>3, <1>5
    <3>2. Idle(asked, "modify") => maintainer' = maintainer
      BY <1>3, <1>5
    <3> QED
      BY <1>0, <2>2, <3>1, <3>2 DEF Due
  <2>4. text # Partial => Matches(text) \subseteq Individuals
    BY MembersAssumption DEF MemberTypes, MemberTypeOK
  <2>5. text # Partial => [m \in Matches(text) |-> Due(m)] = [m \in Matches(text) |-> Due(m)']
    BY <2>3, <2>4
  <2> QED
    BY <2>1, <2>5
<1>11. PageDue'
  <2> SUFFICES ASSUME "page" \in sound
               PROVE  /\ page # Nothing /\ Idle(asked', "modify")
                      /\ maintainer'[page.member] = page.chosen
                      /\ Idle(asked', "info") => page.value = page.chosen
                      /\ \A r \in Asked : Newest(asked', "info", r) =>
                            r.answer = Nothing \/ r.answer[page.member] = page.chosen
    BY <1>0 DEF PageDue
  <2>1. PageDue /\ Idle(asked, "modify") /\ maintainer[page.member] = page.chosen
    BY DEF Agreement, PageDue
  <2>2. maintainer' = maintainer
    BY <1>3, <1>5, <2>1
  <2>3. Idle(asked', "modify") /\ (Idle(asked', "info") <=> Idle(asked, "info"))
    BY <2>1, ServedIdle
  <2>4. ASSUME NEW r \in Asked, Newest(asked', "info", r)
        PROVE  r.answer = Nothing \/ r.answer[page.member] = page.chosen
    <3>1. CASE Newest(asked, "info", r)
      BY <2>1, <3>1 DEF PageDue
    <3>2. CASE r = b /\ a.kind = "info"
      <4>1. a.about = page.member
        BY <1>1, <3>2 DEF Agreement, OfThePage
      <4>2. Found(a) = {page.member}
        BY <3>2, <4>1 DEF Found
      <4> QED
        BY <1>2, <2>1, <2>2, <3>2, <4>2
    <3> QED
      BY <2>4, <3>1, <3>2, ServedNewest DEF a, b
  <2> QED
    BY <2>1, <2>2, <2>3, <2>4 DEF PageDue
<1> QED
  BY <1>7, <1>8, <1>9, <1>10, <1>11 DEF Agreement

LEMMA LeftIdleKept ==
    ASSUME MemberTypes, NEW i \in DOMAIN asked, NEW t, t = RemoveAt(asked, i),
           NEW kind, Idle(asked, kind)
    PROVE  Idle(t, kind)
  BY LeftPlaces DEF Idle

\* The page is the same, or has another object for the same member.
SamePage ==
    /\ page' = Nothing <=> page = Nothing
    /\ page # Nothing => /\ page'.member = page.member /\ page'.chosen = page.chosen
                         /\ page'.object \in {page.object, "own"}

\* Something is answered or lost: what is still in flight stays as good as it was.
LEMMA LeavingKeepsPage ==
    ASSUME MemberTypes, Agreement, NEW i \in DOMAIN asked, asked' = RemoveAt(asked, i),
           UNCHANGED <<maintainer, text>>, SamePage
    PROVE  OfThePage' /\ SearchDue'
<1>1. \A r \in Asked : Waits(asked', r) => Waits(asked, r)
  BY LeftWaits
<1>2. Single(asked', "modify")
  BY LeftSingle DEF Agreement, OfThePage
<1>3. page # Nothing => Idle(asked', "search")
  BY LeftIdleKept DEF Agreement, OfThePage
<1>4. ASSUME NEW r \in Asked, Waits(asked', r), r.kind \in {"modify", "info"}
      PROVE  page # Nothing
  BY <1>1, <1>4 DEF MemberTypes, PageThere, Waits, Idle
<1>5. OfThePage'
  BY <1>1, <1>2, <1>3, <1>4 DEF Agreement, OfThePage, SamePage
<1>6. SearchDue'
  BY <1>1 DEF Agreement, SearchDue
<1> QED
  BY <1>5, <1>6

LEMMA LeavingKeepsList ==
    ASSUME MemberTypes, Agreement, NEW i \in DOMAIN asked, asked' = RemoveAt(asked, i),
           UNCHANGED <<maintainer, individuals>>, SamePage,
           "list" \in sound' => "list" \in sound /\ asked[i].kind # "list"
    PROVE  ListDue'
<1> SUFFICES ASSUME page = Nothing, "list" \in sound'
             PROVE  /\ Idle(asked', "list") => individuals = maintainer
                    /\ \A r \in Asked : Newest(asked', "list", r) =>
                          r.answer \in {Nothing, maintainer}
  BY DEF ListDue, SamePage
<1>1. Idle(asked', "list") => Idle(asked, "list")
  BY LeftIdle
<1>2. \A r \in Asked : Newest(asked', "list", r) => Newest(asked, "list", r)
  BY LeftNewest
<1> QED
  BY <1>1, <1>2 DEF Agreement, ListDue

LEMMA LeavingKeepsDue ==
    ASSUME MemberTypes, Agreement, NEW i \in DOMAIN asked, asked' = RemoveAt(asked, i),
           UNCHANGED maintainer, SamePage, asked[i].kind # "modify", NEW m
    PROVE  Due(m)' = Due(m)
<1>1. Idle(asked', "modify") <=> Idle(asked, "modify")
  BY LeftIdle
<1>2. ~ Idle(asked, "modify") => page # Nothing
  BY DEF MemberTypes, PageThere
<1> QED
  BY <1>1, <1>2 DEF Due, SamePage

LEMMA LeavingKeepsResults ==
    ASSUME MemberTypes, Agreement, NEW i \in DOMAIN asked, asked' = RemoveAt(asked, i),
           UNCHANGED <<maintainer, results, text>>, SamePage,
           "results" \in sound' =>
                "results" \in sound /\ asked[i].kind \notin {"search", "modify"}
    PROVE  ResultsDue'
<1> SUFFICES ASSUME Idle(asked', "search"), "results" \in sound'
             PROVE  results = IF text = Partial THEN Empty
                              ELSE [m \in Matches(text) |-> Due(m)']
  BY DEF ResultsDue
<1>1. Idle(asked, "search")
  BY LeftIdle
<1>2. \A m : Due(m)' = Due(m)
  BY LeavingKeepsDue
<1> QED
  BY <1>1, <1>2 DEF Agreement, ResultsDue

LEMMA LeavingKeepsRead ==
    ASSUME MemberTypes, Agreement, NEW i \in DOMAIN asked, asked' = RemoveAt(asked, i),
           UNCHANGED maintainer, SamePage, page # Nothing => page'.value = page.value,
           "page" \in sound' => "page" \in sound /\ asked[i].kind # "info"
    PROVE  PageDue'
<1> SUFFICES ASSUME "page" \in sound'
             PROVE  /\ page' # Nothing /\ Idle(asked', "modify")
                    /\ maintainer[page'.member] = page'.chosen
                    /\ Idle(asked', "info") => page'.value = page'.chosen
                    /\ \A r \in Asked : Newest(asked', "info", r) =>
                          r.answer = Nothing \/ r.answer[page'.member] = page'.chosen
  BY DEF PageDue
<1>1. PageDue /\ page # Nothing /\ Idle(asked, "modify")
  BY DEF Agreement, PageDue
<1>2. Idle(asked', "modify")
  BY <1>1, LeftIdleKept
<1>3. Idle(asked', "info") => Idle(asked, "info")
  BY LeftIdle
<1>4. \A r \in Asked : Newest(asked', "info", r) => Newest(asked, "info", r)
  BY LeftNewest
<1> QED
  BY <1>1, <1>2, <1>3, <1>4 DEF PageDue, SamePage

LEMMA LoseKeepsAgreement ==
    ASSUME MemberTypes, Agreement, NEW i \in DOMAIN asked, LoseAnswer(i)
    PROVE  Agreement'
<1>1. /\ asked' = RemoveAt(asked, i)
      /\ UNCHANGED <<maintainer, individuals, results, text, page>>
  BY DEF LoseAnswer
<1>2. SamePage
  BY <1>1 DEF SamePage
<1>3. /\ \A part \in sound' : part \in sound
      /\ "list" \in sound' => asked[i].kind # "list"
      /\ "results" \in sound' => asked[i].kind \notin {"search", "modify"}
      /\ "page" \in sound' => asked[i].kind # "info"
  BY DEF LoseAnswer, Parts
<1>4. OfThePage' /\ SearchDue'
  BY <1>1, <1>2, LeavingKeepsPage
<1>5. ListDue'
  BY <1>1, <1>2, <1>3, LeavingKeepsList
<1>6. ResultsDue'
  BY <1>1, <1>2, <1>3, LeavingKeepsResults
<1>7. PageDue'
  BY <1>1, <1>2, <1>3, LeavingKeepsRead
<1> QED
  BY <1>4, <1>5, <1>6, <1>7 DEF Agreement

LEMMA GoneKeepsAgreement ==
    ASSUME MemberTypes, Agreement, NEW i \in DOMAIN asked, GoneAnswered(i)
    PROVE  Agreement'
<1>1. /\ asked' = RemoveAt(asked, i) /\ asked[i].kind = "gone"
      /\ UNCHANGED <<maintainer, individuals, results, text, page, sound>>
  BY DEF GoneAnswered
<1>2. SamePage
  BY <1>1 DEF SamePage
<1>4. OfThePage' /\ SearchDue'
  BY <1>1, <1>2, LeavingKeepsPage
<1>5. ListDue'
  BY <1>1, <1>2, LeavingKeepsList
<1>6. ResultsDue'
  BY <1>1, <1>2, LeavingKeepsResults
<1>7. PageDue'
  BY <1>1, <1>2, LeavingKeepsRead
<1> QED
  BY <1>4, <1>5, <1>6, <1>7 DEF Agreement

LEMMA KeptIsSamePage ==
    ASSUME MemberTypes, NEW where, page' = Kept(where)
    PROVE  SamePage /\ (page # Nothing => page'.value = page.value)
  BY KeptIs DEF SamePage

LEMMA AnswerWaits ==
    ASSUME MemberTypes, NEW i \in DOMAIN asked
    PROVE  asked[i] \in Asked /\ Waits(asked, asked[i])
<1>1. asked \in Seq(Asked)
  BY DEF MemberTypes, MemberTypeOK
<1> QED
  BY <1>1, Element DEF Waits

LEMMA ListAnsweredKeepsAgreement ==
    ASSUME MemberTypes, Agreement, NEW i \in DOMAIN asked, asked[i].answer # Nothing,
           ListAnswered(i)
    PROVE  Agreement'
<1>1. /\ asked' = RemoveAt(asked, i) /\ asked[i].kind = "list"
      /\ UNCHANGED <<maintainer, results, text>> /\ individuals' = asked[i].answer
      /\ "results" \in sound' => "results" \in sound
      /\ "page" \in sound' => "page" \in sound
      /\ "list" \in sound' => "list" \in sound /\ ~ Overtaking(i)
  BY DEF ListAnswered
<1>2. SamePage /\ (page # Nothing => page'.value = page.value)
  BY KeptIsSamePage DEF ListAnswered
<1>3. ListDue'
  <2> SUFFICES ASSUME page = Nothing, "list" \in sound'
               PROVE  /\ Idle(asked', "list") => individuals' = maintainer
                      /\ \A r \in Asked : Newest(asked', "list", r) =>
                            r.answer \in {Nothing, maintainer}
    BY <1>1, <1>2 DEF ListDue, SamePage
  <2>1. \A r \in Asked : Newest(asked, "list", r) => r.answer \in {Nothing, maintainer}
    BY <1>1 DEF Agreement, ListDue
  <2>2. Idle(asked', "list") => Newest(asked, "list", asked[i])
    BY <1>1, LeftIdle
  <2>3. \A r \in Asked : Newest(asked', "list", r) => Newest(asked, "list", r)
    BY <1>1, LeftNewest
  <2> QED
    BY <1>1, <2>1, <2>2, <2>3, AnswerWaits
<1>4. OfThePage' /\ SearchDue'
  BY <1>1, <1>2, LeavingKeepsPage
<1>6. ResultsDue'
  BY <1>1, <1>2, LeavingKeepsResults
<1>7. PageDue'
  BY <1>1, <1>2, LeavingKeepsRead
<1> QED
  BY <1>3, <1>4, <1>6, <1>7 DEF Agreement

LEMMA SearchAnsweredKeepsAgreement ==
    ASSUME MemberTypes, Agreement, NEW i \in DOMAIN asked, asked[i].answer # Nothing,
           SearchAnswered(i)
    PROVE  Agreement'
<1>1. /\ asked' = RemoveAt(asked, i) /\ asked[i].kind = "search"
      /\ UNCHANGED <<maintainer, individuals, text>> /\ results' = asked[i].answer
      /\ "list" \in sound' => "list" \in sound
      /\ "page" \in sound' => "page" \in sound
      /\ "results" \in sound' => asked[i].about = text
  BY DEF SearchAnswered
<1>2. SamePage /\ (page # Nothing => page'.value = page.value)
  BY KeptIsSamePage DEF SearchAnswered
<1>3. ResultsDue'
  <2> SUFFICES ASSUME "results" \in sound'
               PROVE  results' = IF text = Partial THEN Empty
                                 ELSE [m \in Matches(text) |-> Due(m)']
    BY <1>1 DEF ResultsDue
  <2>1. asked[i].about = text /\ text # Partial
    BY <1>1, AnswerWaits, AskedFields, MembersAssumption
  <2>2. page = Nothing
    BY <1>1 DEF Agreement, OfThePage, Idle
  <2>3. Idle(asked, "modify")
    BY <2>2 DEF MemberTypes, PageThere
  <2>4. Idle(asked', "modify")
    BY <1>1, <2>3, LeftIdleKept
  <2>5. results' = [m \in Matches(text) |-> maintainer[m]]
    BY <1>1, <2>1, AnswerWaits DEF Agreement, SearchDue
  <2>6. \A m : Due(m)' = maintainer[m]
    BY <1>1, <2>4 DEF Due
  <2> QED
    BY <2>1, <2>5, <2>6
<1>4. OfThePage' /\ SearchDue'
  BY <1>1, <1>2, LeavingKeepsPage
<1>5. ListDue'
  BY <1>1, <1>2, LeavingKeepsList
<1>7. PageDue'
  BY <1>1, <1>2, LeavingKeepsRead
<1> QED
  BY <1>3, <1>4, <1>5, <1>7 DEF Agreement

LEMMA ModifyAnsweredKeepsAgreement ==
    ASSUME MemberTypes, Agreement, NEW i \in DOMAIN asked, asked[i].answer # Nothing,
           ModifyAnswered(i)
    PROVE  Agreement'
<1> DEFINE left == RemoveAt(asked, i)
           q == Ask("info", page.member, Nothing)
<1>1. /\ asked[i].kind = "modify" /\ asked' = Append(left, q)
      /\ UNCHANGED <<maintainer, individuals, results, text, page>>
      /\ "results" \in sound' => "results" \in sound
  BY DEF ModifyAnswered
<1>2. /\ ~ Idle(asked, "modify") /\ page # Nothing /\ page.member = asked[i].about
      /\ maintainer[page.member] = page.chosen
  BY <1>1, AnswerWaits DEF Agreement, OfThePage, MemberTypes, PageThere, Idle
<1>3. /\ q \in Asked /\ q.kind = "info" /\ q.about = page.member /\ q.answer = Nothing
  <2>1. page.member \in Individuals
    BY <1>1, <1>2, AnswerWaits, AskedFields
  <2> QED
    BY <2>1, AskIsAsked
<1>4. left \in Seq(Asked)
  BY LeftIsSeq
<1>5. \A r \in Asked : Waits(left, r) => Waits(asked, r)
  BY LeftWaits
<1>6. Idle(left, "modify")
  BY <1>1, LeftSingle DEF Agreement, OfThePage
<1>7. Idle(left, "search") <=> Idle(asked, "search")
  BY <1>1, LeftIdle
<1> HIDE DEF left, q
<1>8. \A r \in Asked : Waits(asked', r) => r = q \/ Waits(asked, r)
  BY <1>1, <1>3, <1>4, <1>5, AskedWaits
<1>9. Idle(asked', "modify") /\ (Idle(asked', "search") <=> Idle(asked, "search"))
  <2>1. Idle(asked', "modify") <=> Idle(left, "modify")
    BY <1>1, <1>3, <1>4, AskedIdle
  <2>2. Idle(asked', "search") <=> Idle(left, "search")
    BY <1>1, <1>3, <1>4, AskedIdle
  <2> QED
    BY <1>6, <1>7, <2>1, <2>2
<1>10. OfThePage'
  <2>1. Single(asked', "modify")
    BY <1>9 DEF Single, Of, Idle
  <2> QED
    BY <1>1, <1>3, <1>8, <1>9, <2>1 DEF Agreement, OfThePage
<1>11. ListDue'
  BY <1>1, <1>2 DEF ListDue
<1>12. SearchDue'
  BY <1>1, <1>3, <1>8 DEF Agreement, SearchDue
<1>13. ResultsDue'
  <2>1. \A m : Due(m)' = Due(m)
    BY <1>1, <1>2, <1>9 DEF Due
  <2> QED
    BY <1>1, <1>9, <2>1 DEF Agreement, ResultsDue
<1>14. PageDue'
  <2>1. ~ Idle(asked', q.kind)
    BY <1>1, <1>3, <1>4, AskedBusy
  <2>2. \A r \in Asked : Newest(asked', q.kind, r) => r = q
    BY <1>1, <1>3, <1>4, AskedIsNewest
  <2> QED
    BY <1>1, <1>2, <1>3, <1>9, <2>1, <2>2 DEF PageDue
<1> QED
  BY <1>10, <1>11, <1>12, <1>13, <1>14 DEF Agreement

LEMMA InfoAnsweredKeepsAgreement ==
    ASSUME MemberTypes, Agreement, NEW i \in DOMAIN asked, asked[i].answer # Nothing,
           InfoAnswered(i)
    PROVE  Agreement'
<1>1. /\ asked' = RemoveAt(asked, i) /\ asked[i].kind = "info"
      /\ UNCHANGED <<maintainer, individuals, results, text>>
      /\ "results" \in sound' => "results" \in sound
      /\ "page" \in sound' => "page" \in sound /\ ~ Overtaking(i)
  BY DEF InfoAnswered
<1>2. /\ page # Nothing /\ page' # Nothing /\ page'.member = page.member
      /\ page'.chosen = page.chosen /\ page'.object = "own"
      /\ page'.value = asked[i].answer[asked[i].about]
  BY InfoAnsweredIs
<1>3. SamePage
  BY <1>2 DEF SamePage
<1>4. OfThePage' /\ SearchDue'
  BY <1>1, <1>3, LeavingKeepsPage
<1>5. ListDue'
  BY <1>2 DEF ListDue
<1>6. ResultsDue'
  BY <1>1, <1>3, LeavingKeepsResults
<1>7. PageDue'
  <2> SUFFICES ASSUME "page" \in sound'
               PROVE  /\ Idle(asked', "modify")
                      /\ maintainer[page.member] = page.chosen
                      /\ Idle(asked', "info") => page'.value = page.chosen
                      /\ \A r \in Asked : Newest(asked', "info", r) =>
                            r.answer = Nothing \/ r.answer[page.member] = page.chosen
    BY <1>1, <1>2 DEF PageDue
  <2>1. /\ Idle(asked, "modify") /\ maintainer[page.member] = page.chosen
        /\ \A r \in Asked : Newest(asked, "info", r) =>
              r.answer = Nothing \/ r.answer[page.member] = page.chosen
    BY <1>1 DEF Agreement, PageDue
  <2>2. Idle(asked', "modify")
    BY <1>1, <2>1, LeftIdleKept
  <2>3. Idle(asked', "info") => Newest(asked, "info", asked[i])
    BY <1>1, LeftIdle
  <2>4. \A r \in Asked : Newest(asked', "info", r) => Newest(asked, "info", r)
    BY <1>1, LeftNewest
  <2>5. asked[i] \in Asked /\ asked[i].about = page.member
    BY <1>1, AnswerWaits DEF Agreement, OfThePage
  <2> QED
    BY <1>2, <2>1, <2>2, <2>3, <2>4, <2>5
<1> QED
  BY <1>4, <1>5, <1>6, <1>7 DEF Agreement

LEMMA MemberNextAgrees == MemberTypes /\ Agreement /\ [MemberNext]_memberVars => Agreement'
<1> SUFFICES ASSUME MemberTypes, Agreement, [MemberNext]_memberVars PROVE Agreement'
  OBVIOUS
<1>1. CASE UNCHANGED memberVars
  BY <1>1 DEF memberVars, Agreement, OfThePage, ListDue, SearchDue, ResultsDue, PageDue, Due
<1>2. ASSUME NEW i \in DOMAIN asked, ServeAsked(i) \/ LoseAnswer(i) \/ AnswerShown(i)
      PROVE  Agreement'
  BY <1>2, ServeKeepsAgreement, LoseKeepsAgreement, ListAnsweredKeepsAgreement,
     SearchAnsweredKeepsAgreement, ModifyAnsweredKeepsAgreement, InfoAnsweredKeepsAgreement,
     GoneKeepsAgreement DEF AnswerShown
<1>3. CASE PressSearchKey
  <2>1. text \in Texts \cup {Partial}
    BY DEF MemberTypes, MemberTypeOK
  <2> QED
    BY <1>3, <2>1, SearchKeepsAgreement
<1> QED
  BY <1>1, <1>2, <1>3, SearchKeepsAgreement, InfoKeepsAgreement, SelectKeepsAgreement,
     BackKeepsAgreement DEF MemberNext

LEMMA MembersAgree == MemberSpec => [](MemberTypes /\ Agreement)
<1>1. MemberInit => MemberTypes /\ Agreement
  BY MemberInitTypes, MemberInitAgrees
<1>2. MemberTypes /\ Agreement /\ [MemberNext]_memberVars => (MemberTypes /\ Agreement)'
  BY MemberNextTypes, MemberNextAgrees
<1> QED
  BY <1>1, <1>2, PTL DEF MemberSpec

\* Whatever order lists, searches and answers come in, and whatever was assigned
\* in between: on the list, once no list is owed and the last was neither lost nor
\* overtaken, every row shows the server's employee (onClickBackBtn fetches the list
\* again; showIndividualInfo shares the row's object with the page).
THEOREM ListAgreesWithServer == MemberSpec => []SettledIndividualsAgree
<1>1. MemberTypes /\ Agreement => SettledIndividualsAgree
  BY DEF Agreement, ListDue, SettledIndividualsAgree, InFlight, Idle
<1> QED
  BY <1>1, MembersAgree, PTL

\* The results are those of the text that is in the bar, although no answer is
\* tied to its text: none for an incomplete one (doSearch, doSearchIndividual).
THEOREM ResultsAgreeWithServer == MemberSpec => []SettledResultsAgree
<1>1. MemberTypes /\ Agreement => SettledResultsAgree
  <2> SUFFICES ASSUME MemberTypes, Agreement, page = Nothing, ~ InFlight("search"),
                      "results" \in sound
               PROVE  results = IF text = Partial THEN Empty
                                ELSE [m \in Matches(text) |-> maintainer[m]]
    BY DEF SettledResultsAgree
  <2>1. Idle(asked, "search") /\ Idle(asked, "modify")
    BY DEF InFlight, Idle, MemberTypes, PageThere
  <2>2. \A m : Due(m) = maintainer[m]
    BY <2>1 DEF Due
  <2> QED
    BY <2>1, <2>2 DEF Agreement, ResultsDue
<1> QED
  BY <1>1, MembersAgree, PTL

\* After assignments that succeeded and were read back in order, the page and the
\* server agree on the employee chosen last (onDidSelectEmployee,
\* getIndividualInfo).
THEOREM PageAgreesWithServer == MemberSpec => []SettledPageAgrees
<1>1. MemberTypes /\ Agreement => SettledPageAgrees
  BY DEF Agreement, PageDue, SettledPageAgrees, InFlight, Idle
<1> QED
  BY <1>1, MembersAgree, PTL

-----------------------------------------------------------------------------
(* FrozenEmployees: the batches of the screen are batches.                 *)

\* INSTANCE gives each instance operators of its own; they are the same.
LEMMA SameSets ==
    ASSUME NEW S
    PROVE  /\ Proved!Cardinality(S) = Cardinality(S)
           /\ Batch!Cardinality(S) = Cardinality(S)
           /\ Proved!IsFiniteSet(S) = IsFiniteSet(S)
<1>1. Proved!Cardinality(S) = Cardinality(S)
  BY Zenon DEF Proved!Cardinality, Cardinality, Proved!IsFiniteSet, IsFiniteSet
<1>2. Batch!Cardinality(S) = Cardinality(S)
  BY Zenon DEF Batch!Cardinality, Cardinality, Batch!IsFiniteSet, IsFiniteSet
<1>3. Proved!IsFiniteSet(S) = IsFiniteSet(S)
  BY Zenon DEF Proved!IsFiniteSet, IsFiniteSet
<1> QED
  BY <1>1, <1>2, <1>3

\* Each has two requests, and they share none: what BatchRequest assumes.
LEMMA MembersAreTwo ==
    /\ Members \in [Batches -> SUBSET Requests]
    /\ \A b \in Batches : Members[b] = {<<b, "employees">>, <<b, "frozen">>}
    /\ Proved!MembersAssumption
<1>1. \A b \in Batches : Members[b] = {<<b, "employees">>} \cup {<<b, "frozen">>}
  BY DEF Members
<1>2. \A b \in Batches : Proved!IsFiniteSet(Members[b])
  <2> SUFFICES ASSUME NEW b \in Batches PROVE Proved!IsFiniteSet(Members[b])
    OBVIOUS
  <2>1. IsFiniteSet({<<b, "employees">>})
    BY FS_Singleton
  <2>2. IsFiniteSet({<<b, "employees">>} \cup {<<b, "frozen">>})
    BY <2>1, FS_AddElement
  <2>3. IsFiniteSet(Members[b])
    BY <1>1, <2>2
  <2> QED
    BY <2>3, SameSets
<1>3. Members \in [Batches -> SUBSET Requests]
  BY DEF Members, Requests
<1>4. \A b, c \in Batches : b # c => Members[b] \cap Members[c] = {}
  BY <1>1
<1> QED
  BY <1>1, <1>2, <1>3, <1>4 DEF Proved!MembersAssumption

LEMMA SameType == Proved!TypeOK <=> Batch!TypeOK
  BY DEF Proved!TypeOK, Batch!TypeOK, Proved!Statuses, Batch!Statuses

LEMMA SameOwing ==
    ASSUME NEW b
    PROVE  (Proved!Owes(b) <=> Batch!Owes(b)) /\ (Proved!Owed(b) <=> Batch!Owed(b))
  BY DEF Proved!Owes, Batch!Owes, Proved!Owed, Batch!Owed, Proved!Started,
     Batch!Started

LEMMA SameInv == Proved!BatchInv <=> Batch!BatchInv
  BY SameSets, SameOwing DEF Proved!BatchInv, Batch!BatchInv

LEMMA SameSteps ==
    ASSUME NEW b, NEW r
    PROVE  /\ Batch!Start(b) => Proved!Start(b)
           /\ Batch!RequestFinished(b, r) => Proved!RequestFinished(b, r)
           /\ Batch!RequestFailed(b, r) => Proved!RequestFailed(b, r)
<1>1. Batch!Start(b) => Proved!Start(b)
  BY DEF Batch!Start, Proved!Start, Proved!Started, Batch!Started
<1>2. Batch!RequestFinished(b, r) => Proved!RequestFinished(b, r)
  BY SameSets DEF Batch!RequestFinished, Proved!RequestFinished, Proved!Settle,
     Batch!Settle
<1>3. Batch!RequestFailed(b, r) => Proved!RequestFailed(b, r)
  BY DEF Batch!RequestFailed, Proved!RequestFailed, Proved!Settle, Batch!Settle,
     Proved!StopRequests, Batch!StopRequests
<1> QED
  BY <1>1, <1>2, <1>3

\* So what they keep is kept.
LEMMA BatchesKeep ==
    ASSUME Batch!TypeOK, Batch!BatchInv, NEW b \in Batches,
           \/ Batch!Start(b)
           \/ \E r \in Members[b] : Batch!RequestFinished(b, r) \/ Batch!RequestFailed(b, r)
    PROVE  Batch!TypeOK' /\ Batch!BatchInv'
<1>1. Proved!TypeOK /\ Proved!BatchInv /\ Proved!MembersAssumption
  BY SameType, SameInv, MembersAreTwo
<1>2. Proved!Next
  BY SameSteps DEF Proved!Next
<1>3. Proved!TypeOK'
  BY <1>1, <1>2, Proved!NextKeepsType
<1>4. Proved!BatchInv'
  BY <1>1, SameSteps, Proved!StartKeeps, Proved!FinishedKeeps, Proved!FailedKeeps
<1>5. Proved!TypeOK' <=> Batch!TypeOK'
  BY SameType, PTL
<1>6. Proved!BatchInv' <=> Batch!BatchInv'
  BY SameInv, PTL
<1> QED
  BY <1>3, <1>4, <1>5, <1>6

-----------------------------------------------------------------------------
(* FrozenEmployees: the invariant.                                         *)

\* A request is answered with success only by a list; what has not been started
\* is idle and has none.
Lists ==
    /\ \A r \in good : response[r] # None
    /\ \A b \in retained : b <= reloads
    /\ \A r \in Requests : r[1] > reloads => status[r] = "idle" /\ response[r] = None

\* No operation is left without a reload to follow it.
ReloadsLast == reloads + Len(ops) <= MaxReloads

\* Once no operation is in flight, either the last batch is, and what it has been
\* served is still so, or none is and the table shows what is so.
UpToDate ==
    calm /\ ops = <<>> =>
        IF reloads \in retained
        THEN /\ response[<<reloads, "employees">>] \in {None, Employees}
             /\ response[<<reloads, "frozen">>] \in {None, frozen}
        ELSE retained = {} /\ table = [e \in Rows |-> e \in frozen]

TableInv == TypeOK /\ Batch!BatchInv /\ Lists /\ ReloadsLast /\ UpToDate
LEMMA InitHolds == Init => TableInv
<1> SUFFICES ASSUME Init PROVE TableInv
  OBVIOUS
<1>0. MaxReloads \in Nat /\ 1 \in Batches /\ \A b \in Batches : b \in Nat
  BY ScreenAssumption DEF Batches
<1>1. Batch!TypeOK
  BY <1>0 DEF Init, Batch!TypeOK, Batch!Statuses
<1>2. \A b \in Batches : \A r \in Members[b] : r \in Requests /\ r[1] = b
  BY MembersAreTwo DEF Requests
<1>3. Batch!BatchInv
  <2>1. \A b \in Batches : finished[b] = Batch!Cardinality(good \cap Members[b])
    <3>1. Cardinality({}) = 0
      BY FS_EmptySet
    <3>2. \A b \in Batches : good \cap Members[b] = {}
      BY DEF Init
    <3> QED
      BY <3>1, <3>2, SameSets DEF Init
  <2>2. Batch!Owes(1)
    BY <1>0, <1>2, MembersAreTwo DEF Init, Batch!Owes
  <2>3. ASSUME NEW b \in Batches, b # 1 PROVE Batch!Owed(b)
    BY <2>3, <1>2 DEF Init, Batch!Owed, Batch!Started
  <2> QED
    BY <2>1, <2>2, <2>3 DEF Batch!BatchInv, Init
<1>4. TypeOK
  <2>1. \E shown \in SUBSET Rows : table \in [shown -> BOOLEAN]
    <3>1. DOMAIN table = {} /\ table = [e \in {} |-> TRUE]
      BY DEF Init
    <3>2. table \in [{} -> BOOLEAN] /\ {} \in SUBSET Rows
      BY <3>1
    <3> QED
      BY <3>2
  <2>2. /\ ops \in Seq([employee : Rows, freeze : BOOLEAN, served : BOOLEAN])
        /\ Len(ops) <= MaxOps /\ calm \in BOOLEAN
    BY ScreenAssumption DEF Init
  <2>3. response \in [Requests -> (SUBSET Employees) \cup {None}]
    BY DEF Init
  <2> QED
    BY <1>0, <1>1, <2>1, <2>2, <2>3 DEF Init, TypeOK
<1>5. Lists
  BY <1>0 DEF Init, Lists, Requests
<1>6. ReloadsLast /\ UpToDate
  BY <1>0 DEF Init, ReloadsLast, UpToDate, Requests, Batches
<1> QED
  BY <1>3, <1>4, <1>5, <1>6 DEF TableInv

-----------------------------------------------------------------------------
(* FrozenEmployees: the steps that leave the batches alone.                *)

LEMMA SameBatches ==
    ASSUME Batch!TypeOK, Batch!BatchInv, UNCHANGED batch
    PROVE  Batch!TypeOK' /\ Batch!BatchInv'
  BY DEF batch, Batch!TypeOK, Batch!BatchInv, Batch!Owes, Batch!Owed, Batch!Started

LEMMA ClickKeeps ==
    ASSUME TableInv, NEW e \in DOMAIN table, OnClickFrozenEmployee(e)
    PROVE  TableInv'
<1>1. PICK rows \in SUBSET Rows : table \in [rows -> BOOLEAN]
  BY DEF TableInv, TypeOK
<1>2. e \in Rows /\ table[e] \in BOOLEAN
  BY <1>1
<1>3. /\ ops' \in Seq([employee : Rows, freeze : BOOLEAN, served : BOOLEAN])
      /\ Len(ops') = Len(ops) + 1 /\ Len(ops) \in Nat
  BY <1>2 DEF TableInv, TypeOK, OnClickFrozenEmployee
<1>4. TypeOK'
  BY <1>3, SameBatches, ScreenAssumption DEF TableInv, TypeOK, OnClickFrozenEmployee, batch
<1>5. ReloadsLast'
  BY <1>3, ScreenAssumption DEF OnClickFrozenEmployee, ReloadsLast, TableInv, TypeOK, Batches
<1>6. UpToDate'
  BY <1>3 DEF UpToDate
<1> QED
  BY <1>4, <1>5, <1>6, SameBatches DEF TableInv, TypeOK, Lists, OnClickFrozenEmployee, batch

LEMMA ServeOptKeeps ==
    ASSUME TableInv, NEW i \in DOMAIN ops, ServeOpt(i)
    PROVE  TableInv'
<1>0. /\ ops \in Seq([employee : Rows, freeze : BOOLEAN, served : BOOLEAN])
      /\ ops[i] \in [employee : Rows, freeze : BOOLEAN, served : BOOLEAN]
  BY Element DEF TableInv, TypeOK
<1>1. /\ ops' \in Seq([employee : Rows, freeze : BOOLEAN, served : BOOLEAN])
      /\ Len(ops') = Len(ops) /\ ops' # <<>>
  <2> DEFINE new == [ops[i] EXCEPT !.served = TRUE]
  <2>1. new \in [employee : Rows, freeze : BOOLEAN, served : BOOLEAN]
    BY <1>0
  <2>2. ops' = [ops EXCEPT ![i] = new]
    BY DEF ServeOpt
  <2> HIDE DEF new
  <2> QED
    BY <1>0, <2>1, <2>2
<1>2. frozen' \subseteq Employees
  BY <1>0 DEF TableInv, TypeOK, ServeOpt, Rows
<1>3. TypeOK'
  BY <1>1, <1>2, SameBatches DEF TableInv, TypeOK, ServeOpt, batch
<1> QED
  BY <1>1, <1>3, SameBatches
  DEF TableInv, TypeOK, Lists, ReloadsLast, UpToDate, ServeOpt, batch

LEMMA OptFailedKeeps ==
    ASSUME TableInv, NEW i \in DOMAIN ops, OptFailed(i)
    PROVE  TableInv'
<1>1. /\ ops' \in Seq([employee : Rows, freeze : BOOLEAN, served : BOOLEAN])
      /\ Len(ops') = Len(ops) - 1 /\ Len(ops) \in Nat
  BY Removed DEF TableInv, TypeOK, OptFailed
<1>2. TypeOK'
  <2>1. Len(ops') <= MaxOps
    BY <1>1, ScreenAssumption DEF TableInv, TypeOK
  <2>2. (\E shown \in SUBSET Rows : table \in [shown -> BOOLEAN])'
    BY DEF TableInv, TypeOK, OptFailed
  <2>3. Batch!TypeOK'
    BY SameBatches DEF TableInv, TypeOK, OptFailed
  <2> QED
    BY <1>1, <2>1, <2>2, <2>3 DEF TableInv, TypeOK, OptFailed
<1>3. ReloadsLast'
  BY <1>1, ScreenAssumption DEF OptFailed, ReloadsLast, TableInv, TypeOK, Batches
<1> QED
  BY <1>2, <1>3, SameBatches DEF TableInv, TypeOK, Lists, UpToDate, OptFailed, batch

LEMMA RefuseKeeps ==
    ASSUME TableInv, NEW b \in Batches, NEW r \in Members[b], RefuseList(r)
    PROVE  TableInv'
<1>1. r \in Requests
  BY MembersAreTwo
<1>2. TypeOK'
  BY <1>1, SameBatches DEF TableInv, TypeOK, RefuseList, batch, screen
<1>3. Lists'
  BY <1>1 DEF TableInv, TypeOK, Lists, RefuseList, batch, Batch!TypeOK
<1> QED
  BY <1>2, <1>3, SameBatches DEF TableInv, TypeOK, ReloadsLast, UpToDate, RefuseList, batch, screen

LEMMA ServeListKeeps ==
    ASSUME TableInv, NEW b \in Batches, NEW r \in Members[b], ServeList(r)
    PROVE  TableInv'
<1>1. r \in Requests
  BY MembersAreTwo
<1>2. TypeOK'
  BY <1>1, SameBatches DEF TableInv, TypeOK, ServeList, batch, screen
<1>3. Lists'
  BY <1>1 DEF TableInv, TypeOK, Lists, ServeList, batch, Batch!TypeOK
<1>4. UpToDate'
  <2>1. <<reloads, "employees">> \in Requests /\ <<reloads, "frozen">> \in Requests
    BY DEF TableInv, TypeOK, Requests
  <2>2. \/ r # <<reloads, "employees">> /\ r # <<reloads, "frozen">>
        \/ r = <<reloads, "employees">> /\ r # <<reloads, "frozen">> /\ r[2] # "frozen"
        \/ r = <<reloads, "frozen">> /\ r # <<reloads, "employees">> /\ r[2] = "frozen"
    BY <1>1 DEF Requests
  <2> QED
    BY <1>1, <2>1, <2>2 DEF TableInv, TypeOK, UpToDate, ServeList, batch, screen
<1> QED
  BY <1>2, <1>3, <1>4, SameBatches DEF TableInv, TypeOK, ReloadsLast, ServeList, batch, screen

-----------------------------------------------------------------------------
(* FrozenEmployees: the steps of a batch.                                  *)

LEMMA SomethingTold == <<"success">> # <<>>
<1>1. Len(<<"success">>) = 1 /\ Len(<<>>) = 0
  OBVIOUS
<1> QED
  BY Zenon, <1>1

\* A batch that is told of a success has all its lists; one that is told nothing
\* stays.
LEMMA ToldHasLists ==
    ASSUME TableInv, NEW b \in Batches, NEW r \in Members[b], ListFinished(b, r)
    PROVE  /\ b \in retained /\ good' = good \cup {r}
           /\ told' = told => retained' = retained
           /\ told' # told =>
                 /\ retained' = retained \ {b}
                 /\ \A s \in Members[b] : response[s] # None
<1>1. Batch!RequestFinished(b, r) /\ response[r] # None /\ status[r] = "pending"
  BY DEF ListFinished, Batch!RequestFinished
<1>2. Batch!Owes(b)
  BY <1>1 DEF TableInv, Batch!BatchInv, Batch!Owed
<1>3. b \in retained /\ b \in blocks /\ told[b] = <<>> /\ good' = good \cup {r}
  BY <1>1, <1>2 DEF Batch!Owes, Batch!RequestFinished
<1>4. \/ UNCHANGED <<told, retained>>
      \/ Batch!Settle(b, "success")
  BY <1>1 DEF Batch!RequestFinished
<1>5. CASE Batch!Settle(b, "success")
  <2>1. retained' = retained \ {b} /\ told' = [told EXCEPT ![b] = Append(@, "success")]
    BY <1>3, <1>5 DEF Batch!Settle
  <2>2. told'[b] = <<"success">>
    BY <1>3, <2>1 DEF TableInv, TypeOK, Batch!TypeOK
  <2>3. told' # told
    <3>1. <<"success">> # <<>>
      BY SomethingTold
    <3>2. told'[b] # told[b]
      BY Zenon, <1>3, <2>2, <3>1
    <3> QED
      BY Zenon, <3>2
  <2>4. Batch!BatchInv'
    BY <1>1, BatchesKeep DEF TableInv, TypeOK
  <2>5. Batch!Owed(b)'
    BY <2>1, <2>4 DEF Batch!BatchInv, Batch!Owes
  <2>6. Members[b] \subseteq good'
    BY <2>2, <2>5 DEF Batch!Owed
  <2> QED
    BY <1>1, <1>3, <2>1, <2>3, <2>6 DEF TableInv, Lists
<1>6. CASE told' = told /\ retained' = retained
  BY <1>3, <1>6
<1> QED
  BY <1>4, <1>5, <1>6

LEMMA ListFinishedKeeps ==
    ASSUME TableInv, NEW b \in Batches, NEW r \in Members[b], ListFinished(b, r)
    PROVE  TableInv'
<1>1. Batch!RequestFinished(b, r) /\ response[r] # None /\ r \in Requests /\ r[1] = b
  BY MembersAreTwo DEF ListFinished, Requests
<1>2. Batch!TypeOK' /\ Batch!BatchInv'
  BY <1>1, BatchesKeep DEF TableInv, TypeOK
<1>3. Members[b] = {<<b, "employees">>, <<b, "frozen">>}
  BY MembersAreTwo
<1>4. told' # told => table' = Joined(b) /\ calm' = (calm /\ ~ Overtakes(b))
  BY DEF ListFinished
<1>5. told' = told => table' = table /\ calm' = calm
  BY DEF ListFinished
<1>6. (\E shown \in SUBSET Rows : table \in [shown -> BOOLEAN])'
  <2>1. CASE told' # told
    <3>1. response[<<b, "employees">>] \in SUBSET Employees
      BY <1>3, <2>1, ToldHasLists, MembersAreTwo DEF TableInv, TypeOK
    <3> DEFINE shown == response[<<b, "employees">>] \ {Myself}
    <3>2. shown \in SUBSET Rows
      BY <3>1 DEF Rows
    <3>3. Joined(b) \in [shown -> BOOLEAN]
      BY DEF Joined
    <3> HIDE DEF shown
    <3> QED
      BY <1>4, <2>1, <3>2, <3>3 DEF Rows
  <2> QED
    BY <1>5, <2>1 DEF TableInv, TypeOK
<1>7. TypeOK'
  <2>1. calm' \in BOOLEAN
    <3>1. calm \in BOOLEAN
      BY DEF TableInv, TypeOK
    <3> QED
      BY Zenon, <1>4, <1>5, <3>1
  <2> QED
    BY <1>2, <1>6, <2>1 DEF TableInv, TypeOK, ListFinished
<1>8. Lists'
  <2>1. /\ good' = good \cup {r} /\ retained' \subseteq retained
        /\ UNCHANGED <<reloads, response>>
    BY ToldHasLists DEF ListFinished
  <2>2. \A s \in Requests : s # r => status'[s] = status[s]
    BY <1>1 DEF TableInv, TypeOK, Batch!TypeOK, Batch!RequestFinished
  <2>3. ~ (r[1] > reloads)
    BY <1>1 DEF TableInv, Lists, Batch!RequestFinished
  <2> QED
    BY <1>1, <2>1, <2>2, <2>3 DEF TableInv, Lists
<1>9. UpToDate'
  <2> SUFFICES ASSUME calm', ops' = <<>> PROVE UpToDate'
    BY DEF UpToDate
  <2>1. calm /\ ops = <<>> /\ UNCHANGED <<reloads, response, frozen>>
    BY <1>4, <1>5 DEF ListFinished
  <2>2. b \in retained /\ reloads \in retained
    BY <2>1, ToldHasLists DEF TableInv, UpToDate
  <2>3. CASE told' = told
    BY <1>5, <2>1, <2>3, ToldHasLists DEF TableInv, UpToDate
  <2>4. CASE told' # told /\ b # reloads
    BY <2>1, <2>2, <2>4, ToldHasLists DEF TableInv, UpToDate
  <2>5. CASE told' # told /\ b = reloads
    <3>1. \A c \in retained : c = b
      <4>1. ~ Overtakes(b)
        BY Zenon, <1>4, <2>5
      <4>2. \A c \in retained : ~ (c < b)
        BY <4>1 DEF Overtakes
      <4>3. retained \subseteq Batches /\ \A c \in retained : c <= b
        BY <2>5 DEF TableInv, TypeOK, Lists, Batch!TypeOK
      <4>4. \A c \in Batches : c \in Int
        BY ScreenAssumption DEF Batches
      <4>5. ASSUME NEW c \in retained PROVE c = b
        <5>1. c \in Int /\ b \in Int
          BY <4>3, <4>4
        <5>2. ~ (c < b) /\ c <= b
          BY <4>2, <4>3
        <5> QED
          BY <5>1, <5>2
      <4> QED
        BY <4>5
    <3>2. retained' = {}
      BY <2>5, <3>1, ToldHasLists
    <3>3. response[<<b, "employees">>] = Employees /\ response[<<b, "frozen">>] = frozen
      BY <1>3, <2>1, <2>2, <2>5, ToldHasLists DEF TableInv, UpToDate
    <3>4. table' = [e \in Rows |-> e \in frozen]
      BY <1>4, <2>5, <3>3 DEF Joined, Rows
    <3> QED
      BY <2>1, <3>2, <3>4 DEF UpToDate, Rows
  <2> QED
    BY <2>3, <2>4, <2>5
<1> QED
  BY <1>2, <1>7, <1>8, <1>9 DEF TableInv, ReloadsLast, ListFinished

LEMMA ListFailedKeeps ==
    ASSUME TableInv, NEW b \in Batches, NEW r \in Members[b], ListFailed(b, r)
    PROVE  TableInv'
<1>1. Batch!RequestFailed(b, r) /\ r \in Requests /\ r[1] = b /\ status[r] = "pending"
  BY MembersAreTwo DEF ListFailed, Requests, Batch!RequestFailed
<1>2. Batch!TypeOK' /\ Batch!BatchInv'
  BY <1>1, BatchesKeep DEF TableInv, TypeOK
<1>3. TypeOK'
  BY <1>2 DEF TableInv, TypeOK, ListFailed, screen
<1>4. Lists'
  BY <1>1 DEF TableInv, TypeOK, Lists, ListFailed, Batch!RequestFailed, Batch!Settle,
     Batch!StopRequests, Batch!TypeOK
<1> QED
  BY <1>2, <1>3, <1>4 DEF TableInv, ReloadsLast, UpToDate, ListFailed, screen

\* The reload after an operation: nothing has been served to it.
LEMMA OptAnsweredKeeps ==
    ASSUME TableInv, NEW i \in DOMAIN ops, OptAnswered(i)
    PROVE  TableInv'
<1>1. /\ ops' \in Seq([employee : Rows, freeze : BOOLEAN, served : BOOLEAN])
      /\ Len(ops') = Len(ops) - 1 /\ Len(ops) \in Nat
  BY Removed DEF TableInv, TypeOK, OptAnswered
<1>2. /\ reloads' = reloads + 1 /\ Batch!Start(reloads + 1)
  BY DEF OptAnswered, SendFrozenBatchRequest
<1>3. Len(ops) > 0
  BY DEF TableInv, TypeOK
<1>4. reloads + 1 \in Batches /\ reloads \in Nat
  BY <1>1, <1>3, ScreenAssumption DEF TableInv, TypeOK, ReloadsLast, Batches
<1>5. Batch!TypeOK' /\ Batch!BatchInv'
  BY <1>2, <1>4, BatchesKeep DEF TableInv, TypeOK
<1>6. TypeOK'
  <2>1. Len(ops') <= MaxOps
    BY <1>1, ScreenAssumption DEF TableInv, TypeOK
  <2>2. (\E shown \in SUBSET Rows : table \in [shown -> BOOLEAN])'
    BY DEF TableInv, TypeOK, OptAnswered
  <2>3. calm' \in BOOLEAN
    <3>1. calm \in BOOLEAN
      BY DEF TableInv, TypeOK
    <3> QED
      BY Zenon, <3>1 DEF OptAnswered
  <2> QED
    BY <1>1, <1>2, <1>4, <1>5, <2>1, <2>2, <2>3 DEF TableInv, TypeOK, OptAnswered
<1>7. retained' = retained \cup {reloads + 1} /\ good' = good
  BY <1>2 DEF Batch!Start
<1>8. Lists'
  <2>1. \A r \in Requests : r \in Members[reloads + 1] => r[1] = reloads + 1
    BY <1>4, MembersAreTwo
  <2>2. \A r \in Requests : r[1] \in Nat
    BY ScreenAssumption DEF Requests, Batches
  <2>3. \A c \in retained' : c <= reloads'
    BY <1>2, <1>4, <1>7, ScreenAssumption DEF TableInv, TypeOK, Lists, Batch!TypeOK, Batches
  <2>4. ASSUME NEW r \in Requests, r[1] > reloads'
        PROVE  status'[r] = "idle" /\ response'[r] = None
    <3>1. r[1] > reloads /\ r \notin Members[reloads + 1]
      BY <1>2, <1>4, <2>1, <2>2, <2>4
    <3> QED
      BY <1>2, <3>1 DEF TableInv, Lists, OptAnswered, Batch!Start
  <2> QED
    BY <1>7, <2>3, <2>4 DEF TableInv, Lists, OptAnswered
<1>9. UpToDate'
  <2>1. <<reloads + 1, "employees">> \in Requests /\ <<reloads + 1, "frozen">> \in Requests
    BY <1>4 DEF Requests
  <2>2. response[<<reloads + 1, "employees">>] = None /\ response[<<reloads + 1, "frozen">>] = None
    BY <1>4, <2>1 DEF TableInv, Lists
  <2> QED
    BY <1>2, <1>7, <2>2 DEF UpToDate, OptAnswered
<1>10. ReloadsLast'
  BY <1>1, <1>2, <1>4, ScreenAssumption DEF TableInv, ReloadsLast
<1> QED
  BY <1>5, <1>6, <1>8, <1>9, <1>10 DEF TableInv

-----------------------------------------------------------------------------
(* FrozenEmployees: the theorems.                                          *)

\* The invariant behind them: what is idle has no list, no operation is left
\* without a reload, and the last batch has been served what is still so.
THEOREM TableCorrect == Spec => []TableInv
<1>1. TableInv /\ [Next]_vars => TableInv'
  <2> SUFFICES ASSUME TableInv, [Next]_vars PROVE TableInv'
    OBVIOUS
  <2>1. CASE Next
    <3>1. ASSUME NEW e \in DOMAIN table, OnClickFrozenEmployee(e) PROVE TableInv'
      BY <3>1, ClickKeeps
    <3>2. ASSUME NEW i \in DOMAIN ops, ServeOpt(i) \/ OptAnswered(i) \/ OptFailed(i)
          PROVE  TableInv'
      BY <3>2, ServeOptKeeps, OptAnsweredKeeps, OptFailedKeeps
    <3>3. ASSUME NEW b \in Batches, NEW r \in Members[b],
                 \/ ServeList(r) \/ RefuseList(r)
                 \/ ListFinished(b, r) \/ ListFailed(b, r)
          PROVE  TableInv'
      BY <3>3, ServeListKeeps, RefuseKeeps, ListFinishedKeeps, ListFailedKeeps
    <3> QED
      BY <2>1, <3>1, <3>2, <3>3 DEF Next
  <2>2. CASE UNCHANGED vars
    <3>1. UNCHANGED batch /\ UNCHANGED <<reloads, response, frozen, table, ops, calm>>
      BY <2>2 DEF vars, screen
    <3> QED
      BY <3>1, SameBatches
      DEF TableInv, TypeOK, Lists, ReloadsLast, UpToDate, batch
  <2> QED
    BY <2>1, <2>2
<1> QED
  BY <1>1, InitHolds, PTL DEF Spec

\* The state of the screen is well formed, for any employees and bounds.
THEOREM TableTypeCorrect == Spec => []TypeOK
  BY TableCorrect, PTL DEF TableInv

\* Once nothing is in flight, and unless something failed, was refused or was
\* overtaken since the last clean reload, the table shows what the server has:
\* the reload after an operation is served after it (sendFrozenBatchRequest).
THEOREM TableAgrees == Spec => []SettledTableAgrees
<1>1. TableInv => SettledTableAgrees
  BY DEF TableInv, UpToDate, SettledTableAgrees
<1> QED
  BY <1>1, TableCorrect, PTL

===============================================================================
