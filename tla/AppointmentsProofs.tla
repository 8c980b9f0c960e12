-------------------------- MODULE AppointmentsProofs --------------------------
(***************************************************************************)
(* What is proved of the appointment screen: its types, whose the code is  *)
(* that is shown, what a completed appointment stays, and when the list    *)
(* agrees with the server, for any appointments, pages and orders, any     *)
(* number of requests in flight and any order of their answers.            *)
(*                                                                         *)
(* Every invariant speaks of the sequence of requests in flight.  The      *)
(* lemmas come in three layers: what the sequence is after a request is    *)
(* added, replaced or taken out; what that does to one predicate over it;  *)
(* and what each operation of the screen does to the invariant.            *)
(***************************************************************************)
EXTENDS Appointments, TLAPS

-----------------------------------------------------------------------------
(* Sequences.                                                              *)

LEMMA Element ==
    ASSUME NEW S, NEW s \in Seq(S), NEW i \in DOMAIN s
    PROVE  s[i] \in S
  OBVIOUS

LEMMA Together ==
    ASSUME NEW S, NEW s \in Seq(S), NEW t \in Seq(S)
    PROVE  /\ s \o t \in Seq(S) /\ Len(s \o t) = Len(s) + Len(t)
           /\ \A k \in 1 .. Len(s) + Len(t) :
                 (s \o t)[k] = IF k <= Len(s) THEN s[k] ELSE t[k - Len(s)]
  OBVIOUS

LEMMA Appended ==
    ASSUME NEW S, NEW s \in Seq(S), NEW e \in S
    PROVE  /\ Append(s, e) \in Seq(S) /\ Len(Append(s, e)) = Len(s) + 1
           /\ Append(s, e)[Len(s) + 1] = e
           /\ \A k \in DOMAIN s : k \in DOMAIN Append(s, e) /\ Append(s, e)[k] = s[k]
           /\ \A k \in DOMAIN Append(s, e) : k \in DOMAIN s \/ k = Len(s) + 1
  OBVIOUS

\* What is left when one is taken out keeps its order.
LEMMA Removed ==
    ASSUME NEW S, NEW s \in Seq(S), NEW i \in DOMAIN s
    PROVE  /\ RemoveAt(s, i) \in Seq(S) /\ Len(RemoveAt(s, i)) = Len(s) - 1
           /\ \A k \in 1 .. Len(s) - 1 :
                 RemoveAt(s, i)[k] = IF k < i THEN s[k] ELSE s[k + 1]
<1> DEFINE before == SubSeq(s, 1, i - 1)
           after == SubSeq(s, i + 1, Len(s))
<1>1. i \in 1 .. Len(s) /\ Len(s) \in Nat
  OBVIOUS
<1>2. before \in Seq(S) /\ Len(before) = i - 1 /\ \A k \in 1 .. i - 1 : before[k] = s[k]
  BY <1>1
<1>3. /\ after \in Seq(S) /\ Len(after) = Len(s) - i
      /\ \A k \in 1 .. Len(s) - i : after[k] = s[k + i]
  BY <1>1
<1>4. RemoveAt(s, i) = before \o after
  BY DEF RemoveAt
<1> HIDE DEF before, after
<1>5. /\ before \o after \in Seq(S) /\ Len(before \o after) = Len(before) + Len(after)
      /\ \A k \in 1 .. Len(before) + Len(after) :
           (before \o after)[k] = IF k <= Len(before) THEN before[k] ELSE after[k - Len(before)]
  BY <1>2, <1>3, Together
<1>l. (i - 1) + (Len(s) - i) = Len(s) - 1
  BY <1>1
<1>e. \A k \in 1 .. Len(s) - 1 :
        (before \o after)[k] = IF k <= i - 1 THEN before[k] ELSE after[k - (i - 1)]
  <2>1. Len(before) = i - 1 /\ Len(before) + Len(after) = Len(s) - 1
    BY <1>2, <1>3, <1>l
  <2> QED
    BY <1>5, <2>1
<1>6. ASSUME NEW k \in 1 .. Len(s) - 1
      PROVE  (before \o after)[k] = IF k < i THEN s[k] ELSE s[k + 1]
  <2>1. CASE k < i
    BY <1>1, <1>2, <1>e, <2>1
  <2>2. CASE ~ k < i
    <3>1. (before \o after)[k] = after[k - (i - 1)]
      <4>1. ~ (k <= i - 1)
        BY <1>1, <2>2
      <4> QED
        BY <1>e, <4>1
    <3>2. k - (i - 1) \in 1 .. Len(s) - i /\ (k - (i - 1)) + i = k + 1
      BY <1>1, <2>2
    <3> QED
      BY <1>3, <2>2, <3>1, <3>2
  <2> QED
    BY <2>1, <2>2
<1>7. Len(before \o after) = Len(s) - 1
  BY <1>2, <1>3, <1>5, <1>l
<1> QED
  BY <1>4, <1>5, <1>6, <1>7

-----------------------------------------------------------------------------
(* Appointments: requests and pages.                                       *)

\* One of the objects in a sequence of three lines.
LEMMA Replaced ==
    ASSUME NEW S, NEW s \in Seq(S), NEW i \in DOMAIN s, NEW e \in S,
           NEW t, t = [s EXCEPT ![i] = e]
    PROVE  /\ t \in Seq(S) /\ Len(t) = Len(s) /\ DOMAIN t = DOMAIN s /\ t[i] = e
           /\ \A j \in DOMAIN s : j # i => t[j] = s[j]
  OBVIOUS

LEMMA Lined ==
    ASSUME NEW S, NEW n \in Nat, NEW s \in [1 .. n -> S]
    PROVE  s \in Seq(S) /\ Len(s) = n /\ DOMAIN s = 1 .. n
  OBVIOUS

\* What the server lists an appointment as.
Lines == [appt : Appointments, status : Statuses]

IsList(f) == f.kind \in ListKinds

\* The rows of the first n pages.
Upto(n) == Min({n * PageSize, Len(Order)})

\* What a request carries, when n list answers have been shown.
Well(f, n) ==
    /\ IsList(f) => f.hud = "none"
    /\ ~ IsList(f) => f.hud \in {"coming", "up"}
    /\ f.kind = "list" => f.page = 0
    /\ f.kind \in {"pay", "modify"} => f.item \in Objects /\ f.item.answer <= n
    /\ f.kind = "pay" => f.phone = PhoneOf[f.item.appt]
    /\ f.kind = "modify" => f.status \in {"confirmed", "handled"}
    /\ IsList(f) /\ f.served =>
         /\ Len(f.rows) = Upto(f.page + 1) - Upto(f.page)
         /\ \A k \in DOMAIN f.rows : f.rows[k].appt = Order[Upto(f.page) + k]

AllWell == \A i \in DOMAIN flights : Well(flights[i], answers)

\* No object is newer than the last list answer.
Made ==
    /\ \A k \in DOMAIN list : list[k].answer <= answers
    /\ \A k \in DOMAIN views : views[k].item.answer <= answers

ScreenTypes == TypeOK /\ AllWell /\ Made

LEMMA WellStays ==
    ASSUME NEW n \in Nat, NEW n1 \in Nat, n <= n1, NEW f, Well(f, n)
    PROVE  Well(f, n1)
<1>1. f.kind \in {"pay", "modify"} => f.item.answer \in Nat
  BY DEF Well, Objects
<1> QED
  BY <1>1 DEF Well

LEMMA UptoIs ==
    ASSUME NEW n \in Nat
    PROVE  /\ Upto(n) \in 0 .. Len(Order)
           /\ Upto(n) = (IF n * PageSize <= Len(Order) THEN n * PageSize ELSE Len(Order))
<1>0. Len(Order) \in Nat /\ n * PageSize \in Nat
  BY OrderAssumption, SizeAssumption
<1> DEFINE k == n * PageSize
<1>1. k \in Nat
  BY <1>0
<1> HIDE DEF k
<1>2. Min({k, Len(Order)}) = IF k <= Len(Order) THEN k ELSE Len(Order)
  <2> DEFINE m == IF k <= Len(Order) THEN k ELSE Len(Order)
  <2>1. m \in {k, Len(Order)} /\ \A y \in {k, Len(Order)} : m <= y
    BY <1>0, <1>1
  <2>2. \A x \in {k, Len(Order)} : (\A y \in {k, Len(Order)} : x <= y) => x = m
    BY <1>0, <1>1
  <2> QED
    BY <2>1, <2>2 DEF Min
<1> QED
  BY <1>0, <1>2 DEF Upto, k

LEMMA UptoGrows ==
    ASSUME NEW n \in Nat
    PROVE  /\ Upto(n) <= Upto(n + 1) /\ Upto(n) \in Nat /\ Upto(n + 1) \in Nat
           /\ Upto(n + 1) <= Len(Order) /\ Upto(0) = 0
           /\ Upto(n) < Upto(n + 1) => Upto(n) = n * PageSize
           /\ Upto(n) = Len(Order) \/ Upto(n) = n * PageSize
<1>0. Len(Order) \in Nat /\ PageSize \in Nat \ {0}
  BY OrderAssumption, SizeAssumption
<1> DEFINE k == n * PageSize
           l == (n + 1) * PageSize
<1>1. k \in Nat /\ l = k + PageSize /\ 0 * PageSize = 0
  BY <1>0
<1>2. Upto(n) = (IF k <= Len(Order) THEN k ELSE Len(Order))
  BY UptoIs
<1>3. Upto(n + 1) = (IF l <= Len(Order) THEN l ELSE Len(Order))
  BY UptoIs
<1>4. Upto(0) = 0
  <2>1. Upto(0) = (IF 0 * PageSize <= Len(Order) THEN 0 * PageSize ELSE Len(Order))
    BY UptoIs
  <2> QED
    BY <1>0, <1>1, <2>1
<1> HIDE DEF k, l
<1>5. l \in Nat
  BY <1>0, <1>1
<1> QED
  BY <1>0, <1>1, <1>2, <1>3, <1>4, <1>5 DEF k

\* A page is the stretch of the server's list between two counts of rows.
LEMMA PageIs ==
    ASSUME NEW n \in Nat, server \in [Appointments -> Statuses]
    PROVE  /\ Page(n) \in Seq(Lines)
           /\ Len(Page(n)) = Upto(n + 1) - Upto(n)
           /\ DOMAIN Page(n) = 1 .. Len(Page(n))
           /\ \A k \in DOMAIN Page(n) :
                /\ Upto(n) + k \in DOMAIN Order
                /\ Page(n)[k] = [appt |-> Order[Upto(n) + k], status |-> server[Order[Upto(n) + k]]]
<1>0. /\ Order \in Seq(Appointments) /\ Len(Order) \in Nat /\ DOMAIN Order = 1 .. Len(Order)
  BY OrderAssumption
<1> DEFINE from == n * PageSize
           to == Upto(n + 1)
           shown == SubSeq(Order, from + 1, to)
<1>f. from \in Nat
  BY SizeAssumption
<1>2. \/ from <= Len(Order) /\ Upto(n) = from
      \/ Len(Order) < from /\ Upto(n) = Len(Order)
  <2>1. Upto(n) = (IF from <= Len(Order) THEN from ELSE Len(Order))
    BY UptoIs
  <2> QED
    BY <1>0, <1>f, <2>1
<1>1. from \in Nat /\ to \in Nat /\ to <= Len(Order) /\ Upto(n) \in Nat /\ Upto(n) <= to
  BY <1>f, UptoGrows
<1>3. Page(n) = [i \in DOMAIN shown |-> [appt |-> shown[i], status |-> server[shown[i]]]]
  BY DEF Page, Upto
<1> HIDE DEF from, to
<1>4. CASE from < to
  <2>1. /\ shown \in Seq(Appointments) /\ Len(shown) = to - from /\ DOMAIN shown = 1 .. to - from
        /\ \A k \in 1 .. to - from : shown[k] = Order[from + k]
    BY <1>0, <1>1, <1>4
  <2>2. Upto(n) = from
    BY <1>0, <1>1, <1>2, <1>4
  <2> HIDE DEF shown
  <2>3. DOMAIN Page(n) = 1 .. to - from /\ to - from \in Nat
    BY <1>1, <1>3, <1>4, <2>1
  <2>4. \A k \in 1 .. to - from :
          /\ from + k \in DOMAIN Order /\ Order[from + k] \in Appointments
          /\ Page(n)[k] = [appt |-> Order[from + k], status |-> server[Order[from + k]]]
    BY <1>0, <1>1, <1>3, <2>1
  <2>5. \A k \in 1 .. to - from : Page(n)[k] \in Lines
    <3> TAKE k \in 1 .. to - from
    <3> DEFINE a == Order[from + k]
    <3>1. a \in Appointments /\ Page(n)[k] = [appt |-> a, status |-> server[a]]
      BY <2>4
    <3> HIDE DEF a
    <3>2. server[a] \in Statuses
      BY <3>1
    <3> QED
      BY <3>1, <3>2 DEF Lines
  <2>6. Page(n) \in [1 .. to - from -> Lines]
    BY <1>3, <2>3, <2>5
  <2>7. /\ Page(n) \in Seq(Lines)
        /\ Len(Page(n)) = to - from
    <3> DEFINE m == to - from
    <3> HIDE DEF m
    <3>1. m \in Nat /\ Page(n) \in [1 .. m -> Lines]
      BY <2>3, <2>6 DEF m
    <3>2. Page(n) \in Seq(Lines) /\ Len(Page(n)) = m
      BY <3>1, Lined
    <3> QED
      BY <3>2 DEF m
  <2> QED
    BY <2>2, <2>3, <2>4, <2>7 DEF to
<1>5. CASE ~ (from < to)
  <2>1. shown = <<>>
    BY <1>0, <1>1, <1>5
  <2>2. Upto(n) = to
    BY <1>0, <1>1, <1>2, <1>5
  <2> HIDE DEF shown
  <2>3. Page(n) = <<>>
    BY <1>3, <2>1
  <2>4. Len(Page(n)) = 0 /\ DOMAIN Page(n) = {} /\ 1 .. Len(Page(n)) = {} /\ to - Upto(n) = 0
    BY <1>1, <2>2, <2>3
  <2> QED
    BY <2>3, <2>4 DEF to
<1> QED
  BY <1>4, <1>5

\* What the clerk or an answer asks for.
LEMMA RequestIs ==
    ASSUME NEW kind \in Kinds, NEW r, r = Request(kind)
    PROVE  /\ r \in Flights /\ r.kind = kind /\ r.page = 0
           /\ r.hud = (IF kind \in ListKinds THEN "none" ELSE "coming")
           /\ r.served <=> kind \in {"pay", "resend"}
<1> DEFINE served == kind \in {"pay", "resend"}
           hud == IF kind \in ListKinds THEN "none" ELSE "coming"
<1>1. served \in BOOLEAN
  OBVIOUS
<1>2. hud \in {"none", "coming", "up"} /\ 0 \in 0 .. MaxPage
  BY SizeAssumption
<1>3. r = [kind |-> kind, page |-> 0, item |-> None, phone |-> None,
           status |-> None, rows |-> <<>>, served |-> served, hud |-> hud]
  BY DEF Request
<1>4. <<>> \in Seq([appt : Appointments, status : Statuses])
  OBVIOUS
<1>5. r.served = served /\ r.hud = hud /\ r.kind = kind /\ r.page = 0
  BY <1>3
<1>6. r.served <=> served
  BY <1>5, Zenon
<1> HIDE DEF served, hud
<1>7. r \in Flights
  BY <1>1, <1>2, <1>3, <1>4 DEF Flights
<1> QED
  BY <1>5, <1>6, <1>7 DEF served, hud

LEMMA ListRequest ==
    /\ Request("list") \in Flights /\ Well(Request("list"), answers)
    /\ Request("list").kind = "list" /\ Request("list").page = 0
    /\ ~ Request("list").served
<1>1. "list" \in Kinds /\ "list" \in ListKinds
  BY DEF Kinds, ListKinds
<1> QED
  BY <1>1, RequestIs DEF Well, IsList, ListKinds

LEMMA MoreRequest ==
    ASSUME NEW n \in 0 .. MaxPage, NEW f, f = [Request("more") EXCEPT !.page = n]
    PROVE  /\ f \in Flights /\ Well(f, answers)
           /\ f.kind = "more" /\ f.page = n /\ ~ f.served
<1> DEFINE r == Request("more")
<1>1. r \in Flights /\ r.kind = "more" /\ ~ r.served /\ r.hud = "none"
  BY RequestIs DEF Kinds, ListKinds
<1> HIDE DEF r
<1>2. /\ f \in Flights /\ f.kind = "more" /\ f.page = n /\ f.served = r.served
      /\ f.hud = "none"
  BY <1>1 DEF Flights, r
<1> QED
  BY <1>1, <1>2 DEF Well, IsList, ListKinds

LEMMA PayRequest ==
    ASSUME NEW o \in Objects, o.answer <= answers, NEW f,
           f = [Request("pay") EXCEPT !.item = o, !.phone = PhoneOf[o.appt]]
    PROVE  /\ f \in Flights /\ Well(f, answers)
           /\ f.kind = "pay" /\ f.item = o /\ f.phone = PhoneOf[o.appt]
<1> DEFINE r == Request("pay")
<1>1. r \in Flights /\ r.kind = "pay" /\ r.hud = "coming"
  BY RequestIs DEF Kinds, ListKinds
<1>2. PhoneOf[o.appt] \in Phones
  BY DEF Objects, Phones
<1> HIDE DEF r
<1>3. /\ f \in Flights /\ f.kind = "pay" /\ f.hud = "coming"
      /\ f.item = o /\ f.phone = PhoneOf[o.appt]
  BY <1>1, <1>2 DEF Flights, r
<1> QED
  BY <1>3 DEF Well, IsList, ListKinds

LEMMA ResendRequest ==
    ASSUME NEW p \in Phones \cup {None}, NEW f, f = [Request("resend") EXCEPT !.phone = p]
    PROVE  f \in Flights /\ Well(f, answers) /\ f.kind = "resend" /\ f.phone = p
<1> DEFINE r == Request("resend")
<1>1. r \in Flights /\ r.kind = "resend" /\ r.hud = "coming"
  BY RequestIs DEF Kinds, ListKinds
<1> HIDE DEF r
<1>2. f \in Flights /\ f.kind = "resend" /\ f.hud = "coming" /\ f.phone = p
  BY <1>1 DEF Flights, r
<1> QED
  BY <1>2 DEF Well, IsList, ListKinds

\* The request f modifies the appointment of the object o.
Modifies(f, o, new) == /\ f \in Flights /\ Well(f, answers)
                       /\ f.kind = "modify" /\ f.item = o /\ f.status = new

LEMMA ModifyRequest ==
    ASSUME NEW o \in Objects, o.answer <= answers, NEW new \in {"confirmed", "handled"},
           NEW f, f = [Request("modify") EXCEPT !.item = o, !.status = new]
    PROVE  Modifies(f, o, new)
<1> DEFINE r == Request("modify")
<1>1. r \in Flights /\ r.kind = "modify" /\ r.hud = "coming"
  BY RequestIs DEF Kinds, ListKinds
<1>2. new \in Statuses
  BY DEF Statuses
<1> HIDE DEF r
<1>3. f \in Flights /\ f.kind = "modify" /\ f.hud = "coming" /\ f.item = o /\ f.status = new
  BY <1>1, <1>2 DEF Flights, r
<1> QED
  BY <1>3 DEF Well, IsList, ListKinds, Modifies

-----------------------------------------------------------------------------
(* Appointments: types.                                                    *)

Overlays == [view : {"code", "date"}, item : Objects]

\* Two overlays of a kind are not shown.
Distinct(s) == \A k, l \in DOMAIN s : s[k].view = s[l].view => k = l

LEMMA WithoutIs ==
    ASSUME ScreenTypes, NEW view, NEW t, t = Without(view)
    PROVE  /\ t \in Seq(Overlays) /\ Distinct(t)
           /\ \A k \in DOMAIN t : t[k].view # view /\ \E l \in DOMAIN views : t[k] = views[l]
           /\ (\A k, l \in DOMAIN views : k = l) => \A k, l \in DOMAIN t : k = l
<1>0. views \in Seq(Overlays) /\ Distinct(views)
  BY DEF ScreenTypes, TypeOK, Overlays, Distinct
<1>1. CASE \A k \in DOMAIN views : views[k].view # view
  BY <1>0, <1>1 DEF Without
<1>2. CASE \E k \in DOMAIN views : views[k].view = view
  <2> DEFINE i == CHOOSE k \in DOMAIN views : views[k].view = view
  <2>1. i \in DOMAIN views /\ views[i].view = view
    BY <1>2
  <2>2. t = RemoveAt(views, i)
    BY <1>2 DEF Without
  <2> HIDE DEF i
  <2>3. /\ t \in Seq(Overlays) /\ Len(t) = Len(views) - 1 /\ Len(views) \in Nat
        /\ DOMAIN t = 1 .. Len(views) - 1 /\ DOMAIN views = 1 .. Len(views)
    <3>1. t \in Seq(Overlays) /\ Len(t) = Len(views) - 1
      BY <1>0, <2>1, <2>2, Removed
    <3> QED
      BY <1>0, <3>1
  <2>4. \A k \in 1 .. Len(views) - 1 : t[k] = IF k < i THEN views[k] ELSE views[k + 1]
    BY <1>0, <2>1, <2>2, Removed
  <2>5. \A k \in DOMAIN t : \E l \in DOMAIN views :
           l # i /\ t[k] = views[l] /\ k = IF l < i THEN l ELSE l - 1
    <3> TAKE k \in DOMAIN t
    <3>1. CASE k < i
      BY <2>1, <2>3, <2>4, <3>1
    <3>2. CASE ~ (k < i)
      <4>1. k + 1 \in DOMAIN views /\ k + 1 # i /\ ~ (k + 1 < i) /\ k = (k + 1) - 1
        BY <2>1, <2>3, <3>2
      <4> QED
        BY <2>3, <2>4, <3>2, <4>1
    <3> QED
      BY <3>1, <3>2
  <2>6. Distinct(t)
    BY <1>0, <2>5 DEF Distinct
  <2>7. \A k \in DOMAIN t : t[k].view # view
    BY <1>0, <2>1, <2>5 DEF Distinct
  <2>8. (\A k, l \in DOMAIN views : k = l) => \A k, l \in DOMAIN t : k = l
    BY <2>1, <2>5
  <2> QED
    BY <2>3, <2>5, <2>6, <2>7, <2>8
<1> QED
  BY <1>1, <1>2

LEMMA ShownIs ==
    ASSUME ScreenTypes, NEW view \in {"code", "date"}, NEW item \in Objects,
           NEW t, t = Shown(view, item)
    PROVE  /\ t \in Seq(Overlays) /\ Distinct(t)
           /\ \A k \in DOMAIN t : t[k] = [view |-> view, item |-> item]
                                  \/ \E l \in DOMAIN views : t[k] = views[l]
           /\ views = <<>> => \A k, l \in DOMAIN t :
                                k = l /\ t[k] = [view |-> view, item |-> item]
<1> DEFINE s == Without(view)
           v == [view |-> view, item |-> item]
<1>1. /\ s \in Seq(Overlays) /\ Distinct(s)
      /\ \A k \in DOMAIN s : s[k].view # view /\ \E l \in DOMAIN views : s[k] = views[l]
  BY WithoutIs
<1>2. v \in Overlays /\ v.view = view
  BY DEF Overlays
<1>3. t = Append(s, v)
  BY DEF Shown
<1>4. views = <<>> => s = <<>>
  BY DEF Without
<1> HIDE DEF s, v
<1>5. /\ t \in Seq(Overlays)
      /\ \A k \in DOMAIN t : k \in DOMAIN s \/ (k = Len(s) + 1 /\ t[k] = v)
      /\ \A k \in DOMAIN s : t[k] = s[k]
  BY <1>1, <1>2, <1>3, Appended
<1>6. Distinct(t)
  BY <1>1, <1>2, <1>5 DEF Distinct
<1>7. s = <<>> => \A k, l \in DOMAIN t : k = l /\ t[k] = v
  BY <1>5
<1> QED
  BY <1>1, <1>4, <1>5, <1>6, <1>7 DEF v

LEMMA FlightsLeft ==
    ASSUME ScreenTypes, NEW i \in DOMAIN flights, NEW t, t = RemoveAt(flights, i)
    PROVE  /\ t \in Seq(Flights) /\ Len(t) < MaxInFlight
           /\ \A j \in DOMAIN t : Well(t[j], answers)
<1>0. /\ flights \in Seq(Flights) /\ Len(flights) \in Nat /\ DOMAIN flights = 1 .. Len(flights)
      /\ Len(flights) <= MaxInFlight /\ MaxInFlight \in Nat
  BY SizeAssumption DEF ScreenTypes, TypeOK
<1>1. t \in Seq(Flights) /\ Len(t) = Len(flights) - 1
  BY Zenon, <1>0, Removed
<1>2. \A j \in 1 .. Len(flights) - 1 : t[j] = IF j < i THEN flights[j] ELSE flights[j + 1]
  BY <1>0, Removed
<1>3. \A j \in DOMAIN t : \E k \in DOMAIN flights : t[j] = flights[k]
  <2>1. DOMAIN t = 1 .. Len(flights) - 1
    BY <1>0, <1>1
  <2>2. \A j \in DOMAIN t : j \in DOMAIN flights /\ j + 1 \in DOMAIN flights
    BY <1>0, <2>1
  <2> QED
    BY <1>2, <2>1, <2>2
<1> QED
  BY <1>0, <1>1, <1>3 DEF ScreenTypes, AllWell

LEMMA FlightsStarted ==
    ASSUME NEW s \in Seq(Flights), Len(s) < MaxInFlight, NEW f \in Flights, Well(f, answers),
           \A j \in DOMAIN s : Well(s[j], answers), NEW t, t = Append(s, f)
    PROVE  /\ t \in Seq(Flights) /\ Len(t) <= MaxInFlight
           /\ \A j \in DOMAIN t : Well(t[j], answers)
<1>1. t \in Seq(Flights) /\ Len(t) = Len(s) + 1 /\ Len(s) \in Nat /\ MaxInFlight \in Nat
  BY Appended, SizeAssumption
<1>2. \A j \in DOMAIN t : t[j] = f \/ (j \in DOMAIN s /\ t[j] = s[j])
  BY Appended
<1> QED
  BY <1>1, <1>2

\* The objects of an answer are new, and show what it says.
LEMMA Created ==
    ASSUME ScreenTypes, NEW new \in Seq(Lines), CreateObjects(new)
    PROVE  /\ answers' = answers + 1 /\ answers' \in 0 .. MaxAnswers
           /\ status' \in [Objects -> Statuses]
           /\ \A o \in Objects : o.answer <= answers => status'[o] = status[o]
           /\ \A i \in DOMAIN new :
                /\ NewObject(new[i]) \in Objects
                /\ NewObject(new[i]).appt = new[i].appt
                /\ NewObject(new[i]).answer = answers'
                /\ \E k \in DOMAIN new :
                     new[k].appt = new[i].appt /\ status'[NewObject(new[i])] = new[k].status
<1>0. /\ answers \in 0 .. MaxAnswers /\ answers < MaxAnswers /\ answers' = answers + 1
      /\ MaxAnswers \in Nat /\ status \in [Objects -> Statuses]
  BY SizeAssumption DEF CreateObjects, ScreenTypes, TypeOK
<1>1. answers' \in 1 .. MaxAnswers
  BY <1>0
<1>2. \A i \in DOMAIN new : new[i] \in Lines
  BY Element
<1>3. \A i \in DOMAIN new :
        /\ NewObject(new[i]) \in Objects /\ NewObject(new[i]).appt = new[i].appt
        /\ NewObject(new[i]).answer = answers'
  BY <1>0, <1>1, <1>2 DEF NewObject, Objects, Lines
<1> DEFINE For(o) == \E i \in DOMAIN new : o = NewObject(new[i])
           at(o) == CHOOSE k \in DOMAIN new : o = NewObject(new[k])
<1>4. status' = [o \in Objects |-> IF For(o) THEN new[at(o)].status ELSE status[o]]
  BY DEF CreateObjects
<1>5. \A o : For(o) => at(o) \in DOMAIN new /\ o = NewObject(new[at(o)])
  OBVIOUS
<1>6. \A o \in Objects : o.answer <= answers => ~ For(o)
  BY <1>0, <1>3
<1>7. \A i \in DOMAIN new : For(NewObject(new[i]))
  OBVIOUS
<1> HIDE DEF For, at
<1>8. \A o \in Objects : For(o) => new[at(o)].status \in Statuses
  BY <1>2, <1>5 DEF Lines
<1>9. status' \in [Objects -> Statuses]
  BY <1>0, <1>4, <1>8
<1>10. \A o \in Objects : o.answer <= answers => status'[o] = status[o]
  BY <1>4, <1>6
<1>11. ASSUME NEW i \in DOMAIN new
       PROVE  \E k \in DOMAIN new :
                 new[k].appt = new[i].appt /\ status'[NewObject(new[i])] = new[k].status
  <2> DEFINE o == NewObject(new[i])
             k == at(o)
  <2>1. o \in Objects /\ For(o)
    BY <1>3, <1>7
  <2> HIDE DEF o
  <2>2. k \in DOMAIN new /\ o = NewObject(new[k]) /\ status'[o] = new[k].status
    BY <1>4, <1>5, <2>1
  <2> HIDE DEF k
  <2>3. o.appt = new[k].appt /\ o.appt = new[i].appt
    BY <1>3, <2>2 DEF o
  <2> QED
    BY <2>2, <2>3 DEF o
<1> QED
  BY <1>0, <1>1, <1>3, <1>9, <1>10, <1>11

\* Touches that only open or close an overlay.
LEMMA ViewsKeepTypes ==
    ASSUME ScreenTypes, UNCHANGED <<server, rows, pageIndex, flights, code>>,
           views' \in Seq(Overlays), Distinct(views'), {calm', early', patient'} \subseteq BOOLEAN,
           \A k \in DOMAIN views' : views'[k].item.answer <= answers
    PROVE  ScreenTypes'
<1>1. UNCHANGED <<server, list, status, answers, pageIndex, flights, expectCode, sentPhone>>
  BY DEF rows, code
<1>2. /\ server' \in [Appointments -> Statuses] /\ list' \in Seq(Objects)
      /\ status' \in [Objects -> Statuses] /\ answers' \in 0 .. MaxAnswers
      /\ pageIndex' \in 0 .. MaxPage
      /\ flights' \in Seq(Flights) /\ Len(flights') <= MaxInFlight
      /\ {expectCode', sentPhone'} \subseteq Phones \cup {None}
      /\ \A k \in DOMAIN list' : list'[k].answer <= answers'
      /\ \A k \in DOMAIN views' : views'[k].item.answer <= answers'
      /\ \A i \in DOMAIN flights' : Well(flights'[i], answers')
  BY <1>1 DEF ScreenTypes, TypeOK, AllWell, Made
<1> QED
  BY <1>2 DEF ScreenTypes, TypeOK, AllWell, Made, Overlays, Distinct

\* An action that starts a request after those that are in flight, or after what
\* is left of them.
LEMMA StartKeepsTypes ==
    ASSUME ScreenTypes, NEW s,
           (s = flights /\ Room) \/ (\E i \in DOMAIN flights : s = RemoveAt(flights, i)),
           NEW f \in Flights, Well(f, answers), flights' = Append(s, f),
           UNCHANGED <<server, list, answers>>, status' \in [Objects -> Statuses],
           pageIndex' \in 0 .. MaxPage, {expectCode', sentPhone'} \subseteq Phones \cup {None},
           {calm', early', patient'} \subseteq BOOLEAN,
           views' \in Seq(Overlays), Distinct(views'),
           \A k \in DOMAIN views' : views'[k].item.answer <= answers
    PROVE  ScreenTypes'
<1>1. /\ s \in Seq(Flights) /\ Len(s) < MaxInFlight
      /\ \A j \in DOMAIN s : Well(s[j], answers)
  <2>1. CASE s = flights /\ Room
    BY <2>1 DEF Room, ScreenTypes, TypeOK, AllWell
  <2>2. CASE \E i \in DOMAIN flights : s = RemoveAt(flights, i)
    BY <2>2, FlightsLeft
  <2> QED
    BY <2>1, <2>2
<1>2. /\ flights' \in Seq(Flights) /\ Len(flights') <= MaxInFlight
      /\ \A j \in DOMAIN flights' : Well(flights'[j], answers)
  BY <1>1, FlightsStarted
<1>3. /\ server' \in [Appointments -> Statuses] /\ list' \in Seq(Objects)
      /\ answers' \in 0 .. MaxAnswers /\ answers' = answers
      /\ \A k \in DOMAIN list' : list'[k].answer <= answers'
  BY DEF ScreenTypes, TypeOK, Made
<1> QED
  BY <1>2, <1>3 DEF ScreenTypes, TypeOK, AllWell, Made, Overlays, Distinct

LEMMA ObjectsOld ==
    ASSUME ScreenTypes
    PROVE  /\ \A k \in DOMAIN list : list[k] \in Objects /\ list[k].answer <= answers
           /\ \A k \in DOMAIN views : /\ views[k].item \in Objects
                                      /\ views[k].view \in {"code", "date"}
                                      /\ views[k].item.answer <= answers
           /\ \A o \in CodeItems : o \in Objects /\ o.answer <= answers
           /\ views \in Seq(Overlays) /\ Distinct(views)
           /\ answers \in Nat
<1>1. list \in Seq(Objects) /\ views \in Seq(Overlays) /\ Distinct(views) /\ answers \in Nat
  BY SizeAssumption DEF ScreenTypes, TypeOK, Overlays, Distinct
<1>2. \A k \in DOMAIN list : list[k] \in Objects /\ list[k].answer <= answers
  BY <1>1, Element DEF ScreenTypes, Made
<1>3. \A k \in DOMAIN views : /\ views[k].item \in Objects
                              /\ views[k].view \in {"code", "date"}
                              /\ views[k].item.answer <= answers
  <2>1. \A k \in DOMAIN views : views[k] \in Overlays
    BY <1>1, Element
  <2> QED
    BY <2>1 DEF Overlays, ScreenTypes, Made
<1> QED
  BY <1>1, <1>2, <1>3 DEF CodeItems

LEMMA ScreenInitTypes == Init => ScreenTypes
<1> SUFFICES ASSUME Init PROVE ScreenTypes
  OBVIOUS
<1>1. /\ server \in [Appointments -> Statuses] /\ list = <<>> /\ answers = 0
      /\ status = [o \in Objects |-> "pending"] /\ pageIndex = 0 /\ views = <<>>
      /\ expectCode = None /\ sentPhone = None
  BY DEF Init
<1>2. {calm, early, patient} \subseteq BOOLEAN
  BY DEF Init
<1>3. Request("list") \in Flights /\ Well(Request("list"), answers)
  BY ListRequest
<1>4. MaxInFlight \in Nat /\ 0 \in 0 .. MaxAnswers /\ 0 \in 0 .. MaxPage
  BY SizeAssumption
<1>5. /\ flights \in Seq(Flights) /\ Len(flights) = 1
      /\ \A i \in DOMAIN flights : flights[i] = Request("list")
  <2> DEFINE r == Request("list")
  <2>1. flights = <<r>> /\ r \in Flights
    BY <1>3 DEF Init
  <2> HIDE DEF r
  <2> QED
    BY <2>1 DEF r
<1>6. status \in [Objects -> Statuses]
  BY <1>1 DEF Statuses
<1>7. TypeOK
  <2>1. /\ list \in Seq(Objects) /\ answers \in 0 .. MaxAnswers /\ pageIndex \in 0 .. MaxPage
        /\ flights \in Seq(Flights) /\ Len(flights) <= MaxInFlight
    BY <1>1, <1>4, <1>5, SizeAssumption
  <2>2. /\ {expectCode, sentPhone} \subseteq Phones \cup {None}
        /\ views \in Seq([view : {"code", "date"}, item : Objects])
        /\ \A k, l \in DOMAIN views : views[k].view = views[l].view => k = l
    BY <1>1
  <2> QED
    BY <1>1, <1>2, <1>6, <2>1, <2>2 DEF TypeOK
<1>8. AllWell
  BY <1>3, <1>5 DEF AllWell
<1>9. Made
  BY <1>1 DEF Made
<1> QED
  BY <1>7, <1>8, <1>9 DEF ScreenTypes

LEMMA TouchListKeepsTypes ==
    ASSUME ScreenTypes, {calm', early', patient'} \subseteq BOOLEAN, PullToRefresh \/ LoadMore
    PROVE  ScreenTypes'
<1>1. UNCHANGED <<server, list, status, answers, expectCode, sentPhone, views>> /\ Room
  BY DEF PullToRefresh, LoadMore, Start, rows, code
<1>2. \E f \in Flights : /\ Well(f, answers) /\ flights' = Append(flights, f)
                         /\ pageIndex' \in 0 .. MaxPage
  <2>1. CASE PullToRefresh
    <3>1. pageIndex' \in 0 .. MaxPage
      BY <2>1, SizeAssumption DEF PullToRefresh, GetAppointmentList
    <3> QED
      BY <2>1, <3>1, ListRequest DEF PullToRefresh, GetAppointmentList
  <2>2. CASE LoadMore
    <3>1. pageIndex + 1 \in 0 .. MaxPage
      BY <2>2, SizeAssumption DEF LoadMore, ScreenTypes, TypeOK
    <3> QED
      BY <2>2, <3>1, MoreRequest DEF LoadMore, Start
  <2> QED
    BY <2>1, <2>2
<1>3. /\ status' \in [Objects -> Statuses]
      /\ {expectCode', sentPhone'} \subseteq Phones \cup {None}
  BY <1>1 DEF ScreenTypes, TypeOK
<1> QED
  BY <1>1, <1>2, <1>3, ObjectsOld, StartKeepsTypes

LEMMA ModifyTimeKeepsTypes ==
    ASSUME ScreenTypes, {calm', early', patient'} \subseteq BOOLEAN,
           NEW row \in DOMAIN list, ModifyTime(row)
    PROVE  ScreenTypes'
<1>1. UNCHANGED <<server, rows, pageIndex, flights, code>> /\ views' = Shown("date", list[row])
  BY DEF ModifyTime
<1>2. list[row] \in Objects /\ list[row].answer <= answers
  BY ObjectsOld
<1>3. /\ views' \in Seq(Overlays) /\ Distinct(views')
      /\ \A k \in DOMAIN views' : views'[k] = [view |-> "date", item |-> list[row]]
                                  \/ \E l \in DOMAIN views : views'[k] = views[l]
  BY <1>1, <1>2, ShownIs
<1>4. \A k \in DOMAIN views' : views'[k].item.answer <= answers
  BY <1>2, <1>3, ObjectsOld
<1> QED
  BY <1>1, <1>3, <1>4, ViewsKeepTypes

LEMMA CloseKeepsTypes ==
    ASSUME ScreenTypes, {calm', early', patient'} \subseteq BOOLEAN, CancelCode \/ CloseDate
    PROVE  ScreenTypes'
<1>1. /\ UNCHANGED <<server, rows, pageIndex, flights, code>>
      /\ views' = Without("code") \/ views' = Without("date")
  BY DEF CancelCode, CloseDate
<1>2. /\ views' \in Seq(Overlays) /\ Distinct(views')
      /\ \A k \in DOMAIN views' : \E l \in DOMAIN views : views'[k] = views[l]
  BY <1>1, WithoutIs
<1>3. \A k \in DOMAIN views' : views'[k].item.answer <= answers
  BY <1>2, ObjectsOld
<1> QED
  BY <1>1, <1>2, <1>3, ViewsKeepTypes

LEMMA CompleteKeepsTypes ==
    ASSUME ScreenTypes, {calm', early', patient'} \subseteq BOOLEAN,
           NEW row \in DOMAIN list, CompleteService(row)
    PROVE  ScreenTypes'
<1> DEFINE o == list[row]
           f == [Request("pay") EXCEPT !.item = o, !.phone = PhoneOf[o.appt]]
<1>1. /\ UNCHANGED <<server, list, status, answers, pageIndex, expectCode, views>>
      /\ Room /\ flights' = Append(flights, f) /\ sentPhone' = PhoneOf[o.appt]
  BY DEF CompleteService, Start, rows
<1>2. o \in Objects /\ o.answer <= answers
  BY ObjectsOld
<1>3. f \in Flights /\ Well(f, answers)
  BY Zenon, <1>2, PayRequest
<1>4. sentPhone' \in Phones
  BY <1>1, <1>2 DEF Objects, Phones
<1> HIDE DEF f, o
<1>5. /\ status' \in [Objects -> Statuses] /\ pageIndex' \in 0 .. MaxPage
      /\ {expectCode', sentPhone'} \subseteq Phones \cup {None}
  BY <1>1, <1>4 DEF ScreenTypes, TypeOK
<1> QED
  BY <1>1, <1>3, <1>5, ObjectsOld, StartKeepsTypes

LEMMA ResendKeepsTypes ==
    ASSUME ScreenTypes, {calm', early', patient'} \subseteq BOOLEAN, ResendCode
    PROVE  ScreenTypes'
<1> DEFINE f == [Request("resend") EXCEPT !.phone = sentPhone]
<1>1. /\ UNCHANGED <<server, list, status, answers, pageIndex, expectCode, sentPhone, views>>
      /\ Room /\ flights' = Append(flights, f)
  BY DEF ResendCode, Start, rows, code
<1>2. sentPhone \in Phones \cup {None}
  BY DEF ScreenTypes, TypeOK
<1>3. f \in Flights /\ Well(f, answers)
  BY <1>2, ResendRequest
<1> HIDE DEF f
<1>5. /\ status' \in [Objects -> Statuses] /\ pageIndex' \in 0 .. MaxPage
      /\ {expectCode', sentPhone'} \subseteq Phones \cup {None}
  BY <1>1 DEF ScreenTypes, TypeOK
<1> QED
  BY <1>1, <1>3, <1>5, ObjectsOld, StartKeepsTypes

\* The two touches that modify an appointment: with its code, to another time.
LEMMA ModifyingKeepsTypes ==
    ASSUME ScreenTypes, {calm', early', patient'} \subseteq BOOLEAN,
           NEW o \in Objects, o.answer <= answers, NEW new \in {"confirmed", "handled"},
           ModifyAppointment(o, new), NEW view, views' = Without(view),
           UNCHANGED <<server, list, answers, pageIndex, code>>
    PROVE  ScreenTypes'
<1> DEFINE f == [Request("modify") EXCEPT !.item = o, !.status = new]
<1>1. Room /\ flights' = Append(flights, f) /\ status' = [status EXCEPT ![o] = new]
  BY DEF ModifyAppointment, Start
<1>2. f \in Flights /\ Well(f, answers)
  <2>1. Modifies(f, o, new)
    BY Zenon, ModifyRequest
  <2> QED
    BY <2>1 DEF Modifies
<1>3. status' \in [Objects -> Statuses]
  <2>1. new \in Statuses
    BY DEF Statuses
  <2> QED
    BY <1>1, <2>1 DEF ScreenTypes, TypeOK
<1>4. /\ views' \in Seq(Overlays) /\ Distinct(views')
      /\ \A k \in DOMAIN views' : \E l \in DOMAIN views : views'[k] = views[l]
  BY WithoutIs
<1>5. \A k \in DOMAIN views' : views'[k].item.answer <= answers
  BY <1>4, ObjectsOld
<1> HIDE DEF f
<1>6. /\ pageIndex' \in 0 .. MaxPage
      /\ {expectCode', sentPhone'} \subseteq Phones \cup {None}
  BY DEF ScreenTypes, TypeOK, code
<1> QED
  BY <1>1, <1>2, <1>3, <1>4, <1>5, <1>6, StartKeepsTypes

LEMMA OnTopIs ==
    ASSUME ScreenTypes, NEW view, OnTop(view)
    PROVE  \E k \in DOMAIN views : Last(views) = views[k] /\ views[k].view = view
<1>1. views \in Seq(Overlays) /\ views # <<>> /\ Last(views).view = view
  BY DEF OnTop, ScreenTypes, TypeOK, Overlays
<1>2. Len(views) \in DOMAIN views /\ Last(views) = views[Len(views)]
  BY <1>1 DEF Last
<1> QED
  BY <1>1, <1>2

LEMMA CodeOrDateKeepsTypes ==
    ASSUME ScreenTypes, {calm', early', patient'} \subseteq BOOLEAN,
           (\E typed \in Phones : TypeCode(typed)) \/ DoneDate
    PROVE  ScreenTypes'
<1>1. CASE \E typed \in Phones : TypeCode(typed)
  <2>1. /\ \E o \in CodeItems : ModifyAppointment(o, "handled")
        /\ views' = Without("code") /\ UNCHANGED <<server, list, answers, pageIndex, code>>
    BY <1>1 DEF TypeCode
  <2> QED
    BY <2>1, ObjectsOld, ModifyingKeepsTypes
<1>2. CASE DoneDate
  <2>1. /\ ModifyAppointment(Last(views).item, "confirmed") /\ OnTop("date")
        /\ views' = Without("date") /\ UNCHANGED <<server, list, answers, pageIndex, code>>
    BY <1>2 DEF DoneDate
  <2>2. Last(views).item \in Objects /\ Last(views).item.answer <= answers
    BY <2>1, OnTopIs, ObjectsOld
  <2> QED
    BY <2>1, <2>2, ModifyingKeepsTypes
<1> QED
  BY <1>1, <1>2

\* What is known of a request in flight.
LEMMA FlightIs ==
    ASSUME ScreenTypes, NEW i \in DOMAIN flights
    PROVE  /\ flights[i] \in Flights /\ Well(flights[i], answers)
           /\ flights[i].rows \in Seq(Lines) /\ flights[i].phone \in Phones \cup {None}
           /\ flights[i].page \in Nat /\ flights[i].kind \in Kinds
<1>1. flights \in Seq(Flights)
  BY DEF ScreenTypes, TypeOK
<1>2. flights[i] \in Flights
  BY <1>1, Element
<1>3. Well(flights[i], answers)
  BY DEF ScreenTypes, AllWell
<1>4. flights[i].rows \in Seq(Lines)
  BY <1>2 DEF Flights, Lines
<1>5. /\ flights[i].phone \in Phones \cup {None} /\ flights[i].page \in Nat
      /\ flights[i].kind \in Kinds
  BY <1>2, SizeAssumption DEF Flights
<1> QED
  BY <1>2, <1>3, <1>4, <1>5

\* One request gives place to another of its kind.
LEMMA ReplaceKeepsTypes ==
    ASSUME ScreenTypes, {calm', early', patient'} \subseteq BOOLEAN,
           NEW i \in DOMAIN flights, NEW f \in Flights, Well(f, answers),
           flights' = [flights EXCEPT ![i] = f],
           UNCHANGED <<rows, pageIndex, code, views>>, server' \in [Appointments -> Statuses]
    PROVE  ScreenTypes'
<1>1. flights \in Seq(Flights) /\ Len(flights) <= MaxInFlight
  BY DEF ScreenTypes, TypeOK
<1>2. /\ flights' \in Seq(Flights) /\ Len(flights') = Len(flights)
      /\ DOMAIN flights' = DOMAIN flights /\ flights'[i] = f
      /\ \A j \in DOMAIN flights : j # i => flights'[j] = flights[j]
  BY <1>1, Replaced
<1>3. \A j \in DOMAIN flights' : Well(flights'[j], answers)
  BY <1>2 DEF ScreenTypes, AllWell
<1>4. /\ UNCHANGED <<list, status, answers, pageIndex, expectCode, sentPhone, views>>
      /\ Len(flights') <= MaxInFlight
  BY <1>1, <1>2 DEF rows, code
<1>5. TypeOK'
  BY <1>2, <1>4 DEF ScreenTypes, TypeOK
<1>6. AllWell'
  BY <1>3, <1>4 DEF AllWell
<1>7. Made'
  BY <1>4 DEF ScreenTypes, Made
<1> QED
  BY <1>5, <1>6, <1>7 DEF ScreenTypes

\* Serve sets these fields of a request.
Served(f, rs) == [f EXCEPT !.served = TRUE, !.rows = IF f.kind \in ListKinds THEN rs ELSE @]

LEMMA ServeIs ==
    ASSUME ScreenTypes, NEW i \in DOMAIN flights, Serve(i),
           NEW f, f = Served(flights[i], Page(flights[i].page))
    PROVE  /\ flights' = [flights EXCEPT ![i] = f]
           /\ f \in Flights /\ Well(f, answers) /\ f.served
           /\ f.kind = flights[i].kind /\ f.page = flights[i].page /\ f.hud = flights[i].hud
           /\ f.item = flights[i].item /\ f.phone = flights[i].phone
           /\ f.status = flights[i].status
           /\ f.kind \in ListKinds => f.rows = Page(f.page)
           /\ ~ flights[i].served
<1> DEFINE g == flights[i]
           rs == IF g.kind \in ListKinds THEN Page(g.page) ELSE g.rows
<1>0. flights \in Seq(Flights)
  BY DEF ScreenTypes, TypeOK
<1>1. g \in Flights /\ Well(g, answers) /\ g.page \in Nat /\ g.rows \in Seq(Lines)
  BY FlightIs
<1>2. ~ g.served /\ flights' = [flights EXCEPT ![i].served = TRUE,
                  ![i].rows = IF flights[i].kind \in ListKinds THEN Page(flights[i].page) ELSE @]
  BY DEF Serve
<1>3. f = [g EXCEPT !.served = TRUE, !.rows = rs]
  BY DEF Served
<1>4. flights' = [flights EXCEPT ![i] = f]
  BY <1>0, <1>2 DEF Served
<1>5. /\ Page(g.page) \in Seq(Lines)
      /\ Len(Page(g.page)) = Upto(g.page + 1) - Upto(g.page)
      /\ \A k \in DOMAIN Page(g.page) :
           Page(g.page)[k].appt = Order[Upto(g.page) + k]
  <2>1. server \in [Appointments -> Statuses]
    BY DEF ScreenTypes, TypeOK
  <2> QED
    BY <1>1, <2>1, PageIs
<1>6. rs \in Seq(Lines)
  BY <1>1, <1>5
<1>7. g.kind \in ListKinds => rs = Page(g.page)
  OBVIOUS
<1> HIDE DEF g, rs
<1>8. /\ f.kind = g.kind /\ f.page = g.page /\ f.hud = g.hud /\ f.item = g.item
      /\ f.phone = g.phone /\ f.status = g.status /\ f.rows = rs /\ f.served
  BY <1>1, <1>3 DEF Flights
<1>9. f \in Flights
  BY <1>1, <1>3, <1>6 DEF Flights, Lines
<1>10. Well(f, answers)
  <2>1. IsList(f) => /\ Len(f.rows) = Upto(f.page + 1) - Upto(f.page)
                     /\ \A k \in DOMAIN f.rows : f.rows[k].appt = Order[Upto(f.page) + k]
    BY <1>5, <1>7, <1>8 DEF IsList
  <2> QED
    BY <1>1, <1>8, <2>1 DEF Well, IsList
<1> QED
  BY <1>2, <1>4, <1>7, <1>8, <1>9, <1>10 DEF g

LEMMA ServeKeepsTypes ==
    ASSUME ScreenTypes, {calm', early', patient'} \subseteq BOOLEAN,
           NEW i \in DOMAIN flights, Serve(i)
    PROVE  ScreenTypes'
<1> DEFINE f == Served(flights[i], Page(flights[i].page))
<1>1. flights' = [flights EXCEPT ![i] = f] /\ f \in Flights /\ Well(f, answers)
  BY ServeIs
<1>2. server' \in [Appointments -> Statuses]
  <2>1. server \in [Appointments -> Statuses]
    BY DEF ScreenTypes, TypeOK
  <2>2. flights[i].kind = "modify" => /\ flights[i].item.appt \in Appointments
                                      /\ flights[i].status \in Statuses
    BY FlightIs DEF Well, Objects, Statuses
  <2> QED
    BY <2>1, <2>2 DEF Serve
<1> HIDE DEF f
<1> QED
  BY <1>1, <1>2, ReplaceKeepsTypes DEF Serve

LEMMA HudKeepsTypes ==
    ASSUME ScreenTypes, {calm', early', patient'} \subseteq BOOLEAN,
           NEW i \in DOMAIN flights, ShowHud(i)
    PROVE  ScreenTypes'
<1> DEFINE f == [flights[i] EXCEPT !.hud = "up"]
<1>1. flights' = [flights EXCEPT ![i] = f] /\ flights[i].hud = "coming"
  BY DEF ShowHud, ScreenTypes, TypeOK
<1>2. flights[i] \in Flights /\ Well(flights[i], answers)
  BY FlightIs
<1>3. /\ f \in Flights /\ f.kind = flights[i].kind /\ f.page = flights[i].page
      /\ f.hud = "up" /\ f.item = flights[i].item /\ f.rows = flights[i].rows
      /\ f.phone = flights[i].phone /\ f.status = flights[i].status
      /\ f.served = flights[i].served
  BY <1>2 DEF Flights
<1>4. ~ IsList(flights[i])
  BY <1>1, <1>2 DEF Well
<1> HIDE DEF f
<1>5. Well(f, answers)
  BY <1>2, <1>3, <1>4 DEF Well, IsList
<1>6. server' \in [Appointments -> Statuses] /\ UNCHANGED <<rows, pageIndex, code, views>>
  BY DEF ShowHud, ScreenTypes, TypeOK
<1> QED
  BY <1>1, <1>3, <1>5, <1>6, ReplaceKeepsTypes

\* One request is over; nothing is created.
LEMMA EndKeepsTypes ==
    ASSUME ScreenTypes, {calm', early', patient'} \subseteq BOOLEAN,
           NEW i \in DOMAIN flights, flights' = RemoveAt(flights, i),
           UNCHANGED <<server, rows, pageIndex, sentPhone>>, expectCode' \in Phones \cup {None},
           views' \in Seq(Overlays), Distinct(views'),
           \A k \in DOMAIN views' : views'[k].item.answer <= answers
    PROVE  ScreenTypes'
<1>1. /\ flights' \in Seq(Flights) /\ Len(flights') <= MaxInFlight
      /\ \A j \in DOMAIN flights' : Well(flights'[j], answers)
  <2>1. /\ flights' \in Seq(Flights) /\ Len(flights') < MaxInFlight
        /\ \A j \in DOMAIN flights' : Well(flights'[j], answers)
    BY FlightsLeft
  <2> QED
    BY <2>1, SizeAssumption
<1>2. UNCHANGED <<server, list, status, answers, pageIndex, sentPhone>>
  BY DEF rows
<1>3. TypeOK'
  BY <1>1, <1>2 DEF ScreenTypes, TypeOK, Overlays, Distinct
<1>4. AllWell'
  BY <1>1, <1>2 DEF AllWell
<1>5. Made'
  BY <1>2 DEF ScreenTypes, Made
<1> QED
  BY <1>3, <1>4, <1>5 DEF ScreenTypes

LEMMA FailKeepsTypes ==
    ASSUME ScreenTypes, {calm', early', patient'} \subseteq BOOLEAN,
           NEW i \in DOMAIN flights, Fail(i) \/ CodeResent(i)
    PROVE  ScreenTypes'
<1>1. /\ flights' = RemoveAt(flights, i)
      /\ UNCHANGED <<server, rows, pageIndex, sentPhone, views>>
      /\ expectCode' = expectCode \/ expectCode' = flights[i].phone
  BY DEF Fail, CodeResent, code
<1>2. expectCode' \in Phones \cup {None}
  BY <1>1, FlightIs DEF ScreenTypes, TypeOK
<1> QED
  BY <1>1, <1>2, ObjectsOld, EndKeepsTypes

LEMMA CodeViewKeepsTypes ==
    ASSUME ScreenTypes, {calm', early', patient'} \subseteq BOOLEAN,
           NEW i \in DOMAIN flights, ShowCodeView(i)
    PROVE  ScreenTypes'
<1> DEFINE o == flights[i].item
<1>1. /\ flights' = RemoveAt(flights, i) /\ UNCHANGED <<server, rows, pageIndex, sentPhone>>
      /\ views' = Shown("code", o) /\ expectCode' = flights[i].phone
      /\ flights[i].kind = "pay"
  BY DEF ShowCodeView
<1>2. o \in Objects /\ o.answer <= answers /\ expectCode' \in Phones \cup {None}
  BY <1>1, FlightIs DEF Well
<1> HIDE DEF o
<1>3. /\ views' \in Seq(Overlays) /\ Distinct(views')
      /\ \A k \in DOMAIN views' : views'[k] = [view |-> "code", item |-> o]
                                  \/ \E l \in DOMAIN views : views'[k] = views[l]
  BY <1>1, <1>2, ShownIs
<1>4. \A k \in DOMAIN views' : views'[k].item.answer <= answers
  BY <1>2, <1>3, ObjectsOld
<1> QED
  BY <1>1, <1>2, <1>3, <1>4, EndKeepsTypes

LEMMA ModifiedKeepsTypes ==
    ASSUME ScreenTypes, {calm', early', patient'} \subseteq BOOLEAN,
           NEW i \in DOMAIN flights, Modified(i)
    PROVE  ScreenTypes'
<1>1. /\ UNCHANGED <<server, list, status, answers, expectCode, sentPhone, views>>
      /\ pageIndex' = 0 /\ flights' = Append(RemoveAt(flights, i), Request("list"))
  BY DEF Modified, GetAppointmentList, rows, code
<1>2. /\ status' \in [Objects -> Statuses] /\ pageIndex' \in 0 .. MaxPage
      /\ {expectCode', sentPhone'} \subseteq Phones \cup {None}
  BY <1>1, SizeAssumption DEF ScreenTypes, TypeOK
<1> QED
  BY <1>1, <1>2, ObjectsOld, ListRequest, StartKeepsTypes

\* The rows of an answer, as the objects the screen shows.
LEMMA NewRows ==
    ASSUME ScreenTypes, NEW new \in Seq(Lines), CreateObjects(new),
           NEW t, t = [k \in DOMAIN new |-> NewObject(new[k])]
    PROVE  /\ t \in Seq(Objects) /\ Len(t) = Len(new) /\ DOMAIN t = DOMAIN new
           /\ DOMAIN t = 1 .. Len(t)
           /\ \A k \in DOMAIN t : /\ t[k] \in Objects /\ t[k].answer = answers'
                                  /\ t[k].appt = new[k].appt
<1>1. \A k \in DOMAIN new : /\ NewObject(new[k]) \in Objects
                            /\ NewObject(new[k]).answer = answers'
                            /\ NewObject(new[k]).appt = new[k].appt
  BY Created
<1>2. Len(new) \in Nat /\ DOMAIN new = 1 .. Len(new)
  OBVIOUS
<1>3. t \in [1 .. Len(new) -> Objects]
  BY <1>1, <1>2
<1>4. t \in Seq(Objects) /\ Len(t) = Len(new) /\ DOMAIN t = 1 .. Len(new)
  BY <1>2, <1>3, Lined
<1> QED
  BY <1>1, <1>2, <1>4

Joins(s, t, u) ==
    \A k \in DOMAIN u : \/ k \in DOMAIN s /\ k <= Len(s) /\ u[k] = s[k]
                        \/ k > Len(s) /\ k - Len(s) \in DOMAIN t /\ u[k] = t[k - Len(s)]

LEMMA Joined ==
    ASSUME NEW S, NEW s \in Seq(S), NEW t \in Seq(S), NEW u, u = s \o t
    PROVE  u \in Seq(S) /\ Len(u) = Len(s) + Len(t) /\ Joins(s, t, u)
<1>1. /\ u \in Seq(S) /\ Len(u) = Len(s) + Len(t) /\ Len(s) \in Nat /\ Len(t) \in Nat
      /\ \A k \in 1 .. Len(s) + Len(t) : u[k] = IF k <= Len(s) THEN s[k] ELSE t[k - Len(s)]
  BY Together
<1>2. DOMAIN u = 1 .. Len(s) + Len(t) /\ DOMAIN s = 1 .. Len(s) /\ DOMAIN t = 1 .. Len(t)
  BY <1>1
<1>3. \A k \in DOMAIN u : \/ k \in DOMAIN s /\ k <= Len(s) /\ u[k] = s[k]
                          \/ k > Len(s) /\ k - Len(s) \in DOMAIN t /\ u[k] = t[k - Len(s)]
  <2> TAKE k \in DOMAIN u
  <2>1. k \in 1 .. Len(s) + Len(t)
    BY <1>2
  <2>2. CASE k <= Len(s)
    <3>1. k \in DOMAIN s
      BY <1>1, <1>2, <2>1, <2>2
    <3>2. u[k] = s[k]
      BY <1>1, <2>1, <2>2
    <3> QED
      BY <2>2, <3>1, <3>2
  <2>3. CASE k > Len(s)
    <3>1. k - Len(s) \in DOMAIN t
      BY <1>1, <1>2, <2>1, <2>3
    <3>2. ~ (k <= Len(s))
      BY <1>1, <2>1, <2>3
    <3> QED
      BY <1>1, <2>1, <2>3, <3>1, <3>2
  <2> QED
    BY <1>1, <2>1, <2>2, <2>3
<1> QED
  BY <1>1, <1>3 DEF Joins

LEMMA RowsKeepTypes ==
    ASSUME ScreenTypes, {calm', early', patient'} \subseteq BOOLEAN,
           NEW i \in DOMAIN flights, flights' = RemoveAt(flights, i),
           CreateObjects(flights[i].rows), list' \in Seq(Objects),
           \A k \in DOMAIN list' : list'[k].answer <= answers',
           UNCHANGED <<server, pageIndex, code, views>>
    PROVE  ScreenTypes'
<1>1. /\ answers' = answers + 1 /\ answers' \in 0 .. MaxAnswers
      /\ status' \in [Objects -> Statuses]
  BY FlightIs, Created
<1>2. /\ flights' \in Seq(Flights) /\ Len(flights') <= MaxInFlight
      /\ \A j \in DOMAIN flights' : Well(flights'[j], answers)
  <2>1. /\ flights' \in Seq(Flights) /\ Len(flights') < MaxInFlight
        /\ \A j \in DOMAIN flights' : Well(flights'[j], answers)
    BY FlightsLeft
  <2> QED
    BY <2>1, SizeAssumption
<1>3. answers \in Nat /\ answers <= answers' /\ answers' \in Nat
  BY <1>1, ObjectsOld
<1>4. \A j \in DOMAIN flights' : Well(flights'[j], answers')
  BY <1>2, <1>3, WellStays
<1>5. \A k \in DOMAIN views : views[k].item.answer <= answers'
  <2>1. \A k \in DOMAIN views : views[k].item.answer \in Nat /\ views[k].item.answer <= answers
    BY ObjectsOld DEF Objects
  <2> QED
    BY <1>3, <2>1
<1>6. UNCHANGED <<server, pageIndex, expectCode, sentPhone, views>>
  BY DEF code
<1>7. TypeOK'
  BY <1>1, <1>2, <1>6 DEF ScreenTypes, TypeOK
<1>8. AllWell'
  BY <1>4 DEF AllWell
<1>9. Made'
  BY <1>5, <1>6 DEF Made
<1> QED
  BY <1>7, <1>8, <1>9 DEF ScreenTypes

LEMMA ListKeepsTypes ==
    ASSUME ScreenTypes, {calm', early', patient'} \subseteq BOOLEAN,
           NEW i \in DOMAIN flights, ShowList(i) \/ ShowMore(i)
    PROVE  ScreenTypes'
<1> DEFINE new == flights[i].rows
           t == [k \in DOMAIN new |-> NewObject(new[k])]
<1>1. new \in Seq(Lines)
  BY FlightIs
<1>2. flights' = RemoveAt(flights, i) /\ UNCHANGED <<server, pageIndex, code, views>>
  BY DEF ShowList, ShowMore
<1>3. \/ UNCHANGED rows
      \/ CreateObjects(new) /\ (list' = t \/ list' = list \o t)
  BY DEF ShowList, ShowMore
<1>4. CASE UNCHANGED rows
  <2>1. expectCode' \in Phones \cup {None} /\ UNCHANGED <<sentPhone, views>>
    BY <1>2 DEF ScreenTypes, TypeOK, code
  <2> QED
    BY <1>2, <1>4, <2>1, ObjectsOld, EndKeepsTypes
<1>5. CASE CreateObjects(new) /\ (list' = t \/ list' = list \o t)
  <2>1. /\ t \in Seq(Objects) /\ \A k \in DOMAIN t : t[k].answer = answers'
    BY <1>1, <1>5, NewRows
  <2>2. answers' \in Nat /\ answers \in Nat /\ answers <= answers'
    BY <1>1, <1>5, Created, ObjectsOld
  <2>3. list \in Seq(Objects) /\ \A k \in DOMAIN list : list[k].answer <= answers'
    <3>1. \A k \in DOMAIN list : list[k].answer \in Nat /\ list[k].answer <= answers
      BY ObjectsOld DEF Objects
    <3> QED
      BY <2>2, <3>1 DEF ScreenTypes, TypeOK
  <2>4. CreateObjects(flights[i].rows) /\ (list' = t \/ list' = list \o t)
    BY <1>5
  <2> HIDE DEF t, new
  <2>5. list' \in Seq(Objects)
    BY <2>1, <2>3, <2>4, Joined
  <2>6. \A k \in DOMAIN list' : list'[k].answer <= answers'
    <3>1. CASE list' = t
      BY <2>1, <2>2, <3>1
    <3>2. CASE list' = list \o t
      <4>1. \A k \in DOMAIN list' : \/ k \in DOMAIN list /\ list'[k] = list[k]
                                    \/ \E l \in DOMAIN t : list'[k] = t[l]
        BY <2>1, <2>3, <3>2, Joined DEF Joins
      <4> QED
        BY <2>1, <2>2, <2>3, <4>1
    <3> QED
      BY <2>4, <3>1, <3>2
  <2> QED
    BY <1>2, <2>4, <2>5, <2>6, RowsKeepTypes
<1> QED
  BY <1>3, <1>4, <1>5

LEMMA HistoryTypes ==
    ASSUME TypeOK, Next
    PROVE  {calm', early', patient'} \subseteq BOOLEAN
<1>1. calm \in BOOLEAN
  BY DEF TypeOK
<1>2. early' \in BOOLEAN
  BY DEF Next, Early
<1>3. patient' \in BOOLEAN
  BY DEF Next, Patient
<1>4. calm' \in BOOLEAN
  <2>1. (PullToRefresh \/ \E i \in DOMAIN flights : Modified(i)) => calm' \in BOOLEAN
    BY DEF PullToRefresh, Modified, GetAppointmentList
  <2>2. (\E i \in DOMAIN flights : ShowList(i) \/ ShowMore(i) \/ Fail(i)) => calm' \in BOOLEAN
    BY DEF ShowList, ShowMore, Fail
  <2>3. Tap \/ Type => calm' = calm
    BY Zenon DEF Tap, Type, LoadMore, ModifyTime, CompleteService, CancelCode, ResendCode, DoneDate,
           CloseDate, TypeCode
  <2>4. (\E i \in DOMAIN flights : Serve(i) \/ ShowCodeView(i) \/ CodeResent(i) \/ ShowHud(i))
           => calm' = calm
    BY DEF Serve, ShowCodeView, CodeResent, ShowHud
  <2> QED
    BY <1>1, <2>1, <2>2, <2>3, <2>4 DEF Next, Answered
<1> QED
  BY <1>2, <1>3, <1>4

LEMMA ScreenNextTypes ==
    ASSUME ScreenTypes, Next
    PROVE  ScreenTypes'
<1>0. {calm', early', patient'} \subseteq BOOLEAN
  BY HistoryTypes DEF ScreenTypes
<1>1. PullToRefresh \/ LoadMore => ScreenTypes'
  BY <1>0, TouchListKeepsTypes
<1>2. ASSUME NEW row \in DOMAIN list, ModifyTime(row) \/ CompleteService(row)
      PROVE  ScreenTypes'
  BY <1>0, <1>2, ModifyTimeKeepsTypes, CompleteKeepsTypes
<1>3. CancelCode \/ CloseDate \/ ResendCode => ScreenTypes'
  BY <1>0, CloseKeepsTypes, ResendKeepsTypes
<1>4. Type \/ DoneDate => ScreenTypes'
  BY <1>0, CodeOrDateKeepsTypes DEF Type
<1>5. ASSUME NEW i \in DOMAIN flights, Answered(i) \/ Fail(i)
      PROVE  ScreenTypes'
  <2>1. Serve(i) \/ ShowHud(i) => ScreenTypes'
    BY <1>0, ServeKeepsTypes, HudKeepsTypes
  <2>2. ShowList(i) \/ ShowMore(i) => ScreenTypes'
    BY <1>0, ListKeepsTypes
  <2>3. Fail(i) \/ CodeResent(i) \/ ShowCodeView(i) \/ Modified(i) => ScreenTypes'
    BY <1>0, FailKeepsTypes, CodeViewKeepsTypes, ModifiedKeepsTypes
  <2> QED
    BY <1>5, <2>1, <2>2, <2>3 DEF Answered
<1> QED
  BY <1>1, <1>2, <1>3, <1>4, <1>5 DEF Next, Tap

LEMMA ScreenStutterTypes == ScreenTypes /\ UNCHANGED vars => ScreenTypes'
  BY DEF vars, ScreenTypes, TypeOK, AllWell, Made

\* The variables keep their types: every object a row, an overlay or a request
\* holds has been created by an answer of the list.
THEOREM ScreenTypeCorrect == Spec => []TypeOK
<1>1. Spec => []ScreenTypes
  BY ScreenInitTypes, ScreenNextTypes, ScreenStutterTypes, PTL DEF Spec
<1> QED
  BY <1>1, PTL DEF ScreenTypes

-----------------------------------------------------------------------------
(* Appointments: what is left of a queue.                                  *)

\* Where an element of what is left was.
Was(k, i) == IF k < i THEN k ELSE k + 1

\* t is what is left of s without its element i.
Leaves(s, i, t) ==
    /\ \A k \in DOMAIN t : /\ Was(k, i) \in DOMAIN s /\ Was(k, i) # i
                           /\ t[k] = s[Was(k, i)]
    /\ \A k, l \in DOMAIN t : k < l <=> Was(k, i) < Was(l, i)
    /\ \A k, l \in DOMAIN t : Was(k, i) = Was(l, i) => k = l
    /\ \A m \in DOMAIN s : m # i => \E k \in DOMAIN t : m = Was(k, i)

LEMMA LeftOf ==
    ASSUME NEW S, NEW s \in Seq(S), NEW i \in DOMAIN s, NEW t, t = RemoveAt(s, i)
    PROVE  /\ t \in Seq(S) /\ Len(t) = Len(s) - 1 /\ Len(s) \in Nat /\ Len(t) \in Nat
           /\ DOMAIN t = 1 .. Len(t) /\ DOMAIN s = 1 .. Len(s)
           /\ Leaves(s, i, t)
<1>1. t \in Seq(S) /\ Len(t) = Len(s) - 1 /\ Len(s) \in Nat
  BY Removed
<1>2. DOMAIN t = 1 .. Len(t) /\ DOMAIN s = 1 .. Len(s) /\ Len(t) \in Nat
  BY <1>1
<1>3. \A k \in 1 .. Len(s) - 1 : t[k] = IF k < i THEN s[k] ELSE s[k + 1]
  BY Removed
<1>4. \A k \in DOMAIN t : /\ Was(k, i) \in DOMAIN s /\ Was(k, i) # i
                          /\ t[k] = s[Was(k, i)]
  BY <1>1, <1>2, <1>3 DEF Was
<1>5. /\ \A k, l \in DOMAIN t : k < l <=> Was(k, i) < Was(l, i)
      /\ \A k, l \in DOMAIN t : Was(k, i) = Was(l, i) => k = l
  BY <1>1, <1>2 DEF Was
<1>6. ASSUME NEW m \in DOMAIN s, m # i
      PROVE  \E k \in DOMAIN t : m = Was(k, i)
  <2>1. CASE m < i
    BY <1>1, <1>2, <2>1 DEF Was
  <2>2. CASE m > i
    <3>1. m - 1 \in DOMAIN t /\ m = Was(m - 1, i)
      BY <1>1, <1>2, <2>2 DEF Was
    <3> QED
      BY <3>1
  <2> QED
    BY <1>2, <1>6, <2>1, <2>2
<1> QED
  BY <1>1, <1>2, <1>4, <1>5, <1>6 DEF Leaves

LEMMA AddedTo ==
    ASSUME NEW S, NEW s \in Seq(S), NEW e \in S, NEW t, t = Append(s, e)
    PROVE  /\ t \in Seq(S) /\ Len(t) = Len(s) + 1 /\ Len(s) \in Nat /\ Len(t) \in Nat
           /\ DOMAIN t = 1 .. Len(t) /\ DOMAIN s = 1 .. Len(s) /\ t[Len(t)] = e
           /\ \A k \in DOMAIN s : k \in DOMAIN t /\ k # Len(t) /\ k < Len(t) /\ t[k] = s[k]
           /\ \A k \in DOMAIN t : k # Len(t) => k \in DOMAIN s
<1>1. /\ t \in Seq(S) /\ Len(t) = Len(s) + 1 /\ Len(s) \in Nat /\ t[Len(s) + 1] = e
      /\ \A k \in DOMAIN s : k \in DOMAIN t /\ t[k] = s[k]
      /\ \A k \in DOMAIN t : k \in DOMAIN s \/ k = Len(s) + 1
  BY Appended
<1>2. DOMAIN t = 1 .. Len(t) /\ DOMAIN s = 1 .. Len(s) /\ Len(t) \in Nat
  BY <1>1
<1> QED
  BY <1>1, <1>2

-----------------------------------------------------------------------------
(* Appointments: the code and the two overlays.                            *)

Pays(fs) == \E i \in DOMAIN fs : fs[i].kind = "pay"
OnlyLists(fs) == \A i \in DOMAIN fs : IsList(fs[i])

\* Requests that have the server send a code send it to the phone the screen
\* remembers, and one that opens the code view is alone among those with a HUD.
CodeAsked(fs, sent) ==
    \A i \in DOMAIN fs :
      /\ fs[i].kind \in {"pay", "resend"} => fs[i].phone = sent
      /\ fs[i].kind = "pay" => \A j \in DOMAIN fs : ~ IsList(fs[j]) => j = i

\* There is one overlay: the code view, for the customer the code is sent to, or
\* the date view, for an appointment that is not over.
CodeShown(vs, st, expected, sent) ==
    /\ \A k, l \in DOMAIN vs : k = l
    /\ \A k \in DOMAIN vs :
         /\ vs[k].view = "code" => sent = PhoneOf[vs[k].item.appt] /\ expected = sent
         /\ vs[k].view = "date" => st[vs[k].item] \notin Closed

CodeInv == ~ early => /\ CodeAsked(flights, sentPhone)
                      /\ CodeShown(views, status, expectCode, sentPhone)
                      /\ Pays(flights) => views = <<>>

LEMMA ListsAskNoCode ==
    ASSUME NEW fs, OnlyLists(fs), NEW sent
    PROVE  CodeAsked(fs, sent) /\ ~ Pays(fs)
  BY DEF OnlyLists, CodeAsked, Pays, IsList, ListKinds

LEMMA CodeAskedLeft ==
    ASSUME NEW fs \in Seq(Flights), NEW sent, CodeAsked(fs, sent),
           NEW i \in DOMAIN fs, NEW t, t = RemoveAt(fs, i)
    PROVE  /\ CodeAsked(t, sent) /\ (Pays(t) => Pays(fs))
           /\ fs[i].kind = "pay" => OnlyLists(t)
<1>1. /\ \A k \in DOMAIN t : /\ Was(k, i) \in DOMAIN fs /\ Was(k, i) # i
                             /\ t[k] = fs[Was(k, i)]
      /\ \A k, l \in DOMAIN t : Was(k, i) = Was(l, i) => k = l
  <2>1. Leaves(fs, i, t)
    BY LeftOf
  <2> QED
    BY <2>1 DEF Leaves
<1> QED
  BY <1>1 DEF CodeAsked, Pays, OnlyLists

LEMMA OnlyListsLeft ==
    ASSUME NEW fs \in Seq(Flights), OnlyLists(fs), NEW f \in Flights, IsList(f),
           NEW t, t = Append(fs, f)
    PROVE  OnlyLists(t)
<1>1. /\ t[Len(t)] = f
      /\ \A k \in DOMAIN fs : t[k] = fs[k]
      /\ \A k \in DOMAIN t : k # Len(t) => k \in DOMAIN fs
  BY AddedTo
<1> QED
  BY <1>1 DEF OnlyLists

LEMMA CodeAskedAdded ==
    ASSUME NEW fs \in Seq(Flights), NEW sent, CodeAsked(fs, sent),
           NEW f \in Flights, f.kind # "pay", f.kind = "resend" => f.phone = sent,
           ~ Pays(fs) \/ IsList(f), NEW t, t = Append(fs, f)
    PROVE  CodeAsked(t, sent) /\ (Pays(t) => Pays(fs))
<1>1. /\ t[Len(t)] = f
      /\ \A k \in DOMAIN fs : k \in DOMAIN t /\ t[k] = fs[k]
      /\ \A k \in DOMAIN t : k # Len(t) => k \in DOMAIN fs
  BY AddedTo
<1>2. \A k \in DOMAIN t : t[k].kind = "pay" => k \in DOMAIN fs /\ fs[k].kind = "pay"
  BY <1>1
<1>3. \A k \in DOMAIN t : t[k].kind \in {"pay", "resend"} => t[k].phone = sent
  BY <1>1 DEF CodeAsked
<1>4. ASSUME NEW k \in DOMAIN t, t[k].kind = "pay", NEW j \in DOMAIN t, ~ IsList(t[j])
      PROVE  j = k
  <2>1. k \in DOMAIN fs /\ fs[k].kind = "pay" /\ IsList(f)
    BY <1>2, <1>4 DEF Pays
  <2>2. j \in DOMAIN fs /\ ~ IsList(fs[j])
    BY <1>1, <1>4, <2>1
  <2> QED
    BY <2>1, <2>2 DEF CodeAsked
<1> QED
  BY <1>2, <1>3, <1>4 DEF CodeAsked, Pays

LEMMA CodeAskedPaid ==
    ASSUME NEW fs \in Seq(Flights), OnlyLists(fs), NEW f \in Flights, f.kind = "pay",
           NEW t, t = Append(fs, f)
    PROVE  CodeAsked(t, f.phone)
<1>1. /\ t[Len(t)] = f
      /\ \A k \in DOMAIN fs : k \in DOMAIN t /\ t[k] = fs[k]
      /\ \A k \in DOMAIN t : k # Len(t) => k \in DOMAIN fs
  BY AddedTo
<1>2. \A k \in DOMAIN t : k # Len(t) => IsList(t[k])
  BY <1>1 DEF OnlyLists
<1>3. \A k \in DOMAIN t : t[k].kind \in {"pay", "resend"} => k = Len(t)
  BY <1>2 DEF IsList, ListKinds
<1> QED
  BY <1>1, <1>2, <1>3 DEF CodeAsked

LEMMA CodeAskedReplaced ==
    ASSUME NEW fs \in Seq(Flights), NEW sent, CodeAsked(fs, sent), NEW i \in DOMAIN fs,
           NEW f \in Flights, f.kind = fs[i].kind, f.phone = fs[i].phone,
           NEW t, t = [fs EXCEPT ![i] = f]
    PROVE  CodeAsked(t, sent) /\ (Pays(t) => Pays(fs))
<1>1. /\ DOMAIN t = DOMAIN fs /\ t[i] = f
      /\ \A j \in DOMAIN fs : j # i => t[j] = fs[j]
  BY Replaced
<1>2. \A j \in DOMAIN t : t[j].kind = fs[j].kind /\ t[j].phone = fs[j].phone
  BY <1>1
<1> QED
  BY <1>1, <1>2 DEF CodeAsked, Pays, IsList

\* A touch that comes in after its HUD finds no other request with one.
LEMMA TouchedInTime ==
    ASSUME ScreenTypes, Touchable, ~ HudComing
    PROVE  OnlyLists(flights)
<1>1. \A i \in DOMAIN flights : flights[i].hud \notin {"coming", "up"}
  BY DEF Touchable, HudComing
<1> QED
  BY <1>1, FlightIs DEF OnlyLists, Well

LEMMA CodeShownLess ==
    ASSUME NEW vs, NEW st, NEW expected, NEW sent, CodeShown(vs, st, expected, sent),
           NEW t, \A k \in DOMAIN t : \E l \in DOMAIN vs : t[k] = vs[l],
           \A k, l \in DOMAIN t : k = l
    PROVE  CodeShown(t, st, expected, sent)
  BY DEF CodeShown

LEMMA NoneShown ==
    ASSUME NEW st, NEW expected, NEW sent, NEW vs, vs = <<>>
    PROVE  CodeShown(vs, st, expected, sent)
  BY DEF CodeShown

LEMMA CodeInitInv == Init => CodeInv
<1> SUFFICES ASSUME Init PROVE CodeInv
  OBVIOUS
<1> DEFINE r == Request("list")
<1>1. flights = <<r>> /\ views = <<>> /\ r.kind = "list"
  BY ListRequest DEF Init
<1> HIDE DEF r
<1>2. OnlyLists(flights)
  BY <1>1 DEF OnlyLists, IsList, ListKinds
<1> QED
  BY <1>1, <1>2, ListsAskNoCode, NoneShown DEF CodeInv

\* What an overlay that is taken away leaves, when there is but one.
LEMMA WithoutOne ==
    ASSUME ScreenTypes, \A k, l \in DOMAIN views : k = l,
           NEW k \in DOMAIN views, NEW view, views[k].view = view
    PROVE  Without(view) = <<>>
<1> DEFINE t == Without(view)
<1>1. /\ t \in Seq(Overlays)
      /\ \A m \in DOMAIN t : t[m].view # view /\ \E l \in DOMAIN views : t[m] = views[l]
  BY WithoutIs
<1> HIDE DEF t
<1>2. DOMAIN t = {}
  BY <1>1
<1>3. t = <<>>
  BY <1>1, <1>2
<1> QED
  BY <1>3 DEF t

LEMMA ModifyStarted ==
    ASSUME NEW o \in Objects, o.answer <= answers, NEW new \in {"confirmed", "handled"},
           ModifyAppointment(o, new)
    PROVE  /\ status' = [status EXCEPT ![o] = new]
           /\ \E f \in Flights : /\ flights' = Append(flights, f)
                                 /\ f.kind = "modify" /\ f.item = o /\ f.status = new
<1>0. PICK f : f = [Request("modify") EXCEPT !.item = o, !.status = new]
  OBVIOUS
<1>1. flights' = Append(flights, f) /\ status' = [status EXCEPT ![o] = new]
  BY <1>0 DEF ModifyAppointment, Start
<1>2. Modifies(f, o, new)
  BY Zenon, <1>0, ModifyRequest
<1> QED
  BY <1>1, <1>2 DEF Modifies

LEMMA TouchKeepsCode ==
    ASSUME ScreenTypes, CodeInv, PullToRefresh \/ Tap, ~ early, ~ HudComing, ~ early'
    PROVE  CodeInv'
<1>0. flights \in Seq(Flights) /\ Touchable /\ OnlyLists(flights)
  <2>1. Touchable
    BY Zenon DEF PullToRefresh, Tap, LoadMore, ModifyTime, CompleteService, CancelCode, ResendCode,
           DoneDate, CloseDate, ListTouchable, OnTop
  <2> QED
    BY <2>1, TouchedInTime DEF ScreenTypes, TypeOK
<1>1. /\ CodeAsked(flights, sentPhone) /\ ~ Pays(flights)
      /\ CodeShown(views, status, expectCode, sentPhone)
  BY <1>0, ListsAskNoCode DEF CodeInv
<1>2. CASE PullToRefresh \/ LoadMore
  <2>1. /\ \E f \in Flights : IsList(f) /\ flights' = Append(flights, f)
        /\ views = <<>> /\ views' = views
    <3>1. CASE PullToRefresh
      BY <3>1, ListRequest DEF PullToRefresh, GetAppointmentList, ListTouchable, IsList, ListKinds
    <3>2. CASE LoadMore
      <4>1. pageIndex + 1 \in 0 .. MaxPage
        BY <3>2, SizeAssumption DEF LoadMore, ScreenTypes, TypeOK
      <4> QED
        BY <3>2, <4>1, MoreRequest DEF LoadMore, Start, ListTouchable, IsList, ListKinds
    <3> QED
      BY <1>2, <3>1, <3>2
  <2>2. OnlyLists(flights')
    BY <1>0, <2>1, OnlyListsLeft
  <2> QED
    BY <2>1, <2>2, ListsAskNoCode, NoneShown DEF CodeInv
<1>3. ASSUME NEW row \in DOMAIN list, ModifyTime(row)
      PROVE  CodeInv'
  <2> DEFINE o == list[row]
  <2>1. /\ UNCHANGED <<flights, status, sentPhone, expectCode>> /\ views = <<>>
        /\ views' = Shown("date", o) /\ status[o] \notin Closed
    BY <1>3 DEF ModifyTime, rows, code, ListTouchable
  <2>2. o \in Objects
    BY ObjectsOld
  <2> HIDE DEF o
  <2>3. \A k, l \in DOMAIN views' : k = l /\ views'[k] = [view |-> "date", item |-> o]
    BY <2>1, <2>2, ShownIs
  <2>4. CodeShown(views', status', expectCode', sentPhone')
    BY <2>1, <2>3 DEF CodeShown
  <2> QED
    BY <1>1, <2>1, <2>4 DEF CodeInv
<1>4. ASSUME NEW row \in DOMAIN list, CompleteService(row)
      PROVE  CodeInv'
  <2> DEFINE o == list[row]
  <2>p. PICK f : f = [Request("pay") EXCEPT !.item = o, !.phone = PhoneOf[o.appt]]
    OBVIOUS
  <2>1. /\ flights' = Append(flights, f) /\ sentPhone' = PhoneOf[o.appt]
        /\ views = <<>> /\ views' = views
    BY <1>4, <2>p DEF CompleteService, Start, ListTouchable
  <2>2. o \in Objects /\ o.answer <= answers
    BY ObjectsOld
  <2> HIDE DEF o
  <2>3. f \in Flights /\ f.kind = "pay" /\ f.phone = PhoneOf[o.appt]
    BY Zenon, <2>p, <2>2, PayRequest
  <2>4. CodeAsked(flights', sentPhone')
    BY <1>0, <2>1, <2>3, CodeAskedPaid
  <2> QED
    BY <2>1, <2>4, NoneShown DEF CodeInv
<1>5. CASE CancelCode \/ CloseDate
  <2>1. /\ UNCHANGED <<flights, status, sentPhone, expectCode>>
        /\ views' = Without("code") \/ views' = Without("date")
    BY <1>5 DEF CancelCode, CloseDate, rows, code
  <2>2. /\ \A k \in DOMAIN views' : \E l \in DOMAIN views : views'[k] = views[l]
        /\ \A k, l \in DOMAIN views' : k = l
    BY <1>1, <2>1, WithoutIs DEF CodeShown
  <2>3. CodeShown(views', status, expectCode, sentPhone)
    BY <1>1, <2>2, CodeShownLess
  <2> QED
    BY <1>1, <2>1, <2>3 DEF CodeInv
<1>6. CASE ResendCode
  <2> DEFINE f == [Request("resend") EXCEPT !.phone = sentPhone]
  <2>1. /\ flights' = Append(flights, f)
        /\ UNCHANGED <<views, status, sentPhone, expectCode>>
    BY <1>6 DEF ResendCode, Start, rows, code
  <2>2. sentPhone \in Phones \cup {None}
    BY DEF ScreenTypes, TypeOK
  <2>3. f \in Flights /\ f.kind = "resend" /\ f.phone = sentPhone
    BY <2>2, ResendRequest
  <2> HIDE DEF f
  <2>4. CodeAsked(flights', sentPhone) /\ ~ Pays(flights')
    BY <1>0, <1>1, <2>1, <2>3, CodeAskedAdded
  <2> QED
    BY <1>1, <2>1, <2>4 DEF CodeInv
<1>7. CASE DoneDate
  <2> DEFINE o == Last(views).item
  <2>1. /\ ModifyAppointment(o, "confirmed") /\ OnTop("date") /\ views' = Without("date")
        /\ UNCHANGED <<sentPhone, expectCode>>
    BY <1>7 DEF DoneDate, code
  <2>2. \E k \in DOMAIN views : Last(views) = views[k] /\ views[k].view = "date"
    BY <2>1, OnTopIs
  <2>3. o \in Objects /\ o.answer <= answers
    BY <2>2, ObjectsOld
  <2> HIDE DEF o
  <2>4. \E f \in Flights : flights' = Append(flights, f) /\ f.kind = "modify"
    <3>1. "confirmed" \in {"confirmed", "handled"}
      OBVIOUS
    <3> QED
      BY <2>1, <2>3, <3>1, ModifyStarted
  <2>5. CodeAsked(flights', sentPhone) /\ ~ Pays(flights')
    BY <1>0, <1>1, <2>1, <2>4, CodeAskedAdded
  <2>6. views' = <<>>
    BY <1>1, <2>1, <2>2, WithoutOne DEF CodeShown
  <2> QED
    BY <2>1, <2>5, <2>6, NoneShown DEF CodeInv
<1> QED
  BY <1>2, <1>3, <1>4, <1>5, <1>6, <1>7 DEF Tap

LEMMA TypeKeepsCode ==
    ASSUME ScreenTypes, CodeInv, NEW typed, TypeCode(typed), ~ early
    PROVE  CodeInv'
<1>1. PICK o \in CodeItems : ModifyAppointment(o, "handled")
  BY DEF TypeCode
<1>2. views' = Without("code") /\ UNCHANGED <<sentPhone, expectCode>>
  BY DEF TypeCode, code
<1>3. \E k \in DOMAIN views : views[k].view = "code"
  BY <1>1 DEF CodeItems
<1>4. o \in Objects /\ o.answer <= answers
  BY <1>1, ObjectsOld
<1>5. \E f \in Flights : flights' = Append(flights, f) /\ f.kind = "modify"
  <2>1. "handled" \in {"confirmed", "handled"}
    OBVIOUS
  <2> QED
    BY <1>1, <1>4, <2>1, ModifyStarted
<1>6. /\ flights \in Seq(Flights) /\ CodeAsked(flights, sentPhone) /\ ~ Pays(flights)
      /\ \A k, l \in DOMAIN views : k = l
  BY <1>3 DEF CodeInv, CodeShown, ScreenTypes, TypeOK
<1>7. CodeAsked(flights', sentPhone) /\ ~ Pays(flights')
  BY <1>5, <1>6, CodeAskedAdded
<1>8. views' = <<>>
  BY <1>2, <1>3, <1>6, WithoutOne
<1> QED
  BY <1>2, <1>7, <1>8, NoneShown DEF CodeInv

LEMMA AnswerKeepsCode ==
    ASSUME ScreenTypes, CodeInv, NEW i \in DOMAIN flights, Answered(i) \/ Fail(i), ~ early
    PROVE  CodeInv'
<1>0. /\ flights \in Seq(Flights) /\ CodeAsked(flights, sentPhone)
      /\ CodeShown(views, status, expectCode, sentPhone)
      /\ Pays(flights) => views = <<>>
  BY DEF CodeInv, ScreenTypes, TypeOK
<1>1. CASE Serve(i)
  <2> DEFINE f == Served(flights[i], Page(flights[i].page))
  <2>1. /\ flights' = [flights EXCEPT ![i] = f] /\ f \in Flights
        /\ f.kind = flights[i].kind /\ f.phone = flights[i].phone
    BY <1>1, ServeIs
  <2> HIDE DEF f
  <2>2. CodeAsked(flights', sentPhone) /\ (Pays(flights') => Pays(flights))
    BY <1>0, <2>1, CodeAskedReplaced
  <2> QED
    BY <1>0, <1>1, <2>2 DEF CodeInv, Serve, rows, code
<1>2. CASE ShowHud(i)
  <2> DEFINE f == [flights[i] EXCEPT !.hud = "up"]
  <2>1. flights' = [flights EXCEPT ![i] = f]
    BY <1>0, <1>2 DEF ShowHud
  <2>2. f \in Flights /\ f.kind = flights[i].kind /\ f.phone = flights[i].phone
    BY FlightIs DEF Flights
  <2> HIDE DEF f
  <2>3. CodeAsked(flights', sentPhone) /\ (Pays(flights') => Pays(flights))
    BY <1>0, <2>1, <2>2, CodeAskedReplaced
  <2> QED
    BY <1>0, <1>2, <2>3 DEF CodeInv, ShowHud, rows, code
<1>3. CASE ShowList(i) \/ ShowMore(i)
  <2>1. /\ flights' = RemoveAt(flights, i) /\ UNCHANGED <<code, views>>
        /\ UNCHANGED rows \/ CreateObjects(flights[i].rows)
    BY <1>3 DEF ShowList, ShowMore
  <2>2. CodeAsked(flights', sentPhone) /\ (Pays(flights') => Pays(flights))
    BY <1>0, <2>1, CodeAskedLeft
  <2>3. \A o \in Objects : o.answer <= answers => status'[o] = status[o]
    BY <2>1, FlightIs, Created DEF rows
  <2>4. CodeShown(views', status', expectCode', sentPhone')
    BY <1>0, <2>1, <2>3, ObjectsOld DEF CodeShown, code
  <2> QED
    BY <1>0, <2>1, <2>2, <2>4 DEF CodeInv, code
<1>4. CASE ShowCodeView(i)
  <2> DEFINE o == flights[i].item
  <2>1. /\ flights' = RemoveAt(flights, i) /\ UNCHANGED <<status, sentPhone>>
        /\ views' = Shown("code", o) /\ expectCode' = flights[i].phone
        /\ flights[i].kind = "pay"
    BY <1>4 DEF ShowCodeView, rows
  <2>2. o \in Objects /\ flights[i].phone = PhoneOf[o.appt] /\ flights[i].phone = sentPhone
    BY <1>0, <2>1, FlightIs DEF Well, CodeAsked
  <2>3. views = <<>> /\ OnlyLists(flights')
    BY <1>0, <2>1, CodeAskedLeft DEF Pays
  <2> HIDE DEF o
  <2>4. \A k, l \in DOMAIN views' : k = l /\ views'[k] = [view |-> "code", item |-> o]
    BY <2>1, <2>2, <2>3, ShownIs
  <2>6. \A k \in DOMAIN views' : views'[k].view = "code" /\ views'[k].item = o
    BY <2>4
  <2>5. CodeShown(views', status', expectCode', sentPhone')
    BY <2>1, <2>2, <2>4, <2>6 DEF CodeShown
  <2> QED
    BY <2>3, <2>5, ListsAskNoCode DEF CodeInv
<1>5. CASE CodeResent(i) \/ Fail(i)
  <2>1. /\ flights' = RemoveAt(flights, i) /\ UNCHANGED <<status, sentPhone, views>>
        /\ \/ expectCode' = expectCode
           \/ flights[i].kind = "resend" /\ expectCode' = flights[i].phone
    BY <1>5 DEF CodeResent, Fail, rows, code
  <2>2. CodeAsked(flights', sentPhone) /\ (Pays(flights') => Pays(flights))
    BY <1>0, <2>1, CodeAskedLeft
  <2>3. expectCode' = expectCode \/ expectCode' = sentPhone
    BY <1>0, <2>1 DEF CodeAsked
  <2>4. CodeShown(views', status', expectCode', sentPhone')
    BY <1>0, <2>1, <2>3 DEF CodeShown
  <2> QED
    BY <1>0, <2>1, <2>2, <2>4 DEF CodeInv
<1>6. CASE Modified(i)
  <2> DEFINE s == RemoveAt(flights, i)
             f == Request("list")
  <2>1. flights' = Append(s, f) /\ UNCHANGED <<status, sentPhone, expectCode, views>>
    BY <1>6 DEF Modified, GetAppointmentList, rows, code
  <2>2. f \in Flights /\ f.kind = "list"
    BY ListRequest
  <2>3. s \in Seq(Flights) /\ CodeAsked(s, sentPhone) /\ (Pays(s) => Pays(flights))
    BY <1>0, CodeAskedLeft, LeftOf
  <2> HIDE DEF s, f
  <2>4. CodeAsked(flights', sentPhone) /\ (Pays(flights') => Pays(s))
    BY <2>1, <2>2, <2>3, CodeAskedAdded DEF IsList, ListKinds
  <2> QED
    BY <1>0, <2>1, <2>3, <2>4 DEF CodeInv
<1> QED
  BY <1>1, <1>2, <1>3, <1>4, <1>5, <1>6 DEF Answered

LEMMA QuietHasNoCode ==
    ASSUME Quiet
    PROVE  CodeInv'
<1>1. flights' = <<>> /\ views' = <<>>
  BY DEF Quiet
<1>2. OnlyLists(flights')
  BY <1>1 DEF OnlyLists
<1> QED
  BY <1>1, <1>2, ListsAskNoCode, NoneShown DEF CodeInv

LEMMA CodeNext ==
    ASSUME ScreenTypes, CodeInv, Next
    PROVE  CodeInv'
<1>1. CASE Quiet
  BY <1>1, QuietHasNoCode
<1>2. CASE early'
  BY <1>2 DEF CodeInv
<1>3. CASE ~ Quiet /\ ~ early'
  <2>1. CASE (PullToRefresh \/ Tap) /\ Early(HudComing)
    <3>1. ~ early /\ ~ HudComing
      BY Zenon, <1>3, <2>1 DEF Early
    <3> QED
      BY <1>3, <2>1, <3>1, TouchKeepsCode
  <2>2. CASE Type /\ Early(FALSE)
    <3>1. ~ early
      BY Zenon, <1>3, <2>2 DEF Early
    <3> QED
      BY <2>2, <3>1, TypeKeepsCode DEF Type
  <2>3. ASSUME NEW i \in DOMAIN flights, Answered(i) \/ Fail(i), Early(FALSE)
        PROVE  CodeInv'
    <3>1. ~ early
      BY <1>3, <2>3 DEF Early
    <3> QED
      BY <2>3, <3>1, AnswerKeepsCode
  <2> QED
    BY <2>1, <2>2, <2>3 DEF Next
<1> QED
  BY <1>1, <1>2, <1>3

LEMMA CodeAlways == Spec => [](ScreenTypes /\ CodeInv)
<1>1. ScreenTypes /\ CodeInv /\ UNCHANGED vars => CodeInv'
  BY DEF vars, CodeInv, CodeAsked, CodeShown, Pays
<1> QED
  BY <1>1, ScreenInitTypes, CodeInitInv, ScreenNextTypes, ScreenStutterTypes, CodeNext, PTL DEF Spec

\* The code the screen expects is the one sent to the customer whose appointment
\* it will complete: a request that opens the code view is alone among those that
\* cover the window with a HUD, and every code is sent to the remembered phone.
THEOREM CodeIsTheCustomers == Spec => []CodeOfTheCustomer
<1>1. ScreenTypes /\ CodeInv => CodeOfTheCustomer
  BY DEF CodeOfTheCustomer, CodeInv, CodeShown, CodeItems
<1> QED
  BY <1>1, CodeAlways, PTL

LEMMA ObjectStays ==
    ASSUME ScreenTypes, CodeInv, Next, ~ early, NEW o \in Objects,
           status[o] = "handled", o.answer <= answers
    PROVE  status'[o] = "handled"
<1>0. status \in [Objects -> Statuses]
  BY DEF ScreenTypes, TypeOK
<1>1. UNCHANGED rows => status'[o] = "handled"
  BY DEF rows
<1>2. CASE PullToRefresh \/ LoadMore \/ CancelCode \/ CloseDate \/ ResendCode
  BY <1>1, <1>2 DEF PullToRefresh, LoadMore, CancelCode, CloseDate, ResendCode
<1>3. CASE \E row \in DOMAIN list : ModifyTime(row) \/ CompleteService(row)
  BY <1>1, <1>3 DEF ModifyTime, CompleteService
<1>4. CASE Type
  <2>1. \E p \in CodeItems : ModifyAppointment(p, "handled")
    BY <1>4 DEF Type, TypeCode
  <2>2. \E p : status' = [status EXCEPT ![p] = "handled"]
    BY <2>1 DEF ModifyAppointment
  <2> QED
    BY <1>0, <2>2
<1>5. CASE DoneDate
  <2>1. OnTop("date") /\ status' = [status EXCEPT ![Last(views).item] = "confirmed"]
    BY <1>5 DEF DoneDate, ModifyAppointment
  <2>2. \E k \in DOMAIN views : Last(views) = views[k] /\ views[k].view = "date"
    BY <2>1, OnTopIs
  <2>3. status[Last(views).item] \notin Closed
    BY <2>2 DEF CodeInv, CodeShown
  <2> QED
    BY <1>0, <2>1, <2>3 DEF Closed
<1>6. ASSUME NEW i \in DOMAIN flights, Answered(i) \/ Fail(i)
      PROVE  status'[o] = "handled"
  <2>1. CASE CreateObjects(flights[i].rows)
    BY <2>1, FlightIs, Created
  <2>2. CASE ~ CreateObjects(flights[i].rows)
    <3>1. UNCHANGED rows
      BY <1>6, <2>2 DEF Answered, Serve, ShowList, ShowMore, ShowCodeView, CodeResent,
                        Modified, ShowHud, Fail
    <3> QED
      BY <1>1, <3>1
  <2> QED
    BY <2>1, <2>2
<1> QED
  BY <1>2, <1>3, <1>4, <1>5, <1>6 DEF Next, Tap

\* A row object that has been completed is not put back to confirmed: the object
\* the date view holds is never one that is over, as the date view is alone.
THEOREM CompletedObjectIsKept == Spec => CompletedObjectStays
<1>1. ASSUME ScreenTypes, CodeInv, Next, ~ early
      PROVE  \A o \in Objects :
               status[o] = "handled" /\ o.answer <= answers => status'[o] = "handled"
  BY <1>1, ObjectStays
<1>2. ScreenTypes /\ CodeInv /\ [Next]_vars
        => [ ~ early =>
               \A o \in Objects :
                 status[o] = "handled" /\ o.answer <= answers => status'[o] = "handled"]_vars
  BY <1>1
<1> QED
  BY <1>2, CodeAlways, PTL DEF Spec, CompletedObjectStays

-----------------------------------------------------------------------------
(* Appointments: the pages.                                                *)

\* The rows l are those of the first n pages.
Listed(l, n) == Len(l) = Upto(n) /\ \A k \in DOMAIN l : l[k].appt = Order[k]

First(fs, i) == IsList(fs[i]) /\ \A k \in DOMAIN fs : k < i => ~ IsList(fs[k])
Latest(fs, i) == IsList(fs[i]) /\ \A k \in DOMAIN fs : i < k => ~ IsList(fs[k])
Follows(fs, i, j) == /\ i < j /\ IsList(fs[i]) /\ IsList(fs[j])
                     /\ \A k \in DOMAIN fs : i < k /\ k < j => ~ IsList(fs[k])

\* The list requests ask for one page after the other: the first for the page
\* that follows the rows l, the latest for the page p the screen has counted.
Paged(fs, l, p) ==
    /\ \A i, j \in DOMAIN fs :
         Follows(fs, i, j) /\ fs[j].kind = "more" => fs[j].page = fs[i].page + 1
    /\ \A i \in DOMAIN fs : Latest(fs, i) => fs[i].page = p
    /\ \A i \in DOMAIN fs : First(fs, i) /\ fs[i].kind = "more" => Listed(l, fs[i].page)
    /\ (\A i \in DOMAIN fs : ~ IsList(fs[i])) => Listed(l, p + 1)

PagesInv == calm => Paged(flights, list, pageIndex)

LEMMA PagedReplaced ==
    ASSUME NEW fs \in Seq(Flights), NEW l, NEW p, Paged(fs, l, p), NEW i \in DOMAIN fs,
           NEW f \in Flights, f.kind = fs[i].kind, f.page = fs[i].page,
           NEW t, t = [fs EXCEPT ![i] = f]
    PROVE  Paged(t, l, p)
<1>1. /\ DOMAIN t = DOMAIN fs /\ t[i] = f
      /\ \A j \in DOMAIN fs : j # i => t[j] = fs[j]
  BY Replaced
<1>2. \A j \in DOMAIN t : t[j].kind = fs[j].kind /\ t[j].page = fs[j].page
  BY <1>1
<1>3. \A j \in DOMAIN t : IsList(t[j]) <=> IsList(fs[j])
  BY <1>1, <1>2 DEF IsList
<1>4. \A j \in DOMAIN t : First(t, j) => First(fs, j)
  BY <1>1, <1>3 DEF First
<1>5. \A j \in DOMAIN t : Latest(t, j) => Latest(fs, j)
  BY <1>1, <1>3 DEF Latest
<1>6. \A j, k \in DOMAIN t : Follows(t, j, k) => Follows(fs, j, k)
  BY <1>1, <1>3 DEF Follows
<1>7. ASSUME NEW j \in DOMAIN t, NEW k \in DOMAIN t, Follows(t, j, k), t[k].kind = "more"
      PROVE  t[k].page = t[j].page + 1
  BY <1>1, <1>2, <1>6, <1>7 DEF Paged
<1>8. \A j \in DOMAIN t : Latest(t, j) => t[j].page = p
  BY <1>1, <1>2, <1>5 DEF Paged
<1>9. \A j \in DOMAIN t : First(t, j) /\ t[j].kind = "more" => Listed(l, t[j].page)
  BY <1>1, <1>2, <1>4 DEF Paged
<1>10. (\A j \in DOMAIN t : ~ IsList(t[j])) => Listed(l, p + 1)
  BY <1>1, <1>3 DEF Paged
<1> QED
  BY <1>7, <1>8, <1>9, <1>10 DEF Paged

LEMMA PagedOther ==
    ASSUME NEW fs \in Seq(Flights), NEW l, NEW p, Paged(fs, l, p),
           NEW f \in Flights, ~ IsList(f), NEW t, t = Append(fs, f)
    PROVE  Paged(t, l, p)
<1>1. /\ t[Len(t)] = f /\ DOMAIN t = 1 .. Len(t) /\ DOMAIN fs = 1 .. Len(fs)
      /\ \A k \in DOMAIN fs : k \in DOMAIN t /\ k < Len(t) /\ t[k] = fs[k]
      /\ \A k \in DOMAIN t : k # Len(t) => k \in DOMAIN fs
  BY AddedTo
<1>2. \A j \in DOMAIN t : IsList(t[j]) => j \in DOMAIN fs
  BY <1>1
<1>3. /\ \A j \in DOMAIN t : First(t, j) => j \in DOMAIN fs /\ First(fs, j)
      /\ \A j \in DOMAIN t : Latest(t, j) => j \in DOMAIN fs /\ Latest(fs, j)
      /\ \A j, k \in DOMAIN t : Follows(t, j, k) =>
           j \in DOMAIN fs /\ k \in DOMAIN fs /\ Follows(fs, j, k)
  BY <1>1, <1>2 DEF First, Latest, Follows
<1> QED
  BY <1>1, <1>3 DEF Paged

LEMMA PagedLeft ==
    ASSUME NEW fs \in Seq(Flights), NEW l, NEW p, Paged(fs, l, p),
           NEW i \in DOMAIN fs, ~ IsList(fs[i]), NEW t, t = RemoveAt(fs, i)
    PROVE  Paged(t, l, p)
<1>0. Leaves(fs, i, t) /\ DOMAIN t = 1 .. Len(t) /\ DOMAIN fs = 1 .. Len(fs)
  BY LeftOf
<1>1. /\ \A k \in DOMAIN t : Was(k, i) \in DOMAIN fs /\ t[k] = fs[Was(k, i)]
      /\ \A k, m \in DOMAIN t : k < m <=> Was(k, i) < Was(m, i)
      /\ \A m \in DOMAIN fs : m # i => \E k \in DOMAIN t : m = Was(k, i)
  BY <1>0 DEF Leaves
<1>2. \A j \in DOMAIN t : First(t, j) => First(fs, Was(j, i))
  BY <1>1 DEF First
<1>3. \A j \in DOMAIN t : Latest(t, j) => Latest(fs, Was(j, i))
  BY <1>1 DEF Latest
<1>4. \A j, k \in DOMAIN t : Follows(t, j, k) => Follows(fs, Was(j, i), Was(k, i))
  BY <1>1 DEF Follows
<1>5. (\A j \in DOMAIN t : ~ IsList(t[j])) => \A j \in DOMAIN fs : ~ IsList(fs[j])
  BY <1>1
<1> QED
  BY <1>1, <1>2, <1>3, <1>4, <1>5 DEF Paged

LEMMA PagedRefreshed ==
    ASSUME NEW fs \in Seq(Flights), NEW l, NEW p, Paged(fs, l, p) \/ fs = <<>>,
           NEW f \in Flights, f.kind = "list", f.page = 0, NEW t, t = Append(fs, f)
    PROVE  Paged(t, l, 0)
<1>1. /\ t[Len(t)] = f /\ DOMAIN t = 1 .. Len(t) /\ DOMAIN fs = 1 .. Len(fs) /\ Len(t) \in DOMAIN t
      /\ \A k \in DOMAIN fs : k \in DOMAIN t /\ k < Len(t) /\ t[k] = fs[k]
      /\ \A k \in DOMAIN t : k # Len(t) => k \in DOMAIN fs
  <2>1. /\ t[Len(t)] = f /\ DOMAIN t = 1 .. Len(t) /\ DOMAIN fs = 1 .. Len(fs)
        /\ \A k \in DOMAIN fs : k \in DOMAIN t /\ k < Len(t) /\ t[k] = fs[k]
        /\ \A k \in DOMAIN t : k # Len(t) => k \in DOMAIN fs
        /\ Len(t) = Len(fs) + 1 /\ Len(fs) \in Nat
    BY AddedTo
  <2> QED
    BY <2>1
<1>2. IsList(f) /\ f.kind # "more"
  BY DEF IsList, ListKinds
<1>3. /\ \A j \in DOMAIN t : Latest(t, j) => j = Len(t)
      /\ \A j \in DOMAIN fs : First(t, j) => First(fs, j)
      /\ \A j, k \in DOMAIN fs : Follows(t, j, k) => Follows(fs, j, k)
      /\ \A j, k \in DOMAIN t : Follows(t, j, k) /\ k # Len(t) => j \in DOMAIN fs /\ k \in DOMAIN fs
  BY <1>1, <1>2 DEF First, Latest, Follows
<1>4. /\ \A j, k \in DOMAIN fs :
           Follows(fs, j, k) /\ fs[k].kind = "more" => fs[k].page = fs[j].page + 1
      /\ \A j \in DOMAIN fs : First(fs, j) /\ fs[j].kind = "more" => Listed(l, fs[j].page)
  BY DEF Paged
<1>5. \A j, k \in DOMAIN t : Follows(t, j, k) /\ t[k].kind = "more" => t[k].page = t[j].page + 1
  BY <1>1, <1>2, <1>3, <1>4
<1>6. \A j \in DOMAIN t : First(t, j) /\ t[j].kind = "more" => Listed(l, t[j].page)
  BY <1>1, <1>2, <1>3, <1>4
<1> QED
  BY <1>1, <1>2, <1>3, <1>5, <1>6 DEF Paged

\* One of the list requests is the latest.
LEMMA SomeLatest ==
    ASSUME NEW fs \in Seq(Flights), NEW i \in DOMAIN fs, NEW n, n = Len(fs) + 1,
           NEW t, Follows(Append(fs, t), i, n)
    PROVE  Latest(fs, i)
<1>1. Len(fs) \in Nat /\ DOMAIN fs = 1 .. Len(fs)
  OBVIOUS
<1>2. \A k \in DOMAIN fs : /\ k \in DOMAIN Append(fs, t) /\ Append(fs, t)[k] = fs[k]
                           /\ k < n
  BY <1>1
<1> QED
  BY <1>2 DEF Follows, Latest

LEMMA PagedMore ==
    ASSUME NEW fs \in Seq(Flights), NEW l, NEW p, Paged(fs, l, p),
           NEW f \in Flights, f.kind = "more", f.page = p + 1, NEW t, t = Append(fs, f)
    PROVE  Paged(t, l, p + 1)
<1>1. /\ t[Len(t)] = f /\ DOMAIN t = 1 .. Len(t) /\ DOMAIN fs = 1 .. Len(fs)
      /\ \A k \in DOMAIN fs : k \in DOMAIN t /\ k < Len(t) /\ t[k] = fs[k]
      /\ \A k \in DOMAIN t : k # Len(t) => k \in DOMAIN fs
      /\ Len(t) = Len(fs) + 1 /\ Len(fs) \in Nat /\ Len(t) \in DOMAIN t
  <2>1. /\ t[Len(t)] = f /\ DOMAIN t = 1 .. Len(t) /\ DOMAIN fs = 1 .. Len(fs)
        /\ \A k \in DOMAIN fs : k \in DOMAIN t /\ k < Len(t) /\ t[k] = fs[k]
        /\ \A k \in DOMAIN t : k # Len(t) => k \in DOMAIN fs
        /\ Len(t) = Len(fs) + 1 /\ Len(fs) \in Nat
    BY AddedTo
  <2> QED
    BY <2>1
<1>2. IsList(f)
  BY DEF IsList, ListKinds
<1>3. \A j \in DOMAIN t : Latest(t, j) => j = Len(t)
  BY <1>1, <1>2 DEF Latest
<1>4. \A j, k \in DOMAIN t : Follows(t, j, k) => j \in DOMAIN fs
  BY <1>1 DEF Follows
<1>5. \A j, k \in DOMAIN fs : Follows(t, j, k) => Follows(fs, j, k)
  BY <1>1 DEF Follows
<1>6. \A j \in DOMAIN fs : Follows(t, j, Len(t)) => Latest(fs, j)
  BY <1>1, SomeLatest
<1>7. \A j \in DOMAIN fs : First(t, j) => First(fs, j)
  BY <1>1 DEF First
<1>8. First(t, Len(t)) => \A j \in DOMAIN fs : ~ IsList(fs[j])
  BY <1>1 DEF First
<1>9. ASSUME NEW j \in DOMAIN t, NEW k \in DOMAIN t, Follows(t, j, k), t[k].kind = "more"
      PROVE  t[k].page = t[j].page + 1
  <2>1. CASE k = Len(t)
    BY <1>1, <1>4, <1>6, <1>9, <2>1 DEF Paged
  <2>2. CASE k # Len(t)
    BY <1>1, <1>4, <1>5, <1>9, <2>2 DEF Paged
  <2> QED
    BY <2>1, <2>2
<1>10. ASSUME NEW j \in DOMAIN t, First(t, j), t[j].kind = "more"
       PROVE  Listed(l, t[j].page)
  <2>1. CASE j = Len(t)
    BY <1>1, <1>8, <1>10, <2>1 DEF Paged
  <2>2. CASE j # Len(t)
    BY <1>1, <1>7, <1>10, <2>2 DEF Paged
  <2> QED
    BY <2>1, <2>2
<1>11. \A j \in DOMAIN t : Latest(t, j) => t[j].page = p + 1
  BY <1>1, <1>3
<1>12. ~ \A j \in DOMAIN t : ~ IsList(t[j])
  BY <1>1, <1>2
<1> QED
  BY <1>9, <1>10, <1>11, <1>12 DEF Paged

\* The first list request is answered, with the rows l1.
LEMMA PagedTaken ==
    ASSUME NEW fs \in Seq(Flights), NEW l, NEW p, Paged(fs, l, p),
           NEW i \in DOMAIN fs, First(fs, i), NEW t, t = RemoveAt(fs, i),
           NEW l1, Listed(l1, fs[i].page + 1)
    PROVE  Paged(t, l1, p)
<1>0. Leaves(fs, i, t) /\ DOMAIN t = 1 .. Len(t) /\ DOMAIN fs = 1 .. Len(fs)
  BY LeftOf
<1>1. /\ \A k \in DOMAIN t : Was(k, i) \in DOMAIN fs /\ Was(k, i) # i /\ t[k] = fs[Was(k, i)]
      /\ \A k, m \in DOMAIN t : k < m <=> Was(k, i) < Was(m, i)
      /\ \A m \in DOMAIN fs : m # i => \E k \in DOMAIN t : m = Was(k, i)
  BY <1>0 DEF Leaves
<1>2. \A k \in DOMAIN t : IsList(t[k]) => i < Was(k, i)
  BY <1>0, <1>1 DEF First
<1>3. \A j \in DOMAIN t : First(t, j) => Follows(fs, i, Was(j, i))
  <2> TAKE j \in DOMAIN t
  <2> HAVE First(t, j)
  <2>1. IsList(fs[Was(j, i)]) /\ IsList(fs[i]) /\ i < Was(j, i)
    BY <1>1, <1>2 DEF First
  <2>2. \A m \in DOMAIN fs : i < m /\ m < Was(j, i) => ~ IsList(fs[m])
    <3> TAKE m \in DOMAIN fs
    <3> HAVE i < m /\ m < Was(j, i)
    <3>1. PICK k \in DOMAIN t : m = Was(k, i)
      BY <1>0, <1>1
    <3>2. k < j
      BY <1>1, <3>1
    <3> QED
      BY <1>1, <3>1, <3>2 DEF First
  <2> QED
    BY <2>1, <2>2 DEF Follows
<1>4. \A j \in DOMAIN t : Latest(t, j) => Latest(fs, Was(j, i))
  <2> TAKE j \in DOMAIN t
  <2> HAVE Latest(t, j)
  <2>1. IsList(fs[Was(j, i)]) /\ i < Was(j, i)
    BY <1>1, <1>2 DEF Latest
  <2>2. \A m \in DOMAIN fs : Was(j, i) < m => ~ IsList(fs[m])
    <3> TAKE m \in DOMAIN fs
    <3> HAVE Was(j, i) < m
    <3>1. m # i
      BY <1>0, <1>1, <2>1
    <3>2. PICK k \in DOMAIN t : m = Was(k, i)
      BY <1>1, <3>1
    <3>3. j < k
      BY <1>1, <3>2
    <3> QED
      BY <1>1, <3>2, <3>3 DEF Latest
  <2> QED
    BY <2>1, <2>2 DEF Latest
<1>5. \A j, k \in DOMAIN t : Follows(t, j, k) => Follows(fs, Was(j, i), Was(k, i))
  <2> TAKE j, k \in DOMAIN t
  <2> HAVE Follows(t, j, k)
  <2>1. /\ IsList(fs[Was(j, i)]) /\ IsList(fs[Was(k, i)]) /\ i < Was(j, i)
        /\ Was(j, i) < Was(k, i)
    BY <1>1, <1>2 DEF Follows
  <2>2. \A m \in DOMAIN fs : Was(j, i) < m /\ m < Was(k, i) => ~ IsList(fs[m])
    <3> TAKE m \in DOMAIN fs
    <3> HAVE Was(j, i) < m /\ m < Was(k, i)
    <3>1. m # i
      BY <1>0, <1>1, <2>1
    <3>2. PICK n \in DOMAIN t : m = Was(n, i)
      BY <1>1, <3>1
    <3>3. j < n /\ n < k
      BY <1>1, <3>2
    <3> QED
      BY <1>1, <3>2, <3>3 DEF Follows
  <2> QED
    BY <2>1, <2>2 DEF Follows
<1>6. (\A j \in DOMAIN t : ~ IsList(t[j])) => Latest(fs, i)
  <2> HAVE \A j \in DOMAIN t : ~ IsList(t[j])
  <2>1. \A m \in DOMAIN fs : m # i => ~ IsList(fs[m])
    BY <1>1
  <2> QED
    BY <1>0, <2>1 DEF Latest, First
<1>7. ASSUME NEW j \in DOMAIN t, First(t, j), t[j].kind = "more"
      PROVE  Listed(l1, t[j].page)
  BY <1>1, <1>3, <1>7 DEF Paged
<1>8. ASSUME NEW j \in DOMAIN t, NEW k \in DOMAIN t, Follows(t, j, k), t[k].kind = "more"
      PROVE  t[k].page = t[j].page + 1
  BY <1>1, <1>5, <1>8 DEF Paged
<1>9. \A j \in DOMAIN t : Latest(t, j) => t[j].page = p
  BY <1>1, <1>4 DEF Paged
<1>10. (\A j \in DOMAIN t : ~ IsList(t[j])) => Listed(l1, p + 1)
  BY <1>6 DEF Paged
<1> QED
  BY <1>7, <1>8, <1>9, <1>10 DEF Paged

\* The touches and the answers that leave the list alone.
LEMMA OthersKeepPages ==
    ASSUME ScreenTypes, Paged(flights, list, pageIndex), UNCHANGED <<list, pageIndex>>,
           \/ UNCHANGED flights
           \/ \E f \in Flights : ~ IsList(f) /\ flights' = Append(flights, f)
           \/ \E i \in DOMAIN flights : ~ IsList(flights[i]) /\ flights' = RemoveAt(flights, i)
           \/ \E i \in DOMAIN flights, f \in Flights :
                /\ f.kind = flights[i].kind /\ f.page = flights[i].page
                /\ flights' = [flights EXCEPT ![i] = f]
    PROVE  Paged(flights', list', pageIndex')
<1>0. flights \in Seq(Flights)
  BY DEF ScreenTypes, TypeOK
<1>1. Paged(flights', list, pageIndex)
  <2>1. CASE \E f \in Flights : ~ IsList(f) /\ flights' = Append(flights, f)
    BY <1>0, <2>1, PagedOther
  <2>2. CASE \E i \in DOMAIN flights : ~ IsList(flights[i]) /\ flights' = RemoveAt(flights, i)
    BY <1>0, <2>2, PagedLeft
  <2>3. CASE \E i \in DOMAIN flights, f \in Flights :
                /\ f.kind = flights[i].kind /\ f.page = flights[i].page
                /\ flights' = [flights EXCEPT ![i] = f]
    BY <1>0, <2>3, PagedReplaced
  <2> QED
    BY <2>1, <2>2, <2>3
<1> QED
  BY <1>1

\* The answer to the first list request shows the pages up to its own.
LEMMA RowsListed ==
    ASSUME ScreenTypes, Paged(flights, list, pageIndex), NEW i \in DOMAIN flights,
           First(flights, i), ShowList(i) \/ ShowMore(i)
    PROVE  Listed(list', flights[i].page + 1)
<1> DEFINE new == flights[i].rows
           t == [k \in DOMAIN new |-> NewObject(new[k])]
           n == flights[i].page
<1>1. /\ new \in Seq(Lines) /\ n \in Nat /\ flights[i].served
      /\ IsList(flights[i]) /\ Well(flights[i], answers)
  BY FlightIs DEF ShowList, ShowMore, First
<1>2. /\ Len(new) = Upto(n + 1) - Upto(n)
      /\ \A k \in DOMAIN new : new[k].appt = Order[Upto(n) + k]
  BY <1>1 DEF Well
<1>3. /\ Upto(n) \in Nat /\ Upto(n + 1) \in Nat /\ Upto(n) <= Upto(n + 1) /\ Upto(0) = 0
  BY <1>1, UptoGrows
<1>4. CreateObjects(new) =>
        /\ t \in Seq(Objects) /\ Len(t) = Len(new) /\ DOMAIN t = DOMAIN new
        /\ \A k \in DOMAIN t : t[k].appt = new[k].appt
  BY <1>1, NewRows
<1>5. list \in Seq(Objects)
  BY DEF ScreenTypes, TypeOK
<1>6. CASE ShowList(i)
  <2>1. CreateObjects(new) /\ list' = t /\ n = 0
    BY <1>1, <1>6 DEF ShowList, Well
  <2>2. /\ Len(list') = Len(new) /\ DOMAIN list' = DOMAIN new
        /\ \A k \in DOMAIN list' : list'[k].appt = new[k].appt
    BY <1>4, <2>1
  <2> HIDE DEF t, new
  <2>3. Len(list') = Upto(n + 1)
    BY <1>2, <1>3, <2>1, <2>2
  <2>4. \A k \in DOMAIN list' : list'[k].appt = Order[k]
    <3>1. DOMAIN new = 1 .. Len(new) /\ Len(new) \in Nat
      BY <1>1
    <3>2. \A k \in DOMAIN new : Upto(n) + k = k
      BY <1>3, <2>1, <3>1
    <3> QED
      BY <1>2, <2>2, <3>2
  <2> QED
    BY <2>3, <2>4 DEF Listed
<1>7. CASE ShowMore(i)
  <2>1. flights[i].kind = "more"
    BY <1>7 DEF ShowMore
  <2>2. Listed(list, n)
    BY <2>1 DEF Paged
  <2>3. CASE new = <<>>
    <3>1. list' = list
      BY <1>7, <2>3 DEF ShowMore, rows
    <3>2. Upto(n + 1) = Upto(n)
      BY <1>2, <1>3, <2>3
    <3> QED
      BY <2>2, <3>1, <3>2 DEF Listed
  <2>4. CASE new # <<>>
    <3>1. CreateObjects(new) /\ list' = list \o t
      BY <1>7, <2>4 DEF ShowMore
    <3>2. /\ t \in Seq(Objects) /\ Len(t) = Len(new) /\ DOMAIN t = DOMAIN new
          /\ \A k \in DOMAIN t : t[k].appt = new[k].appt
      BY <1>4, <3>1
    <3>3. Len(list) = Upto(n) /\ \A k \in DOMAIN list : list[k].appt = Order[k]
      BY <2>2 DEF Listed
    <3> HIDE DEF t, new
    <3>4. /\ list' \in Seq(Objects) /\ Len(list') = Len(list) + Len(t)
          /\ \A k \in DOMAIN list' :
               \/ k \in DOMAIN list /\ k <= Len(list) /\ list'[k] = list[k]
               \/ /\ k > Len(list) /\ k - Len(list) \in DOMAIN t
                  /\ list'[k] = t[k - Len(list)]
      <4>1. /\ list' \in Seq(Objects) /\ Len(list') = Len(list) + Len(t)
            /\ Joins(list, t, list')
        <5> DEFINE u == list \o t
        <5>1. /\ u \in Seq(Objects) /\ Len(u) = Len(list) + Len(t) /\ Joins(list, t, u)
          BY <1>5, <3>2, Joined
        <5> QED
          BY <3>1, <5>1
      <4> QED
        BY <4>1 DEF Joins
    <3>5. Len(list') = Upto(n + 1)
      BY <1>2, <1>3, <3>2, <3>3, <3>4
    <3>6. ASSUME NEW k \in DOMAIN list'
          PROVE  list'[k].appt = Order[k]
      <4>1. CASE k \in DOMAIN list /\ list'[k] = list[k]
        BY <3>3, <4>1
      <4>2. CASE k - Len(list) \in DOMAIN t /\ list'[k] = t[k - Len(list)]
        <5>1. k \in Nat
          BY <3>4
        <5>2. Upto(n) + (k - Len(list)) = k
          BY <1>3, <3>3, <5>1
        <5> DEFINE m == k - Len(list)
        <5> HIDE DEF m
        <5>3. m \in DOMAIN t /\ list'[k] = t[m] /\ Upto(n) + m = k
          BY <4>2, <5>2 DEF m
        <5> QED
          BY <1>2, <3>2, <5>3
      <4> QED
        BY <3>4, <4>1, <4>2
    <3> QED
      BY <3>5, <3>6 DEF Listed
  <2> QED
    BY <2>3, <2>4
<1> QED
  BY <1>6, <1>7

LEMMA PagesNext ==
    ASSUME ScreenTypes, PagesInv, Next
    PROVE  PagesInv'
<1> SUFFICES ASSUME calm' PROVE Paged(flights', list', pageIndex')
  BY DEF PagesInv
<1>0. flights \in Seq(Flights) /\ pageIndex \in Nat
  BY SizeAssumption DEF ScreenTypes, TypeOK
<1>1. CASE PullToRefresh
  <2>1. /\ flights' = Append(flights, Request("list")) /\ list' = list /\ pageIndex' = 0
        /\ calm \/ flights = <<>>
    BY <1>1 DEF PullToRefresh, GetAppointmentList, rows
  <2> QED
    BY <1>0, <2>1, ListRequest, PagedRefreshed DEF PagesInv
<1>2. CASE LoadMore
  <2>1. /\ flights' = Append(flights, [Request("more") EXCEPT !.page = pageIndex + 1])
        /\ list' = list /\ pageIndex' = pageIndex + 1 /\ calm /\ pageIndex < MaxPage
    BY <1>2 DEF LoadMore, Start, rows
  <2>2. pageIndex + 1 \in 0 .. MaxPage
    BY <1>0, <2>1, SizeAssumption
  <2>3. \E f \in Flights : /\ f.kind = "more" /\ f.page = pageIndex + 1
                           /\ flights' = Append(flights, f)
    BY <2>1, <2>2, MoreRequest
  <2> QED
    BY <1>0, <2>1, <2>3, PagedMore DEF PagesInv
<1>3. CASE \/ CancelCode \/ ResendCode \/ DoneDate \/ CloseDate \/ Type
           \/ \E row \in DOMAIN list : ModifyTime(row) \/ CompleteService(row)
  <2>1. calm /\ UNCHANGED <<list, pageIndex>>
    BY Zenon, <1>3 DEF CancelCode, ResendCode, DoneDate, CloseDate, Type, TypeCode, ModifyTime,
                CompleteService, rows
  <2>2. \/ UNCHANGED flights
        \/ \E f \in Flights : ~ IsList(f) /\ flights' = Append(flights, f)
    <3>1. CASE CancelCode \/ CloseDate \/ \E row \in DOMAIN list : ModifyTime(row)
      BY <3>1 DEF CancelCode, CloseDate, ModifyTime
    <3>2. CASE ResendCode
      <4>1. /\ sentPhone \in Phones \cup {None}
            /\ flights' = Append(flights, [Request("resend") EXCEPT !.phone = sentPhone])
        BY <3>2 DEF ResendCode, Start, ScreenTypes, TypeOK
      <4> QED
        BY <4>1, ResendRequest DEF IsList, ListKinds
    <3>3. CASE \E row \in DOMAIN list : CompleteService(row)
      <4>1. PICK row \in DOMAIN list : CompleteService(row)
        BY <3>3
      <4>2. list[row] \in Objects /\ list[row].answer <= answers
        BY ObjectsOld
      <4>3. flights' = Append(flights, [Request("pay") EXCEPT !.item = list[row],
                                                       !.phone = PhoneOf[list[row].appt]])
        BY <4>1 DEF CompleteService, Start
      <4> QED
        BY Zenon, <4>2, <4>3, PayRequest DEF IsList, ListKinds
    <3>4. CASE Type
      <4>1. PICK o \in CodeItems : ModifyAppointment(o, "handled")
        BY <3>4 DEF Type, TypeCode
      <4>2. o \in Objects /\ o.answer <= answers /\ "handled" \in {"confirmed", "handled"}
        BY ObjectsOld
      <4>3. \E f \in Flights : flights' = Append(flights, f) /\ f.kind = "modify"
        BY <4>1, <4>2, ModifyStarted
      <4> QED
        BY <4>3 DEF IsList, ListKinds
    <3>5. CASE DoneDate
      <4>1. ModifyAppointment(Last(views).item, "confirmed") /\ OnTop("date")
        BY <3>5 DEF DoneDate
      <4>2. /\ Last(views).item \in Objects /\ Last(views).item.answer <= answers
            /\ "confirmed" \in {"confirmed", "handled"}
        BY <4>1, OnTopIs, ObjectsOld
      <4>3. \E f \in Flights : flights' = Append(flights, f) /\ f.kind = "modify"
        BY <4>1, <4>2, ModifyStarted
      <4> QED
        BY <4>3 DEF IsList, ListKinds
    <3> QED
      BY <1>3, <3>1, <3>2, <3>3, <3>4, <3>5
  <2> QED
    BY <2>1, <2>2, OthersKeepPages DEF PagesInv
<1>4. ASSUME NEW i \in DOMAIN flights, Serve(i) \/ ShowHud(i)
      PROVE  Paged(flights', list', pageIndex')
  <2>1. calm /\ UNCHANGED <<list, pageIndex>>
    BY <1>4 DEF Serve, ShowHud, rows
  <2>2. \E f \in Flights : /\ f.kind = flights[i].kind /\ f.page = flights[i].page
                           /\ flights' = [flights EXCEPT ![i] = f]
    <3>1. CASE Serve(i)
      BY <3>1, ServeIs
    <3>2. CASE ShowHud(i)
      <4> DEFINE f == [flights[i] EXCEPT !.hud = "up"]
      <4>1. flights' = [flights EXCEPT ![i] = f]
        BY <1>0, <3>2 DEF ShowHud
      <4>2. f \in Flights /\ f.kind = flights[i].kind /\ f.page = flights[i].page
        BY FlightIs DEF Flights
      <4> QED
        BY <4>1, <4>2
    <3> QED
      BY <1>4, <3>1, <3>2
  <2> QED
    BY <2>1, <2>2, OthersKeepPages DEF PagesInv
<1>5. ASSUME NEW i \in DOMAIN flights, ShowCodeView(i) \/ CodeResent(i) \/ Fail(i)
      PROVE  Paged(flights', list', pageIndex')
  <2>1. /\ calm /\ UNCHANGED <<list, pageIndex>> /\ flights' = RemoveAt(flights, i)
        /\ flights[i].kind \in {"pay", "resend"}
    BY <1>5 DEF ShowCodeView, CodeResent, Fail, rows
  <2> QED
    BY <2>1, OthersKeepPages DEF PagesInv, IsList, ListKinds
<1>6. ASSUME NEW i \in DOMAIN flights, Modified(i)
      PROVE  Paged(flights', list', pageIndex')
  <2> DEFINE s == RemoveAt(flights, i)
  <2>1. /\ flights' = Append(s, Request("list")) /\ list' = list /\ pageIndex' = 0
        /\ calm \/ s = <<>>
    BY <1>6 DEF Modified, GetAppointmentList, rows
  <2>2. flights[i].kind = "modify"
    BY <1>6 DEF Modified
  <2>3. s \in Seq(Flights)
    BY <1>0, LeftOf
  <2>4. Paged(s, list, pageIndex) \/ s = <<>>
    BY <1>0, <2>1, <2>2, PagedLeft DEF PagesInv, IsList, ListKinds
  <2> HIDE DEF s
  <2>5. Paged(flights', list, 0)
    BY <2>1, <2>3, <2>4, ListRequest, PagedRefreshed
  <2> QED
    BY <2>1, <2>5
<1>7. ASSUME NEW i \in DOMAIN flights, ShowList(i) \/ ShowMore(i)
      PROVE  Paged(flights', list', pageIndex')
  <2>1. /\ calm /\ ~ Overtakes(i) /\ flights' = RemoveAt(flights, i) /\ pageIndex' = pageIndex
        /\ flights[i].kind \in ListKinds
    BY <1>7 DEF ShowList, ShowMore, ListKinds
  <2>2. First(flights, i)
    <3>1. \A k \in DOMAIN flights : k < i => k \in 1 .. i - 1
      BY <1>0
    <3> QED
      BY <2>1, <3>1 DEF Overtakes, First, IsList
  <2>3. Paged(flights, list, pageIndex)
    BY <2>1 DEF PagesInv
  <2>4. Listed(list', flights[i].page + 1)
    BY <1>7, <2>2, <2>3, RowsListed
  <2> QED
    BY <1>0, <2>1, <2>2, <2>3, <2>4, PagedTaken
<1> QED
  BY <1>1, <1>2, <1>3, <1>4, <1>5, <1>6, <1>7 DEF Next, Tap, Answered

LEMMA PagesInit == Init => PagesInv
<1> SUFFICES ASSUME Init PROVE Paged(flights, list, pageIndex)
  BY DEF PagesInv
<1>1. flights = Append(<<>>, Request("list")) /\ pageIndex = 0 /\ <<>> \in Seq(Flights)
  BY DEF Init
<1>2. Paged(flights, list, 0)
  BY <1>1, ListRequest, PagedRefreshed
<1> QED
  BY <1>1, <1>2

LEMMA PagesAlways == Spec => [](ScreenTypes /\ PagesInv)
<1>1. ScreenTypes /\ PagesInv /\ UNCHANGED vars => PagesInv'
  BY DEF vars, PagesInv
<1> QED
  BY <1>1, ScreenInitTypes, PagesInit, ScreenNextTypes, ScreenStutterTypes, PagesNext, PTL DEF Spec

\* Once nothing is in flight the list is the server's, page after page: as long as
\* no list request fails and no answer overtakes another, the requests in flight
\* ask for one page after the other from the rows shown to the page counted.
THEOREM ListHasNoGap == Spec => []SettledListHasNoGap
<1>1. ASSUME ScreenTypes, PagesInv, flights = <<>>, calm
      PROVE  [k \in DOMAIN list |-> list[k].appt]
                = SubSeq(Order, 1, Min({(pageIndex + 1) * PageSize, Len(Order)}))
  <2> DEFINE n == Upto(pageIndex + 1)
  <2>1. Listed(list, pageIndex + 1)
    BY <1>1 DEF PagesInv, Paged
  <2>2. /\ Order \in Seq(Appointments) /\ list \in Seq(Objects) /\ pageIndex \in Nat
    BY <1>1, OrderAssumption, SizeAssumption DEF ScreenTypes, TypeOK
  <2>3. n \in Nat /\ n <= Len(Order)
    BY <2>2, UptoGrows
  <2>4. n = Min({(pageIndex + 1) * PageSize, Len(Order)})
    BY DEF Upto
  <2>5. Len(list) = n /\ \A k \in DOMAIN list : list[k].appt = Order[k]
    BY <2>1 DEF Listed
  <2> HIDE DEF n
  <2>6. [k \in DOMAIN list |-> list[k].appt] = SubSeq(Order, 1, n)
    <3>1. DOMAIN list = 1 .. n
      BY <2>2, <2>5
    <3>2. [k \in DOMAIN list |-> list[k].appt] = [k \in 1 .. n |-> Order[k]]
      BY <2>5, <3>1
    <3>3. SubSeq(Order, 1, n) = [k \in 1 .. n |-> Order[k]]
      BY <2>2, <2>3
    <3> QED
      BY <3>2, <3>3
  <2> QED
    BY <2>4, <2>6
<1>2. ScreenTypes /\ PagesInv => SettledListHasNoGap
  BY <1>1 DEF SettledListHasNoGap
<1> QED
  BY <1>2, PagesAlways, PTL

-----------------------------------------------------------------------------
(* Appointments: the statuses.                                             *)

Free(fs, kind) == \A i \in DOMAIN fs : fs[i].kind # kind
Refreshed(fs, i) == \E j \in DOMAIN fs : i < j /\ fs[j].kind = "list"

\* The rows an answer brings agree with the server.
Current(f, srv) ==
    IsList(f) /\ f.served => \A k \in DOMAIN f.rows : f.rows[k].status = srv[f.rows[k].appt]

RowsAgree(l, st, srv) == \A k \in DOMAIN l : st[l[k]] = srv[l[k].appt]

\* With no modification in flight, answers that no later refresh makes up for are
\* up to date, and so are the rows l if no refresh is in flight at all.
Agreeing(fs, srv, l, st) ==
    Free(fs, "modify") =>
      /\ \A i \in DOMAIN fs : ~ Refreshed(fs, i) => Current(fs[i], srv)
      /\ Free(fs, "list") => RowsAgree(l, st, srv)

StatusInv == calm => Agreeing(flights, server, list, status)

LEMMA AgreeingReplaced ==
    ASSUME NEW fs \in Seq(Flights), NEW srv, NEW l, NEW st, Agreeing(fs, srv, l, st),
           NEW i \in DOMAIN fs, NEW f \in Flights, f.kind = fs[i].kind,
           Current(fs[i], srv) => Current(f, srv), NEW t, t = [fs EXCEPT ![i] = f]
    PROVE  Agreeing(t, srv, l, st)
<1>1. /\ DOMAIN t = DOMAIN fs /\ t[i] = f
      /\ \A j \in DOMAIN fs : j # i => t[j] = fs[j]
  BY Replaced
<1>2. \A j \in DOMAIN t : t[j].kind = fs[j].kind
  BY <1>1
<1>3. \A kind : Free(t, kind) <=> Free(fs, kind)
  BY <1>1, <1>2 DEF Free
<1>4. \A j \in DOMAIN fs : Refreshed(fs, j) => Refreshed(t, j)
  BY <1>1, <1>2 DEF Refreshed
<1>5. \A j \in DOMAIN fs : Current(fs[j], srv) => Current(t[j], srv)
  BY <1>1
<1> SUFFICES ASSUME Free(t, "modify")
             PROVE  /\ \A j \in DOMAIN t : ~ Refreshed(t, j) => Current(t[j], srv)
                    /\ Free(t, "list") => RowsAgree(l, st, srv)
  BY DEF Agreeing
<1>6. /\ \A j \in DOMAIN fs : ~ Refreshed(fs, j) => Current(fs[j], srv)
      /\ Free(fs, "list") => RowsAgree(l, st, srv)
  BY <1>3 DEF Agreeing
<1> QED
  BY <1>1, <1>3, <1>4, <1>5, <1>6

LEMMA AgreeingAdded ==
    ASSUME NEW fs \in Seq(Flights), NEW srv, NEW l, NEW st, Agreeing(fs, srv, l, st),
           NEW f \in Flights, f.kind # "list", Current(f, srv), NEW t, t = Append(fs, f)
    PROVE  Agreeing(t, srv, l, st)
<1>1. /\ t[Len(t)] = f
      /\ \A k \in DOMAIN fs : k \in DOMAIN t /\ t[k] = fs[k]
      /\ \A k \in DOMAIN t : k # Len(t) => k \in DOMAIN fs
  BY AddedTo
<1> SUFFICES ASSUME Free(t, "modify")
             PROVE  /\ \A j \in DOMAIN t : ~ Refreshed(t, j) => Current(t[j], srv)
                    /\ Free(t, "list") => RowsAgree(l, st, srv)
  BY DEF Agreeing
<1>2. Free(fs, "modify") /\ (Free(t, "list") => Free(fs, "list"))
  BY <1>1 DEF Free
<1>3. \A j \in DOMAIN fs : Refreshed(fs, j) => Refreshed(t, j)
  BY <1>1 DEF Refreshed
<1>4. /\ \A j \in DOMAIN fs : ~ Refreshed(fs, j) => Current(fs[j], srv)
      /\ Free(fs, "list") => RowsAgree(l, st, srv)
  BY <1>2 DEF Agreeing
<1> QED
  BY <1>1, <1>2, <1>3, <1>4

LEMMA AgreeingRefreshed ==
    ASSUME NEW fs \in Seq(Flights), NEW srv, NEW l, NEW st,
           NEW f \in Flights, f.kind = "list", ~ f.served, NEW t, t = Append(fs, f)
    PROVE  Agreeing(t, srv, l, st)
<1>1. /\ t[Len(t)] = f /\ Len(t) \in DOMAIN t
      /\ \A k \in DOMAIN t : k # Len(t) => k < Len(t)
  <2>1. /\ t[Len(t)] = f /\ DOMAIN t = 1 .. Len(t) /\ Len(t) = Len(fs) + 1 /\ Len(fs) \in Nat
    BY AddedTo
  <2> QED
    BY <2>1
<1>2. \A j \in DOMAIN t : ~ Refreshed(t, j) => j = Len(t)
  BY <1>1 DEF Refreshed
<1>3. Current(t[Len(t)], srv) /\ ~ Free(t, "list")
  BY <1>1 DEF Current, Free
<1> QED
  BY <1>2, <1>3 DEF Agreeing

LEMMA AgreeingLeft ==
    ASSUME NEW fs \in Seq(Flights), NEW srv, NEW l, NEW st, Agreeing(fs, srv, l, st),
           NEW i \in DOMAIN fs, fs[i].kind \notin {"modify", "list"},
           NEW t, t = RemoveAt(fs, i),
           NEW l1, NEW st1,
           RowsAgree(l, st, srv) /\ Current(fs[i], srv) => RowsAgree(l1, st1, srv)
    PROVE  Agreeing(t, srv, l1, st1)
<1>0. Leaves(fs, i, t) /\ DOMAIN t = 1 .. Len(t) /\ DOMAIN fs = 1 .. Len(fs)
  BY LeftOf
<1>1. /\ \A k \in DOMAIN t : Was(k, i) \in DOMAIN fs /\ t[k] = fs[Was(k, i)]
      /\ \A k, m \in DOMAIN t : k < m <=> Was(k, i) < Was(m, i)
      /\ \A m \in DOMAIN fs : m # i => \E k \in DOMAIN t : m = Was(k, i)
  BY <1>0 DEF Leaves
<1> SUFFICES ASSUME Free(t, "modify")
             PROVE  /\ \A j \in DOMAIN t : ~ Refreshed(t, j) => Current(t[j], srv)
                    /\ Free(t, "list") => RowsAgree(l1, st1, srv)
  BY DEF Agreeing
<1>2. Free(fs, "modify") /\ (Free(t, "list") => Free(fs, "list"))
  BY <1>1 DEF Free
<1>3. ASSUME NEW j \in DOMAIN t, Refreshed(fs, Was(j, i))
      PROVE  Refreshed(t, j)
  <2>1. PICK m \in DOMAIN fs : Was(j, i) < m /\ fs[m].kind = "list"
    BY <1>3 DEF Refreshed
  <2>2. PICK k \in DOMAIN t : m = Was(k, i)
    BY <1>1, <2>1
  <2>3. j < k /\ t[k].kind = "list"
    BY <1>1, <2>1, <2>2
  <2> QED
    BY <2>3 DEF Refreshed
<1>4. /\ \A j \in DOMAIN fs : ~ Refreshed(fs, j) => Current(fs[j], srv)
      /\ Free(fs, "list") => RowsAgree(l, st, srv)
  BY <1>2 DEF Agreeing
<1>5. \A j \in DOMAIN t : ~ Refreshed(t, j) => Current(t[j], srv)
  BY <1>1, <1>3, <1>4
<1>6. Free(fs, "list") => ~ Refreshed(fs, i)
  BY DEF Free, Refreshed
<1> QED
  BY <1>2, <1>4, <1>5, <1>6

\* The first list request is answered and shows its rows in place of all others.
LEMMA AgreeingTaken ==
    ASSUME NEW fs \in Seq(Flights), NEW srv, NEW l, NEW st, Agreeing(fs, srv, l, st),
           NEW i \in DOMAIN fs, First(fs, i), fs[i].kind = "list",
           NEW t, t = RemoveAt(fs, i),
           NEW l1, NEW st1, Current(fs[i], srv) => RowsAgree(l1, st1, srv)
    PROVE  Agreeing(t, srv, l1, st1)
<1>0. Leaves(fs, i, t) /\ DOMAIN t = 1 .. Len(t) /\ DOMAIN fs = 1 .. Len(fs)
  BY LeftOf
<1>1. /\ \A k \in DOMAIN t : Was(k, i) \in DOMAIN fs /\ Was(k, i) # i /\ t[k] = fs[Was(k, i)]
      /\ \A k, m \in DOMAIN t : k < m <=> Was(k, i) < Was(m, i)
      /\ \A m \in DOMAIN fs : m # i => \E k \in DOMAIN t : m = Was(k, i)
  BY <1>0 DEF Leaves
<1> SUFFICES ASSUME Free(t, "modify")
             PROVE  /\ \A j \in DOMAIN t : ~ Refreshed(t, j) => Current(t[j], srv)
                    /\ Free(t, "list") => RowsAgree(l1, st1, srv)
  BY DEF Agreeing
<1>2. Free(fs, "modify")
  <2>1. \A m \in DOMAIN fs : m # i => fs[m].kind # "modify"
    BY <1>1 DEF Free
  <2> QED
    BY <2>1 DEF Free
<1>3. \A j \in DOMAIN fs : ~ Refreshed(fs, j) => Current(fs[j], srv)
  BY <1>2 DEF Agreeing
<1>4. ASSUME NEW j \in DOMAIN t, IsList(t[j]), Refreshed(fs, Was(j, i))
      PROVE  Refreshed(t, j)
  <2>1. PICK m \in DOMAIN fs : Was(j, i) < m /\ fs[m].kind = "list"
    BY <1>4 DEF Refreshed
  <2>2. m # i
    <3>1. i < Was(j, i)
      BY <1>0, <1>1, <1>4 DEF First
    <3> QED
      BY <1>0, <1>1, <2>1, <3>1
  <2>3. PICK k \in DOMAIN t : m = Was(k, i)
    BY <1>1, <2>1, <2>2
  <2>4. j < k /\ t[k].kind = "list"
    BY <1>1, <2>1, <2>3
  <2> QED
    BY <2>4 DEF Refreshed
<1>5. \A j \in DOMAIN t : ~ Refreshed(t, j) => Current(t[j], srv)
  BY <1>1, <1>3, <1>4 DEF Current
<1>6. Free(t, "list") => ~ Refreshed(fs, i)
  <2> SUFFICES ASSUME Free(t, "list"), Refreshed(fs, i)
               PROVE  FALSE
    OBVIOUS
  <2>1. PICK m \in DOMAIN fs : i < m /\ fs[m].kind = "list"
    BY DEF Refreshed
  <2>2. m # i
    BY <1>0, <2>1
  <2>3. PICK k \in DOMAIN t : m = Was(k, i)
    BY <1>1, <2>1, <2>2
  <2> QED
    BY <1>1, <2>1, <2>3 DEF Free
<1> QED
  BY <1>3, <1>5, <1>6

\* Touches, and answers that leave the list alone.
LEMMA OthersKeepStatus ==
    ASSUME ScreenTypes, Agreeing(flights, server, list, status), UNCHANGED <<server, rows>>,
           \/ UNCHANGED flights
           \/ \E f \in Flights : /\ f.kind # "list" /\ (IsList(f) => ~ f.served)
                                 /\ flights' = Append(flights, f)
           \/ \E i \in DOMAIN flights : /\ ~ IsList(flights[i]) /\ flights[i].kind # "modify"
                                        /\ flights' = RemoveAt(flights, i)
    PROVE  Agreeing(flights', server', list', status')
<1>0. flights \in Seq(Flights) /\ UNCHANGED <<list, status>>
  BY DEF ScreenTypes, TypeOK, rows
<1>1. Agreeing(flights', server, list, status)
  <2>1. ASSUME NEW f \in Flights, f.kind # "list", IsList(f) => ~ f.served,
               flights' = Append(flights, f)
        PROVE  Agreeing(flights', server, list, status)
    <3>1. Current(f, server)
      BY <2>1 DEF Current
    <3> QED
      BY <1>0, <2>1, <3>1, AgreeingAdded
  <2>2. ASSUME NEW i \in DOMAIN flights, ~ IsList(flights[i]), flights[i].kind # "modify",
               flights' = RemoveAt(flights, i)
        PROVE  Agreeing(flights', server, list, status)
    <3>1. flights[i].kind \notin {"modify", "list"}
      BY <2>2 DEF IsList, ListKinds
    <3> QED
      BY <1>0, <2>2, <3>1, AgreeingLeft
  <2> QED
    BY <2>1, <2>2
<1> QED
  BY <1>0, <1>1

LEMMA ModifyingAgrees ==
    ASSUME ScreenTypes, NEW f \in Flights, f.kind = "modify", flights' = Append(flights, f)
    PROVE  Agreeing(flights', server', list', status')
<1>1. flights \in Seq(Flights)
  BY DEF ScreenTypes, TypeOK
<1>2. flights'[Len(flights')] = f /\ Len(flights') \in DOMAIN flights'
  <2>1. /\ flights'[Len(flights')] = f /\ DOMAIN flights' = 1 .. Len(flights')
        /\ Len(flights') = Len(flights) + 1 /\ Len(flights) \in Nat
    BY <1>1, AddedTo
  <2> QED
    BY <2>1
<1> QED
  BY <1>2 DEF Agreeing, Free

LEMMA PageCurrent ==
    ASSUME NEW n \in Nat, server \in [Appointments -> Statuses]
    PROVE  \A k \in DOMAIN Page(n) : Page(n)[k].status = server[Page(n)[k].appt]
<1> DEFINE p == Page(n)
<1>1. ASSUME NEW k \in DOMAIN p
      PROVE  \E a : p[k] = [appt |-> a, status |-> server[a]]
  <2>1. \A l \in DOMAIN Page(n) :
          Page(n)[l] = [appt |-> Order[Upto(n) + l], status |-> server[Order[Upto(n) + l]]]
    BY PageIs
  <2>2. p[k] = [appt |-> Order[Upto(n) + k], status |-> server[Order[Upto(n) + k]]]
    BY <2>1
  <2> QED
    BY <2>2
<1> HIDE DEF p
<1>2. \A k \in DOMAIN p : p[k].status = server[p[k].appt]
  BY <1>1
<1> QED
  BY <1>2 DEF p

LEMMA StatusServed ==
    ASSUME ScreenTypes, Agreeing(flights, server, list, status),
           NEW i \in DOMAIN flights, Serve(i)
    PROVE  Agreeing(flights', server', list', status')
<1> DEFINE f == Served(flights[i], Page(flights[i].page))
<1>0. flights \in Seq(Flights) /\ UNCHANGED <<list, status>>
  BY DEF Serve, rows, ScreenTypes, TypeOK
<1>1. /\ flights' = [flights EXCEPT ![i] = f] /\ f \in Flights /\ f.kind = flights[i].kind
      /\ f.kind \in ListKinds => f.rows = Page(f.page)
      /\ f.page = flights[i].page
  BY ServeIs
<1> HIDE DEF f
<1>2. CASE flights[i].kind = "modify"
  <2>1. flights'[i] = f /\ DOMAIN flights' = DOMAIN flights
    BY <1>0, <1>1, Replaced
  <2> QED
    BY <1>1, <1>2, <2>1 DEF Agreeing, Free
<1>3. CASE flights[i].kind # "modify"
  <2>1. server' = server
    BY <1>3 DEF Serve
  <2>2. Current(f, server)
    <3>1. server \in [Appointments -> Statuses] /\ f.page \in Nat
      BY <1>1, FlightIs DEF ScreenTypes, TypeOK
    <3>2. \A k \in DOMAIN Page(f.page) :
             Page(f.page)[k].status = server[Page(f.page)[k].appt]
      BY <3>1, PageCurrent
    <3> QED
      BY <1>1, <3>2 DEF Current, IsList
  <2>3. Agreeing(flights', server, list, status)
    BY <1>0, <1>1, <2>2, AgreeingReplaced
  <2> QED
    BY <1>0, <2>1, <2>3
<1> QED
  BY <1>2, <1>3

\* The rows an answer creates agree if the answer does.
LEMMA NewRowsAgree ==
    ASSUME ScreenTypes, NEW i \in DOMAIN flights, CreateObjects(flights[i].rows),
           IsList(flights[i]), flights[i].served, Current(flights[i], server),
           NEW t, t = [k \in DOMAIN flights[i].rows |-> NewObject(flights[i].rows[k])]
    PROVE  \A k \in DOMAIN t : status'[t[k]] = server[t[k].appt]
<1> DEFINE new == flights[i].rows
<1>1. new \in Seq(Lines) /\ CreateObjects(new) /\ t = [k \in DOMAIN new |-> NewObject(new[k])]
  BY FlightIs
<1>2. \A k \in DOMAIN new : new[k].status = server[new[k].appt]
  BY DEF Current
<1> HIDE DEF new
<1>3. \A k \in DOMAIN new :
        /\ NewObject(new[k]).appt = new[k].appt
        /\ \E m \in DOMAIN new :
             new[m].appt = new[k].appt /\ status'[NewObject(new[k])] = new[m].status
  BY <1>1, Created
<1>4. ASSUME NEW k \in DOMAIN new
      PROVE  status'[NewObject(new[k])] = server[NewObject(new[k]).appt]
  <2>1. PICK m \in DOMAIN new :
          new[m].appt = new[k].appt /\ status'[NewObject(new[k])] = new[m].status
    BY <1>3
  <2>2. NewObject(new[k]).appt = new[m].appt
    BY <1>3, <2>1
  <2> QED
    BY <1>2, <2>1, <2>2
<1> QED
  BY <1>1, <1>4

LEMMA StatusShown ==
    ASSUME ScreenTypes, Agreeing(flights, server, list, status),
           NEW i \in DOMAIN flights, First(flights, i), ShowList(i) \/ ShowMore(i)
    PROVE  Agreeing(flights', server', list', status')
<1> DEFINE new == flights[i].rows
           t == [k \in DOMAIN new |-> NewObject(new[k])]
<1>0. /\ flights \in Seq(Flights) /\ list \in Seq(Objects) /\ server' = server
      /\ flights' = RemoveAt(flights, i) /\ IsList(flights[i]) /\ flights[i].served
  BY DEF ShowList, ShowMore, ScreenTypes, TypeOK, First
<1>1. CreateObjects(new) /\ Current(flights[i], server) =>
        /\ \A k \in DOMAIN t : status'[t[k]] = server[t[k].appt]
        /\ t \in Seq(Objects)
  BY <1>0, FlightIs, NewRows, NewRowsAgree
<1>2. CASE ShowList(i)
  <2>1. CreateObjects(new) /\ list' = t /\ flights[i].kind = "list"
    BY <1>2 DEF ShowList
  <2>2. Current(flights[i], server) => RowsAgree(list', status', server)
    BY <1>1, <2>1 DEF RowsAgree
  <2>3. Agreeing(flights', server, list', status')
    BY <1>0, <2>1, <2>2, AgreeingTaken
  <2> QED
    BY <1>0, <2>3
<1>3. CASE ShowMore(i)
  <2>1. /\ flights[i].kind \notin {"modify", "list"}
        /\ \/ list' = list /\ status' = status
           \/ CreateObjects(new) /\ list' = list \o t
    BY <1>3 DEF ShowMore, rows
  <2>2. ASSUME RowsAgree(list, status, server), Current(flights[i], server)
        PROVE  RowsAgree(list', status', server)
    <3>1. CASE CreateObjects(new) /\ list' = list \o t
      <4>1. \A k \in DOMAIN list : status'[list[k]] = server[list[k].appt]
        <5>1. \A o \in Objects : o.answer <= answers => status'[o] = status[o]
          BY <3>1, FlightIs, Created
        <5> QED
          BY <2>2, <5>1, ObjectsOld DEF RowsAgree
      <4>2. t \in Seq(Objects) /\ \A k \in DOMAIN t : status'[t[k]] = server[t[k].appt]
        BY <1>1, <2>2, <3>1
      <4> HIDE DEF t, new
      <4>3. Joins(list, t, list')
        <5> DEFINE u == list \o t
        <5>1. Joins(list, t, u)
          BY <1>0, <4>2, Joined
        <5> QED
          BY <3>1, <5>1
      <4> QED
        BY <4>1, <4>2, <4>3 DEF Joins, RowsAgree
    <3> QED
      BY <2>1, <2>2, <3>1
  <2>3. Agreeing(flights', server, list', status')
    BY <1>0, <2>1, <2>2, AgreeingLeft
  <2> QED
    BY <1>0, <2>3
<1> QED
  BY <1>2, <1>3

LEMMA StatusNext ==
    ASSUME ScreenTypes, StatusInv, Next
    PROVE  StatusInv'
<1> SUFFICES ASSUME calm' PROVE Agreeing(flights', server', list', status')
  BY DEF StatusInv
<1>0. flights \in Seq(Flights)
  BY DEF ScreenTypes, TypeOK
<1>1. ASSUME NEW s \in Seq(Flights), GetAppointmentList(s)
      PROVE  Agreeing(flights', server', list', status')
  BY <1>1, ListRequest, AgreeingRefreshed DEF GetAppointmentList
<1>2. CASE PullToRefresh
  BY <1>0, <1>1, <1>2 DEF PullToRefresh
<1>3. ASSUME NEW i \in DOMAIN flights, Modified(i)
      PROVE  Agreeing(flights', server', list', status')
  <2>1. RemoveAt(flights, i) \in Seq(Flights)
    BY <1>0, LeftOf
  <2> QED
    BY <1>1, <1>3, <2>1 DEF Modified
<1>4. CASE LoadMore
  <2>1. /\ pageIndex + 1 \in 0 .. MaxPage /\ calm /\ UNCHANGED <<server, rows>>
        /\ flights' = Append(flights, [Request("more") EXCEPT !.page = pageIndex + 1])
    BY <1>4, SizeAssumption DEF LoadMore, Start, ScreenTypes, TypeOK
  <2>2. \E f \in Flights : /\ f.kind = "more" /\ ~ f.served
                           /\ flights' = Append(flights, f)
    BY <2>1, MoreRequest
  <2> QED
    BY <2>1, <2>2, OthersKeepStatus DEF StatusInv
<1>5. CASE \/ CancelCode \/ CloseDate \/ ResendCode
           \/ \E row \in DOMAIN list : ModifyTime(row) \/ CompleteService(row)
  <2>1. calm /\ UNCHANGED <<server, rows>>
    BY Zenon, <1>5 DEF CancelCode, CloseDate, ResendCode, ModifyTime, CompleteService
  <2>2. \/ UNCHANGED flights
        \/ \E f \in Flights : f.kind \in {"pay", "resend"} /\ flights' = Append(flights, f)
    <3>1. CASE CancelCode \/ CloseDate \/ \E row \in DOMAIN list : ModifyTime(row)
      BY <3>1 DEF CancelCode, CloseDate, ModifyTime
    <3>2. CASE ResendCode
      <4>1. /\ sentPhone \in Phones \cup {None}
            /\ flights' = Append(flights, [Request("resend") EXCEPT !.phone = sentPhone])
        BY <3>2 DEF ResendCode, Start, ScreenTypes, TypeOK
      <4> QED
        BY <4>1, ResendRequest
    <3>3. CASE \E row \in DOMAIN list : CompleteService(row)
      <4>1. PICK row \in DOMAIN list : CompleteService(row)
        BY <3>3
      <4>2. list[row] \in Objects /\ list[row].answer <= answers
        BY ObjectsOld
      <4>3. PICK f : f = [Request("pay") EXCEPT !.item = list[row],
                                                !.phone = PhoneOf[list[row].appt]]
        OBVIOUS
      <4>4. flights' = Append(flights, f)
        BY <4>1, <4>3 DEF CompleteService, Start
      <4>5. f \in Flights /\ f.kind = "pay"
        BY Zenon, <4>2, <4>3, PayRequest
      <4> QED
        BY <4>4, <4>5
    <3> QED
      BY <1>5, <3>1, <3>2, <3>3
  <2>3. \/ UNCHANGED flights
        \/ \E f \in Flights : /\ f.kind # "list" /\ (IsList(f) => ~ f.served)
                              /\ flights' = Append(flights, f)
    BY <2>2 DEF IsList, ListKinds
  <2> QED
    BY <2>1, <2>3, OthersKeepStatus DEF StatusInv
<1>6. CASE Type \/ DoneDate
  <2>1. CASE Type
    <3>1. PICK o \in CodeItems : ModifyAppointment(o, "handled")
      BY <2>1 DEF Type, TypeCode
    <3>2. o \in Objects /\ o.answer <= answers /\ "handled" \in {"confirmed", "handled"}
      BY ObjectsOld
    <3> QED
      BY <3>1, <3>2, ModifyStarted, ModifyingAgrees
  <2>2. CASE DoneDate
    <3>1. ModifyAppointment(Last(views).item, "confirmed") /\ OnTop("date")
      BY <2>2 DEF DoneDate
    <3>2. /\ Last(views).item \in Objects /\ Last(views).item.answer <= answers
          /\ "confirmed" \in {"confirmed", "handled"}
      BY <3>1, OnTopIs, ObjectsOld
    <3> QED
      BY <3>1, <3>2, ModifyStarted, ModifyingAgrees
  <2> QED
    BY <1>6, <2>1, <2>2
<1>7. ASSUME NEW i \in DOMAIN flights, ShowCodeView(i) \/ CodeResent(i) \/ Fail(i)
      PROVE  Agreeing(flights', server', list', status')
  <2>1. /\ calm /\ UNCHANGED <<server, rows>> /\ flights' = RemoveAt(flights, i)
        /\ flights[i].kind \in {"pay", "resend"}
    BY <1>7 DEF ShowCodeView, CodeResent, Fail
  <2>2. ~ IsList(flights[i]) /\ flights[i].kind # "modify"
    BY <2>1 DEF IsList, ListKinds
  <2> QED
    BY <2>1, <2>2, OthersKeepStatus DEF StatusInv
<1>8. ASSUME NEW i \in DOMAIN flights, ShowHud(i)
      PROVE  Agreeing(flights', server', list', status')
  <2> DEFINE f == [flights[i] EXCEPT !.hud = "up"]
  <2>1. flights' = [flights EXCEPT ![i] = f] /\ calm /\ UNCHANGED <<server, list, status>>
    BY <1>0, <1>8 DEF ShowHud, rows
  <2>2. /\ f \in Flights /\ f.kind = flights[i].kind /\ f.rows = flights[i].rows
        /\ f.served = flights[i].served
    BY FlightIs DEF Flights
  <2> HIDE DEF f
  <2>3. Current(flights[i], server) => Current(f, server)
    BY <2>2 DEF Current, IsList
  <2>4. Agreeing(flights', server, list, status)
    BY <1>0, <2>1, <2>2, <2>3, AgreeingReplaced DEF StatusInv
  <2> QED
    BY <2>1, <2>4
<1>9. ASSUME NEW i \in DOMAIN flights, Serve(i)
      PROVE  Agreeing(flights', server', list', status')
  <2>1. calm
    BY <1>9 DEF Serve
  <2> QED
    BY <1>9, <2>1, StatusServed DEF StatusInv
<1>10. ASSUME NEW i \in DOMAIN flights, ShowList(i) \/ ShowMore(i)
       PROVE  Agreeing(flights', server', list', status')
  <2>1. calm /\ ~ Overtakes(i) /\ flights[i].kind \in ListKinds
    BY <1>10 DEF ShowList, ShowMore, ListKinds
  <2>2. First(flights, i)
    <3>1. \A k \in DOMAIN flights : k < i => k \in 1 .. i - 1
      BY <1>0
    <3> QED
      BY <2>1, <3>1 DEF Overtakes, First, IsList
  <2> QED
    BY <1>10, <2>1, <2>2, StatusShown DEF StatusInv
<1> QED
  BY <1>2, <1>3, <1>4, <1>5, <1>6, <1>7, <1>8, <1>9, <1>10 DEF Next, Tap, Answered

LEMMA StatusInit == Init => StatusInv
<1> SUFFICES ASSUME Init PROVE Agreeing(flights, server, list, status)
  BY DEF StatusInv
<1>1. flights = Append(<<>>, Request("list")) /\ <<>> \in Seq(Flights)
  BY DEF Init
<1> QED
  BY <1>1, ListRequest, AgreeingRefreshed

LEMMA StatusAlways == Spec => [](ScreenTypes /\ StatusInv)
<1>1. ScreenTypes /\ StatusInv /\ UNCHANGED vars => StatusInv'
  BY DEF vars, StatusInv
<1> QED
  BY <1>1, ScreenInitTypes, StatusInit, ScreenNextTypes, ScreenStutterTypes, StatusNext, PTL DEF Spec

\* Under the same conditions every row shows the status the server has: a
\* modification is followed by a refresh, and an answer that is out of date has
\* that refresh behind it.
THEOREM ListAgreesWithTheServer == Spec => []SettledListAgrees
<1>1. ScreenTypes /\ StatusInv => SettledListAgrees
  BY DEF SettledListAgrees, StatusInv, Agreeing, Free, RowsAgree
<1> QED
  BY <1>1, StatusAlways, PTL

-----------------------------------------------------------------------------
(* Appointments: the clerk who waits.                                      *)

\* The rows l are among those of the first n pages, each once, and those the
\* server has completed are seen to be over.
Covered(l, n) == \A k \in DOMAIN l : \E x \in 1 .. Upto(n) : l[k].appt = Order[x]
Once(l) == \A k, m \in DOMAIN l : l[k].appt = l[m].appt => k = m
Over(l, st, srv) == \A k \in DOMAIN l : srv[l[k].appt] = "handled" => st[l[k]] \in Closed
RowsOf(l, st, srv, n) == Covered(l, n) /\ Once(l) /\ Over(l, st, srv)

RowIn(l, o) == \E k \in DOMAIN l : l[k] = o

\* The overlay, if there is one, holds a row of the list.
Overlaid(vs, l, st) ==
    /\ \A k, m \in DOMAIN vs : k = m
    /\ \A k \in DOMAIN vs : /\ RowIn(l, vs[k].item)
                            /\ vs[k].view = "date" => st[vs[k].item] \notin Closed

Settled == RowsOf(list, status, server, pageIndex + 1) /\ Overlaid(views, list, status)

\* What holds while f is the one request in flight.
Alone(f) ==
    /\ f.kind = "list" => pageIndex = 0 /\ views = <<>> /\ Current(f, server)
    /\ f.kind = "more" => /\ f.page = pageIndex /\ views = <<>> /\ Current(f, server)
                          /\ RowsOf(list, status, server, pageIndex)
    /\ f.kind \in {"pay", "modify"} =>
         /\ views = <<>> /\ RowsOf(list, status, server, pageIndex + 1) /\ RowIn(list, f.item)
    /\ f.kind = "modify" =>
         /\ status[f.item] = f.status
         /\ f.status = "confirmed" => server[f.item.appt] # "handled"
    /\ f.kind = "resend" => Settled

PatientInv == patient => \/ flights = <<>> /\ Settled
                         \/ \E f \in Flights : flights = <<f>> /\ Alone(f)

LEMMA OneFlight ==
    ASSUME NEW f \in Flights, NEW s, s = <<f>>
    PROVE  /\ s \in Seq(Flights) /\ DOMAIN s = {1} /\ s[1] = f
           /\ RemoveAt(s, 1) = <<>>
           /\ \A g \in Flights : [s EXCEPT ![1] = g] = <<g>>
<1>1. s \in Seq(Flights) /\ DOMAIN s = {1} /\ s[1] = f /\ Len(s) = 1
  OBVIOUS
<1>2. RemoveAt(s, 1) = <<>>
  <2> DEFINE t == RemoveAt(s, 1)
  <2>1. 1 \in DOMAIN s
    BY <1>1
  <2>2. t \in Seq(Flights) /\ Len(t) = Len(s) - 1
    BY <1>1, <2>1, Removed
  <2>3. t \in Seq(Flights) /\ Len(t) = 0
    BY <1>1, <2>2
  <2> HIDE DEF t
  <2>4. t = <<>>
    BY <2>3
  <2> QED
    BY <2>4 DEF t
<1>3. \A g \in Flights : [s EXCEPT ![1] = g] = <<g>>
  BY <1>1
<1> QED
  BY <1>1, <1>2, <1>3

LEMMA CoveredGrows ==
    ASSUME NEW l, NEW n \in Nat, Covered(l, n)
    PROVE  Covered(l, n + 1)
<1>1. Upto(n) \in Nat /\ Upto(n + 1) \in Nat /\ Upto(n) <= Upto(n + 1)
  BY UptoGrows
<1> QED
  BY <1>1 DEF Covered

LEMMA OrderOnce ==
    ASSUME NEW x \in DOMAIN Order, NEW y \in DOMAIN Order, Order[x] = Order[y]
    PROVE  x = y
  BY OrderAssumption DEF IsInjective

\* A touch that starts a modification of the appointment of a row.
LEMMA PatientModifies ==
    ASSUME ScreenTypes, NEW o \in Objects, o.answer <= answers,
           NEW new \in {"confirmed", "handled"}, ModifyAppointment(o, new),
           flights = <<>>, RowsOf(list, status, server, pageIndex + 1), RowIn(list, o),
           new = "confirmed" => status[o] \notin Closed,
           UNCHANGED <<server, list, pageIndex>>, views' = <<>>
    PROVE  \E f \in Flights : flights' = <<f>> /\ Alone(f)'
<1>1. status' = [status EXCEPT ![o] = new] /\ status \in [Objects -> Statuses]
  BY ModifyStarted DEF ScreenTypes, TypeOK
<1>2. PICK f \in Flights : /\ flights' = Append(flights, f)
                           /\ f.kind = "modify" /\ f.item = o /\ f.status = new
  BY ModifyStarted
<1>3. flights' = <<f>>
  BY <1>2
<1>4. status'[o] = new /\ \A p \in Objects : p # o => status'[p] = status[p]
  BY <1>1
<1>5. new = "confirmed" => server[o.appt] # "handled"
  BY DEF RowsOf, Over, RowIn
<1>6. Over(list, status', server)
  <2> SUFFICES ASSUME NEW k \in DOMAIN list, server[list[k].appt] = "handled"
               PROVE  status'[list[k]] \in Closed
    BY DEF Over
  <2>1. list[k] \in Objects
    BY ObjectsOld
  <2>2. CASE list[k] = o
    BY <1>4, <1>5, <2>2 DEF Closed
  <2>3. CASE list[k] # o
    BY <1>4, <2>1, <2>3 DEF RowsOf, Over
  <2> QED
    BY <2>2, <2>3
<1>7. RowsOf(list, status, server, pageIndex + 1)' /\ RowIn(list, f.item)'
  BY <1>2, <1>6 DEF RowsOf
<1>8. Alone(f)'
  BY <1>2, <1>4, <1>5, <1>7 DEF Alone
<1> QED
  BY <1>3, <1>8

\* A touch, when nothing is in flight.
LEMMA TouchKeepsPatient ==
    ASSUME ScreenTypes, Tap \/ Type, flights = <<>>, Settled
    PROVE  \/ flights' = <<>> /\ Settled'
           \/ \E f \in Flights : flights' = <<f>> /\ Alone(f)'
<1>0. /\ pageIndex \in Nat /\ RowsOf(list, status, server, pageIndex + 1)
      /\ Overlaid(views, list, status)
  BY SizeAssumption DEF ScreenTypes, TypeOK, Settled
<1>1. CASE LoadMore
  <2>1. PICK f : f = [Request("more") EXCEPT !.page = pageIndex + 1]
    OBVIOUS
  <2>2. /\ flights' = <<f>> /\ pageIndex' = pageIndex + 1 /\ views' = <<>>
        /\ UNCHANGED <<list, status, server>>
    BY <1>1, <2>1 DEF LoadMore, Start, ListTouchable, rows
  <2>3. pageIndex + 1 \in 0 .. MaxPage
    BY <1>0, <1>1, SizeAssumption DEF LoadMore
  <2>4. f \in Flights /\ f.kind = "more" /\ f.page = pageIndex' /\ ~ f.served
    BY <2>1, <2>2, <2>3, MoreRequest
  <2>5. RowsOf(list, status, server, pageIndex)'
    BY <1>0, <2>2 DEF RowsOf
  <2>6. Current(f, server)'
    BY <2>4 DEF Current
  <2>7. Alone(f)'
    BY <2>2, <2>4, <2>5, <2>6 DEF Alone
  <2> QED
    BY <2>2, <2>4, <2>7
<1>2. ASSUME NEW row \in DOMAIN list, ModifyTime(row)
      PROVE  flights' = <<>> /\ Settled'
  <2> DEFINE o == list[row]
  <2>1. /\ UNCHANGED <<flights, server, list, status, pageIndex>> /\ views = <<>>
        /\ views' = Shown("date", o) /\ status[o] \notin Closed
    BY <1>2 DEF ModifyTime, rows, ListTouchable
  <2>2. o \in Objects /\ RowIn(list, o)
    BY ObjectsOld DEF RowIn
  <2> HIDE DEF o
  <2>3. \A k, l \in DOMAIN views' : k = l /\ views'[k] = [view |-> "date", item |-> o]
    BY <2>1, <2>2, ShownIs
  <2>4. \A k \in DOMAIN views' : views'[k].item = o
    BY <2>3
  <2>5. Overlaid(views', list, status)
    BY <2>1, <2>2, <2>3, <2>4 DEF Overlaid
  <2> QED
    BY <1>0, <2>1, <2>5 DEF Settled
<1>3. ASSUME NEW row \in DOMAIN list, CompleteService(row)
      PROVE  \E f \in Flights : flights' = <<f>> /\ Alone(f)'
  <2> DEFINE o == list[row]
  <2>1. PICK f : f = [Request("pay") EXCEPT !.item = o, !.phone = PhoneOf[o.appt]]
    OBVIOUS
  <2>2. /\ flights' = <<f>> /\ views' = <<>>
        /\ UNCHANGED <<list, status, server, pageIndex>>
    BY <1>3, <2>1 DEF CompleteService, Start, ListTouchable, rows
  <2>3. o \in Objects /\ o.answer <= answers /\ RowIn(list, o)
    BY ObjectsOld DEF RowIn
  <2> HIDE DEF o
  <2>4. f \in Flights /\ f.kind = "pay" /\ f.item = o
    BY Zenon, <2>1, <2>3, PayRequest
  <2>5. RowsOf(list, status, server, pageIndex + 1)' /\ RowIn(list, f.item)'
    BY <1>0, <2>2, <2>3, <2>4
  <2>6. Alone(f)'
    BY <2>2, <2>4, <2>5 DEF Alone
  <2> QED
    BY <2>2, <2>4, <2>6
<1>4. CASE CancelCode \/ CloseDate
  <2>1. /\ UNCHANGED <<flights, server, list, status, pageIndex>>
        /\ views' = Without("code") \/ views' = Without("date")
    BY <1>4 DEF CancelCode, CloseDate, rows
  <2>2. /\ \A k \in DOMAIN views' : \E l \in DOMAIN views : views'[k] = views[l]
        /\ \A k, l \in DOMAIN views' : k = l
    BY <1>0, <2>1, WithoutIs DEF Overlaid
  <2>3. Overlaid(views', list, status)
    BY <1>0, <2>2 DEF Overlaid
  <2> QED
    BY <1>0, <2>1, <2>3 DEF Settled
<1>5. CASE ResendCode
  <2>1. PICK f : f = [Request("resend") EXCEPT !.phone = sentPhone]
    OBVIOUS
  <2>2. flights' = <<f>> /\ UNCHANGED <<server, list, status, pageIndex, views>>
    BY <1>5, <2>1 DEF ResendCode, Start, rows
  <2>3. sentPhone \in Phones \cup {None}
    BY DEF ScreenTypes, TypeOK
  <2>4. f \in Flights /\ f.kind = "resend"
    BY <2>1, <2>3, ResendRequest
  <2>5. Settled'
    BY <2>2 DEF Settled
  <2> QED
    BY <2>2, <2>4, <2>5 DEF Alone
<1>6. CASE DoneDate
  <2> DEFINE o == Last(views).item
  <2>1. /\ ModifyAppointment(o, "confirmed") /\ OnTop("date") /\ views' = Without("date")
        /\ UNCHANGED <<server, list, pageIndex>>
    BY <1>6 DEF DoneDate
  <2>2. PICK k \in DOMAIN views : Last(views) = views[k] /\ views[k].view = "date"
    BY <2>1, OnTopIs
  <2>3. o \in Objects /\ o.answer <= answers /\ "confirmed" \in {"confirmed", "handled"}
    BY <2>2, ObjectsOld
  <2>4. RowIn(list, o) /\ status[o] \notin Closed
    BY <1>0, <2>2 DEF Overlaid
  <2>5. views' = <<>>
    BY <1>0, <2>1, <2>2, WithoutOne DEF Overlaid
  <2> HIDE DEF o
  <2> QED
    BY <1>0, <2>1, <2>3, <2>4, <2>5, PatientModifies
<1>7. CASE Type
  <2>1. PICK o \in CodeItems : ModifyAppointment(o, "handled")
    BY <1>7 DEF Type, TypeCode
  <2>2. views' = Without("code") /\ UNCHANGED <<server, list, pageIndex>>
    BY <1>7 DEF Type, TypeCode
  <2>3. PICK k \in DOMAIN views : o = views[k].item /\ views[k].view = "code"
    BY <2>1 DEF CodeItems
  <2>4. o \in Objects /\ o.answer <= answers /\ "handled" \in {"confirmed", "handled"}
    BY <2>1, ObjectsOld
  <2>5. RowIn(list, o)
    BY <1>0, <2>3 DEF Overlaid
  <2>6. views' = <<>>
    BY <1>0, <2>2, <2>3, WithoutOne DEF Overlaid
  <2> QED
    BY <1>0, <2>1, <2>2, <2>4, <2>5, <2>6, PatientModifies
<1> QED
  BY <1>1, <1>2, <1>3, <1>4, <1>5, <1>6, <1>7 DEF Tap

\* The server's answer to the one request.
LEMMA ServeKeepsPatient ==
    ASSUME ScreenTypes, NEW f \in Flights, flights = <<f>>, Alone(f), Serve(1)
    PROVE  \E g \in Flights : flights' = <<g>> /\ Alone(g)'
<1>0. /\ DOMAIN flights = {1} /\ flights[1] = f /\ 1 \in DOMAIN flights
      /\ \A g \in Flights : [flights EXCEPT ![1] = g] = <<g>>
  BY OneFlight
<1>1. PICK g : g = Served(flights[1], Page(flights[1].page))
  OBVIOUS
<1>2. /\ flights' = [flights EXCEPT ![1] = g]
      /\ g \in Flights /\ g.kind = f.kind /\ g.page = f.page /\ g.item = f.item
      /\ g.status = f.status
      /\ g.kind \in ListKinds => g.rows = Page(g.page)
  BY <1>0, <1>1, ServeIs
<1>3. flights' = <<g>> /\ UNCHANGED <<list, status, pageIndex, views>>
  BY <1>0, <1>2 DEF Serve, rows
<1>4. CASE f.kind # "modify"
  <2>1. server' = server
    BY <1>0, <1>4 DEF Serve
  <2>2. g.kind \in ListKinds => Current(g, server)
    <3> HAVE g.kind \in ListKinds
    <3>1. server \in [Appointments -> Statuses] /\ f.page \in Nat
      BY <1>0, FlightIs DEF ScreenTypes, TypeOK
    <3>2. \A k \in DOMAIN Page(f.page) :
             Page(f.page)[k].status = server[Page(f.page)[k].appt]
      BY <3>1, PageCurrent
    <3>3. g.rows = Page(f.page)
      BY <1>2
    <3> QED
      BY <3>2, <3>3 DEF Current
  <2>3. /\ f.kind = "more" => RowsOf(list, status, server, pageIndex)'
        /\ f.kind = "pay" => RowsOf(list, status, server, pageIndex + 1)' /\ RowIn(list, g.item)'
        /\ f.kind = "resend" => Settled'
    BY <1>2, <1>3, <2>1 DEF Alone, Settled
  <2>4. f.kind \in ListKinds => Current(g, server)'
    BY <1>2, <2>1, <2>2
  <2>5. Alone(g)'
    BY <1>2, <1>3, <1>4, <2>1, <2>3, <2>4 DEF Alone, ListKinds
  <2> QED
    BY <1>2, <1>3, <2>5
<1>5. CASE f.kind = "modify"
  <2> DEFINE o == f.item
  <2>1. /\ views = <<>> /\ RowsOf(list, status, server, pageIndex + 1) /\ RowIn(list, o)
        /\ status[o] = f.status
    BY <1>5 DEF Alone
  <2>2. server' = [server EXCEPT ![o.appt] = f.status] /\ server \in [Appointments -> Statuses]
    BY <1>0, <1>5 DEF Serve, ScreenTypes, TypeOK
  <2>3. o \in Objects /\ o.appt \in Appointments /\ f.status \in {"confirmed", "handled"}
    BY <1>0, <1>5, FlightIs DEF Well, Objects
  <2> HIDE DEF o
  <2>4. /\ server'[o.appt] = f.status
        /\ \A a \in Appointments : a # o.appt => server'[a] = server[a]
    BY <2>2, <2>3
  <2>5. Over(list, status, server')
    <3> SUFFICES ASSUME NEW k \in DOMAIN list, server'[list[k].appt] = "handled"
                 PROVE  status[list[k]] \in Closed
      BY DEF Over
    <3>1. list[k] \in Objects /\ list[k].appt \in Appointments
      BY ObjectsOld DEF Objects
    <3>2. CASE list[k].appt = o.appt
      <4>1. list[k] = o
        BY <2>1, <3>2 DEF RowsOf, Once, RowIn
      <4> QED
        BY <2>1, <2>4, <3>2, <4>1 DEF Closed
    <3>3. CASE list[k].appt # o.appt
      BY <2>1, <2>4, <3>1, <3>3 DEF RowsOf, Over
    <3> QED
      BY <3>2, <3>3
  <2>6. RowsOf(list, status, server, pageIndex + 1)' /\ RowIn(list, g.item)'
    BY <1>2, <1>3, <2>1, <2>5 DEF RowsOf, o
  <2>7. /\ status'[g.item] = g.status
        /\ g.status = "confirmed" => server'[g.item.appt] # "handled"
    BY <1>2, <1>3, <2>1, <2>4 DEF o
  <2>8. Alone(g)'
    BY <1>2, <1>3, <1>5, <2>1, <2>6, <2>7 DEF Alone
  <2> QED
    BY <1>2, <1>3, <2>8
<1> QED
  BY <1>4, <1>5

\* The rows of the answer to the one request.
LEMMA RowsKeepPatient ==
    ASSUME ScreenTypes, NEW f \in Flights, flights = <<f>>, Alone(f), ShowList(1) \/ ShowMore(1)
    PROVE  flights' = <<>> /\ Settled'
<1>0. /\ DOMAIN flights = {1} /\ flights[1] = f /\ 1 \in DOMAIN flights
      /\ RemoveAt(flights, 1) = <<>>
  BY OneFlight
<1> DEFINE new == f.rows
           t == [k \in DOMAIN new |-> NewObject(new[k])]
           n == f.page
<1>1. /\ flights' = <<>> /\ UNCHANGED <<server, pageIndex, views>>
      /\ f.served /\ IsList(f) /\ f.kind \in {"list", "more"}
  BY <1>0 DEF ShowList, ShowMore, IsList, ListKinds
<1>2. /\ new \in Seq(Lines) /\ n \in Nat /\ Well(f, answers)
  BY <1>0, FlightIs
<1>3. /\ Len(new) = Upto(n + 1) - Upto(n)
      /\ \A k \in DOMAIN new : new[k].appt = Order[Upto(n) + k]
  BY <1>1, <1>2 DEF Well
<1>4. /\ pageIndex = n /\ views = <<>> /\ Current(f, server)
      /\ f.kind = "more" => RowsOf(list, status, server, n)
  BY <1>1, <1>2 DEF Alone, Well
<1>5. /\ Upto(n) \in Nat /\ Upto(n + 1) \in Nat /\ Upto(n) <= Upto(n + 1)
      /\ Upto(n + 1) <= Len(Order)
  BY <1>2, UptoGrows
<1>6. /\ list \in Seq(Objects) /\ Len(new) \in Nat /\ DOMAIN new = 1 .. Len(new)
      /\ DOMAIN Order = 1 .. Len(Order) /\ Len(Order) \in Nat
  BY <1>2, OrderAssumption DEF ScreenTypes, TypeOK
<1>7. ASSUME NEW k \in DOMAIN new
      PROVE  /\ Upto(n) + k \in 1 .. Upto(n + 1)
             /\ Upto(n) + k \in DOMAIN Order /\ Upto(n) < Upto(n) + k
  <2>1. k \in Nat /\ 1 <= k /\ k <= Len(new)
    BY <1>6
  <2>2. k <= Upto(n + 1) - Upto(n)
    BY <1>3, <2>1
  <2>3. Upto(n) + k \in 1 .. Upto(n + 1) /\ Upto(n) < Upto(n) + k
    BY <1>5, <2>1, <2>2
  <2> QED
    BY <1>5, <1>6, <2>3
<1>8. CreateObjects(new) =>
        /\ t \in Seq(Objects) /\ DOMAIN t = DOMAIN new
        /\ \A k \in DOMAIN t : t[k].appt = new[k].appt
        /\ \A k \in DOMAIN t : status'[t[k]] = server[t[k].appt]
        /\ \A o \in Objects : o.answer <= answers => status'[o] = status[o]
  <2> HAVE CreateObjects(new)
  <2>1. /\ t \in Seq(Objects) /\ DOMAIN t = DOMAIN new
        /\ \A k \in DOMAIN t : t[k].appt = new[k].appt
    BY <1>2, NewRows
  <2>2. \A k \in DOMAIN t : status'[t[k]] = server[t[k].appt]
    BY <1>0, <1>1, <1>4, NewRowsAgree
  <2>3. \A o \in Objects : o.answer <= answers => status'[o] = status[o]
    BY <1>2, Created
  <2> QED
    BY <2>1, <2>2, <2>3
<1>9. \/ CreateObjects(new) /\ list' = t /\ f.kind = "list"
      \/ UNCHANGED rows /\ f.kind = "more"
      \/ CreateObjects(new) /\ list' = list \o t /\ f.kind = "more"
  BY <1>0 DEF ShowList, ShowMore
<1> HIDE DEF t, new, n
<1>10. CreateObjects(new) => RowsOf(t, status', server, n + 1)
  <2> HAVE CreateObjects(new)
  <2>1. Covered(t, n + 1)
    BY <1>3, <1>7, <1>8 DEF Covered
  <2>2. Once(t)
    <3> SUFFICES ASSUME NEW k \in DOMAIN t, NEW m \in DOMAIN t, t[k].appt = t[m].appt
                 PROVE  k = m
      BY DEF Once
    <3>1. Order[Upto(n) + k] = Order[Upto(n) + m]
      BY <1>3, <1>8
    <3>2. Upto(n) + k = Upto(n) + m
      BY <1>7, <1>8, <3>1, OrderOnce
    <3> QED
      BY <1>5, <1>6, <1>8, <3>2
  <2>3. Over(t, status', server)
    BY <1>8 DEF Over, Closed
  <2> QED
    BY <2>1, <2>2, <2>3 DEF RowsOf
<1>11. RowsOf(list', status', server, n + 1)
  <2>1. CASE CreateObjects(new) /\ list' = t
    BY <1>10, <2>1
  <2>2. CASE UNCHANGED rows /\ f.kind = "more"
    BY <1>2, <1>4, <2>2, CoveredGrows DEF RowsOf, rows, n
  <2>3. CASE CreateObjects(new) /\ list' = list \o t /\ f.kind = "more"
    <3>1. RowsOf(list, status, server, n) /\ RowsOf(t, status', server, n + 1)
      BY <1>4, <1>10, <2>3
    <3>2. Joins(list, t, list') /\ t \in Seq(Objects)
      <4> DEFINE u == list \o t
      <4>1. Joins(list, t, u) /\ t \in Seq(Objects)
        BY <1>6, <1>8, <2>3, Joined
      <4> QED
        BY <2>3, <4>1
    <3>3. \A k \in DOMAIN list' : \/ k \in DOMAIN list /\ list'[k] = list[k]
                                  \/ k - Len(list) \in DOMAIN t /\ list'[k] = t[k - Len(list)]
      BY <3>2 DEF Joins
    <3>4. Covered(list', n + 1)
      <4>1. Covered(list, n + 1)
        BY <1>2, <3>1, CoveredGrows DEF RowsOf, n
      <4> QED
        BY <3>1, <3>3, <4>1 DEF RowsOf, Covered
    <3>5. Over(list', status', server)
      <4>1. \A k \in DOMAIN list : status'[list[k]] = status[list[k]]
        BY <1>8, <2>3, ObjectsOld
      <4> QED
        BY <3>1, <3>3, <4>1 DEF RowsOf, Over
    <3>6. \A k \in DOMAIN list, m \in DOMAIN t : list[k].appt # t[m].appt
      <4> TAKE k \in DOMAIN list, m \in DOMAIN t
      <4>1. PICK x \in 1 .. Upto(n) : list[k].appt = Order[x]
        BY <3>1 DEF RowsOf, Covered
      <4>2. t[m].appt = Order[Upto(n) + m] /\ Upto(n) + m \in DOMAIN Order /\ Upto(n) < Upto(n) + m
        BY <1>3, <1>7, <1>8, <2>3
      <4>3. x \in DOMAIN Order /\ x # Upto(n) + m
        BY <1>5, <1>6, <4>2
      <4> QED
        BY <4>1, <4>2, <4>3, OrderOnce
    <3>7. Once(list')
      <4> SUFFICES ASSUME NEW k \in DOMAIN list', NEW m \in DOMAIN list',
                          list'[k].appt = list'[m].appt
                   PROVE  k = m
        BY DEF Once
      <4>0. k \in Int /\ m \in Int /\ Len(list) \in Nat
        <5> DEFINE u == list \o t
        <5>1. u \in Seq(Objects)
          BY <1>6, <3>2, Joined
        <5>2. k \in DOMAIN u /\ m \in DOMAIN u
          BY <2>3
        <5> HIDE DEF u
        <5> QED
          BY <1>6, <5>1, <5>2
      <4>1. CASE k \in DOMAIN list /\ list'[k] = list[k] /\ m \in DOMAIN list /\ list'[m] = list[m]
        BY <3>1, <4>1 DEF RowsOf, Once
      <4>2. CASE /\ k - Len(list) \in DOMAIN t /\ list'[k] = t[k - Len(list)]
                 /\ m - Len(list) \in DOMAIN t /\ list'[m] = t[m - Len(list)]
        <5>1. k - Len(list) = m - Len(list)
          BY <3>1, <4>2 DEF RowsOf, Once
        <5> QED
          BY <4>0, <5>1
      <4>3. CASE /\ k \in DOMAIN list /\ list'[k] = list[k]
                 /\ m - Len(list) \in DOMAIN t /\ list'[m] = t[m - Len(list)]
        BY <3>6, <4>3
      <4>4. CASE /\ m \in DOMAIN list /\ list'[m] = list[m]
                 /\ k - Len(list) \in DOMAIN t /\ list'[k] = t[k - Len(list)]
        BY <3>6, <4>4
      <4> QED
        BY <3>3, <4>1, <4>2, <4>3, <4>4
    <3> QED
      BY <3>4, <3>5, <3>7 DEF RowsOf
  <2> QED
    BY <1>9, <2>1, <2>2, <2>3
<1>12. RowsOf(list, status, server, pageIndex + 1)'
  BY <1>1, <1>4, <1>11
<1>13. Overlaid(views, list, status)'
  BY <1>1, <1>4 DEF Overlaid
<1> QED
  BY <1>1, <1>12, <1>13 DEF Settled

LEMMA AnswerKeepsPatient ==
    ASSUME ScreenTypes, NEW f \in Flights, flights = <<f>>, Alone(f),
           Answered(1) \/ (Fail(1) /\ f.kind # "list")
    PROVE  \/ flights' = <<>> /\ Settled'
           \/ \E g \in Flights : flights' = <<g>> /\ Alone(g)'
<1>0. /\ DOMAIN flights = {1} /\ flights[1] = f /\ 1 \in DOMAIN flights
      /\ RemoveAt(flights, 1) = <<>>
      /\ \A g \in Flights : [flights EXCEPT ![1] = g] = <<g>>
  BY OneFlight
<1>1. CASE Serve(1)
  BY <1>1, ServeKeepsPatient
<1>2. CASE ShowList(1) \/ ShowMore(1)
  BY <1>2, RowsKeepPatient
<1>3. CASE ShowHud(1)
  <2>1. PICK g : g = [f EXCEPT !.hud = "up"]
    OBVIOUS
  <2>2. /\ g \in Flights /\ g.kind = f.kind /\ g.page = f.page /\ g.item = f.item
        /\ g.status = f.status /\ g.rows = f.rows /\ g.served = f.served
    BY <2>1 DEF Flights
  <2>3. flights' = <<g>> /\ UNCHANGED <<server, list, status, pageIndex, views>>
    <3>1. flights' = [flights EXCEPT ![1] = g] /\ UNCHANGED <<server, list, status, pageIndex, views>>
      BY <1>0, <1>3, <2>1 DEF ShowHud, rows
    <3> QED
      BY <1>0, <2>2, <3>1
  <2>4. Current(f, server) => Current(g, server)'
    BY <2>2, <2>3 DEF Current, IsList
  <2>5. Alone(g)'
    BY <2>2, <2>3, <2>4 DEF Alone, Settled
  <2> QED
    BY <2>2, <2>3, <2>5
<1>4. CASE ShowCodeView(1)
  <2>1. /\ flights' = <<>> /\ UNCHANGED <<server, list, status, pageIndex>>
        /\ views' = Shown("code", f.item) /\ f.kind = "pay"
    BY <1>0, <1>4 DEF ShowCodeView, rows
  <2>2. /\ views = <<>> /\ RowsOf(list, status, server, pageIndex + 1) /\ RowIn(list, f.item)
    BY <2>1 DEF Alone
  <2>3. f.item \in Objects
    BY <1>0, <2>1, FlightIs DEF Well
  <2>4. \A k, l \in DOMAIN views' : k = l /\ views'[k] = [view |-> "code", item |-> f.item]
    BY <2>1, <2>2, <2>3, ShownIs
  <2>5. \A k \in DOMAIN views' : views'[k].item = f.item /\ views'[k].view = "code"
    BY <2>4
  <2>6. Overlaid(views', list, status)
    BY <2>2, <2>4, <2>5 DEF Overlaid
  <2> QED
    BY <2>1, <2>2, <2>6 DEF Settled
<1>5. CASE CodeResent(1)
  <2>1. /\ flights' = <<>> /\ UNCHANGED <<server, list, status, pageIndex, views>>
        /\ f.kind = "resend"
    BY <1>0, <1>5 DEF CodeResent, rows
  <2> QED
    BY <2>1 DEF Alone, Settled
<1>6. CASE Modified(1)
  <2>1. PICK g : g = Request("list")
    OBVIOUS
  <2>2. flights' = <<g>> /\ pageIndex' = 0 /\ views' = views /\ f.kind = "modify"
    <3>1. GetAppointmentList(RemoveAt(flights, 1)) /\ views' = views /\ f.kind = "modify"
      BY <1>0, <1>6 DEF Modified
    <3>2. flights' = Append(<<>>, g) /\ pageIndex' = 0
      BY <1>0, <2>1, <3>1 DEF GetAppointmentList
    <3> QED
      BY <3>1, <3>2
  <2>3. g \in Flights /\ g.kind = "list" /\ ~ g.served
    BY <2>1, ListRequest
  <2>4. views' = <<>>
    BY <2>2 DEF Alone
  <2>5. Alone(g)'
    BY <2>2, <2>3, <2>4 DEF Alone, Current
  <2> QED
    BY <2>2, <2>3, <2>5
<1>7. CASE Fail(1) /\ f.kind # "list"
  <2>1. /\ flights' = <<>> /\ UNCHANGED <<server, list, status, pageIndex, views>>
        /\ f.kind \in {"more", "pay", "modify", "resend"}
    BY <1>0, <1>7, FlightIs DEF Fail, rows, Kinds, ListKinds
  <2>2. CASE f.kind = "more"
    <3>1. views = <<>> /\ RowsOf(list, status, server, pageIndex) /\ pageIndex \in Nat
      BY <2>2, SizeAssumption DEF Alone, ScreenTypes, TypeOK
    <3>2. RowsOf(list, status, server, pageIndex + 1)
      BY <3>1, CoveredGrows DEF RowsOf
    <3> QED
      BY <2>1, <3>1, <3>2 DEF Settled, Overlaid
  <2>3. CASE f.kind \in {"pay", "modify"}
    <3>1. views = <<>> /\ RowsOf(list, status, server, pageIndex + 1)
      BY <2>3 DEF Alone
    <3> QED
      BY <2>1, <3>1 DEF Settled, Overlaid
  <2>4. CASE f.kind = "resend"
    BY <2>1, <2>4 DEF Alone, Settled
  <2> QED
    BY <2>1, <2>2, <2>3, <2>4
<1> QED
  BY <1>1, <1>2, <1>3, <1>4, <1>5, <1>6, <1>7 DEF Answered

LEMMA PatientNext ==
    ASSUME ScreenTypes, PatientInv, Next
    PROVE  PatientInv'
<1> SUFFICES ASSUME patient'
             PROVE  \/ flights' = <<>> /\ Settled'
                    \/ \E f \in Flights : flights' = <<f>> /\ Alone(f)'
  BY DEF PatientInv
<1>1. CASE PullToRefresh /\ patient' = (flights = <<>>)
  <2>1. PICK g : g = Request("list")
    OBVIOUS
  <2>2. flights' = <<g>> /\ pageIndex' = 0 /\ views' = <<>>
    <3>1. flights = <<>>
      BY <1>1, Zenon
    <3>2. GetAppointmentList(flights) /\ views' = <<>>
      BY <1>1 DEF PullToRefresh, ListTouchable
    <3>3. flights' = Append(<<>>, g) /\ pageIndex' = 0
      BY <2>1, <3>1, <3>2 DEF GetAppointmentList
    <3> QED
      BY <3>2, <3>3
  <2>3. g \in Flights /\ g.kind = "list" /\ ~ g.served
    BY <2>1, ListRequest
  <2>4. Alone(g)'
    BY <2>2, <2>3 DEF Alone, Current
  <2> QED
    BY <2>2, <2>3, <2>4
<1>2. CASE (Tap \/ Type) /\ Patient(flights = <<>>)
  <2>1. patient /\ flights = <<>>
    BY <1>2 DEF Patient
  <2>2. Settled
    BY <2>1 DEF PatientInv
  <2> QED
    BY <1>2, <2>1, <2>2, TouchKeepsPatient
<1>3. ASSUME NEW i \in DOMAIN flights,
             \/ Answered(i) /\ Patient(TRUE)
             \/ Fail(i) /\ Patient(flights[i].kind # "list")
      PROVE  \/ flights' = <<>> /\ Settled'
             \/ \E f \in Flights : flights' = <<f>> /\ Alone(f)'
  <2>1. patient /\ (Answered(i) \/ (Fail(i) /\ flights[i].kind # "list"))
    BY <1>3 DEF Patient
  <2>2. flights # <<>>
    BY <1>3
  <2>3. PICK f \in Flights : flights = <<f>> /\ Alone(f)
    BY <2>1, <2>2 DEF PatientInv
  <2>4. i = 1 /\ flights[1] = f
    <3>1. DOMAIN flights = {1} /\ flights[1] = f
      BY <2>3, OneFlight
    <3> QED
      BY <1>3, <3>1
  <2> QED
    BY <2>1, <2>3, <2>4, AnswerKeepsPatient
<1> QED
  BY <1>1, <1>2, <1>3 DEF Next

LEMMA PatientInit == Init => PatientInv
<1> SUFFICES ASSUME Init PROVE PatientInv
  OBVIOUS
<1>1. PICK g : g = Request("list")
  OBVIOUS
<1>2. flights = <<g>> /\ pageIndex = 0 /\ views = <<>>
  BY <1>1 DEF Init
<1>3. g \in Flights /\ g.kind = "list" /\ ~ g.served
  BY <1>1, ListRequest
<1>4. Alone(g)
  BY <1>2, <1>3 DEF Alone, Current
<1> QED
  BY <1>2, <1>3, <1>4 DEF PatientInv

LEMMA CompletedKept ==
    ASSUME ScreenTypes, PatientInv, Next, patient, NEW a \in Appointments, server[a] = "handled"
    PROVE  server'[a] = "handled"
<1>1. CASE UNCHANGED server
  BY <1>1
<1>2. CASE ~ UNCHANGED server
  <2>1. PICK i \in DOMAIN flights : Serve(i) /\ flights[i].kind = "modify"
    BY Zenon, <1>2 DEF Next, Tap, Type, Answered, PullToRefresh, LoadMore, ModifyTime, CompleteService,
                TypeCode, CancelCode, ResendCode, DoneDate, CloseDate, Serve, Fail, ShowList,
                ShowMore, ShowCodeView, CodeResent, Modified, ShowHud
  <2>2. PICK f \in Flights : flights = <<f>> /\ Alone(f)
    <3>1. flights # <<>>
      BY <2>1
    <3> QED
      BY <3>1 DEF PatientInv
  <2>3. i = 1 /\ flights[1] = f
    <3>1. DOMAIN flights = {1} /\ flights[1] = f
      BY <2>2, OneFlight
    <3> QED
      BY <2>1, <3>1
  <2>4. server' = [server EXCEPT ![f.item.appt] = f.status] /\ server \in [Appointments -> Statuses]
    BY <2>1, <2>3 DEF Serve, ScreenTypes, TypeOK
  <2>5. /\ f.status \in {"confirmed", "handled"}
        /\ f.status = "confirmed" => server[f.item.appt] # "handled"
    BY <2>1, <2>2, <2>3, FlightIs DEF Well, Alone
  <2> QED
    BY <2>4, <2>5
<1> QED
  BY <1>1, <1>2

\* An appointment completed on the server is not moved to another time, as long as
\* the clerk waits for each answer and no refresh fails: at most one request is in
\* flight then, the overlay holds a row of the list, and a row the server has
\* completed is seen to be over.
THEOREM CompletedIsKept == Spec => CompletedOnServerStays
<1>1. ScreenTypes /\ PatientInv /\ UNCHANGED vars => PatientInv'
  BY DEF vars, PatientInv, Settled, Alone
<1>2. Spec => [](ScreenTypes /\ PatientInv)
  BY <1>1, ScreenInitTypes, PatientInit, ScreenNextTypes, ScreenStutterTypes, PatientNext, PTL
     DEF Spec
<1>3. ASSUME ScreenTypes, PatientInv, Next, patient
      PROVE  \A a \in Appointments : server[a] = "handled" => server'[a] = "handled"
  BY <1>3, CompletedKept
<1>4. ScreenTypes /\ PatientInv /\ [Next]_vars
        => [ patient =>
               \A a \in Appointments : server[a] = "handled" => server'[a] = "handled"]_vars
  BY <1>3
<1> QED
  BY <1>2, <1>4, PTL DEF Spec, CompletedOnServerStays

===============================================================================
