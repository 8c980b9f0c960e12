---------------------------- MODULE Appointments ----------------------------
(***************************************************************************)
(* The appointment screen: MShopAppointmentListViewController with its two *)
(* overlays, MShopAppointmentCodeInputView and                             *)
(* MShopAppointmentDateSelectView.                                         *)
(*                                                                         *)
(* The clerk refreshes the list, loads more of it, moves an appointment to *)
(* another time, or completes it with the code the server sent to the      *)
(* customer's phone.  Every operation is a request; its answer comes back  *)
(* to the main thread in any order, after other touches, or never as a     *)
(* success.  The rows of the list are objects: a refresh replaces the      *)
(* objects while an overlay still holds an old one.                        *)
(***************************************************************************)
EXTENDS Integers, SequencesExt

CONSTANTS
    Appointments, \* appointments the server knows
    Order,        \* the order in which it lists them
    PageSize,     \* _pageSize
    PhoneOf,      \* PhoneOf[a]: individualPhone
    None,
    MayFail,      \* kinds of requests that may fail
    MaxInFlight,  \* BOUND: requests in flight at a time
    MaxPage,      \* BOUND: pages asked for
    MaxAnswers,   \* BOUND: list answers shown
    MaxEarly      \* BOUND: touches come in before a HUD up to this list answer

ASSUME OrderAssumption ==
    /\ Order \in Seq(Appointments)
    /\ Range(Order) = Appointments
    /\ IsInjective(Order)
ASSUME SizeAssumption ==
    /\ PageSize \in Nat \ {0}
    /\ MayFail \subseteq {"list", "more", "pay", "resend", "modify"}
    /\ MaxInFlight \in Nat \ {0}
    /\ {MaxPage, MaxAnswers, MaxEarly} \subseteq Nat

VARIABLES
    server,     \* server[a]: the status on the server
    list,       \* _appointmentList: the row objects shown
    status,     \* status[o]: the status field of row object o
    answers,    \* list answers shown so far; names the objects they created
    pageIndex,  \* _pageIndex
    flights,    \* requests in flight, in the order they were started
    expectCode, \* m_expectVerificationCode, as the phone the code was sent to
    sentPhone,  \* m_sendedVerificationCodePhone
    views,      \* overlays on the window and the objects they hold, the
                \* topmost last
    calm,       \* history: since the last refresh that was started with
                \* nothing in flight, no list or modify request has failed
                \* and no list answer has overtaken another
    early,      \* history: since nothing was in flight and no overlay open, a
                \* touch has come in before the HUD that was to keep it out
    patient     \* history: since the last refresh that was started with
                \* nothing in flight, the clerk has waited for every answer and
                \* no refresh has failed

vars == <<server, list, status, answers, pageIndex, flights, expectCode,
          sentPhone, views, calm, early, patient>>
rows == <<list, status, answers>>
code == <<expectCode, sentPhone>>

Statuses == {"pending", "confirmed", "handled", "invalidate"}
Closed == {"handled", "invalidate"}
Phones == {PhoneOf[a] : a \in Appointments}
Objects == [appt : Appointments, answer : 1 .. MaxAnswers]
ListKinds == {"list", "more"}
Kinds == ListKinds \cup {"pay", "resend", "modify"}
Flights == [kind : Kinds, page : 0 .. MaxPage, item : Objects \cup {None},
            phone : Phones \cup {None}, status : Statuses \cup {None},
            rows : Seq([appt : Appointments, status : Statuses]),
            served : BOOLEAN, hud : {"none", "coming", "up"}]

TypeOK ==
    /\ server \in [Appointments -> Statuses]
    /\ list \in Seq(Objects)
    /\ status \in [Objects -> Statuses]
    /\ answers \in 0 .. MaxAnswers
    /\ pageIndex \in 0 .. MaxPage
    /\ flights \in Seq(Flights) /\ Len(flights) <= MaxInFlight
    /\ {expectCode, sentPhone} \subseteq Phones \cup {None}
    /\ views \in Seq([view : {"code", "date"}, item : Objects])
    /\ \A k, l \in DOMAIN views : views[k].view = views[l].view => k = l
    /\ {calm, early, patient} \subseteq BOOLEAN

-----------------------------------------------------------------------------
(* Requests.  The list requests have no animatingView.  The requests that   *)
(* have the server send a code change nothing else there: they are served  *)
(* from the start.                                                         *)

Request(kind) ==
    [kind |-> kind, page |-> 0, item |-> None, phone |-> None,
     status |-> None, rows |-> <<>>, served |-> kind \in {"pay", "resend"},
     hud |-> IF kind \in ListKinds THEN "none" ELSE "coming"]

\* BOUND: the clerk waits when too much is in flight.
Room == Len(flights) < MaxInFlight

Start(request) == Room /\ flights' = Append(flights, request)

\* Two seeded faults, as those further down: see there.
\* The status is never assigned to the row object.
FaultNoStatusModifyAppointment(item, new) ==
    /\ status' = [status EXCEPT ![item] = None]
    /\ Start([Request("modify") EXCEPT !.item = item, !.status = new])

\* initPullToRefreshConfig is forgotten.
FaultKeepPageGetAppointmentList(others) ==
    /\ pageIndex' = pageIndex
    /\ flights' = Append(others, [Request("list") EXCEPT !.page = pageIndex])
    /\ calm' = (calm \/ others = <<>>)

\* What a request that carries the object item and its status is built from.
ModifyAppointment(item, new) ==
    /\ status' = [status EXCEPT ![item] = new]
    /\ Start([Request("modify") EXCEPT !.item = item, !.status = new])

\* The refresh that follows a touch or a successful modification; others are
\* the requests in flight besides it.
GetAppointmentList(others) ==
    /\ pageIndex' = 0
    /\ flights' = Append(others, Request("list"))
    /\ calm' = (calm \/ others = <<>>)

\* The accessory shows the HUD from a block it posts to the main queue.
HudComing == \E i \in DOMAIN flights : flights[i].hud = "coming"

\* The HUD covers the window, overlays included; it does not cover the keyboard.
Touchable ==
    /\ \A i \in DOMAIN flights : flights[i].hud # "up"
    /\ HudComing => answers <= MaxEarly
ListTouchable == Touchable /\ views = <<>>
OnTop(view) == Touchable /\ views # <<>> /\ Last(views).view = view

\* Each overlay is one view object: showing it again moves it to the top and
\* gives it another object.
Without(view) ==
    IF \E k \in DOMAIN views : views[k].view = view
    THEN RemoveAt(views, CHOOSE k \in DOMAIN views : views[k].view = view)
    ELSE views
Shown(view, item) == Append(Without(view), [view |-> view, item |-> item])
CodeItems == {views[k].item : k \in {k \in DOMAIN views : views[k].view = "code"}}

Init ==
    /\ server \in [Appointments -> Statuses]
    /\ list = <<>> /\ answers = 0
    /\ status = [o \in Objects |-> "pending"]
    /\ pageIndex = 0
    /\ flights = <<Request("list")>>
    /\ expectCode = None /\ sentPhone = None
    /\ views = <<>>
    /\ calm = TRUE /\ early = FALSE /\ patient = TRUE

-----------------------------------------------------------------------------
(* Seeded faults: an operation with a plausible mistake, to be put in place *)
(* of the definition its name ends in.  No specification uses them.        *)

\* No animatingView: the clerk can go on before the answer.
FaultNoHudCompleteService(row) ==
    /\ ListTouchable
    /\ status[list[row]] \notin Closed
    /\ LET phone == PhoneOf[list[row].appt] IN
       /\ sentPhone' = phone
       /\ Start([Request("pay") EXCEPT !.item = list[row], !.phone = phone,
                                       !.hud = "none"])
    /\ UNCHANGED <<server, rows, pageIndex, expectCode, views, calm>>

FaultNoHudResendCode ==
    /\ OnTop("code")
    /\ Start([Request("resend") EXCEPT !.phone = sentPhone, !.hud = "none"])
    /\ UNCHANGED <<server, rows, pageIndex, code, views, calm>>

\* Only the invalid appointments are refused.
FaultHalfGuardModifyTime(row) ==
    /\ ListTouchable
    /\ status[list[row]] # "invalidate"
    /\ views' = Shown("date", list[row])
    /\ UNCHANGED <<server, rows, pageIndex, flights, code, calm>>

\* The screen trusts the status it has assigned itself.
FaultNoRefreshModified(i) ==
    /\ flights[i].kind = "modify" /\ flights[i].served
    /\ flights' = RemoveAt(flights, i)
    /\ UNCHANGED <<server, rows, pageIndex, code, views, calm>>

-----------------------------------------------------------------------------
(* What the clerk does.                                                    *)

PullToRefresh ==
    /\ ListTouchable /\ Room
    /\ GetAppointmentList(flights)
    /\ UNCHANGED <<server, rows, code, views>>

LoadMore ==
    /\ ListTouchable
    /\ pageIndex < MaxPage
    /\ pageIndex' = pageIndex + 1
    /\ Start([Request("more") EXCEPT !.page = pageIndex + 1])
    /\ UNCHANGED <<server, rows, code, views, calm>>

ModifyTime(row) ==
    /\ ListTouchable
    /\ status[list[row]] \notin Closed
    /\ views' = Shown("date", list[row])
    /\ UNCHANGED <<server, rows, pageIndex, flights, code, calm>>

CompleteService(row) ==
    /\ ListTouchable
    /\ status[list[row]] \notin Closed
    /\ LET phone == PhoneOf[list[row].appt] IN
       /\ sentPhone' = phone
       /\ Start([Request("pay") EXCEPT !.item = list[row], !.phone = phone])
    /\ UNCHANGED <<server, rows, pageIndex, expectCode, views, calm>>

\* A wrong code only shows a tip.  The keyboard stays up under a HUD.
TypeCode(typed) ==
    /\ typed = expectCode
    /\ \E item \in CodeItems : ModifyAppointment(item, "handled")
    /\ views' = Without("code")
    /\ UNCHANGED <<server, list, answers, pageIndex, code, calm>>

CancelCode ==
    /\ OnTop("code")
    /\ views' = Without("code")
    /\ UNCHANGED <<server, rows, pageIndex, flights, code, calm>>

ResendCode ==
    /\ OnTop("code")
    /\ Start([Request("resend") EXCEPT !.phone = sentPhone])
    /\ UNCHANGED <<server, rows, pageIndex, code, views, calm>>

DoneDate ==
    /\ OnTop("date")
    /\ views' = Without("date")
    /\ ModifyAppointment(Last(views).item, "confirmed")
    /\ UNCHANGED <<server, list, answers, pageIndex, code, calm>>

CloseDate ==
    /\ OnTop("date")
    /\ views' = Without("date")
    /\ UNCHANGED <<server, rows, pageIndex, flights, code, calm>>

-----------------------------------------------------------------------------
(* What the server and the network do (external).                          *)

Page(k) ==
    LET shown == SubSeq(Order, k * PageSize + 1,
                        Min({(k + 1) * PageSize, Len(Order)}))
    IN  [i \in DOMAIN shown |->
            [appt |-> shown[i], status |-> server[shown[i]]]]

Serve(i) ==
    /\ ~ flights[i].served
    /\ flights' = [flights EXCEPT
           ![i].served = TRUE,
           ![i].rows = IF flights[i].kind \in ListKinds
                       THEN Page(flights[i].page) ELSE @]
    /\ server' = IF flights[i].kind = "modify"
                 THEN [server EXCEPT ![flights[i].item.appt] = flights[i].status]
                 ELSE server
    /\ UNCHANGED <<rows, pageIndex, code, views, calm>>

-----------------------------------------------------------------------------
(* What the completion blocks do.                                          *)

Overtakes(i) ==
    /\ flights[i].kind \in ListKinds
    /\ \E j \in 1 .. i - 1 : flights[j].kind \in ListKinds

\* An error, or an answer that is not messageSuccess: a tip.
\* BOUND: list requests beyond MaxAnswers only fail.
Fail(i) ==
    /\ flights[i].kind \in MayFail \/ answers = MaxAnswers
    /\ flights' = RemoveAt(flights, i)
    /\ calm' = (calm /\ flights[i].kind \in {"pay", "resend"})
    /\ UNCHANGED <<server, rows, pageIndex, code, views>>

NewObject(row) == [appt |-> row.appt, answer |-> answers + 1]

CreateObjects(new) ==
    /\ answers < MaxAnswers
    /\ answers' = answers + 1
    /\ status' = [o \in Objects |->
           IF \E i \in DOMAIN new : o = NewObject(new[i])
           THEN LET i == CHOOSE k \in DOMAIN new : o = NewObject(new[k])
                IN  new[i].status
           ELSE status[o]]

ShowList(i) ==
    LET new == flights[i].rows IN
    /\ flights[i].kind = "list" /\ flights[i].served
    /\ CreateObjects(new)
    /\ list' = [k \in DOMAIN new |-> NewObject(new[k])]
    /\ flights' = RemoveAt(flights, i)
    /\ calm' = (calm /\ ~ Overtakes(i))
    /\ UNCHANGED <<server, pageIndex, code, views>>

ShowMore(i) ==
    LET new == flights[i].rows IN
    /\ flights[i].kind = "more" /\ flights[i].served
    /\ IF new = <<>>
       THEN UNCHANGED rows
       ELSE /\ CreateObjects(new)
            /\ list' = list \o [k \in DOMAIN new |-> NewObject(new[k])]
    /\ flights' = RemoveAt(flights, i)
    /\ calm' = (calm /\ ~ Overtakes(i))
    /\ UNCHANGED <<server, pageIndex, code, views>>

ShowCodeView(i) ==
    /\ flights[i].kind = "pay" /\ flights[i].served
    /\ expectCode' = flights[i].phone
    /\ views' = Shown("code", flights[i].item)
    /\ flights' = RemoveAt(flights, i)
    /\ UNCHANGED <<server, rows, pageIndex, sentPhone, calm>>

CodeResent(i) ==
    /\ flights[i].kind = "resend" /\ flights[i].served
    /\ expectCode' = flights[i].phone
    /\ flights' = RemoveAt(flights, i)
    /\ UNCHANGED <<server, rows, pageIndex, sentPhone, views, calm>>

Modified(i) ==
    /\ flights[i].kind = "modify" /\ flights[i].served
    /\ GetAppointmentList(RemoveAt(flights, i))
    /\ UNCHANGED <<server, rows, code, views>>

\* The block that shows the HUD.
ShowHud(i) ==
    /\ flights[i].hud = "coming"
    /\ flights' = [flights EXCEPT ![i].hud = "up"]
    /\ UNCHANGED <<server, rows, pageIndex, code, views, calm>>

-----------------------------------------------------------------------------
Tap ==
    \/ LoadMore
    \/ \E row \in DOMAIN list : ModifyTime(row) \/ CompleteService(row)
    \/ CancelCode \/ ResendCode \/ DoneDate \/ CloseDate

Type == \E typed \in Phones : TypeCode(typed)

Answered(i) ==
    \/ Serve(i) \/ ShowList(i) \/ ShowMore(i)
    \/ ShowCodeView(i) \/ CodeResent(i) \/ Modified(i) \/ ShowHud(i)

\* The last two history variables follow the steps.
Quiet == flights' = <<>> /\ views' = <<>>

Early(touch) == early' = ((early \/ touch) /\ ~ Quiet)
Patient(kept) == patient' = (patient /\ kept)

Next ==
    \/ PullToRefresh /\ Early(HudComing) /\ patient' = (flights = <<>>)
    \/ Tap /\ Early(HudComing) /\ Patient(flights = <<>>)
    \/ Type /\ Early(FALSE) /\ Patient(flights = <<>>)
    \/ \E i \in DOMAIN flights :
        \/ Answered(i) /\ Early(FALSE) /\ Patient(TRUE)
        \/ Fail(i) /\ Early(FALSE) /\ Patient(flights[i].kind # "list")

Spec == Init /\ [][Next]_vars

-----------------------------------------------------------------------------
(* Properties.                                                             *)

\* While the clerk can type a code, the code the screen expects is the one
\* sent to the customer whose appointment it will complete, unless a touch has
\* come in before a HUD: no late answer to another customer's request changes it
\* (checkVerificationCode and the three places that set m_expectVerificationCode
\* and m_sendedVerificationCodePhone).
CodeOfTheCustomer ==
    ~ early => \A item \in CodeItems : expectCode = PhoneOf[item.appt]

\* A row object that has been completed is not put back to confirmed, although
\* the two overlays keep their objects across answers and refreshes, unless a
\* touch has come in before a HUD.
CompletedObjectStays ==
    [][ ~ early =>
          \A o \in Objects :
            status[o] = "handled" /\ o.answer <= answers => status'[o] = "handled"]_vars

\* Once no request is in flight, and provided none failed or overtook another
\* since the last clean refresh, the list is what the server lists, page after
\* page without a gap or a repetition, for the pages the screen has counted.
SettledListHasNoGap ==
    flights = <<>> /\ calm =>
        [k \in DOMAIN list |-> list[k].appt]
            = SubSeq(Order, 1, Min({(pageIndex + 1) * PageSize, Len(Order)}))

\* Under the same conditions every row shows the status the server has: the
\* refresh after a modification makes up for every answer that was on its way.
SettledListAgrees ==
    flights = <<>> /\ calm =>
        \A k \in DOMAIN list : status[list[k]] = server[list[k].appt]

\* As long as the clerk waits for each answer and no refresh fails, an
\* appointment completed on the server is not moved to another time: the guards
\* of the sideslip actions look at a row that is not stale.  (After a failed
\* refresh, or with a second request in flight, the screen does reopen it.)
CompletedOnServerStays ==
    [][ patient =>
          \A a \in Appointments : server[a] = "handled" => server'[a] = "handled"]_vars

=============================================================================
