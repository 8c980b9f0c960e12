------------------------------ MODULE Session ------------------------------
(***************************************************************************)
(* Who is logged in: MShopLoginService with its two database files,        *)
(* MShopLoginViewController, MShopAppViewControllerManager (the root       *)
(* screen), the expiry alert of MFNetWorkAgent and the push alias that     *)
(* MFThirdPartyPlugin sets and deletes at the JPush service.               *)
(*                                                                         *)
(* A handler runs to its end on the main thread, but the process can be    *)
(* killed between any two of its effects, so a handler is a sequence of    *)
(* effects still to do.  A user stands for the rows and the token of that  *)
(* user's login.                                                           *)
(***************************************************************************)
EXTENDS Naturals, Sequences, FiniteSets

CONSTANTS
    Users,
    AliasOf,    \* AliasOf[u]: the user's id, or the department of a shopkeeper
    None,
    MaxScreens, \* BOUND: login screens that something still refers to
    MaxAlerts,  \* BOUND: expiry alerts open at a time
    MaxPushes,  \* BOUND: alias calls JPush has not carried out
    MaxLogins   \* BOUND: login requests in flight

ASSUME NoneAssumption ==
    None \notin Users /\ \A u \in Users : AliasOf[u] # None
ASSUME BoundAssumption ==
    /\ MaxScreens \in Nat \ {0} /\ MaxAlerts \in Nat \ {0}
    /\ MaxPushes \in Nat \ {0} /\ MaxLogins \in Nat \ {0}

VARIABLES
    userRow,    \* the user in the MShopLoginUserInfo file
    tokenRow,   \* the user whose token is in the MShopLoginTable file
    alias,      \* the alias the push service has for this device
    pushes,     \* alias calls on their way to the push service, in order
    root,       \* the root screen: "none" before launch, "login" or "tabs"
    screen,     \* the login screen shown last
    tabsUser,   \* the user for whom the tabs were created
    todo,       \* effects the main thread has still to carry out
    logins,     \* login requests in flight
    sso,        \* whether an answer of the other app is due
    waiting,    \* _waitAttachObject.delegate: a weak reference to a screen
    menus,      \* login screens with an open user-id alert
    calls,      \* users with whose token API calls are in flight
    alerts,     \* expiry alerts open
    overwrites, \* history: a login is being, or was incompletely, written
                \* over a live session
    unseen,     \* history: a login was stored whose screen was gone
    pushLost    \* history: the last alias call did not reach the service, or
                \* a logout or login was cut before it made one

disk == <<userRow, tokenRow>>
push == <<alias, pushes, pushLost>>
shown == <<root, screen, tabsUser>>
asked == <<logins, sso, waiting, menus>>
expiry == <<calls, alerts>>
vars == <<disk, push, shown, todo, asked, expiry, overwrites, unseen>>

Screens == 1 .. MaxScreens
Effects == {"removeUser", "writeUser", "removeToken", "writeToken",
            "setAlias", "deleteAlias", "showTabs", "showLogin"}
Aliases == {AliasOf[u] : u \in Users}
Maybe(S) == S \cup {None}
AliasCalls == Maybe(Aliases)   \* None deletes the alias

Doings == [effect : Effects, user : Maybe(Users)]
Logins == [by : {"code", "userId"}, screen : Screens, user : Users]

Do(effect, u) == [effect |-> effect, user |-> u]

TypeOK ==
    /\ userRow \in Maybe(Users) /\ tokenRow \in Maybe(Users)
    /\ alias \in Maybe(Aliases)
    /\ pushes \in Seq(AliasCalls)
    /\ root \in {"none", "login", "tabs"}
    /\ screen \in Screens
    /\ tabsUser \in Maybe(Users)
    /\ todo \in Seq(Doings)
    /\ logins \subseteq Logins
    /\ sso \in BOOLEAN
    /\ waiting \in Maybe(Screens)
    /\ menus \subseteq Screens
    /\ calls \subseteq Users
    /\ alerts \in 0 .. MaxAlerts
    /\ overwrites \in BOOLEAN /\ unseen \in BOOLEAN /\ pushLost \in BOOLEAN

Init ==
    /\ userRow = None /\ tokenRow = None
    /\ alias = None /\ pushes = <<>>
    /\ root = "none" /\ screen = 1 /\ tabsUser = None
    /\ todo = <<>>
    /\ logins = {} /\ sso = FALSE /\ waiting = None /\ menus = {}
    /\ calls = {} /\ alerts = 0
    /\ overwrites = FALSE /\ unseen = FALSE /\ pushLost = FALSE

-----------------------------------------------------------------------------
(* The handlers, as the effects they have in order.                        *)

\* Seeded fault: the user file, which logout leaves in place, decides.
FaultByUserAutoLogin == IF userRow # None
                        THEN <<Do("setAlias", None), Do("showTabs", None)>>
                        ELSE <<Do("showLogin", None)>>

AutoLogin == IF tokenRow # None
             THEN <<Do("setAlias", None), Do("showTabs", None)>>
             ELSE <<Do("showLogin", None)>>

\* Seeded fault: the token is stored first.
FaultTokenFirstUpdateLoginInfo(u) ==
    <<Do("removeToken", None), Do("writeToken", u),
      Do("removeUser", None), Do("writeUser", u)>>

UpdateLoginInfo(u) ==
    <<Do("removeUser", None), Do("writeUser", u),
      Do("removeToken", None), Do("writeToken", u)>>

OnDidLoginSuccess == <<Do("setAlias", None), Do("showTabs", None)>>

\* Seeded fault: the alias is left at the push service.
FaultKeepAliasLogout == <<Do("removeToken", None), Do("showLogin", None)>>

Logout == <<Do("removeToken", None), Do("showLogin", None),
            Do("deleteAlias", None)>>

\* The blocks of a login by code hold their screen, and so does a button of
\* the user-id alert; the blocks of a login by user id do not.
Alive(s) == \/ root = "login" /\ screen = s
            \/ s \in menus
            \/ \E l \in logins : l.by = "code" /\ l.screen = s

Idle == root # "none" /\ todo = <<>>

\* The HUD covers the main window, and so does the window of an alert; the
\* alerts have windows of their own, which no HUD covers.
Touchable == Idle /\ logins = {} /\ menus = {} /\ alerts = 0

\* BOUND: no more logins than MaxLogins.
Send(login) == Cardinality(logins) < MaxLogins /\ logins' = logins \cup {login}

\* Screens something refers to, if weakly.
Referred == {l.screen : l \in logins} \cup menus \cup {waiting}
FreshScreens == Screens \ Referred

-----------------------------------------------------------------------------
(* The effects.                                                            *)

Doing(effect) == todo # <<>> /\ Head(todo).effect = effect /\ todo' = Tail(todo)

RemoveUser ==
    /\ Doing("removeUser")
    /\ userRow' = None
    /\ UNCHANGED <<tokenRow, push, shown, asked, expiry, overwrites, unseen>>

WriteUser ==
    /\ Doing("writeUser")
    /\ userRow' = Head(todo).user
    /\ UNCHANGED <<tokenRow, push, shown, asked, expiry, overwrites, unseen>>

RemoveToken ==
    /\ Doing("removeToken")
    /\ tokenRow' = None
    /\ overwrites' = FALSE
    /\ UNCHANGED <<userRow, push, shown, asked, expiry, unseen>>

WriteToken ==
    /\ Doing("writeToken")
    /\ tokenRow' = Head(todo).user
    /\ UNCHANGED <<userRow, push, shown, asked, expiry, overwrites, unseen>>

\* setJPushTAG reads the user back from the file.
SetJPushTAG ==
    /\ Doing("setAlias")
    /\ Len(pushes) < MaxPushes
    /\ pushes' = Append(pushes, IF userRow = None THEN None ELSE AliasOf[userRow])
    /\ pushLost' = FALSE
    /\ UNCHANGED <<disk, alias, shown, asked, expiry, overwrites, unseen>>

DeletePushAlias ==
    /\ Doing("deleteAlias")
    /\ Len(pushes) < MaxPushes
    /\ pushes' = Append(pushes, None)
    /\ pushLost' = FALSE
    /\ UNCHANGED <<disk, alias, shown, asked, expiry, overwrites, unseen>>

CreateMainTab ==
    /\ Doing("showTabs")
    /\ root' = "tabs"
    /\ tabsUser' = tokenRow
    /\ unseen' = FALSE
    /\ UNCHANGED <<disk, push, screen, asked, expiry, overwrites>>

JumpToLogin ==
    /\ Doing("showLogin")
    /\ root' = "login"
    /\ tabsUser' = None
    /\ screen' \in FreshScreens
    /\ unseen' = FALSE
    /\ UNCHANGED <<disk, push, asked, expiry, overwrites>>

Effect == \/ RemoveUser \/ WriteUser \/ RemoveToken \/ WriteToken
          \/ SetJPushTAG \/ DeletePushAlias \/ CreateMainTab \/ JumpToLogin

-----------------------------------------------------------------------------
(* The events that start a handler.                                        *)

Launch ==
    /\ root = "none" /\ todo = <<>>
    /\ todo' = AutoLogin
    /\ UNCHANGED <<disk, push, shown, asked, expiry, overwrites, unseen>>

OnClickWXLogin ==
    /\ Touchable /\ root = "login"
    /\ waiting' = screen
    /\ sso' = TRUE
    /\ UNCHANGED <<disk, push, shown, todo, logins, menus, expiry, overwrites,
                   unseen>>

\* The other app comes back with a code for u, or cancelled; the screen that
\* asked may be gone.
OnResp ==
    /\ Idle /\ sso
    /\ sso' = FALSE
    /\ \/ /\ waiting # None /\ Alive(waiting)
          /\ \E u \in Users :
                Send([by |-> "code", screen |-> waiting, user |-> u])
       \/ logins' = logins
    /\ UNCHANGED <<disk, push, shown, todo, waiting, menus, expiry, overwrites,
                   unseen>>

LongPress ==
    /\ Touchable /\ root = "login"
    /\ menus' = menus \cup {screen}
    /\ UNCHANGED <<disk, push, shown, todo, logins, sso, waiting, expiry,
                   overwrites, unseen>>

OnClickLoginUserId(s) ==
    /\ Idle /\ s \in menus
    /\ menus' = menus \ {s}
    /\ \/ \E u \in Users :
             Send([by |-> "userId", screen |-> s, user |-> u])
       \/ logins' = logins   \* closed, or a user id that is no number
    /\ UNCHANGED <<disk, push, shown, todo, sso, waiting, expiry, overwrites,
                   unseen>>

LoginAnswered(l) ==
    /\ Idle
    /\ logins' = logins \ {l}
    /\ todo' = UpdateLoginInfo(l.user)
                 \o (IF Alive(l.screen) THEN OnDidLoginSuccess ELSE <<>>)
    /\ unseen' = (unseen \/ ~ Alive(l.screen))
    /\ overwrites' = (tokenRow # None)
    /\ UNCHANGED <<disk, push, shown, sso, waiting, menus, expiry>>

\* A login by user id offers its alert again.
LoginFailed(l) ==
    /\ Idle
    /\ logins' = logins \ {l}
    /\ menus' = IF l.by = "userId" /\ Alive(l.screen)
                THEN menus \cup {l.screen} ELSE menus
    /\ UNCHANGED <<disk, push, shown, todo, sso, waiting, expiry, overwrites,
                   unseen>>

\* Any screen's request, with the token that is in the file.
CallApi ==
    /\ Idle /\ root = "tabs" /\ tokenRow # None
    /\ calls' = calls \cup {tokenRow}
    /\ UNCHANGED <<disk, push, shown, todo, asked, alerts, overwrites, unseen>>

CallAnswered(u) ==
    /\ Idle
    /\ calls' = calls \ {u}
    /\ UNCHANGED <<disk, push, shown, todo, asked, alerts, overwrites, unseen>>

\* BOUND: further expired answers raise no more alerts.
HandleTokenExpire(u) ==
    /\ Idle /\ alerts < MaxAlerts
    /\ calls' \in {calls, calls \ {u}}
    /\ alerts' = alerts + 1
    /\ UNCHANGED <<disk, push, shown, todo, asked, overwrites, unseen>>

CloseAlert ==
    /\ Idle /\ alerts > 0
    /\ alerts' = alerts - 1
    /\ UNCHANGED <<disk, push, shown, todo, asked, calls, overwrites, unseen>>

LoginAgain ==
    /\ Idle /\ alerts > 0
    /\ alerts' = alerts - 1
    /\ todo' = Logout
    /\ UNCHANGED <<disk, push, shown, asked, calls, overwrites, unseen>>

OnClickLogout ==
    /\ Touchable /\ root = "tabs"
    /\ todo' = Logout
    /\ UNCHANGED <<disk, push, shown, asked, expiry, overwrites, unseen>>

\* The push service carries a call out, or the call fails: its completion
\* only logs.
AliasApplied ==
    /\ pushes # <<>>
    /\ alias' = Head(pushes)
    /\ pushes' = Tail(pushes)
    /\ UNCHANGED <<disk, pushLost, shown, todo, asked, expiry, overwrites, unseen>>

AliasFailed ==
    /\ pushes # <<>>
    /\ pushes' = Tail(pushes)
    /\ pushLost' = (pushLost \/ Len(pushes) = 1)
    /\ UNCHANGED <<disk, alias, shown, todo, asked, expiry, overwrites, unseen>>

\* The process is killed; the files and the push service's alias remain.
Crash ==
    /\ root # "none" \/ todo # <<>>
    /\ root' = "none" /\ tabsUser' = None /\ screen' = 1
    /\ todo' = <<>>
    /\ logins' = {} /\ sso' = FALSE /\ waiting' = None /\ menus' = {}
    /\ calls' = {} /\ alerts' = 0
    /\ pushes' = <<>>
    /\ pushLost' = \/ pushLost \/ pushes # <<>>
                   \/ \E k \in DOMAIN todo :
                          todo[k].effect \in {"deleteAlias", "writeToken"}
    /\ UNCHANGED <<disk, alias, overwrites, unseen>>

Next ==
    \/ Effect \/ Launch
    \/ OnClickWXLogin \/ OnResp \/ LongPress
    \/ \E s \in menus : OnClickLoginUserId(s)
    \/ \E l \in logins : LoginAnswered(l) \/ LoginFailed(l)
    \/ CallApi
    \/ \E u \in calls : CallAnswered(u) \/ HandleTokenExpire(u)
    \/ CloseAlert \/ LoginAgain \/ OnClickLogout
    \/ AliasApplied \/ AliasFailed
    \/ Crash

Spec == Init /\ [][Next]_vars

-----------------------------------------------------------------------------
(* Properties.                                                             *)

\* Wherever the process is killed, a token in one file comes with its user in
\* the other, unless a login was being written over a live session: the user
\* is written first and logout removes the token first (updateLoginInfoInDB,
\* updateLastLoginInfoInDB, deleteLastLoginInfoInDB).
TokenHasItsUser ==
    tokenRow # None /\ ~ overwrites => userRow = tokenRow

\* Why TokenHasItsUser holds at every step: the two files are written in this
\* order by every handler that has begun (updateLoginInfoInDB before
\* updateLastLoginInfoInDB).  A user is replaced only while the token is gone or
\* the login overwrites, and a token still to be written belongs to the user
\* already written, or to be written two effects before it.
WriteOrder ==
    /\ TokenHasItsUser
    /\ \A k \in DOMAIN todo :
         /\ todo[k].effect \in {"removeUser", "writeUser"} =>
              /\ overwrites \/ tokenRow = None
              /\ \A j \in 1 .. k - 1 : todo[j].effect # "writeToken"
         /\ todo[k].effect = "writeToken" =>
              /\ k >= 2 => todo[k - 1].effect = "removeToken"
              /\ k <= 2 => userRow = todo[k].user
              /\ k > 2 => todo[k - 2] = Do("writeUser", todo[k].user)

\* Between handlers the tabs are on the screen exactly if there is a token,
\* and they were created for its user, unless a login was stored for a screen
\* that was gone.
ScreenOfTheSession ==
    Idle /\ ~ unseen =>
        /\ root = "tabs" <=> tokenRow # None
        /\ root = "tabs" => tabsUser = tokenRow

\* Between handlers and with no alias call under way, the device receives the
\* pushes of the user it is logged in as and of nobody after logout, unless the
\* last call got lost, a login was unseen or a write over a session was cut.
AliasOfTheSession ==
    Idle /\ pushes = <<>> /\ ~ (unseen \/ overwrites \/ pushLost) =>
        alias = IF tokenRow = None THEN None ELSE AliasOf[tokenRow]

=============================================================================
