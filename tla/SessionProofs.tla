--------------------------- MODULE SessionProofs ---------------------------
(***************************************************************************)
(* For any set of users and wherever the process is killed: a token in its *)
(* file comes with its user in the other file, the screen is that of the   *)
(* session, and so is the alias at the push service.  The two files follow *)
(* from the order in which a handler writes them (WriteOrder); the screen  *)
(* and the alias from what a handler has still to do (HandlersEnd).        *)
(***************************************************************************)
EXTENDS Session, TLAPS

\* What every handler puts in front of the main thread is well formed.
LEMMA HandlersAreDoings ==
    /\ AutoLogin \in Seq(Doings)
    /\ OnDidLoginSuccess \in Seq(Doings)
    /\ Logout \in Seq(Doings)
    /\ \A u \in Users : UpdateLoginInfo(u) \in Seq(Doings)
<1>1. \A e \in Effects : \A u \in Maybe(Users) : Do(e, u) \in Doings
  BY DEF Do, Doings
<1>2. None \in Maybe(Users) /\ Users \subseteq Maybe(Users)
  BY DEF Maybe
<1>3. \A e \in Effects : Do(e, None) \in Doings
  BY <1>1, <1>2
<1>4. /\ <<Do("setAlias", None), Do("showTabs", None)>> \in Seq(Doings)
      /\ <<Do("showLogin", None)>> \in Seq(Doings)
      /\ Logout \in Seq(Doings)
  BY <1>3 DEF Effects, Logout
<1>5. ASSUME NEW u \in Users PROVE UpdateLoginInfo(u) \in Seq(Doings)
  <2>1. Do("writeUser", u) \in Doings /\ Do("writeToken", u) \in Doings
    BY <1>1, <1>2 DEF Effects
  <2> QED
    BY <1>3, <2>1 DEF Effects, UpdateLoginInfo
<1> QED
  BY <1>4, <1>5 DEF AutoLogin, OnDidLoginSuccess

LEMMA InitIsTyped == Init => TypeOK
<1>1. Init => pushes \in Seq(AliasCalls) /\ todo \in Seq(Doings)
  BY DEF Init
<1>2. Init => alerts \in 0 .. MaxAlerts /\ screen \in Screens
  BY BoundAssumption DEF Init, Screens
<1> QED
  BY <1>1, <1>2 DEF Init, TypeOK, Maybe

\* Carrying out the first effect leaves a well-formed rest.
LEMMA DoingTakesOne ==
    ASSUME TypeOK, NEW e, Doing(e)
    PROVE  todo' \in Seq(Doings) /\ Head(todo).user \in Maybe(Users)
<1>1. Head(todo) \in Doings /\ Tail(todo) \in Seq(Doings)
  BY DEF TypeOK, Doing
<1> QED
  BY <1>1 DEF Doing, Doings

LEMMA EffectKeepsType == TypeOK /\ Effect => TypeOK'
<1> SUFFICES ASSUME TypeOK, Effect PROVE TypeOK'
  OBVIOUS
<1>t. todo' \in Seq(Doings) /\ Head(todo).user \in Maybe(Users)
  BY DoingTakesOne DEF Effect, RemoveUser, WriteUser, RemoveToken, WriteToken,
     SetJPushTAG, DeletePushAlias, CreateMainTab, JumpToLogin
<1>n. None \in Maybe(Users) /\ \A u \in Users : AliasOf[u] \in AliasCalls
  BY DEF Maybe, AliasCalls, Aliases
<1> USE DEF disk, push, shown, asked, expiry
<1>1. CASE RemoveUser
  BY <1>1, <1>t, <1>n DEF RemoveUser, TypeOK
<1>2. CASE WriteUser
  BY <1>2, <1>t DEF WriteUser, TypeOK
<1>3. CASE RemoveToken
  BY <1>3, <1>t, <1>n DEF RemoveToken, TypeOK
<1>4. CASE WriteToken
  BY <1>4, <1>t DEF WriteToken, TypeOK
<1>5. CASE SetJPushTAG \/ DeletePushAlias
  <2>1. None \in AliasCalls /\ (userRow # None => AliasOf[userRow] \in AliasCalls)
    BY <1>n DEF TypeOK, Maybe, AliasCalls
  <2>2. pushes' \in Seq(AliasCalls)
    <3>1. \E a \in AliasCalls : pushes' = Append(pushes, a)
      BY <1>5, <2>1 DEF SetJPushTAG, DeletePushAlias
    <3>2. pushes \in Seq(AliasCalls)
      BY DEF TypeOK
    <3> QED
      BY <3>1, <3>2
  <2> QED
    BY <1>5, <1>t, <2>2 DEF SetJPushTAG, DeletePushAlias, TypeOK
<1>7. CASE CreateMainTab
  BY <1>7, <1>t DEF CreateMainTab, TypeOK
<1>8. CASE JumpToLogin
  BY <1>8, <1>t, <1>n DEF JumpToLogin, FreshScreens, TypeOK
<1>9. QED
  BY <1>1, <1>2, <1>3, <1>4, <1>5, <1>7, <1>8 DEF Effect

LEMMA NextKeepsType == TypeOK /\ [Next]_vars => TypeOK'
<1> SUFFICES ASSUME TypeOK, [Next]_vars PROVE TypeOK'
  OBVIOUS
<1>e. CASE Effect
  BY <1>e, EffectKeepsType
<1> USE DEF disk, push, shown, asked, expiry
<1>0. CASE UNCHANGED vars
  BY <1>0 DEF vars, TypeOK
<1>1. CASE Launch
  BY <1>1, HandlersAreDoings DEF Launch, TypeOK
<1>2. CASE OnClickWXLogin
  BY <1>2 DEF OnClickWXLogin, Maybe, TypeOK
<1>3. CASE OnResp
  <2>1. logins' \subseteq Logins
    BY <1>3 DEF OnResp, Send, Maybe, Logins, TypeOK
  <2> QED
    BY <1>3, <2>1 DEF OnResp, TypeOK
<1>4. CASE LongPress
  BY <1>4 DEF LongPress, TypeOK
<1>5. ASSUME NEW s \in menus, OnClickLoginUserId(s) PROVE TypeOK'
  <2>1. logins' \subseteq Logins
    BY <1>5 DEF OnClickLoginUserId, Send, Logins, TypeOK
  <2> QED
    BY <1>5, <2>1 DEF OnClickLoginUserId, TypeOK
<1>6. ASSUME NEW l \in logins, LoginAnswered(l) PROVE TypeOK'
  <2>1. l.user \in Users
    BY DEF TypeOK, Logins
  <2>2. <<>> \in Seq(Doings)
    OBVIOUS
  <2>3. todo' \in Seq(Doings)
    BY <1>6, <2>1, <2>2, HandlersAreDoings DEF LoginAnswered
  <2> QED
    BY <1>6, <2>3 DEF LoginAnswered, TypeOK
<1>7. ASSUME NEW l \in logins, LoginFailed(l) PROVE TypeOK'
  <2>1. l.screen \in Screens
    BY DEF TypeOK, Logins
  <2> QED
    BY <1>7, <2>1 DEF LoginFailed, TypeOK
<1>8. CASE CallApi
  BY <1>8 DEF CallApi, Maybe, TypeOK
<1>9. ASSUME NEW u \in calls, CallAnswered(u) \/ HandleTokenExpire(u)
      PROVE  TypeOK'
  <2>1. alerts' \in 0 .. MaxAlerts
    BY <1>9, BoundAssumption DEF CallAnswered, HandleTokenExpire, TypeOK
  <2> QED
    BY <1>9, <2>1 DEF CallAnswered, HandleTokenExpire, TypeOK
<1>10. CASE CloseAlert \/ LoginAgain
  <2>1. alerts' \in 0 .. MaxAlerts
    BY <1>10, BoundAssumption DEF CloseAlert, LoginAgain, TypeOK
  <2> QED
    BY <1>10, <2>1, HandlersAreDoings DEF CloseAlert, LoginAgain, TypeOK
<1>12. CASE OnClickLogout
  BY <1>12, HandlersAreDoings DEF OnClickLogout, TypeOK
<1>13. CASE AliasApplied
  <2>1. Head(pushes) \in AliasCalls /\ pushes' \in Seq(AliasCalls)
    BY <1>13 DEF AliasApplied, TypeOK
  <2> QED
    BY <1>13, <2>1 DEF AliasApplied, AliasCalls, TypeOK
<1>14. CASE AliasFailed
  <2>1. pushes' \in Seq(AliasCalls)
    BY <1>14 DEF AliasFailed, TypeOK
  <2> QED
    BY <1>14, <2>1 DEF AliasFailed, TypeOK
<1>15. CASE Crash
  <2>1. pushes' \in Seq(AliasCalls) /\ todo' \in Seq(Doings)
    BY <1>15 DEF Crash
  <2>2. alerts' \in 0 .. MaxAlerts /\ screen' \in Screens
    BY <1>15, BoundAssumption DEF Crash, Screens
  <2> QED
    BY <1>15, <2>1, <2>2 DEF Crash, Maybe, TypeOK
<1>16. QED
  BY <1>0, <1>e, <1>1, <1>2, <1>3, <1>4, <1>5, <1>6, <1>7, <1>8, <1>9, <1>10,
     <1>12, <1>13, <1>14, <1>15 DEF Next

\* The state of the session is well formed, for any set of users.
THEOREM SessionTypeCorrect == Spec => []TypeOK
  BY InitIsTyped, NextKeepsType, PTL DEF Spec

-----------------------------------------------------------------------------
\* Carrying out an effect takes it from the front, and it is one of the eight.
LEMMA FirstEffect ==
    ASSUME TypeOK, Effect
    PROVE  /\ todo # <<>> /\ todo' = Tail(todo)
           /\ Len(todo) \in Nat \ {0} /\ DOMAIN todo = 1 .. Len(todo)
           /\ Len(todo') = Len(todo) - 1 /\ DOMAIN todo' = 1 .. Len(todo) - 1
           /\ \A k \in DOMAIN todo' : k + 1 \in DOMAIN todo /\ todo'[k] = todo[k + 1]
           /\ 1 \in DOMAIN todo /\ Head(todo) = todo[1] /\ Head(todo) \in Doings
<1>1. todo # <<>> /\ todo' = Tail(todo)
  BY DEF Effect, Doing, RemoveUser, WriteUser, RemoveToken, WriteToken,
         SetJPushTAG, DeletePushAlias, CreateMainTab, JumpToLogin
<1>2. todo \in Seq(Doings)
  BY DEF TypeOK
<1>3. /\ Len(todo) \in Nat \ {0} /\ DOMAIN todo = 1 .. Len(todo)
      /\ Len(todo') = Len(todo) - 1 /\ DOMAIN todo' = 1 .. Len(todo) - 1
      /\ Head(todo) = todo[1]
  BY <1>1, <1>2
<1>4. \A k \in DOMAIN todo' : k + 1 \in DOMAIN todo /\ todo'[k] = todo[k + 1]
  BY <1>1, <1>2, <1>3
<1>5. 1 \in DOMAIN todo /\ todo[1] \in Doings
  BY <1>2, <1>3
<1> QED
  BY <1>1, <1>3, <1>4, <1>5

LEMMA EffectIsNamed ==
    ASSUME TypeOK, Effect
    PROVE  /\ Head(todo).effect = "removeUser" => RemoveUser
           /\ Head(todo).effect = "writeUser" => WriteUser
           /\ Head(todo).effect = "removeToken" => RemoveToken
           /\ Head(todo).effect = "writeToken" => WriteToken
           /\ Head(todo).effect = "setAlias" => SetJPushTAG
           /\ Head(todo).effect = "deleteAlias" => DeletePushAlias
           /\ Head(todo).effect = "showTabs" => CreateMainTab
           /\ Head(todo).effect = "showLogin" => JumpToLogin
           /\ Head(todo).effect \in Effects
<1>1. Head(todo).effect \in Effects
  BY FirstEffect DEF Doings
<1> QED
  BY <1>1 DEF Effect, Doing, RemoveUser, WriteUser, RemoveToken, WriteToken,
              SetJPushTAG, DeletePushAlias, CreateMainTab, JumpToLogin

\* A handler that writes neither file leaves nothing to order.
LEMMA NoWriteIsOrdered ==
    ASSUME TokenHasItsUser',
           \A k \in DOMAIN todo' :
               todo'[k].effect \notin {"removeUser", "writeUser", "writeToken"}
    PROVE  WriteOrder'
  BY DEF WriteOrder

\* The effects not yet carried out stay in order when the first one is.
LEMMA EffectKeepsOrder == TypeOK /\ WriteOrder /\ Effect => WriteOrder'
<1> SUFFICES ASSUME TypeOK, WriteOrder, Effect PROVE WriteOrder'
  OBVIOUS
<1>a. /\ todo # <<>> /\ todo' = Tail(todo)
      /\ Len(todo) \in Nat \ {0} /\ DOMAIN todo = 1 .. Len(todo)
      /\ DOMAIN todo' = 1 .. Len(todo) - 1
      /\ \A k \in DOMAIN todo' : k + 1 \in DOMAIN todo /\ todo'[k] = todo[k + 1]
      /\ 1 \in DOMAIN todo /\ Head(todo) = todo[1]
  BY FirstEffect
<1>b. /\ Head(todo).effect = "removeUser" => RemoveUser
      /\ Head(todo).effect = "writeUser" => WriteUser
      /\ Head(todo).effect = "removeToken" => RemoveToken
      /\ Head(todo).effect = "writeToken" => WriteToken
      /\ Head(todo).effect \notin {"removeUser", "writeUser", "removeToken", "writeToken"}
            => UNCHANGED <<userRow, tokenRow, overwrites>>
  BY EffectIsNamed DEF Effects, SetJPushTAG, DeletePushAlias, CreateMainTab, JumpToLogin, disk
<1>1. TokenHasItsUser'
  BY <1>a, <1>b DEF WriteOrder, TokenHasItsUser, RemoveUser, WriteUser,
                    RemoveToken, WriteToken
<1>2. ASSUME NEW k \in DOMAIN todo',
             todo'[k].effect \in {"removeUser", "writeUser"}
      PROVE  /\ overwrites' \/ tokenRow' = None
             /\ \A j \in 1 .. k - 1 : todo'[j].effect # "writeToken"
  <2>1. todo[k + 1].effect \in {"removeUser", "writeUser"}
    BY <1>2, <1>a
  <2>2. /\ overwrites \/ tokenRow = None
        /\ \A j \in 1 .. k : todo[j].effect # "writeToken"
    BY <2>1, <1>2, <1>a DEF WriteOrder
  <2>3. todo[1].effect # "writeToken"
    BY <2>2, <1>2, <1>a
  <2>4. overwrites' \/ tokenRow' = None
    BY <2>2, <2>3, <1>a, <1>b DEF RemoveUser, WriteUser, RemoveToken
  <2>5. \A j \in 1 .. k - 1 : todo'[j].effect # "writeToken"
    BY <2>2, <1>2, <1>a
  <2> QED
    BY <2>4, <2>5
<1>3. ASSUME NEW k \in DOMAIN todo', todo'[k].effect = "writeToken"
      PROVE  /\ k >= 2 => todo'[k - 1].effect = "removeToken"
             /\ k <= 2 => userRow' = todo'[k].user
             /\ k > 2 => todo'[k - 2] = Do("writeUser", todo'[k].user)
  <2>1. /\ todo[k + 1].effect = "writeToken" /\ k + 1 \in DOMAIN todo
        /\ todo'[k] = todo[k + 1]
    BY <1>3, <1>a
  <2>2. /\ todo[k].effect = "removeToken"
        /\ k = 1 => userRow = todo[k + 1].user
        /\ k > 1 => todo[k - 1] = Do("writeUser", todo[k + 1].user)
    BY <2>1, <1>3, <1>a DEF WriteOrder
  <2>3. CASE k = 1
    BY <2>1, <2>2, <2>3, <1>a, <1>b DEF RemoveToken
  <2>4. CASE k = 2
    BY <2>1, <2>2, <2>4, <1>a, <1>b DEF WriteUser, Do
  <2>5. CASE k > 2
    BY <2>1, <2>2, <2>5, <1>3, <1>a
  <2> QED
    BY <2>3, <2>4, <2>5, <1>3, <1>a
<1>4. QED
  BY <1>1, <1>2, <1>3 DEF WriteOrder

LEMMA NextKeepsOrder == TypeOK /\ WriteOrder /\ [Next]_vars => WriteOrder'
<1> SUFFICES ASSUME TypeOK, WriteOrder, [Next]_vars PROVE WriteOrder'
  OBVIOUS
<1>e. CASE Effect
  BY <1>e, EffectKeepsOrder
<1>0. CASE UNCHANGED <<disk, todo, overwrites>>
  BY <1>0 DEF disk, WriteOrder, TokenHasItsUser
<1>1. CASE Launch
  <2>1. TokenHasItsUser'
    BY <1>1 DEF Launch, disk, WriteOrder, TokenHasItsUser
  <2> QED
    BY <1>1, <2>1, NoWriteIsOrdered DEF Launch, AutoLogin, Do
<1>2. CASE LoginAgain \/ OnClickLogout
  <2>1. TokenHasItsUser'
    BY <1>2 DEF LoginAgain, OnClickLogout, disk, WriteOrder, TokenHasItsUser
  <2> QED
    BY <1>2, <2>1, NoWriteIsOrdered DEF LoginAgain, OnClickLogout, Logout, Do
<1>3. CASE Crash
  BY <1>3 DEF Crash, disk, WriteOrder, TokenHasItsUser
<1>4. ASSUME NEW l \in logins, LoginAnswered(l) PROVE WriteOrder'
  <2>1. overwrites' \/ tokenRow' = None
    BY <1>4 DEF LoginAnswered, disk
  <2>2. TokenHasItsUser'
    BY <2>1 DEF TokenHasItsUser
  <2>3. /\ DOMAIN todo' \subseteq 1 .. 6
        /\ todo'[1] = Do("removeUser", None) /\ todo'[2] = Do("writeUser", l.user)
        /\ todo'[3] = Do("removeToken", None) /\ todo'[4] = Do("writeToken", l.user)
        /\ \A k \in DOMAIN todo' : k > 4 => todo'[k].effect \in {"setAlias", "showTabs"}
    BY <1>4 DEF LoginAnswered, UpdateLoginInfo, OnDidLoginSuccess, Do
  <2> QED
    BY <2>1, <2>2, <2>3 DEF WriteOrder, Do
<1>5. QED
  BY <1>e, <1>0, <1>1, <1>2, <1>3, <1>4
     DEF Next, vars, OnClickWXLogin, OnResp, LongPress, OnClickLoginUserId,
         LoginFailed, CallApi, CallAnswered, HandleTokenExpire, CloseAlert,
         AliasApplied, AliasFailed

\* The two files are written in the order that makes them safe to cut.
THEOREM WritesAreOrdered == Spec => []WriteOrder
<1>1. Init => WriteOrder
  BY DEF Init, WriteOrder, TokenHasItsUser
<1> QED
  BY <1>1, NextKeepsOrder, SessionTypeCorrect, PTL DEF Spec

\* Wherever the process is killed, no token is left with another user's row,
\* save by a login over a live session.
THEOREM TokenKeepsItsUser == Spec => []TokenHasItsUser
<1>1. WriteOrder => TokenHasItsUser
  BY DEF WriteOrder
<1> QED
  BY <1>1, WritesAreOrdered, PTL

-----------------------------------------------------------------------------
(* The screen and the alias.                                               *)

\* The effects that are left are the end of one of the five handlers: what
\* stands before and behind each of them, and what the files hold by then.
Ahead(k) ==
    LET effect == todo[k].effect
        before(e) == todo[k - 1].effect = e
        next(e) == k < Len(todo) /\ todo[k + 1].effect = e
    IN  /\ effect = "showTabs" =>
              /\ k = Len(todo)
              /\ k <= 2 => tokenRow # None
              /\ k >= 2 => before("setAlias")
              /\ k >= 3 => todo[k - 2].effect = "writeToken"
        /\ effect = "setAlias" => next("showTabs")
        /\ effect = "writeToken" =>
              /\ todo[k].user # None
              /\ next("setAlias") \/ (k = Len(todo) /\ unseen)
        /\ effect = "removeToken" => next("writeToken") \/ next("showLogin")
        /\ effect = "showLogin" =>
              /\ k = 1 => tokenRow = None
              /\ k >= 2 => k = 2 /\ before("removeToken")
              /\ root # "none" => next("deleteAlias")
        /\ effect = "deleteAlias" =>
              /\ k = Len(todo)
              /\ k = 1 => tokenRow = None
              /\ k >= 2 => before("showLogin")
        /\ root = "none" => effect \in {"setAlias", "showTabs", "showLogin"}

HandlersEnd == \A k \in DOMAIN todo : Ahead(k)

Todo(effects) == \E k \in DOMAIN todo : todo[k].effect \in effects

\* The screen is that of the session, or some effect is still to show it.
ScreenAgrees ==
    /\ root = "tabs" <=> tokenRow # None
    /\ root = "tabs" => tabsUser = tokenRow

ScreenDue == Todo({"showTabs", "showLogin"}) \/ root = "none" \/ unseen \/ ScreenAgrees

\* The alias that the push service has, or will have when the calls on their
\* way have reached it, and the one that the session wants.
LastAlias == IF pushes = <<>> THEN alias ELSE pushes[Len(pushes)]
WantedAlias == IF tokenRow = None THEN None ELSE AliasOf[tokenRow]
AliasAgrees == overwrites \/ pushLost \/ LastAlias = WantedAlias

\* The alias is that of the session unless a call is still to be made, or will
\* be at the next launch; an unseen login excuses it only until the screen is
\* shown anew, and not without a token.
AliasDue ==
    /\ \/ Todo({"setAlias", "deleteAlias"})
       \/ root = "none" /\ tokenRow # None
       \/ unseen \/ AliasAgrees
    /\ root = "none" /\ tokenRow = None => AliasAgrees
    /\ todo # <<>> /\ Head(todo).effect = "showTabs" => AliasAgrees
    /\ unseen /\ root # "none" /\ tokenRow = None => Todo({"writeToken", "showLogin"})

LEMMA TodoShifts ==
    ASSUME TypeOK, Effect, NEW S
    PROVE  Todo(S) <=> Todo(S)' \/ Head(todo).effect \in S
<1>1. ASSUME NEW k \in DOMAIN todo, todo[k].effect \in S
      PROVE  Todo(S)' \/ Head(todo).effect \in S
  <2>1. CASE k = 1
    BY <1>1, <2>1, FirstEffect
  <2>2. CASE k # 1
    <3>1. k - 1 \in DOMAIN todo' /\ todo'[k - 1] = todo[k]
      BY <2>2, FirstEffect
    <3> QED
      BY <1>1, <3>1 DEF Todo
  <2> QED
    BY <2>1, <2>2
<1> QED
  BY <1>1, FirstEffect DEF Todo

\* What the first effect does to what Ahead speaks of.
LEMMA EffectMoves ==
    ASSUME TypeOK, HandlersEnd, Effect
    PROVE  LET first == todo[1].effect
           IN  /\ first = "removeToken" => tokenRow' = None
               /\ first = "writeToken" => tokenRow' = todo[1].user /\ tokenRow' # None
               /\ first \notin {"removeToken", "writeToken"} => tokenRow' = tokenRow
               /\ first = "showTabs" => root' = "tabs" /\ Len(todo) = 1
               /\ first = "showLogin" => root' = "login" /\ tokenRow = None
               /\ first \notin {"showTabs", "showLogin"} => UNCHANGED <<root, unseen, tabsUser>>
               /\ first \in Effects
<1> USE DEF disk, push, shown
<1>1. Head(todo) = todo[1] /\ 1 \in DOMAIN todo
  BY FirstEffect
<1>2. Ahead(1)
  BY <1>1 DEF HandlersEnd
<1> QED
  BY <1>1, <1>2, EffectIsNamed
  DEF Ahead, Effects, RemoveUser, WriteUser, RemoveToken, WriteToken, SetJPushTAG, DeletePushAlias,
      CreateMainTab, JumpToLogin

\* What an effect leaves is still the end of a handler.
LEMMA EffectKeepsEnd ==
    ASSUME TypeOK, HandlersEnd, Effect, NEW k \in DOMAIN todo'
    PROVE  Ahead(k)'
<1>a. /\ k \in 1 .. Len(todo) - 1 /\ Len(todo) \in Nat /\ Len(todo') = Len(todo) - 1
      /\ todo'[k] = todo[k + 1]
      /\ k >= 2 => todo'[k - 1] = todo[k]
      /\ k >= 3 => todo'[k - 2] = todo[k - 1]
      /\ k + 1 < Len(todo) => todo'[k + 1] = todo[k + 2]
  <2>1. /\ DOMAIN todo' = 1 .. Len(todo) - 1 /\ Len(todo) \in Nat \ {0}
        /\ Len(todo') = Len(todo) - 1
        /\ \A j \in DOMAIN todo' : todo'[j] = todo[j + 1]
    BY FirstEffect
  <2>2. k \in 1 .. Len(todo) - 1 /\ todo'[k] = todo[k + 1]
    BY <2>1
  <2>3. k >= 2 => k - 1 \in DOMAIN todo' /\ (k - 1) + 1 = k
    BY <2>1, <2>2
  <2>4. k >= 3 => k - 2 \in DOMAIN todo' /\ (k - 2) + 1 = k - 1
    BY <2>1, <2>2
  <2>5. k + 1 < Len(todo) => k + 1 \in DOMAIN todo' /\ (k + 1) + 1 = k + 2
    BY <2>1, <2>2
  <2> QED
    BY <2>1, <2>2, <2>3, <2>4, <2>5
<1>b. Ahead(1) /\ Ahead(2) /\ Ahead(k + 1)
  <2>1. DOMAIN todo = 1 .. Len(todo)
    BY FirstEffect
  <2>2. 1 \in DOMAIN todo /\ 2 \in DOMAIN todo /\ k + 1 \in DOMAIN todo
    BY <1>a, <2>1
  <2> QED
    BY <2>2 DEF HandlersEnd
<1>m. /\ todo[1].effect = "removeToken" => tokenRow' = None
      /\ todo[1].effect = "writeToken" => tokenRow' # None
      /\ todo[1].effect \notin {"removeToken", "writeToken"} => tokenRow' = tokenRow
      /\ todo[1].effect \notin {"showTabs", "showLogin"} => root' = root /\ unseen' = unseen
      /\ root' = "none" => root = "none"
  BY EffectMoves
<1>n. todo[1].effect # "showTabs"
  BY <1>a, <1>b DEF Ahead
<1>1. CASE todo[k + 1].effect = "showTabs"
  <2>1. k + 1 = Len(todo) /\ todo[k].effect = "setAlias"
    <3>1. k + 1 >= 2 /\ (k + 1) - 1 = k
      BY <1>a
    <3> QED
      BY <1>b, <1>1, <3>1 DEF Ahead
  <2>2. k >= 2 => k + 1 >= 3 /\ (k + 1) - 2 = k - 1
    BY <1>a
  <2>3. k >= 2 => todo[k - 1].effect = "writeToken"
    BY <1>b, <1>1, <2>2 DEF Ahead
  <2>4. k <= 2 => tokenRow' # None
    <3>1. CASE k = 1
      <4>1. tokenRow # None
        BY <1>b, <1>1, <3>1 DEF Ahead
      <4> QED
        BY <1>m, <2>1, <3>1, <4>1
    <3>2. CASE k = 2
      BY <1>m, <2>3, <3>2
    <3> QED
      BY <1>a, <3>1, <3>2
  <2> QED
    BY <1>a, <1>1, <1>m, <1>b, <2>1, <2>3, <2>4 DEF Ahead
<1>2. CASE todo[k + 1].effect = "setAlias"
  <2>1. k + 1 < Len(todo) /\ todo[k + 2].effect = "showTabs"
    <3>1. (k + 1) + 1 = k + 2
      BY <1>a
    <3> QED
      BY <1>b, <1>2, <3>1 DEF Ahead
  <2>2. k < Len(todo') /\ todo'[k + 1].effect = "showTabs" /\ todo'[k].effect = "setAlias"
    BY <1>a, <1>2, <2>1
  <2> QED
    BY <2>2 DEF Ahead
<1>3. CASE todo[k + 1].effect = "writeToken"
  <2>1. todo[1].effect # "showLogin"
    BY <1>a, <1>b, <1>3 DEF Ahead
  <2> QED
    BY <1>a, <1>b, <1>m, <1>n, <1>3, <2>1 DEF Ahead
<1>4. CASE todo[k + 1].effect = "removeToken"
  BY <1>a, <1>b, <1>m, <1>4 DEF Ahead
<1>5. CASE todo[k + 1].effect = "showLogin"
  <2>1. k = 1 /\ todo[1].effect = "removeToken"
    BY <1>a, <1>b, <1>5 DEF Ahead
  <2>2. tokenRow' = None /\ root' = root
    BY <1>m, <2>1
  <2> QED
    BY <1>a, <1>b, <1>5, <2>1, <2>2 DEF Ahead
<1>6. CASE todo[k + 1].effect = "deleteAlias"
  BY <1>a, <1>b, <1>m, <1>6 DEF Ahead
<1>7. CASE todo[k + 1].effect \in {"removeUser", "writeUser"}
  BY <1>a, <1>b, <1>m, <1>7 DEF Ahead
<1>8. todo[k + 1].effect \in Effects
  <2>1. k + 1 \in DOMAIN todo /\ todo \in Seq(Doings)
    BY FirstEffect DEF TypeOK
  <2>2. todo[k + 1] \in Doings
    BY <2>1
  <2> QED
    BY <2>2 DEF Doings
<1> QED
  BY <1>1, <1>2, <1>3, <1>4, <1>5, <1>6, <1>7, <1>8 DEF Effects


\* Between handlers nothing is ahead, and every handler begins in order.
LEMMA HandlersBegin ==
    ASSUME TypeOK, HandlersEnd, [Next]_vars, ~ Effect
    PROVE  HandlersEnd'
<1> USE DEF disk, push, shown, HandlersEnd
<1>0. CASE UNCHANGED <<todo, tokenRow, root>> /\ (unseen => unseen')
  BY <1>0 DEF Ahead
<1>1. CASE Launch
  <2>1. CASE tokenRow # None
    <3>1. todo' = <<Do("setAlias", None), Do("showTabs", None)>>
      BY <1>1, <2>1 DEF Launch, AutoLogin
    <3>2. /\ DOMAIN todo' = 1 .. 2 /\ Len(todo') = 2
          /\ todo'[1].effect = "setAlias" /\ todo'[2].effect = "showTabs"
      BY <3>1 DEF Do
    <3> QED
      BY <1>1, <2>1, <3>2 DEF Launch, Ahead
  <2>2. CASE tokenRow = None
    <3>1. todo' = <<Do("showLogin", None)>>
      BY <1>1, <2>2 DEF Launch, AutoLogin
    <3>2. DOMAIN todo' = 1 .. 1 /\ Len(todo') = 1 /\ todo'[1].effect = "showLogin"
      BY <3>1 DEF Do
    <3> QED
      BY <1>1, <2>2, <3>2 DEF Launch, Ahead
  <2> QED
    BY <2>1, <2>2
<1>2. CASE LoginAgain \/ OnClickLogout
  <2>1. todo' = Logout /\ UNCHANGED <<tokenRow, root>> /\ root # "none"
    BY <1>2 DEF LoginAgain, OnClickLogout, Touchable, Idle
  <2>2. /\ DOMAIN todo' = 1 .. 3 /\ Len(todo') = 3
        /\ todo'[1].effect = "removeToken" /\ todo'[2].effect = "showLogin"
        /\ todo'[3].effect = "deleteAlias"
    BY <2>1 DEF Logout, Do
  <2> QED
    BY <2>1, <2>2 DEF Ahead
<1>3. CASE Crash
  <2>1. todo' = <<>>
    BY <1>3 DEF Crash
  <2> QED
    BY <2>1
<1>4. ASSUME NEW l \in logins, LoginAnswered(l) PROVE HandlersEnd'
  <2>1. /\ UNCHANGED <<tokenRow, root>> /\ root # "none"
        /\ todo' = UpdateLoginInfo(l.user) \o (IF Alive(l.screen) THEN OnDidLoginSuccess ELSE <<>>)
        /\ ~ Alive(l.screen) => unseen'
    BY <1>4 DEF LoginAnswered, Idle
  <2>2. l.user # None
    BY NoneAssumption DEF TypeOK, Logins
  <2>3. CASE Alive(l.screen)
    <3>1. /\ DOMAIN todo' = 1 .. 6 /\ Len(todo') = 6
          /\ todo'[1].effect = "removeUser" /\ todo'[2].effect = "writeUser"
          /\ todo'[3].effect = "removeToken" /\ todo'[4].effect = "writeToken"
          /\ todo'[4].user = l.user
          /\ todo'[5].effect = "setAlias" /\ todo'[6].effect = "showTabs"
      BY <2>1, <2>3 DEF UpdateLoginInfo, OnDidLoginSuccess, Do
    <3>2. todo'[4].effect = "writeToken" /\ todo'[4].user # None
      BY <2>2, <3>1
    <3>3. Ahead(1)' /\ Ahead(2)'
      BY <2>1, <3>1 DEF Ahead
    <3>4. UNCHANGED root /\ root # "none"
      BY <2>1
    <3>5. Ahead(3)'
      <4>1. todo'[3 + 1].effect = "writeToken" /\ 3 < Len(todo') /\ todo'[3].effect = "removeToken"
        BY <3>1
      <4> QED
        BY <3>4, <4>1 DEF Ahead
    <3>6. Ahead(4)'
      <4>1. todo'[4 + 1].effect = "setAlias" /\ 4 < Len(todo') /\ todo'[4].effect = "writeToken"
        BY <3>1
      <4> QED
        BY <3>2, <3>4, <4>1 DEF Ahead
    <3>7. Ahead(5)'
      <4>1. todo'[5 + 1].effect = "showTabs" /\ 5 < Len(todo')
        BY <3>1
      <4> QED
        BY <2>1, <3>1, <4>1 DEF Ahead
    <3>8. Ahead(6)'
      <4>1. /\ todo'[6 - 1].effect = "setAlias" /\ todo'[6 - 2].effect = "writeToken"
            /\ 6 = Len(todo') /\ ~ (6 <= 2)
        BY <3>1, <3>2
      <4> QED
        BY <2>1, <3>1, <4>1 DEF Ahead
    <3>9. \A k \in DOMAIN todo' : k \in {1, 2, 3, 4, 5, 6}
      BY <3>1
    <3> QED
      BY <3>3, <3>5, <3>6, <3>7, <3>8, <3>9
  <2>4. CASE ~ Alive(l.screen)
    <3>1. /\ DOMAIN todo' = 1 .. 4 /\ Len(todo') = 4
          /\ todo'[1].effect = "removeUser" /\ todo'[2].effect = "writeUser"
          /\ todo'[3].effect = "removeToken" /\ todo'[4].effect = "writeToken"
          /\ todo'[4].user = l.user
      BY <2>1, <2>4 DEF UpdateLoginInfo, Do
    <3>2. UNCHANGED root /\ root # "none" /\ unseen' /\ todo'[4].user # None
      BY <2>1, <2>2, <2>4, <3>1
    <3>3. Ahead(1)' /\ Ahead(2)'
      BY <3>1, <3>2 DEF Ahead
    <3>4. Ahead(3)'
      <4>1. todo'[3 + 1].effect = "writeToken" /\ 3 < Len(todo') /\ todo'[3].effect = "removeToken"
        BY <3>1
      <4> QED
        BY <3>2, <4>1 DEF Ahead
    <3>5. Ahead(4)'
      <4>1. 4 = Len(todo') /\ todo'[4].effect = "writeToken"
        BY <3>1
      <4> QED
        BY <3>2, <4>1 DEF Ahead
    <3>6. \A k \in DOMAIN todo' : k \in {1, 2, 3, 4}
      BY <3>1
    <3> QED
      BY <3>3, <3>4, <3>5, <3>6
  <2> QED
    BY <2>3, <2>4
<1>5. \/ UNCHANGED <<todo, tokenRow, root>> /\ (unseen => unseen')
      \/ Launch \/ LoginAgain \/ OnClickLogout \/ Crash \/ \E l \in logins : LoginAnswered(l)
  BY DEF Next, vars, OnClickWXLogin, OnResp, LongPress, OnClickLoginUserId, LoginFailed, CallApi,
         CallAnswered, HandleTokenExpire, CloseAlert, AliasApplied, AliasFailed
<1> QED
  BY <1>0, <1>1, <1>2, <1>3, <1>4, <1>5

LEMMA EndsInvariant == Spec => []HandlersEnd
<1>1. Init => HandlersEnd
  BY DEF Init, HandlersEnd
<1>2. TypeOK /\ HandlersEnd /\ [Next]_vars => HandlersEnd'
  BY EffectKeepsEnd, HandlersBegin DEF HandlersEnd
<1> QED
  BY <1>1, <1>2, SessionTypeCorrect, PTL DEF Spec


\* The screen is shown by the last effect of a handler that changes it.
LEMMA ScreenStep ==
    ASSUME TypeOK, HandlersEnd, ScreenDue, [Next]_vars
    PROVE  ScreenDue'
<1> USE DEF disk, push, shown
<1>1. CASE Effect
  <2>1. /\ Head(todo) = todo[1] /\ 1 \in DOMAIN todo /\ DOMAIN todo = 1 .. Len(todo)
        /\ Len(todo) \in Nat /\ Ahead(1) /\ todo[1].effect \in Effects
    BY <1>1, FirstEffect, EffectIsNamed DEF HandlersEnd
  <2>2. Todo({"showTabs", "showLogin"}) <=>
            Todo({"showTabs", "showLogin"})' \/ todo[1].effect \in {"showTabs", "showLogin"}
    BY <1>1, <2>1, TodoShifts
  <2>3. CASE todo[1].effect = "showTabs"
    <3>1. tokenRow # None
      BY <2>1, <2>3 DEF Ahead
    <3>2. CreateMainTab
      BY <1>1, <2>1, <2>3, EffectIsNamed
    <3> QED
      BY <3>1, <3>2 DEF ScreenDue, ScreenAgrees, CreateMainTab
  <2>4. CASE todo[1].effect = "showLogin"
    <3>1. tokenRow = None
      BY <2>1, <2>4 DEF Ahead
    <3>2. JumpToLogin
      BY <1>1, <2>1, <2>4, EffectIsNamed
    <3> QED
      BY <3>1, <3>2 DEF ScreenDue, ScreenAgrees, JumpToLogin
  <2>5. CASE todo[1].effect \notin {"showTabs", "showLogin"}
    <3>1. UNCHANGED <<root, unseen, tabsUser>>
      BY <1>1, <2>5, EffectMoves
    <3>2. CASE todo[1].effect \notin {"removeToken", "writeToken"}
      <4>1. tokenRow' = tokenRow
        BY <1>1, <3>2, EffectMoves
      <4> QED
        BY <2>2, <2>5, <3>1, <4>1 DEF ScreenDue, ScreenAgrees
    <3>3. ASSUME NEW k \in DOMAIN todo, todo[k].effect = "writeToken"
          PROVE  unseen \/ Todo({"showTabs", "showLogin"})
      <4>1. Ahead(k) /\ (k + 1 \in DOMAIN todo => Ahead(k + 1))
        BY DEF HandlersEnd
      <4>2. unseen \/ (k < Len(todo) /\ todo[k + 1].effect = "setAlias")
        BY <3>3, <4>1 DEF Ahead
      <4>3. CASE k < Len(todo) /\ todo[k + 1].effect = "setAlias"
        <5>1. k + 1 \in DOMAIN todo
          BY <2>1, <4>3
        <5>2. k + 2 \in DOMAIN todo /\ todo[k + 2].effect = "showTabs"
          BY <2>1, <4>1, <4>3, <5>1 DEF Ahead
        <5> QED
          BY <5>2 DEF Todo
      <4> QED
        BY <4>2, <4>3
    <3>4. CASE todo[1].effect \in {"removeToken", "writeToken"}
      <4>1. \/ todo[1].effect = "writeToken"
            \/ 2 \in DOMAIN todo /\ todo[2].effect \in {"writeToken", "showLogin"}
        BY <2>1, <3>4 DEF Ahead
      <4>2. unseen \/ Todo({"showTabs", "showLogin"})
        BY <2>1, <3>3, <4>1 DEF Todo
      <4> QED
        BY <2>2, <2>5, <3>1, <4>2 DEF ScreenDue
    <3> QED
      BY <3>2, <3>4
  <2> QED
    BY <2>3, <2>4, <2>5
<1>2. CASE UNCHANGED <<todo, tokenRow, root, tabsUser, unseen>>
  BY <1>2 DEF ScreenDue, ScreenAgrees, Todo
<1>3. CASE Launch \/ Crash
  BY <1>3 DEF Launch, Crash, ScreenDue
<1>4. CASE LoginAgain \/ OnClickLogout
  <2>1. todo' = Logout
    BY <1>4 DEF LoginAgain, OnClickLogout
  <2>2. 2 \in DOMAIN todo' /\ todo'[2].effect = "showLogin"
    BY <2>1 DEF Logout, Do
  <2> QED
    BY <2>2 DEF ScreenDue, Todo
<1>5. ASSUME NEW l \in logins, LoginAnswered(l) PROVE ScreenDue'
  <2>1. CASE ~ Alive(l.screen)
    BY <1>5, <2>1 DEF LoginAnswered, ScreenDue
  <2>2. CASE Alive(l.screen)
    <3>1. 6 \in DOMAIN todo' /\ todo'[6].effect = "showTabs"
      BY <1>5, <2>2 DEF LoginAnswered, UpdateLoginInfo, OnDidLoginSuccess, Do
    <3> QED
      BY <3>1 DEF ScreenDue, Todo
  <2> QED
    BY <2>1, <2>2
<1>6. \/ UNCHANGED <<todo, tokenRow, root, tabsUser, unseen>> \/ Effect
      \/ Launch \/ LoginAgain \/ OnClickLogout \/ Crash \/ \E l \in logins : LoginAnswered(l)
  BY DEF Next, vars, OnClickWXLogin, OnResp, LongPress, OnClickLoginUserId, LoginFailed, CallApi,
         CallAnswered, HandleTokenExpire, CloseAlert, AliasApplied, AliasFailed
<1> QED
  BY <1>1, <1>2, <1>3, <1>4, <1>5, <1>6

\* Between handlers the screen is that of the session, whatever logins, alerts,
\* logouts and launches came before it and wherever the process was killed, unless a
\* login was stored for a screen that was gone.
THEOREM ScreenFollowsSession == Spec => []ScreenOfTheSession
<1>1. Init => ScreenDue
  BY DEF Init, ScreenDue
<1>2. TypeOK /\ HandlersEnd /\ ScreenDue /\ [Next]_vars => ScreenDue'
  BY ScreenStep
<1>3. ScreenDue => ScreenOfTheSession
  BY DEF ScreenDue, ScreenAgrees, ScreenOfTheSession, Idle, Todo
<1> QED
  BY <1>1, <1>2, <1>3, SessionTypeCorrect, EndsInvariant, PTL DEF Spec

\* What the push service does leaves the last call the last one, or loses it.
LEMMA PushKeepsLast ==
    ASSUME TypeOK, AliasApplied \/ AliasFailed
    PROVE  AliasAgrees => AliasAgrees'
<1>1. /\ pushes # <<>> /\ pushes' = Tail(pushes) /\ pushes \in Seq(AliasCalls)
      /\ UNCHANGED <<tokenRow, overwrites>>
  BY DEF AliasApplied, AliasFailed, TypeOK, disk
<1>2. CASE Len(pushes) = 1
  <2>1. pushes' = <<>> /\ Head(pushes) = pushes[Len(pushes)]
    BY <1>1, <1>2
  <2>2. CASE AliasApplied
    BY <1>1, <2>1, <2>2 DEF AliasApplied, AliasAgrees, LastAlias, WantedAlias
  <2>3. CASE AliasFailed
    BY <1>2, <2>3 DEF AliasFailed, AliasAgrees
  <2> QED
    BY <2>2, <2>3
<1>3. CASE Len(pushes) # 1
  <2>1. pushes' # <<>> /\ pushes'[Len(pushes')] = pushes[Len(pushes)]
    <3>1. Len(pushes) \in Nat \ {0, 1} /\ Len(pushes') = Len(pushes) - 1
      BY <1>1, <1>3
    <3>2. \A i \in 1 .. Len(pushes) - 1 : pushes'[i] = pushes[i + 1]
      BY <1>1
    <3>3. Len(pushes') \in 1 .. Len(pushes) - 1 /\ Len(pushes') + 1 = Len(pushes)
      BY <3>1
    <3>4. pushes' # <<>>
      BY <3>1, <3>3
    <3> QED
      BY <3>2, <3>3, <3>4
  <2>2. LastAlias' = LastAlias /\ WantedAlias' = WantedAlias
    BY <1>1, <2>1 DEF LastAlias, WantedAlias
  <2>3. pushLost => pushLost'
    BY DEF AliasApplied, AliasFailed
  <2> QED
    BY <1>1, <2>2, <2>3 DEF AliasAgrees
<1> QED
  BY <1>2, <1>3

\* A call that is made is the last one.
LEMMA LastCall ==
    ASSUME TypeOK, NEW a \in AliasCalls, pushes' = Append(pushes, a)
    PROVE  LastAlias' = a
<1>1. pushes \in Seq(AliasCalls)
  BY DEF TypeOK
<1>2. pushes' # <<>> /\ pushes'[Len(pushes')] = a
  BY <1>1
<1> QED
  BY <1>2 DEF LastAlias

LEMMA EffectKeepsAlias ==
    ASSUME TypeOK, WriteOrder, HandlersEnd, AliasDue, Effect
    PROVE  AliasDue'
<1> USE DEF disk, push, shown
<1> DEFINE aliasCalls == {"setAlias", "deleteAlias"}
           endings == {"writeToken", "showLogin"}
           first == todo[1].effect
<1>a. /\ Head(todo) = todo[1] /\ DOMAIN todo = 1 .. Len(todo) /\ Len(todo) \in Nat \ {0}
      /\ DOMAIN todo' = 1 .. Len(todo) - 1
      /\ \A k \in DOMAIN todo' : todo'[k] = todo[k + 1]
  BY FirstEffect
<1>b. /\ Ahead(1) /\ (Len(todo) >= 2 => Ahead(2)) /\ first \in Effects
  BY <1>a, EffectIsNamed DEF HandlersEnd
<1>c. /\ Todo(aliasCalls) <=> Todo(aliasCalls)' \/ first \in aliasCalls
      /\ Todo(endings) <=> Todo(endings)' \/ first \in endings
  BY <1>a, TodoShifts
<1>d. Len(todo) >= 2 => 1 \in DOMAIN todo' /\ todo'[1] = todo[2]
  BY <1>a
<1>e. Len(todo) >= 3 => 2 \in DOMAIN todo' /\ todo'[2] = todo[3]
  BY <1>a
<1>f. todo' # <<>> => Len(todo) >= 2 /\ Head(todo') = todo[2]
  BY <1>a, <1>d, FirstEffect
<1>g. todo' # <<>> /\ Head(todo').effect = "showTabs" => first = "setAlias"
  BY <1>b, <1>f DEF Ahead
<1> HIDE DEF first, aliasCalls, endings
<1>1. CASE first \in {"removeUser", "writeUser"}
  <2>1. UNCHANGED <<tokenRow, root, unseen, pushes, alias, pushLost, overwrites>>
    BY <1>a, <1>1, EffectIsNamed DEF first, RemoveUser, WriteUser
  <2>2. AliasAgrees' <=> AliasAgrees
    BY <2>1 DEF AliasAgrees, LastAlias, WantedAlias
  <2>3. (Todo(aliasCalls)' <=> Todo(aliasCalls)) /\ (Todo(endings)' <=> Todo(endings))
    BY <1>1, <1>c DEF aliasCalls, endings
  <2> QED
    BY <1>1, <1>g, <2>1, <2>2, <2>3 DEF AliasDue, aliasCalls, endings
<1>2. CASE first = "removeToken"
  <2>1. tokenRow' = None /\ UNCHANGED <<root, unseen>> /\ root # "none"
    BY <1>a, <1>b, <1>2, EffectIsNamed DEF first, RemoveToken, Ahead
  <2>2. Len(todo) >= 2 /\ todo[2].effect \in endings
    BY <1>a, <1>b, <1>2 DEF first, Ahead, endings
  <2>3. Todo(endings)'
    BY <1>d, <2>2 DEF Todo
  <2>4. unseen \/ (Len(todo) >= 3 /\ todo[3].effect \in aliasCalls)
    BY <1>a, <1>b, <2>1, <2>2 DEF Ahead, aliasCalls, endings
  <2>5. unseen \/ Todo(aliasCalls)'
    BY <1>e, <2>4 DEF Todo
  <2> QED
    BY <1>2, <1>g, <2>1, <2>3, <2>5 DEF AliasDue, aliasCalls, endings
<1>3. CASE first = "writeToken"
  <2>1. tokenRow' # None /\ UNCHANGED <<root, unseen>> /\ root # "none"
    BY <1>a, <1>b, <1>3, EffectIsNamed DEF first, WriteToken, Ahead
  <2>2. unseen \/ (Len(todo) >= 2 /\ todo[2].effect \in aliasCalls)
    BY <1>a, <1>b, <1>3 DEF first, Ahead, aliasCalls
  <2>3. unseen \/ Todo(aliasCalls)'
    BY <1>d, <2>2 DEF Todo
  <2> QED
    BY <1>3, <1>g, <2>1, <2>3 DEF AliasDue, aliasCalls, endings
<1>4. CASE first = "setAlias"
  <2>1. SetJPushTAG
    BY <1>a, <1>4, EffectIsNamed DEF first
  <2>2. UNCHANGED <<tokenRow, root, unseen, overwrites, userRow>>
    BY <2>1 DEF SetJPushTAG
  <2>3. tokenRow # None
    BY <1>a, <1>b, <1>4 DEF first, Ahead
  <2>4. overwrites \/ userRow = tokenRow
    BY <2>3 DEF WriteOrder, TokenHasItsUser
  <2>5. CASE overwrites
    BY <2>2, <2>3, <2>5 DEF AliasDue, AliasAgrees
  <2>6. CASE userRow = tokenRow
    <3>1. AliasOf[tokenRow] \in AliasCalls /\ pushes' = Append(pushes, AliasOf[tokenRow])
      BY <2>1, <2>3, <2>6 DEF SetJPushTAG, TypeOK, Maybe, AliasCalls, Aliases
    <3>2. LastAlias' = AliasOf[tokenRow]
      BY <3>1, LastCall
    <3>3. AliasAgrees'
      BY <2>2, <2>3, <3>2 DEF AliasAgrees, WantedAlias
    <3> QED
      BY <2>2, <2>3, <3>3 DEF AliasDue
  <2> QED
    BY <2>4, <2>5, <2>6
<1>5. CASE first = "deleteAlias"
  <2>1. DeletePushAlias
    BY <1>a, <1>5, EffectIsNamed DEF first
  <2>2. UNCHANGED <<tokenRow, root, unseen>> /\ pushes' = Append(pushes, None)
    BY <2>1 DEF DeletePushAlias
  <2>3. tokenRow = None /\ Len(todo) = 1 /\ root # "none"
    BY <1>b, <1>5 DEF first, Ahead
  <2>4. LastAlias' = None
    BY <2>2, LastCall DEF AliasCalls, Maybe
  <2>5. AliasAgrees'
    BY <2>2, <2>3, <2>4 DEF AliasAgrees, WantedAlias
  <2>6. ~ Todo(endings)
    BY <1>a, <1>5, <2>3 DEF Todo, first, endings
  <2>7. ~ unseen
    BY <2>3, <2>6 DEF AliasDue, endings
  <2> QED
    BY <2>2, <2>5, <2>7 DEF AliasDue
<1>6. CASE first = "showTabs"
  <2>1. UNCHANGED <<tokenRow, pushes, alias, pushLost, overwrites>> /\ ~ unseen' /\ root' = "tabs"
    BY <1>a, <1>6, EffectIsNamed DEF first, CreateMainTab
  <2>2. AliasAgrees
    BY <1>a, <1>6, FirstEffect DEF AliasDue, first
  <2>3. AliasAgrees'
    BY <2>1, <2>2 DEF AliasAgrees, LastAlias, WantedAlias
  <2> QED
    BY <2>1, <2>3 DEF AliasDue
<1>7. CASE first = "showLogin"
  <2>1. UNCHANGED <<tokenRow, pushes, alias, pushLost, overwrites>> /\ ~ unseen' /\ root' = "login"
    BY <1>a, <1>7, EffectIsNamed DEF first, JumpToLogin
  <2>2. AliasAgrees' <=> AliasAgrees
    BY <2>1 DEF AliasAgrees, LastAlias, WantedAlias
  <2>3. tokenRow = None /\ (root # "none" => Len(todo) >= 2 /\ todo[2].effect = "deleteAlias")
    BY <1>a, <1>b, <1>7 DEF first, Ahead
  <2>4. root # "none" => Todo(aliasCalls)'
    BY <1>d, <2>3 DEF Todo, aliasCalls
  <2>5. root = "none" => AliasAgrees
    BY <2>3 DEF AliasDue
  <2> QED
    BY <1>7, <1>g, <2>1, <2>2, <2>4, <2>5 DEF AliasDue, aliasCalls
<1> QED
  BY <1>1, <1>2, <1>3, <1>4, <1>5, <1>6, <1>7, <1>b DEF Effects, first

\* A process that is killed has lost a call, or owes none, or makes it when it
\* is launched.
LEMMA CrashKeepsAlias ==
    ASSUME TypeOK, HandlersEnd, AliasDue, Crash
    PROVE  AliasDue'
<1> USE DEF disk, push, shown
<1>1. root' = "none" /\ todo' = <<>> /\ UNCHANGED <<tokenRow, alias, overwrites>> /\ pushes' = <<>>
  BY DEF Crash
<1>2. ASSUME tokenRow = None, ~ pushLost' PROVE AliasAgrees'
  <2>1. /\ pushes = <<>> /\ ~ pushLost
        /\ \A k \in DOMAIN todo : todo[k].effect \notin {"deleteAlias", "writeToken"}
    BY <1>2 DEF Crash
  <2>2. DOMAIN todo = 1 .. Len(todo) /\ Len(todo) \in Nat
    BY DEF TypeOK
  <2>3. AliasAgrees
    <3>1. CASE root = "none"
      BY <1>2, <3>1 DEF AliasDue
    <3>2. CASE root # "none"
      <4>1. \A k \in DOMAIN todo : todo[k].effect # "showLogin"
        <5> SUFFICES ASSUME NEW k \in DOMAIN todo, todo[k].effect = "showLogin" PROVE FALSE
          OBVIOUS
        <5>1. k < Len(todo) /\ todo[k + 1].effect = "deleteAlias"
          BY <3>2 DEF HandlersEnd, Ahead
        <5> QED
          BY <2>1, <2>2, <5>1
      <4>2. \A k \in DOMAIN todo : todo[k].effect # "setAlias"
        <5> SUFFICES ASSUME NEW k \in DOMAIN todo, todo[k].effect = "setAlias" PROVE FALSE
          OBVIOUS
        <5>1. k < Len(todo) /\ todo[k + 1].effect = "showTabs"
          BY DEF HandlersEnd, Ahead
        <5>2. k + 1 \in DOMAIN todo /\ Ahead(k + 1)
          BY <2>2, <5>1 DEF HandlersEnd
        <5>3. k + 1 >= 3 /\ todo[(k + 1) - 2].effect = "writeToken"
          BY <1>2, <2>2, <5>1, <5>2 DEF Ahead
        <5>4. (k + 1) - 2 \in DOMAIN todo
          BY <2>2, <5>3
        <5> QED
          BY <2>1, <5>3, <5>4
      <4>3. ~ unseen /\ ~ Todo({"setAlias", "deleteAlias"})
        BY <1>2, <2>1, <3>2, <4>1, <4>2 DEF AliasDue, Todo
      <4> QED
        BY <3>2, <4>3 DEF AliasDue
    <3> QED
      BY <3>1, <3>2
  <2> QED
    BY <1>1, <2>1, <2>3 DEF AliasAgrees, LastAlias, WantedAlias
<1>3. tokenRow = None => AliasAgrees'
  BY <1>2 DEF AliasAgrees
<1> QED
  BY <1>1, <1>3 DEF AliasDue

LEMMA AliasStep ==
    ASSUME TypeOK, WriteOrder, HandlersEnd, AliasDue, [Next]_vars
    PROVE  AliasDue'
<1> USE DEF disk, push, shown
<1>1. CASE UNCHANGED <<todo, tokenRow, root, unseen>> /\ (AliasAgrees => AliasAgrees')
  BY <1>1 DEF AliasDue, Todo
<1>2. CASE UNCHANGED <<todo, tokenRow, root, unseen, overwrites, pushes, alias, pushLost>>
  BY <1>1, <1>2 DEF AliasAgrees, LastAlias, WantedAlias
<1>3. CASE Launch
  <2>1. UNCHANGED <<tokenRow, root, unseen, overwrites, pushes, alias, pushLost>> /\ root = "none"
    BY <1>3 DEF Launch
  <2>2. AliasAgrees' <=> AliasAgrees
    BY <2>1 DEF AliasAgrees, LastAlias, WantedAlias
  <2>3. Head(todo').effect # "showTabs"
    BY <1>3 DEF Launch, AutoLogin, Do
  <2> QED
    BY <2>1, <2>2, <2>3 DEF AliasDue
<1>4. CASE LoginAgain \/ OnClickLogout
  <2>1. todo' = Logout /\ root' # "none"
    BY <1>4 DEF LoginAgain, OnClickLogout, Touchable, Idle
  <2>2. /\ 2 \in DOMAIN todo' /\ todo'[2].effect = "showLogin" /\ Head(todo').effect # "showTabs"
        /\ 3 \in DOMAIN todo' /\ todo'[3].effect = "deleteAlias"
    BY <2>1 DEF Logout, Do
  <2> QED
    BY <2>1, <2>2 DEF AliasDue, Todo
<1>5. ASSUME NEW l \in logins, LoginAnswered(l) PROVE AliasDue'
  <2>1. root' # "none"
    BY <1>5 DEF LoginAnswered, Idle
  <2>2. /\ 4 \in DOMAIN todo' /\ todo'[4].effect = "writeToken" /\ Head(todo').effect # "showTabs"
        /\ Alive(l.screen) => 5 \in DOMAIN todo' /\ todo'[5].effect = "setAlias"
        /\ ~ Alive(l.screen) => unseen'
    <3>1. CASE Alive(l.screen)
      <4>1. todo' = UpdateLoginInfo(l.user) \o OnDidLoginSuccess
        BY <1>5, <3>1 DEF LoginAnswered
      <4>2. /\ 4 \in DOMAIN todo' /\ todo'[4].effect = "writeToken"
            /\ todo'[1].effect = "removeUser" /\ Head(todo') = todo'[1]
            /\ 5 \in DOMAIN todo' /\ todo'[5].effect = "setAlias"
        BY <4>1 DEF UpdateLoginInfo, OnDidLoginSuccess, Do
      <4> QED
        BY <3>1, <4>2
    <3>2. CASE ~ Alive(l.screen)
      <4>1. todo' = UpdateLoginInfo(l.user) \o <<>> /\ unseen'
        BY <1>5, <3>2 DEF LoginAnswered
      <4>2. /\ 4 \in DOMAIN todo' /\ todo'[4].effect = "writeToken"
            /\ todo'[1].effect = "removeUser" /\ Head(todo') = todo'[1]
        BY <4>1 DEF UpdateLoginInfo, Do
      <4> QED
        BY <3>2, <4>1, <4>2
    <3> QED
      BY <3>1, <3>2
  <2> QED
    BY <2>1, <2>2 DEF AliasDue, Todo
<1>6. CASE AliasApplied \/ AliasFailed
  <2>1. UNCHANGED <<todo, tokenRow, root, unseen>>
    BY <1>6 DEF AliasApplied, AliasFailed
  <2> QED
    BY <1>1, <1>6, <2>1, PushKeepsLast
<1>7. \/ UNCHANGED <<todo, tokenRow, root, unseen, overwrites, pushes, alias, pushLost>> \/ Effect
      \/ Launch \/ LoginAgain \/ OnClickLogout \/ Crash \/ \E l \in logins : LoginAnswered(l)
      \/ AliasApplied \/ AliasFailed
  BY DEF Next, vars, OnClickWXLogin, OnResp, LongPress, OnClickLoginUserId, LoginFailed, CallApi,
         CallAnswered, HandleTokenExpire, CloseAlert
<1> QED
  BY <1>2, <1>3, <1>4, <1>5, <1>6, <1>7, EffectKeepsAlias, CrashKeepsAlias

\* Between handlers and with no alias call under way, the device receives the
\* pushes of whom it is logged in as and of nobody after logout, unless the
\* last call got lost, a login was unseen or a write over a session was cut.
THEOREM AliasFollowsSession == Spec => []AliasOfTheSession
<1>1. Init => AliasDue
  BY DEF Init, AliasDue, AliasAgrees, LastAlias, WantedAlias
<1>2. TypeOK /\ WriteOrder /\ HandlersEnd /\ AliasDue /\ [Next]_vars => AliasDue'
  BY AliasStep
<1>3. AliasDue => AliasOfTheSession
  BY DEF AliasDue, AliasAgrees, LastAlias, WantedAlias, AliasOfTheSession, Idle, Todo
<1> QED
  BY <1>1, <1>2, <1>3, SessionTypeCorrect, WritesAreOrdered, EndsInvariant, PTL DEF Spec

=============================================================================
