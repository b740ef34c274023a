--------------------------- MODULE BrowserSession ---------------------------
(***************************************************************************)
(* What the web client promises about whose session a browser has, its     *)
(* requests, tokens and interceptors left out.  The session becomes a      *)
(* user's only by the login of that user, or by the end of a renewal,      *)
(* which brings back the user it began with and nobody else; and a tab     *)
(* changes whom it shows only by a login, by the end of a logout, or by    *)
(* being loaded anew, which shows the session there is.                    *)
(***************************************************************************)
CONSTANTS Tabs, Users,
          None  \* nobody

VARIABLES session,  \* whose tokens the browser has
          shown,    \* shown[t]: whom tab t shows as signed in
          renewing  \* renewing[t]: whose session tab t is renewing

vars == <<session, shown, renewing>>

Init ==
  /\ session = None
  /\ shown = [t \in Tabs |-> None]
  /\ renewing = [t \in Tabs |-> None]

SignIn(t, u) ==
  /\ session' = u
  /\ shown' = [shown EXCEPT ![t] = u]
  /\ UNCHANGED renewing

SignOut(t) ==
  /\ session' = None
  /\ shown' = [shown EXCEPT ![t] = None]
  /\ UNCHANGED renewing

Renew(t) ==
  /\ session # None /\ renewing[t] = None
  /\ renewing' = [renewing EXCEPT ![t] = session]
  /\ UNCHANGED <<session, shown>>

Renewed(t) ==
  /\ renewing[t] # None
  /\ session' = renewing[t]
  /\ renewing' = [renewing EXCEPT ![t] = None]
  /\ UNCHANGED shown

(* A logout that waited for the renewal ends with it. *)
NotRenewed(t) ==
  /\ renewing[t] # None
  /\ session' = None
  /\ renewing' = [renewing EXCEPT ![t] = None]
  /\ shown' \in {shown, [shown EXCEPT ![t] = None]}

Reload(t) ==
  /\ shown' = [shown EXCEPT ![t] = session]
  /\ renewing' = [renewing EXCEPT ![t] = None]
  /\ UNCHANGED session

Next ==
  \E t \in Tabs :
    \/ \E u \in Users : SignIn(t, u)
    \/ SignOut(t) \/ Renew(t) \/ Renewed(t) \/ NotRenewed(t) \/ Reload(t)

Spec == Init /\ [][Next]_vars
=============================================================================
