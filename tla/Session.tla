------------------------------ MODULE Session ------------------------------
(***************************************************************************)
(* What the pages of the frontend rely on about the admin session: the     *)
(* browser holds a signed cookie that may lapse, and AdminProvider keeps   *)
(* "authenticated", the page's belief about it, on which every control     *)
(* that writes hangs. The belief rises only with a cookie and may lag      *)
(* behind one that lapsed: a write is then refused, and the belief falls.  *)
(* AdminSession is the provider itself and implements these steps.         *)
(***************************************************************************)
VARIABLES
  cookie,  \* the api would accept the browser's cookie
  authed   \* AdminProvider: state.authenticated

sessionVars == <<cookie, authed>>

SessionTypeOK == cookie \in BOOLEAN /\ authed \in BOOLEAN

\* A page opened by someone who has unlocked before, or not.
SessionInit == cookie \in BOOLEAN /\ authed = cookie

\* The cookie's time runs out; the page does not notice.
Lapse == cookie /\ cookie' = FALSE /\ UNCHANGED authed

\* unlock: the answer brings the cookie and setState follows.
Grant == cookie' = TRUE /\ authed' = TRUE

\* lock (best effort: the cookie may survive it), or the 401 of a write.
Drop == authed /\ authed' = FALSE /\ cookie' \in {cookie, FALSE}

\* An accepted request issues the cookie again (sliding renewal).
Renew == cookie' = TRUE /\ UNCHANGED authed

\* The answer of a lock that finds the page locked already clears the cookie only.
SessionNext == Lapse \/ Grant \/ Drop \/ Renew

\* What a person and the clock may do to the session beside a page's own work.
SessionStep ==
  \/ Lapse
  \/ ~authed /\ Grant
  \/ Drop

\* handleAuthError: a write answered 401 locks the page.
WriteRefused == authed' = FALSE /\ UNCHANGED cookie
=============================================================================
