---------------------------- MODULE AdminSession ----------------------------
(***************************************************************************)
(* AdminProvider with the password dialog and the menu entry that opens    *)
(* it: the session is read once when the page mounts, a person unlocks and *)
(* locks, and a write sent under a cookie that lapsed comes back with 401  *)
(* at any later time. Every answer arrives after an arbitrary delay. One   *)
(* unlock, one lock and one write are in flight at most.                   *)
(***************************************************************************)
EXTENDS Session

VARIABLES
  enabled,   \* state.enabled: a password is configured, as far as the page knows
  ready,     \* the session was read, or reading it failed
  prompt,    \* the dialog: open, password typed, error shown, busy
  mounting,  \* the answer of GET /admin/session under way
  unlocking, \* where unlock is
  locking,   \* where lock is
  write      \* a page's write under way, and its answer

adminVars == <<enabled, ready, prompt, mounting, unlocking, locking, write>>
asVars == <<cookie, authed, adminVars>>
-----------------------------------------------------------------------------
Prompt == [open : BOOLEAN, typed : BOOLEAN, error : BOOLEAN, busy : BOOLEAN]

AdminTypeOK ==
  /\ SessionTypeOK
  /\ enabled \in BOOLEAN /\ ready \in BOOLEAN
  /\ prompt \in Prompt
  /\ mounting \in {"sent", "unlocked", "locked", "done"}
  /\ unlocking \in {"idle", "sent", "revalidating"}
  /\ locking \in {"idle", "sent", "revalidating"}
  /\ write \in {"none", "ok", "refused"}

\* Until the session is read the page counts as locked.
LockedInit == cookie \in BOOLEAN /\ authed = FALSE

AdminInit ==
  /\ enabled = FALSE /\ ready = FALSE
  /\ prompt = [open |-> FALSE, typed |-> FALSE, error |-> FALSE, busy |-> FALSE]
  /\ mounting = "sent" /\ unlocking = "idle" /\ locking = "idle" /\ write = "none"

\* The dialog is only rendered when the lock is configured.
DialogShown == enabled /\ prompt.open
-----------------------------------------------------------------------------
\* GET /admin/session reaches the api, which looks at the cookie (and renews it) ...
SessionRead ==
  /\ mounting = "sent"
  /\ mounting' = IF cookie THEN "unlocked" ELSE "locked"
  /\ UNCHANGED <<cookie, authed, enabled, ready, prompt, unlocking, locking, write>>

\* ... and its answer replaces the whole state. A failed request, or one whose
\* answer says that no password is configured, leaves the page locked for good.
SessionKnown ==
  /\ mounting \in {"unlocked", "locked"}
  /\ \/ enabled' = TRUE /\ authed' = (mounting = "unlocked") /\ cookie' = (cookie \/ authed')
     \/ enabled' = FALSE /\ authed' = FALSE /\ UNCHANGED cookie
  /\ ready' = TRUE
  /\ mounting' = "done"
  /\ UNCHANGED <<prompt, unlocking, locking, write>>

\* The menu's entry exists once the session is known and a password is configured.
MenuEntry == ready /\ enabled

PromptUnlock ==
  /\ MenuEntry /\ ~authed /\ ~prompt.open
  /\ prompt' = [prompt EXCEPT !.open = TRUE]
  /\ UNCHANGED <<cookie, authed, enabled, ready, mounting, unlocking, locking, write>>

Type ==
  /\ DialogShown /\ ~prompt.typed
  /\ prompt' = [prompt EXCEPT !.typed = TRUE, !.error = FALSE]
  /\ UNCHANGED <<cookie, authed, enabled, ready, mounting, unlocking, locking, write>>

CloseDialog ==
  /\ DialogShown
  /\ prompt' = [prompt EXCEPT !.open = FALSE, !.typed = FALSE, !.error = FALSE]
  /\ UNCHANGED <<cookie, authed, enabled, ready, mounting, unlocking, locking, write>>

SubmitPassword ==
  /\ DialogShown /\ prompt.typed /\ ~prompt.busy
  /\ prompt' = [prompt EXCEPT !.busy = TRUE, !.error = FALSE]
  /\ unlocking' = "sent"
  /\ UNCHANGED <<cookie, authed, enabled, ready, mounting, locking, write>>

\* Mutant: the page shows itself unlocked whatever the api says.
UnlockTrusting ==
  /\ unlocking = "sent"
  /\ authed' = TRUE /\ cookie' \in {cookie, TRUE}
  /\ enabled' = TRUE /\ unlocking' = "revalidating"
  /\ UNCHANGED <<ready, prompt, mounting, locking, write>>

\* The right password brings the cookie.
UnlockAccepted ==
  /\ unlocking = "sent"
  /\ Grant
  /\ enabled' = TRUE /\ unlocking' = "revalidating"
  /\ UNCHANGED <<ready, prompt, mounting, locking, write>>

\* A wrong password, or no answer: unlock returns false, the dialog says so.
UnlockRejected ==
  /\ unlocking = "sent"
  /\ unlocking' = "idle"
  /\ prompt' = [prompt EXCEPT !.busy = FALSE, !.error = TRUE]
  /\ UNCHANGED <<cookie, authed, enabled, ready, mounting, locking, write>>

\* unlock returns true after every SWR key was fetched again; the dialog closes.
UnlockDone ==
  /\ unlocking = "revalidating"
  /\ unlocking' = "idle"
  /\ prompt' = [open |-> FALSE, typed |-> FALSE, error |-> FALSE, busy |-> FALSE]
  /\ UNCHANGED <<cookie, authed, enabled, ready, mounting, locking, write>>

Lock ==
  /\ MenuEntry /\ authed /\ locking = "idle"
  /\ locking' = "sent"
  /\ UNCHANGED <<cookie, authed, enabled, ready, prompt, mounting, unlocking, write>>

\* Best effort: the page locks itself also when the request failed.
Locked ==
  /\ locking = "sent"
  /\ authed' = FALSE /\ cookie' \in {cookie, FALSE}
  /\ locking' = "revalidating"
  /\ UNCHANGED <<enabled, ready, prompt, mounting, unlocking, write>>

LockDone ==
  /\ locking = "revalidating"
  /\ locking' = "idle"
  /\ UNCHANGED <<cookie, authed, enabled, ready, prompt, mounting, unlocking, write>>

\* A page's control sends a write; the api decides by the cookie it carries.
SendWrite ==
  /\ authed /\ write = "none"
  /\ write' = IF cookie THEN "ok" ELSE "refused"
  /\ UNCHANGED <<cookie, authed, enabled, ready, prompt, mounting, unlocking, locking>>

\* An accepted write renews the cookie when its answer arrives.
WriteAccepted ==
  /\ write = "ok"
  /\ write' = "none"
  /\ Renew
  /\ UNCHANGED <<enabled, ready, prompt, mounting, unlocking, locking>>

\* handleAuthError locks the page and opens the dialog.
HandleAuthError ==
  /\ write = "refused"
  /\ write' = "none"
  /\ WriteRefused
  /\ prompt' = [prompt EXCEPT !.open = TRUE]
  /\ UNCHANGED <<enabled, ready, mounting, unlocking, locking>>

CookieLapses == Lapse /\ UNCHANGED adminVars

AdminAnswer ==
  \/ SessionRead \/ SessionKnown
  \/ UnlockAccepted \/ UnlockRejected \/ UnlockDone
  \/ Locked \/ LockDone
  \/ WriteAccepted \/ HandleAuthError

AdminNext ==
  \/ AdminAnswer
  \/ PromptUnlock \/ Type \/ CloseDialog \/ SubmitPassword \/ Lock
  \/ SendWrite \/ CookieLapses

AdminSpec == LockedInit /\ AdminInit /\ [][AdminNext]_asVars /\ WF_asVars(AdminAnswer)
-----------------------------------------------------------------------------
\* The provider implements the session the pages rely on: the belief rises only
\* together with the cookie, whatever answers are under way, and falls only by a
\* lock or a refused write.
ImplementsSession == [][SessionNext]_sessionVars
=============================================================================
