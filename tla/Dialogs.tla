------------------------------- MODULE Dialogs -------------------------------
(***************************************************************************)
(* The two dialogs whose changes other lists must hear of: the one that    *)
(* adds channels and the one that edits the holdings. Each posts, reads    *)
(* its own data again, and only then tells the paged lists by a window     *)
(* event, because SWR's global mutate() does not reach their keys.         *)
(***************************************************************************)
EXTENDS Session, Naturals, FiniteSets

CONSTANTS
  DgTickers,  \* tickers that may be held
  DgMaxCalls  \* bound: requests the dialogs send

ASSUME DialogsAssumption == DgMaxCalls \in Nat

VARIABLES
  dgHeld,    \* the api's holdings
  dgShown,   \* SWR of the holdings: what is shown, and whether it was read after the
             \* dialog's last answer
  dgFetch,   \* its fetch under way: on, whether the api has read, and what; own: since the
             \* dialog's last answer
  dgAdd,     \* add(): how far it got, and its tickers
  dgRemove,  \* remove() of each ticker
  dgUntold,  \* history: a change the dialog was told of, and no list since
  adForm,    \* AddChannelDialog: open, a message there
  adSubmit,  \* its submit()
  adUntold,  \* history: likewise for an added channel
  dgCalls

dgVars == <<dgHeld, dgShown, dgFetch, dgAdd, dgRemove, dgUntold, adForm, adSubmit, adUntold, dgCalls>>
adVars == <<adForm, adSubmit, adUntold>>
-----------------------------------------------------------------------------
\* Where a handler stands: before the api acts on its request, before the answer is in,
\* in mutate() of the dialog's own data, in mutate() of the lists' plain keys.
Awaits == {"idle", "request", "answer", "own", "lists"}
NoDgFetch == [on |-> FALSE, read |-> FALSE, own |-> FALSE, items |-> {}]
NoAdd == [at |-> "idle", of |-> {}]

DgTypeOK ==
  /\ SessionTypeOK
  /\ dgHeld \subseteq DgTickers
  /\ dgShown \in [items : SUBSET DgTickers, own : BOOLEAN]
  /\ dgFetch \in [on : BOOLEAN, read : BOOLEAN, own : BOOLEAN, items : SUBSET DgTickers]
  /\ dgAdd \in [at : Awaits, of : SUBSET DgTickers]
  /\ dgRemove \in [DgTickers -> Awaits]
  /\ dgUntold \in BOOLEAN
  /\ adForm \in [open : BOOLEAN, message : BOOLEAN]
  /\ adSubmit \in Awaits \ {"own"} /\ adUntold \in BOOLEAN
  /\ dgCalls \in 0..DgMaxCalls

DgInit ==
  /\ dgHeld = DgTickers /\ dgShown = [items |-> dgHeld, own |-> TRUE]
  /\ dgFetch = NoDgFetch
  /\ dgAdd = NoAdd /\ dgRemove = [t \in DgTickers |-> "idle"] /\ dgUntold = FALSE
  /\ adForm = [open |-> FALSE, message |-> FALSE]
  /\ adSubmit = "idle" /\ adUntold = FALSE
  /\ dgCalls = DgMaxCalls

Call == dgCalls > 0 /\ dgCalls' = dgCalls - 1

\* handleAuthError for a 401, or a message for any other error.
Denied == IF cookie THEN UNCHANGED <<cookie, authed>> ELSE WriteRefused
-----------------------------------------------------------------------------
(* The holdings as SWR has them; a locked page has no key for them *)

HoldingsRevalidate ==
  /\ authed /\ ~dgFetch.on
  /\ dgFetch' = [NoDgFetch EXCEPT !.on = TRUE]
  /\ UNCHANGED <<dgHeld, dgShown, dgAdd, dgRemove, dgUntold, adVars, dgCalls, cookie, authed>>

\* The api reads ...
ListHoldings ==
  /\ dgFetch.on /\ ~dgFetch.read
  /\ dgFetch' = [on |-> TRUE, read |-> TRUE, own |-> TRUE, items |-> dgHeld]
  /\ UNCHANGED <<dgHeld, dgShown, dgAdd, dgRemove, dgUntold, adVars, dgCalls, cookie, authed>>

\* ... and its answer is shown, or lost, and asked for again.
HoldingsFetched ==
  /\ dgFetch.read
  /\ \/ dgShown' = [items |-> dgFetch.items, own |-> dgFetch.own] /\ dgFetch' = NoDgFetch
     \/ dgFetch' = [NoDgFetch EXCEPT !.on = TRUE] /\ UNCHANGED dgShown
  /\ UNCHANGED <<dgHeld, dgAdd, dgRemove, dgUntold, adVars, dgCalls, cookie, authed>>

\* Mutant: a fetch that is under way will do.
MutateJoining == dgFetch' = [dgFetch EXCEPT !.on = TRUE, !.own = FALSE]

\* mutate("/api/holdings"): a new fetch, the answer of an older one is thrown away. While
\* the page is locked nobody fetches.
MutateHoldings == dgFetch' = [NoDgFetch EXCEPT !.on = authed]
-----------------------------------------------------------------------------
(* HoldingsDialog *)

\* One ticker stands for all of a request.
ClickAdd ==
  /\ authed /\ dgAdd.at = "idle" /\ Call
  /\ \E t \in DgTickers : dgAdd' = [at |-> "request", of |-> {t}]
  /\ UNCHANGED <<dgHeld, dgShown, dgFetch, dgRemove, dgUntold, adVars, cookie, authed>>

\* A cross is disabled neither by a request of its own nor by another's; a second click
\* on the same one is left out.
ClickRemove ==
  /\ authed /\ Call
  /\ \E t \in dgShown.items :
       /\ dgRemove[t] = "idle"
       /\ dgRemove' = [dgRemove EXCEPT ![t] = "request"]
  /\ UNCHANGED <<dgHeld, dgShown, dgFetch, dgAdd, dgUntold, adVars, cookie, authed>>

HoldingsAdded ==
  /\ dgAdd.at = "request" /\ cookie
  /\ dgHeld' = dgHeld \cup dgAdd.of
  /\ dgAdd' = [dgAdd EXCEPT !.at = "answer"]
  /\ UNCHANGED <<dgShown, dgFetch, dgRemove, dgUntold, adVars, dgCalls, cookie, authed>>

\* A ticker that is not held is a 404.
HoldingRemoved ==
  /\ cookie
  /\ \E t \in dgHeld :
       /\ dgRemove[t] = "request"
       /\ dgHeld' = dgHeld \ {t}
       /\ dgRemove' = [dgRemove EXCEPT ![t] = "answer"]
  /\ UNCHANGED <<dgShown, dgFetch, dgAdd, dgUntold, adVars, dgCalls, cookie, authed>>

\* The answer of a change is in: revalidate() begins.
ChangeAnswered ==
  /\ \/ dgAdd.at = "answer" /\ dgAdd' = [dgAdd EXCEPT !.at = "own"] /\ UNCHANGED dgRemove
     \/ /\ \E t \in DgTickers : /\ dgRemove[t] = "answer"
                                /\ dgRemove' = [dgRemove EXCEPT ![t] = "own"]
        /\ UNCHANGED dgAdd
  /\ MutateHoldings
  /\ dgShown' = [dgShown EXCEPT !.own = FALSE]
  /\ dgUntold' = TRUE
  /\ UNCHANGED <<dgHeld, adVars, dgCalls, cookie, authed>>

\* A request is refused: nothing is read again.
ChangeRefused ==
  /\ \/ dgAdd.at = "request" /\ dgAdd' = NoAdd /\ UNCHANGED dgRemove
     \/ /\ \E t \in DgTickers : /\ dgRemove[t] = "request"
                                /\ dgRemove' = [dgRemove EXCEPT ![t] = "idle"]
        /\ UNCHANGED dgAdd
  /\ Denied
  /\ UNCHANGED <<dgHeld, dgShown, dgFetch, dgUntold, adVars, dgCalls>>

\* The answer of a change is lost: what changed is not read again either.
AnswerLost ==
  /\ \/ dgAdd.at = "answer" /\ dgAdd' = NoAdd /\ UNCHANGED dgRemove
     \/ /\ \E t \in DgTickers : /\ dgRemove[t] = "answer"
                                /\ dgRemove' = [dgRemove EXCEPT ![t] = "idle"]
        /\ UNCHANGED dgAdd
  /\ UNCHANGED <<dgHeld, dgShown, dgFetch, dgUntold, adVars, dgCalls, cookie, authed>>

\* revalidate() goes on: the own data was awaited, be it by a fetch that was thrown away;
\* after the trending lists' plain keys the event reaches the paged one.
RevalidateOwn ==
  /\ \/ dgAdd.at = "own" /\ dgAdd' = [dgAdd EXCEPT !.at = "lists"] /\ UNCHANGED dgRemove
     \/ /\ \E t \in DgTickers : /\ dgRemove[t] = "own"
                                /\ dgRemove' = [dgRemove EXCEPT ![t] = "lists"]
        /\ UNCHANGED dgAdd
  /\ UNCHANGED <<dgHeld, dgShown, dgFetch, dgUntold, adVars, dgCalls, cookie, authed>>

HoldingsAnnounced ==
  /\ \/ dgAdd.at = "lists" /\ dgAdd' = NoAdd /\ UNCHANGED dgRemove
     \/ /\ \E t \in DgTickers : /\ dgRemove[t] = "lists"
                                /\ dgRemove' = [dgRemove EXCEPT ![t] = "idle"]
        /\ UNCHANGED dgAdd
  /\ dgUntold' = FALSE
  /\ UNCHANGED <<dgHeld, dgShown, dgFetch, adVars, dgCalls, cookie, authed>>
-----------------------------------------------------------------------------
(* AddChannelDialog *)

\* Closing it clears what was said, also while submit() is under way; opening does not.
OpenAddChannel ==
  /\ authed
  /\ adForm' = IF adForm.open THEN [open |-> FALSE, message |-> FALSE]
                ELSE [adForm EXCEPT !.open = TRUE]
  /\ UNCHANGED <<dgHeld, dgShown, dgFetch, dgAdd, dgRemove, dgUntold, adSubmit, adUntold, dgCalls, cookie, authed>>

SubmitChannels ==
  /\ authed /\ adForm.open /\ adSubmit = "idle" /\ Call
  /\ adSubmit' = "request"
  /\ adForm' = [adForm EXCEPT !.message = FALSE]
  /\ UNCHANGED <<dgHeld, dgShown, dgFetch, dgAdd, dgRemove, dgUntold, adUntold, cookie, authed>>

\* The api adds some of them, or none; a 401 leaves no message.
ChannelsPosted ==
  /\ adSubmit = "request"
  /\ \/ cookie /\ adSubmit' = "answer" /\ UNCHANGED <<adForm, cookie, authed>>
     \/ /\ adSubmit' = "idle" /\ Denied
        /\ adForm' = [adForm EXCEPT !.message = @ \/ cookie]
  /\ UNCHANGED <<dgHeld, dgShown, dgFetch, dgAdd, dgRemove, dgUntold, adUntold, dgCalls>>

ChannelsAnswered ==
  /\ adSubmit = "answer"
  /\ \/ /\ adSubmit' = "lists" /\ adUntold' = TRUE
        /\ adForm' = [adForm EXCEPT !.message = TRUE]
     \/ /\ adSubmit' = "idle" /\ adForm' = [adForm EXCEPT !.message = TRUE]
        /\ UNCHANGED adUntold
  /\ UNCHANGED <<dgHeld, dgShown, dgFetch, dgAdd, dgRemove, dgUntold, dgCalls, cookie, authed>>

\* The event, and the dialog closes itself: its message stays for the next opening.
ChannelsAnnounced ==
  /\ adSubmit = "lists"
  /\ adSubmit' = "idle" /\ adUntold' = FALSE
  /\ adForm' = [adForm EXCEPT !.open = FALSE]
  /\ UNCHANGED <<dgHeld, dgShown, dgFetch, dgAdd, dgRemove, dgUntold, dgCalls, cookie, authed>>

\* Unlocking brings the key back, and with it a read.
DgSession ==
  /\ SessionStep
  /\ dgFetch' = IF authed' /\ ~authed THEN [dgFetch EXCEPT !.on = TRUE] ELSE dgFetch
  /\ UNCHANGED <<dgHeld, dgShown, dgAdd, dgRemove, dgUntold, adVars, dgCalls>>

DgNext ==
  \/ HoldingsRevalidate \/ ListHoldings \/ HoldingsFetched
  \/ ClickAdd \/ ClickRemove \/ HoldingsAdded \/ HoldingRemoved
  \/ ChangeAnswered \/ ChangeRefused \/ AnswerLost \/ RevalidateOwn \/ HoldingsAnnounced
  \/ OpenAddChannel \/ SubmitChannels \/ ChannelsPosted \/ ChannelsAnswered \/ ChannelsAnnounced
  \/ DgSession

DgSpec == SessionInit /\ DgInit /\ [][DgNext]_<<dgVars, cookie, authed>>
-----------------------------------------------------------------------------
\* A change whose answer came in is shown and told: once nothing is being fetched the
\* unlocked dialog shows holdings that were read after it, whatever was being read
\* meanwhile; and no handler ends while a list has not heard of it, however several
\* removals and an addition overlap, and when the page was locked in between.
ChangesAreTold ==
  /\ authed /\ ~dgFetch.on => dgShown.own
  /\ dgAdd.at = "idle" /\ (\A t \in DgTickers : dgRemove[t] = "idle") => ~dgUntold
  /\ adSubmit = "idle" => ~adUntold
=============================================================================
