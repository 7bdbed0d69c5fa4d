-------------------------------- MODULE Site --------------------------------
(***************************************************************************)
(* The frontend: a reader has one page open, and its components, the api   *)
(* behind them and the admin session take steps. Pages of the Next.js app  *)
(* share no state but the session and SWR's cache; a page that is left is  *)
(* unmounted, and the next one is a behaviour of its own. The session's    *)
(* own page stands for AdminProvider, which is on every page; to the       *)
(* others it is Session, which ImplementsSession shows that it implements. *)
(***************************************************************************)
EXTENDS AdminSession, RefreshButton, ChannelPage, ImportInbox, PipelineView, VideoPage,
        Dialogs, PagedList, TrackRecordChart, StockPage

VARIABLE page  \* what is looked at; never changes

Pages == {"session", "refresh", "channel", "inbox", "pipeline", "video", "dialogs",
          "list", "record", "chart", "stock"}

siteVars == <<page, cookie, authed, adminVars, rbVars, chVars, inVars, pvVars, vpVars, dgVars,
              pgVars, trInput, tcVars, spVars>>

\* Each page's type invariant; what is not looked at does not change.
SiteTypeOK ==
  CASE page = "session" -> AdminTypeOK
    [] page = "refresh" -> RbTypeOK
    [] page = "channel" -> ChTypeOK
    [] page = "inbox" -> InTypeOK
    [] page = "pipeline" -> PvTypeOK
    [] page = "video" -> VpTypeOK
    [] page = "dialogs" -> DgTypeOK
    [] page = "list" -> PgTypeOK
    [] page = "record" -> TrackRecordTypeOK
    [] page = "chart" -> TcTypeOK
    [] page = "stock" -> SpTypeOK

\* Pages whose controls depend on the session.
SessionPages == {"refresh", "channel", "inbox", "pipeline", "video", "dialogs"}

\* What is not looked at rests in one of its first states.
SiteInit ==
  /\ page \in Pages
  /\ IF page = "session" THEN LockedInit ELSE SessionInit
  /\ page \notin SessionPages \cup {"session"} => ~cookie
  /\ AdminInit
  /\ RbInit /\ (page # "refresh" => rbJob = NoJob)
  /\ ChInit /\ (page # "channel" => chRows = CHOOSE rows \in ChInitRows : TRUE)
  /\ InInit /\ (page # "inbox" => inRows = CHOOSE rows \in InInitRows : TRUE)
  /\ PvInit /\ VpInit /\ DgInit
  /\ PgInit /\ (page # "list" => pgKind = "feed" /\ pgSrv = CHOOSE list \in PgStart : TRUE)
  /\ IF page = "record" THEN TrackRecordInit ELSE trInput = CHOOSE stock \in TrInputs : TRUE
  /\ TcInit /\ SpInit
-----------------------------------------------------------------------------
SessionPage ==
  /\ page = "session" /\ AdminNext
  /\ UNCHANGED <<page, rbVars, chVars, inVars, pvVars, vpVars, dgVars, pgVars, trInput, tcVars, spVars>>

RefreshPage ==
  /\ page = "refresh" /\ RbNext
  /\ UNCHANGED <<page, adminVars, chVars, inVars, pvVars, vpVars, dgVars, pgVars, trInput, tcVars, spVars>>

ChannelDetail ==
  /\ page = "channel" /\ ChNext
  /\ UNCHANGED <<page, adminVars, rbVars, inVars, pvVars, vpVars, dgVars, pgVars, trInput, tcVars, spVars>>

Inbox ==
  /\ page = "inbox" /\ InNext
  /\ UNCHANGED <<page, adminVars, rbVars, chVars, pvVars, vpVars, dgVars, pgVars, trInput, tcVars, spVars>>

PipelinePage ==
  /\ page = "pipeline" /\ PvNext
  /\ UNCHANGED <<page, adminVars, rbVars, chVars, inVars, vpVars, dgVars, pgVars, trInput, tcVars, spVars>>

VideoDetail ==
  /\ page = "video" /\ VpNext
  /\ UNCHANGED <<page, adminVars, rbVars, chVars, inVars, pvVars, dgVars, pgVars, trInput, tcVars, spVars>>

DialogSteps ==
  /\ page = "dialogs" /\ DgNext
  /\ UNCHANGED <<page, adminVars, rbVars, chVars, inVars, pvVars, vpVars, pgVars, trInput, tcVars, spVars>>

ListSteps ==
  /\ page = "list" /\ PgNext
  /\ UNCHANGED <<page, cookie, authed, adminVars, rbVars, chVars, inVars, pvVars, vpVars, dgVars, trInput, tcVars, spVars>>

ChartSteps ==
  /\ page = "chart" /\ TcNext
  /\ UNCHANGED <<page, cookie, authed, adminVars, rbVars, chVars, inVars, pvVars, vpVars, dgVars, pgVars, trInput, spVars>>

StockDetail ==
  /\ page = "stock" /\ SpNext
  /\ UNCHANGED <<page, cookie, authed, adminVars, rbVars, chVars, inVars, pvVars, vpVars, dgVars, pgVars, trInput, tcVars>>

SiteNext ==
  \/ SessionPage \/ RefreshPage \/ ChannelDetail \/ Inbox \/ PipelinePage
  \/ VideoDetail \/ DialogSteps \/ ListSteps \/ ChartSteps \/ StockDetail

\* RbFairness, ChFairness and VpFairness for the page that is looked at: of what a page's
\* poller waits for, and of what else must come about.
PollerSteps ==
  \/ page = "refresh" /\ PollFetched /\ UNCHANGED <<chVars, vpVars>>
  \/ page = "channel" /\ ChAnswer /\ UNCHANGED <<rbVars, vpVars>>
  \/ page = "video" /\ WatchStep /\ UNCHANGED <<rbVars, chVars>>

AnswerSteps ==
  \/ page = "refresh" /\ JobEnds /\ UNCHANGED <<chVars, vpVars>>
  \/ page = "channel" /\ ListFetched /\ UNCHANGED <<rbVars, vpVars>>
  \/ page = "video" /\ DetailStep /\ UNCHANGED <<rbVars, chVars>>

fairVars == <<rbVars, chVars, vpVars, cookie, authed>>
SiteFairness == WF_fairVars(PollerSteps) /\ WF_fairVars(AnswerSteps)

SiteSpec == SiteInit /\ [][SiteNext]_siteVars /\ SiteFairness
-----------------------------------------------------------------------------
\* What two components promise of the change they announced: the overview of channels
\* shows the one that was removed or added (PagedList), and the dialogs have told every
\* list, the holdings dialog's own included (Dialogs).
OwnChangesShow == OwnChangeShows /\ ChangesAreTold

\* No poller leaves its page behind. Once a job that the refresh button saw running is
\* over, the lists it changed are read again: also when another job followed before the
\* next poll, when polls were off because an earlier job had ended, and when the page
\* was locked meanwhile. Once a lane is done with a watched video, its page shows the
\* outcome: also when it ended by a skip on another page. And a channel's page is usable
\* again after every request: also when the job it polls for runs on, or another job
\* follows it, and when the request is refused or lost.
PollersFinish ==
  \/ page = "refresh" /\ JobEndUnseen
  \/ page = "video" /\ WatchedEndUnseen
  \/ page = "channel" /\ busy
  ~>
  \/ page = "refresh" /\ ~JobEndUnseen
  \/ page = "video" /\ WatchedEndSeen
  \/ page = "channel" /\ ~busy
=============================================================================
