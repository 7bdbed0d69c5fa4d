------------------------------ MODULE Listing ------------------------------
(***************************************************************************)
(* What a listing job does to the channels and videos tables: discover     *)
(* walks every channel's uploads down to the first known video, load_older *)
(* walks one channel's past the known ones, a page at a time out of a list *)
(* that moves between two pages.  The job slot is the one of Jobs; while a *)
(* job walks, channels publish, uploads go, and people add, delete and     *)
(* switch channels.  A later upload is a larger number.                    *)
(***************************************************************************)
EXTENDS Integers, FiniteSets

CONSTANTS
  Channels,
  Seeded,        \* those added before the behaviour starts
  MaxUploads,    \* bound: uploads of a channel
  Shorts,        \* the uploads no longer than shorts_max_seconds
  Limit,         \* backfill_limit
  PageSize,      \* maxResults of a request
  MaxPages,      \* _MAX_PAGES
  AutoRefresh,   \* is AUTO_REFRESH_MINUTES positive?
  MaxRequests,   \* bound: requests in a behaviour
  MaxFaults,     \* bound: faults in a behaviour
  Removable      \* bound: the uploads YouTube may stop to list

ASSUME ListingAssumption ==
  /\ IsFiniteSet(Channels) /\ Seeded \subseteq Channels
  /\ MaxUploads \in [Channels -> Nat]
  /\ Shorts \subseteq Channels \X Nat
  /\ Limit \in Nat \ {0} /\ PageSize \in Nat \ {0} /\ MaxPages \in Nat \ {0}
  /\ AutoRefresh \in BOOLEAN
  /\ MaxRequests \in Nat /\ MaxFaults \in Nat
  /\ Removable \subseteq Channels \X Nat

VARIABLES
  published,  \* how many uploads each channel ever had
  removed,    \* those YouTube no longer lists
  channel,    \* the channels table
  video,      \* the videos table: each upload's status, as the listing wrote it
  job,        \* the job slot and where its job is
  adding,     \* channels whose add_channels has yet to enqueue its discover
  base,       \* history: the channel's uploads when it was added
  odd,        \* history: what happened to a channel that its rows do not show
  requests, faults   \* requests and faults left in this behaviour

vars == <<published, removed, channel, video, job, adding, base, odd, requests, faults>>
-----------------------------------------------------------------------------
Upload == UNION {1 .. MaxUploads[c] : c \in Channels}

Channel == [there : BOOLEAN, auto : BOOLEAN, listed : BOOLEAN]
NoChannel == [there |-> FALSE, auto |-> FALSE, listed |-> FALSE]
NewChannel == [there |-> TRUE, auto |-> FALSE, listed |-> FALSE]

Status == {"none", "discovered", "pending", "skipped"}
NoVideos == [v \in Upload |-> "none"]

\* What the rows do not show: load_older met uploads newer than every known one; a
\* walk met no known video; the list slid up under a walk, or by a page or more down;
\* the channel was added while a job walked it.
Oddity == {"dug", "lost", "slid", "readded"}

None == "none"
Kind == {"discover", "load_older"}

Job == [pc : {"free", "queued", "next", "listing", "commit"},
        kind : Kind,
        todo : SUBSET Channels,
        auto : SUBSET Channels,
        cur : Channels \cup {None},
        known : SUBSET Upload,
        off : Nat,               \* page_token: how much of the list was read
        found : SUBSET Upload,   \* collected
        took : Nat,              \* its length
        again : SUBSET Upload,   \* what it holds twice
        met : BOOLEAN,           \* history: a page held a known video
        fresh : Nat,             \* history: published since the last page
        odd : SUBSET Oddity]

Slot(pc, kind, cur) ==
  [pc |-> pc, kind |-> kind, todo |-> {}, auto |-> {}, cur |-> cur,
   known |-> {}, off |-> 0, found |-> {}, took |-> 0, again |-> {}, met |-> FALSE,
   fresh |-> 0, odd |-> {}]

Free == Slot("free", "discover", None)

There == {c \in Channels : channel[c].there}
Stored(c) == {v \in Upload : video[c][v] # "none"}
Listed(c) == (1 .. published[c]) \ removed[c]
Short(c) == {v \in Upload : <<c, v>> \in Shorts}

\* Channels may have been added, and switched to auto_analyze, whose discover never ran.
Init ==
  /\ published \in [Channels -> {0} \cup Upload]
  /\ \A c \in Channels : published[c] <= MaxUploads[c]
  /\ removed = [c \in Channels |-> {}]
  /\ channel = [c \in Channels |->
                  IF c \in Seeded THEN [NewChannel EXCEPT !.auto = TRUE] ELSE NoChannel]
  /\ video = [c \in Channels |-> NoVideos]
  /\ job = Free
  /\ adding = {}
  /\ base = published
  /\ odd = [c \in Channels |-> {}]
  /\ requests = MaxRequests
  /\ faults = MaxFaults
-----------------------------------------------------------------------------
(* YouTube *)

\* A walk of this channel has read a page and will read another.
BetweenPages(c) == job.pc = "listing" /\ job.cur = c /\ job.off > 0

\* The page after has moved down by one; by a page and more, it holds what is new.
Publish(c) ==
  /\ published[c] < MaxUploads[c]
  /\ published' = [published EXCEPT ![c] = @ + 1]
  /\ job' = IF ~BetweenPages(c) THEN job
            ELSE [job EXCEPT !.fresh = @ + 1,
                             !.odd = @ \cup IF job.fresh + 1 < PageSize THEN {} ELSE {"slid"}]
  /\ UNCHANGED <<removed, channel, video, adding, base, odd, requests, faults>>

\* The playlist is newest first: where an upload stands in it, and its newest n.
Rank(S, v) == Cardinality({w \in S : w > v})
Newest(S, n) == {v \in S : Rank(S, v) < n}

\* What a request for the next page is answered: a page token is a position.
NextPage(c) ==
  {v \in Listed(c) : Rank(Listed(c), v) \in job.off .. job.off + PageSize - 1}

\* Mutant: a video that was left out as a Short counts as known.
StopAtShorts(page, known) == {v \in page : \A w \in (known \cup Short(job.cur)) \cap page : v > w}

\* What is taken of a page: stops at the first known one.
list_new_uploads(page, known) == {v \in page : \A w \in known \cap page : v > w}

\* Goes on at a known one.
list_older_uploads(page, known) == page \ known
-----------------------------------------------------------------------------
(* Requests *)

SpendRequest == requests > 0 /\ requests' = requests - 1

\* enqueue: created=False when a job runs, and then nothing is remembered.
Enqueue(kind, c) ==
  job' = IF job.pc = "free" THEN Slot("queued", kind, c) ELSE job

Walked(c) == job.cur = c /\ job.pc \in {"listing", "commit"}

AddChannel(c) ==
  /\ ~channel[c].there
  /\ SpendRequest
  /\ channel' = [channel EXCEPT ![c] = NewChannel]
  /\ base' = [base EXCEPT ![c] = published[c]]
  /\ adding' = adding \cup {c}
  /\ job' = IF Walked(c) THEN [job EXCEPT !.odd = @ \cup {"readded"}] ELSE job
  /\ UNCHANGED <<published, removed, video, odd, faults>>

\* add_channels, after its commit.
EnqueueAdded(c) ==
  /\ c \in adding
  /\ adding' = adding \ {c}
  /\ Enqueue("discover", None)
  /\ UNCHANGED <<published, removed, channel, video, base, odd, requests, faults>>

\* trigger_refresh
Refresh ==
  /\ SpendRequest
  /\ Enqueue("discover", None)
  /\ UNCHANGED <<published, removed, channel, video, adding, base, odd, faults>>

LoadOlder(c) ==
  /\ channel[c].there
  /\ SpendRequest
  /\ Enqueue("load_older", c)
  /\ UNCHANGED <<published, removed, channel, video, adding, base, odd, faults>>

\* update_channel
SetAuto(c) ==
  /\ channel[c].there
  /\ SpendRequest
  /\ channel' = [channel EXCEPT ![c].auto = ~@]
  /\ UNCHANGED <<published, removed, video, job, adding, base, odd, faults>>

\* The videos go with the channel.
DeleteChannel(c) ==
  /\ channel[c].there
  /\ SpendRequest
  /\ channel' = [channel EXCEPT ![c] = NoChannel]
  /\ video' = [video EXCEPT ![c] = NoVideos]
  /\ base' = [base EXCEPT ![c] = 0]
  /\ odd' = [odd EXCEPT ![c] = {}]
  /\ UNCHANGED <<published, removed, job, adding, faults>>
-----------------------------------------------------------------------------
(* A job *)

\* The scheduler's round: start() enqueues a discover and runs it.
Schedule ==
  /\ AutoRefresh
  /\ job.pc = "free"
  /\ Enqueue("discover", None)
  /\ UNCHANGED <<published, removed, channel, video, adding, base, odd, requests, faults>>

\* Mutant: discover refreshes the channels that were refreshed before.
RefreshedOnly == {c \in There : job.kind = "discover" => channel[c].listed}

\* discover reads them all, load_older its own, which may be gone.
ToWalk == IF job.kind = "discover" THEN There ELSE There \cap {job.cur}

\* The channels as they are now: what a job knows of auto_analyze until it ends.
Begin ==
  /\ job.pc = "queued"
  /\ job' = [job EXCEPT !.pc = "next", !.cur = None, !.todo = ToWalk,
                        !.auto = {c \in ToWalk : channel[c].auto}]
  /\ UNCHANGED <<published, removed, channel, video, adding, base, odd, requests, faults>>

ReadKnown(c) ==
  /\ job.pc = "next"
  /\ c \in job.todo
  /\ job' = [Slot("listing", job.kind, c) EXCEPT !.todo = job.todo \ {c}, !.auto = job.auto,
                                                 !.known = Stored(c)]
  /\ UNCHANGED <<published, removed, channel, video, adding, base, odd, requests, faults>>

\* Mutant: the limit of the backfill applies to every discover.
LimitAlways == TRUE

\* Of discovers, only a backfill has a limit.
IsLimited == job.kind = "load_older" \/ job.known = {}

Unknown(page) ==
  IF job.kind = "discover" THEN list_new_uploads(page, job.known)
  ELSE list_older_uploads(page, job.known)

Taken(page) == IF IsLimited THEN Newest(Unknown(page), Limit - job.took) ELSE Unknown(page)

\* The walk ends where its limit is reached, a discover at a known video ...
Satisfied(page) ==
  \/ IsLimited /\ job.took + Cardinality(Unknown(page)) >= Limit
  \/ job.kind = "discover" /\ job.known \cap page # {}

\* ... and both where there is no nextPageToken, and after _MAX_PAGES pages.
Exhausted(c) ==
  \/ job.off + PageSize >= Cardinality(Listed(c))
  \/ job.off + PageSize >= MaxPages * PageSize

OddBy(c, page) ==
  {o \in Oddity :
    \/ /\ o = "dug" /\ job.kind = "load_older"
       /\ \E v \in Taken(page) : \A w \in job.known : v > w
    \/ /\ o = "lost" /\ job.known # {} /\ ~job.met /\ job.known \cap page = {}
       /\ ~Satisfied(page) /\ Exhausted(c)}

\* One request of the walk.
ReadPage ==
  /\ job.pc = "listing"
  /\ LET c == job.cur
         page == NextPage(c)
         taken == Taken(page)
     IN  job' = [job EXCEPT !.pc = IF Satisfied(page) \/ Exhausted(c) THEN "commit" ELSE @,
                            !.off = @ + PageSize,
                            !.found = @ \cup taken,
                            !.took = @ + Cardinality(taken),
                            !.again = @ \cup (job.found \cap taken),
                            !.met = @ \/ job.known \cap page # {},
                            !.fresh = 0,
                            !.odd = @ \cup OddBy(c, page)]
  /\ UNCHANGED <<published, removed, channel, video, adding, base, odd, requests, faults>>

\* Mutant: auto_analyze queues the backfill too.
QueueBackfill == IF job.cur \in job.auto THEN "pending" ELSE "discovered"

\* Mutant: a status no queue knows.
NewStatus == "new"

IngestStatus ==
  CASE job.kind = "load_older" -> "skipped"
    [] job.kind = "discover" /\ job.cur \in job.auto /\ job.known # {} -> "pending"
    [] OTHER -> "discovered"

\* The end of _ingest_channel_videos and _ingest_older_channel_videos.
Commit ==
  LET c == job.cur
      ingested == job.found \ Short(c)
  IN  /\ job.pc = "commit"
      /\ channel[c].there
      /\ job.again \subseteq Short(c)
      /\ video' = [video EXCEPT ![c] =
                     [v \in Upload |-> IF v \in ingested THEN IngestStatus ELSE video[c][v]]]
      /\ channel' = [channel EXCEPT ![c].listed = TRUE]
      /\ odd' = [odd EXCEPT ![c] = @ \cup job.odd]
      /\ job' = [Slot("next", job.kind, None) EXCEPT !.todo = job.todo, !.auto = job.auto]
      /\ UNCHANGED <<published, removed, adding, base, requests, faults>>

\* The rows have no channel to belong to, or an upload is inserted twice: the job fails,
\* the rest of its channels unread.
CommitFails ==
  /\ job.pc = "commit"
  /\ ~channel[job.cur].there \/ ~(job.again \subseteq Short(job.cur))
  /\ job' = Free
  /\ UNCHANGED <<published, removed, channel, video, adding, base, odd, requests, faults>>

Done ==
  /\ job.pc = "next"
  /\ job.todo = {}
  /\ job' = Free
  /\ UNCHANGED <<published, removed, channel, video, adding, base, odd, requests, faults>>
-----------------------------------------------------------------------------
(* Faults *)

SpendFault == faults > 0 /\ faults' = faults - 1

\* The quota is used up, YouTube or a transaction raises, or the worker is killed:
\* what earlier channels committed stays.
JobFails ==
  /\ job.pc \in {"next", "listing", "commit"}
  /\ SpendFault
  /\ job' = Free
  /\ UNCHANGED <<published, removed, channel, video, adding, base, odd, requests>>

\* Deleted, private, or terminated. When a walk has read that part of the list, the
\* page after moves up and one upload escapes it.
Remove(c, v) ==
  /\ v \in Listed(c) /\ <<c, v>> \in Removable
  /\ SpendFault
  /\ removed' = [removed EXCEPT ![c] = @ \cup {v}]
  /\ job' = IF BetweenPages(c) /\ Rank(Listed(c), v) < job.off
            THEN [job EXCEPT !.odd = @ \cup {"slid"}] ELSE job
  /\ UNCHANGED <<published, channel, video, adding, base, odd, requests>>
-----------------------------------------------------------------------------
Request ==
  \/ Refresh
  \/ \E c \in Channels :
       AddChannel(c) \/ EnqueueAdded(c) \/ LoadOlder(c) \/ SetAuto(c) \/ DeleteChannel(c)

RunJob ==
  \/ Begin \/ ReadPage \/ Commit \/ CommitFails \/ Done
  \/ \E c \in Channels : ReadKnown(c)

Fault == JobFails \/ \E c \in Channels, v \in Upload : Remove(c, v)

Next ==
  \/ \E c \in Channels : Publish(c)
  \/ Request \/ Schedule \/ RunJob \/ Fault

Spec == Init /\ [][Next]_vars

\* The worker claims what is enqueued and the job's calls return (Jobs); the
\* scheduler's loop comes round when auto refresh is on.
FairSpec == Spec /\ WF_vars(RunJob) /\ WF_vars(Schedule)
-----------------------------------------------------------------------------
(* Properties *)

TypeOK ==
  /\ published \in [Channels -> {0} \cup Upload]
  /\ removed \in [Channels -> SUBSET Upload]
  /\ channel \in [Channels -> Channel]
  /\ video \in [Channels -> [Upload -> Status]]
  /\ job \in Job /\ (job.pc \in {"listing", "commit"} => job.cur \in Channels)
  /\ adding \subseteq Channels
  /\ base \in [Channels -> {0} \cup Upload]
  /\ odd \in [Channels -> SUBSET Oddity]
  /\ requests \in Nat /\ faults \in Nat

\* A channel's new videos are those above its newest row (list_new_uploads stops at
\* the first known one), so what is left out between two rows is left out for good:
\* nothing is but Shorts, whatever is published, removed or fails before, between and
\* after walks, and whatever is published between two pages of one. The exceptions:
\* load_older ran into new uploads, a walk met nothing known, an upload it had read was
\* removed before its next page (or a whole page of new ones came in between), or the
\* channel was added again under it.
NoGap ==
  \A c \in There, v \in Upload :
    /\ odd[c] = {}
    /\ v \in Listed(c) \ (Stored(c) \cup Short(c))
    => \/ \A w \in Stored(c) : w > v
       \/ \A w \in Stored(c) : v > w

\* Only what a channel publishes after it was added is queued by itself, however often
\* jobs fail and whatever is removed; the backfill is for a person to select from
\* (_ingest_channel_videos), unless a walk met nothing known or its list slid.
QueuedOnlyIfNew ==
  \A c \in There, v \in Upload :
    video[c][v] = "pending" /\ odd[c] \cap {"lost", "slid", "readded"} = {} => v > base[c]

\* A channel that stays is listed, though its own discover is dropped when a job runs,
\* and a channel deleted under a job takes the channels behind it with it.
AddedIsListed == \A c \in Channels : channel[c].there ~> channel[c].listed \/ ~channel[c].there

Awaited(c, v) ==
  /\ channel[c].there /\ odd[c] = {}
  /\ Stored(c) # {}
  /\ v \in Listed(c) \ Short(c)
  /\ \A w \in Stored(c) : v > w

\* A new upload of a channel that has rows gets a row, however many were published
\* since, whatever Shorts surround it.
UploadsArrive ==
  \A c \in Channels : \A v \in 1 .. MaxUploads[c] :
    Awaited(c, v) ~>
      \/ v \in Stored(c) \/ v \notin Listed(c)
      \/ ~channel[c].there \/ odd[c] # {}

\* load_older takes older videos: of a channel with rows, nothing newer than them all
\* ("Walk past the known block of videos and collect older unknown ones").
LoadsOlder ==
  [][\A c \in Channels, v \in Upload :
       /\ video[c][v] = "none" /\ video'[c][v] = "skipped"
       /\ Stored(c) # {}
       => \E w \in Stored(c) : w > v]_vars
=============================================================================
