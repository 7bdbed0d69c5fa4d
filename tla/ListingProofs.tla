--------------------------- MODULE ListingProofs ---------------------------
(***************************************************************************)
(* Listing, for any channels, uploads, limits, requests and faults: the    *)
(* types, that no upload is left out between two rows, and that only what  *)
(* is published after a channel was added is queued by itself.             *)
(***************************************************************************)
EXTENDS Listing, FiniteSetTheorems, TLAPS

-----------------------------------------------------------------------------
(* The inductive invariant *)

\* Rows are of uploads there have been, and of channels there are.
RowsExist ==
  \A c \in Channels :
    /\ base[c] <= published[c]
    /\ removed[c] \subseteq 1 .. published[c]
    /\ Stored(c) \subseteq 1 .. published[c]
    /\ c \notin There => Stored(c) = {}

\* Of the uploads a channel had when it was added, what has no row is older than all
\* that have one.
BackfillIsTop ==
  \A c \in There :
    odd[c] \cap {"slid", "readded"} = {} =>
      \A v \in Listed(c) \ (Stored(c) \cup Short(c)) :
        v <= base[c] => \A w \in Stored(c) : v < w

\* A walk whose channel is still the one it read.
Walking == job.cur \in There /\ "readded" \notin job.odd

\* It knows the channel's rows until it commits.
WalkKnows ==
  job.pc \in {"listing", "commit"} /\ Walking => job.known = Stored(job.cur)

\* What a walk leaves out of upload v: v was published after it, or is older than
\* all it found, and older than a known one unless nothing was.
LeftOut(v) ==
  \/ v > base[job.cur] /\ \A w \in job.known \cup job.found : v > w
  \/ /\ \A x \in job.found : v < x
     /\ \/ job.odd # {} \/ job.known = {} \/ job.found = {}
        \/ \E w \in job.known : v < w

\* The positions that new uploads fill, of those the walk has behind it: fewer than
\* it has read, since less than a page comes between two requests.
Above == job.off - PageSize + job.fresh

\* What a walk has yet to reach, and what was published behind its back.
NotYet(v) == Rank(Listed(job.cur), v) >= job.off /\ \A x \in job.found : v < x
Behind(v) ==
  /\ v > base[job.cur] /\ \A w \in job.known \cup job.found : v > w
  /\ Rank(Listed(job.cur), v) < Above

\* What a discover collected is new, or else older than all that is known.
NewOrOld ==
  job.kind = "discover" /\ odd[job.cur] \cap {"slid", "readded"} = {} =>
    \A x \in job.found \ Short(job.cur) : x > base[job.cur] \/ \A w \in job.known : x < w

\* A walk between two pages, and before its first.
PagesRead ==
  /\ job.off = 0 => job.found = {} /\ job.fresh = 0
  /\ job.off # 0 => job.off >= PageSize
  /\ job.found \subseteq 1 .. published[job.cur]
  /\ job.kind = "discover" => ~job.met
  /\ job.kind = "load_older" /\ "dug" \notin job.odd =>
       \A x \in job.found : \E w \in job.known : ~(x > w)

\* Unless the list slid, it has passed over nothing: known videos neither.
NothingPassed ==
  /\ job.fresh < PageSize
  /\ \A v \in Listed(job.cur) \ (job.known \cup job.found) : NotYet(v) \/ Behind(v)
  /\ job.kind = "discover" =>
       \A w \in job.known \cap Listed(job.cur), x \in job.found :
         x > w \/ Rank(Listed(job.cur), w) < Above
  /\ NewOrOld

WalkReads ==
  job.pc = "listing" => PagesRead /\ (Walking /\ "slid" \notin job.odd => NothingPassed)

WalkFound ==
  job.pc = "commit" =>
    /\ job.found \subseteq 1 .. published[job.cur]
    /\ Walking /\ "slid" \notin job.odd =>
         \A v \in Listed(job.cur) \ (job.known \cup job.found) : LeftOut(v)

\* What a walk is about to queue is new.
WalkQueues ==
  /\ job.pc = "commit" /\ Walking /\ job.kind = "discover" /\ job.known # {}
  /\ (odd[job.cur] \cup job.odd) \cap {"lost", "slid", "readded"} = {}
  => \A x \in job.found \ Short(job.cur) : x > base[job.cur]

RowsAreSound == RowsExist /\ BackfillIsTop /\ NoGap /\ QueuedOnlyIfNew
WalkIsSound == WalkKnows /\ WalkReads /\ WalkFound /\ WalkQueues

IInv == TypeOK /\ RowsAreSound /\ WalkIsSound

-----------------------------------------------------------------------------
(* Walks *)

LEMMA UploadNat == Upload \subseteq Nat \ {0}
  BY ListingAssumption DEF Upload

LEMMA ListedFinite ==
  ASSUME TypeOK, NEW c \in Channels
  PROVE  /\ published[c] \in Nat
         /\ Listed(c) \subseteq 1 .. published[c]
         /\ IsFiniteSet(Listed(c))
<1>1. published[c] \in Nat
  <2>1. published[c] \in {0} \cup Upload
    BY DEF TypeOK
  <2>2. {0} \cup Upload \subseteq Nat
    BY UploadNat
  <2> QED
    BY <2>1, <2>2
<1>2. IsFiniteSet(1 .. published[c])
  BY <1>1, FS_Interval
<1>3. Listed(c) \in SUBSET (1 .. published[c])
  BY DEF Listed
<1> QED
  BY <1>1, <1>2, <1>3, FS_Subset

LEMMA RankType ==
  ASSUME NEW S, IsFiniteSet(S), NEW v
  PROVE  Rank(S, v) \in Nat /\ Rank(S, v) <= Cardinality(S)
<1>1. {w \in S : w > v} \in SUBSET S
  OBVIOUS
<1>2. IsFiniteSet({w \in S : w > v}) /\ Cardinality({w \in S : w > v}) <= Cardinality(S)
  BY <1>1, FS_Subset
<1> QED
  BY <1>2, FS_CardinalityType DEF Rank

\* What is older stands further down.
LEMMA RankFalls ==
  ASSUME NEW S \in SUBSET Int, IsFiniteSet(S), NEW u \in S, NEW v \in Int, u > v
  PROVE  Rank(S, u) < Rank(S, v)
<1> DEFINE Over(x) == {w \in S : w > x}
<1>1. Over(u) \in SUBSET (Over(v) \ {u}) /\ Over(v) \in SUBSET S /\ u \in Over(v)
  <2>1. \A w \in S : w > u => w > v /\ w # u
    OBVIOUS
  <2> QED
    BY <2>1
<1>2. IsFiniteSet(Over(v))
  BY <1>1, FS_Subset
<1>3. /\ IsFiniteSet(Over(v) \ {u})
      /\ Cardinality(Over(v) \ {u}) = Cardinality(Over(v)) - 1
  BY <1>1, <1>2, FS_RemoveElement
<1>4. Cardinality(Over(u)) <= Cardinality(Over(v) \ {u}) /\ IsFiniteSet(Over(u))
  BY <1>1, <1>3, FS_Subset
<1>5. Cardinality(Over(u)) \in Nat /\ Cardinality(Over(v)) \in Nat
  BY <1>2, <1>4, FS_CardinalityType
<1> QED
  BY <1>3, <1>4, <1>5 DEF Rank

\* What stands further down is older.
LEMMA RankOrders ==
  ASSUME NEW S \in SUBSET Int, IsFiniteSet(S), NEW u \in S, NEW v \in S, Rank(S, u) < Rank(S, v)
  PROVE  u > v
<1>1. Rank(S, u) \in Nat /\ Rank(S, v) \in Nat
  BY RankType
<1>2. ~(v > u) /\ v # u
  BY <1>1, RankFalls
<1> QED
  BY <1>2

\* A new upload comes on top and moves the others down by one.
LEMMA RankOnTop ==
  ASSUME NEW S \in SUBSET Int, IsFiniteSet(S), NEW p \in Int, \A w \in S : w < p
  PROVE  Rank(S \cup {p}, p) = 0 /\ \A v \in S : Rank(S \cup {p}, v) = Rank(S, v) + 1
<1>1. Rank(S \cup {p}, p) = 0
  <2>1. \A w \in S \cup {p} : ~(w > p)
    OBVIOUS
  <2>2. {w \in S \cup {p} : w > p} = {}
    BY <2>1
  <2> QED
    BY <2>2, FS_EmptySet DEF Rank
<1>2. ASSUME NEW v \in S PROVE Rank(S \cup {p}, v) = Rank(S, v) + 1
  <2> DEFINE Over == {w \in S : w > v}
  <2>1. {w \in S \cup {p} : w > v} = Over \cup {p} /\ p \notin Over
    BY <1>2
  <2>2. IsFiniteSet(Over)
    <3>1. Over \in SUBSET S
      OBVIOUS
    <3> QED
      BY <3>1, FS_Subset
  <2>3. Cardinality(Over \cup {p}) = Cardinality(Over) + 1
    BY <2>1, <2>2, FS_AddElement
  <2> QED
    BY <2>1, <2>3 DEF Rank
<1> QED
  BY <1>1, <1>2

\* One that goes moves those below it up by one.
LEMMA RankWithout ==
  ASSUME NEW S \in SUBSET Int, IsFiniteSet(S), NEW u \in S, NEW v \in S
  PROVE  Rank(S \ {u}, v) = IF u > v THEN Rank(S, v) - 1 ELSE Rank(S, v)
<1> DEFINE Over == {w \in S : w > v}
<1>1. {w \in S \ {u} : w > v} = Over \ {u}
  OBVIOUS
<1>2. IsFiniteSet(Over)
  <2>1. Over \in SUBSET S
    OBVIOUS
  <2> QED
    BY <2>1, FS_Subset
<1>3. CASE u > v
  <2>1. Cardinality(Over \ {u}) = Cardinality(Over) - 1
    BY <1>2, <1>3, FS_RemoveElement
  <2> QED
    BY <1>1, <1>3, <2>1 DEF Rank
<1>4. CASE ~(u > v)
  <2>1. Over \ {u} = Over
    BY <1>4
  <2> QED
    BY <1>1, <1>4, <2>1 DEF Rank
<1> QED
  BY <1>3, <1>4

\* What the newest n leave out is older than they are; there is nothing left out of n
\* or fewer.
LEMMA NewestIsTop ==
  ASSUME NEW S \in SUBSET Int, IsFiniteSet(S), NEW n \in Int
  PROVE  /\ Newest(S, n) \subseteq S
         /\ \A x \in Newest(S, n), v \in S \ Newest(S, n) : v < x
         /\ Cardinality(S) < n => Newest(S, n) = S
<1>1. \A v \in S : Rank(S, v) \in Nat /\ Rank(S, v) <= Cardinality(S)
  BY RankType
<1>2. Cardinality(S) \in Nat
  BY FS_CardinalityType
<1>3. ASSUME NEW x \in Newest(S, n), NEW v \in S \ Newest(S, n) PROVE v < x
  <2>1. Rank(S, x) < Rank(S, v)
    BY <1>1, <1>3 DEF Newest
  <2> QED
    BY <1>3, <2>1, RankOrders DEF Newest
<1>4. \A v \in S : Cardinality(S) < n => Rank(S, v) < n
  BY <1>1, <1>2
<1> QED
  BY <1>3, <1>4 DEF Newest

\* A page, and what a walk takes of it.
LEMMA Finds ==
  ASSUME TypeOK, NEW c \in Channels, NEW page, page = NextPage(c), job.known \in SUBSET Nat
  PROVE  /\ page \in SUBSET Listed(c) /\ IsFiniteSet(page)
         /\ Taken(page) \subseteq page \ job.known /\ IsFiniteSet(Taken(page))
         /\ \A v \in page \ (job.known \cup Taken(page)), x \in Taken(page) : v < x
         /\ job.kind = "discover" => \A w \in job.known \cap page, x \in Taken(page) : x > w
         /\ ~Satisfied(page) => page \subseteq job.known \cup Taken(page)
<1> DEFINE K == job.known
           new == Unknown(page)
           T == Taken(page)
<1>1. Listed(c) \in SUBSET Int /\ IsFiniteSet(Listed(c))
  BY ListedFinite
<1>2. page \in SUBSET Listed(c)
  BY DEF NextPage
<1>3. new \in SUBSET page /\ new \cap K = {}
  BY <1>1, <1>2 DEF Unknown, list_new_uploads, list_older_uploads
<1>4. IsFiniteSet(page) /\ IsFiniteSet(new) /\ new \in SUBSET Int
  BY <1>1, <1>2, <1>3, FS_Subset
<1>5. Limit - job.took \in Int /\ Limit \in Nat /\ job.took \in Nat
  BY ListingAssumption DEF TypeOK, Job
<1>6. /\ T \in SUBSET new
      /\ \A v \in new \ T, x \in T : v < x
      /\ IsLimited /\ Cardinality(new) < Limit - job.took => T = new
      /\ ~IsLimited => T = new
  BY <1>4, <1>5, NewestIsTop DEF Taken
<1>7. ASSUME job.kind = "discover", NEW w \in K \cap page, NEW x \in new PROVE x > w
  BY <1>7 DEF Unknown, list_new_uploads
<1>8. ASSUME NEW v \in page \ (K \cup T), NEW x \in T PROVE v < x
  <2>1. CASE v \in new
    BY <1>6, <1>8, <2>1
  <2>2. CASE v \notin new
    <3>1. job.kind = "discover" /\ \E w \in K \cap page : ~(v > w)
      BY <1>8, <2>2 DEF Unknown, list_new_uploads, list_older_uploads
    <3>2. PICK w \in K \cap page : ~(v > w)
      BY <3>1
    <3>3. x > w
      BY <1>6, <1>7, <1>8, <3>1
    <3> QED
      BY <1>1, <1>2, <1>3, <1>6, <1>8, <3>2, <3>3
  <2> QED
    BY <2>1, <2>2
<1>9. ASSUME ~Satisfied(page) PROVE page \subseteq K \cup T
  <2>1. Cardinality(new) \in Nat
    BY <1>4, FS_CardinalityType
  <2>2. T = new
    BY <1>5, <1>6, <1>9, <2>1 DEF Satisfied
  <2>3. page \subseteq K \cup new
    BY <1>9 DEF Satisfied, Unknown, list_new_uploads, list_older_uploads
  <2> QED
    BY <2>2, <2>3
<1>10. IsFiniteSet(T)
  BY <1>4, <1>6, FS_Subset
<1> QED
  BY <1>2, <1>3, <1>4, <1>6, <1>7, <1>8, <1>9, <1>10

-----------------------------------------------------------------------------
(* Types *)

LEMMA SlotType ==
  ASSUME NEW pc \in {"free", "queued", "next", "listing"}, NEW kind \in Kind, NEW c \in Channels \cup {None}
  PROVE  Slot(pc, kind, c) \in Job /\ Slot(pc, kind, c).pc = pc
  BY 0 \in Nat DEF Slot, Job

\* A job that walks has a channel.
WalkHasChannel == job.pc \in {"listing", "commit"} => job.cur \in Channels

LEMMA EnqueueType ==
  ASSUME job \in Job, WalkHasChannel,
         NEW kind \in Kind, NEW c \in Channels \cup {None}, Enqueue(kind, c)
  PROVE  job' \in Job /\ WalkHasChannel'
<1>1. CASE job.pc = "free"
  <2>1. Slot("queued", kind, c) \in Job /\ Slot("queued", kind, c).pc = "queued"
    BY SlotType
  <2> QED
    BY <1>1, <2>1 DEF Enqueue, WalkHasChannel
<1>2. CASE job.pc # "free"
  BY <1>2 DEF Enqueue, WalkHasChannel
<1> QED
  BY <1>1, <1>2

LEMMA FreeType == Free \in Job /\ Free.pc = "free"
  BY SlotType DEF Free, Kind, None

LEMMA RowTypes ==
  /\ NoChannel \in Channel /\ NewChannel \in Channel
  /\ [NewChannel EXCEPT !.auto = TRUE] \in Channel
  /\ NoVideos \in [Upload -> Status]
  /\ IngestStatus \in Status
  BY DEF NoChannel, NewChannel, Channel, NoVideos, Status, IngestStatus

LEMMA InitType == Init => TypeOK
<1> SUFFICES ASSUME Init PROVE TypeOK
  OBVIOUS
<1>1. channel \in [Channels -> Channel] /\ video \in [Channels -> [Upload -> Status]]
  BY RowTypes DEF Init
<1>2. job \in Job /\ job.pc = "free"
  BY FreeType DEF Init
<1>3. requests \in Nat /\ faults \in Nat
  BY ListingAssumption DEF Init
<1> QED
  BY <1>1, <1>2, <1>3 DEF Init, TypeOK

LEMMA RequestType == ASSUME TypeOK, Request PROVE TypeOK'
<1> USE DEF TypeOK, WalkHasChannel
<1>1. "discover" \in Kind /\ "load_older" \in Kind /\ None \in Channels \cup {None}
  BY DEF Kind
<1>2. ASSUME SpendRequest PROVE requests' \in Nat
  BY <1>2 DEF SpendRequest
<1>3. CASE Refresh
  BY <1>1, <1>2, <1>3, EnqueueType DEF Refresh
<1>4. ASSUME NEW c \in Channels, AddChannel(c) PROVE TypeOK'
  <2>1. job' \in Job /\ job'.cur = job.cur /\ job'.pc = job.pc
    BY <1>4 DEF AddChannel, Job, Oddity
  <2>2. channel' \in [Channels -> Channel]
    BY <1>4, RowTypes DEF AddChannel
  <2> QED
    BY <1>2, <1>4, <2>1, <2>2 DEF AddChannel
<1>5. ASSUME NEW c \in Channels, EnqueueAdded(c) PROVE TypeOK'
  BY <1>1, <1>5, EnqueueType DEF EnqueueAdded
<1>6. ASSUME NEW c \in Channels, LoadOlder(c) PROVE TypeOK'
  BY <1>1, <1>2, <1>6, EnqueueType DEF LoadOlder
<1>7. ASSUME NEW c \in Channels, SetAuto(c) PROVE TypeOK'
  <2>1. [channel[c] EXCEPT !.auto = ~@] \in Channel
    BY DEF Channel
  <2>2. channel' = [channel EXCEPT ![c] = [channel[c] EXCEPT !.auto = ~@]]
    BY <1>7 DEF SetAuto
  <2>3. channel' \in [Channels -> Channel]
    BY <2>1, <2>2
  <2> QED
    BY <1>2, <1>7, <2>3 DEF SetAuto
<1>8. ASSUME NEW c \in Channels, DeleteChannel(c) PROVE TypeOK'
  <2>1. /\ channel' \in [Channels -> Channel]
        /\ video' \in [Channels -> [Upload -> Status]]
        /\ base' \in [Channels -> {0} \cup Upload]
    BY <1>8, RowTypes DEF DeleteChannel
  <2>2. odd' \in [Channels -> SUBSET Oddity]
    BY <1>8 DEF DeleteChannel
  <2> QED
    BY <1>2, <1>8, <2>1, <2>2 DEF DeleteChannel
<1> QED
  BY <1>3, <1>4, <1>5, <1>6, <1>7, <1>8 DEF Request

LEMMA ListedUploads == ASSUME TypeOK, NEW c \in Channels PROVE Listed(c) \subseteq Upload
<1>1. CASE published[c] = 0
  BY <1>1 DEF Listed
<1>2. CASE published[c] # 0
  <2>1. PICK d \in Channels : published[c] \in 1 .. MaxUploads[d]
    BY <1>2 DEF TypeOK, Upload
  <2>2. 1 .. published[c] \subseteq 1 .. MaxUploads[d]
    BY <2>1, ListingAssumption
  <2> QED
    BY <2>2 DEF Listed, Upload
<1> QED
  BY <1>1, <1>2

LEMMA RunJobType == ASSUME TypeOK, RunJob PROVE TypeOK'
<1> USE DEF TypeOK, WalkHasChannel
<1>1. CASE Begin
  <2>1. ToWalk \in SUBSET Channels /\ {c \in ToWalk : channel[c].auto} \in SUBSET Channels
    BY DEF ToWalk, There
  <2>2. job' \in Job
    BY <1>1, <2>1 DEF Begin, Job
  <2> QED
    BY <1>1, <2>2 DEF Begin
<1>2. ASSUME NEW c \in Channels, ReadKnown(c) PROVE TypeOK'
  <2>1. Stored(c) \in SUBSET Upload
    BY DEF Stored
  <2>2. Slot("listing", job.kind, c) \in Job
    BY SlotType DEF Job
  <2>3. job' \in Job /\ job'.cur = c
    BY <1>2, <2>1, <2>2 DEF ReadKnown, Job, Slot
  <2> QED
    BY <1>2, <2>3 DEF ReadKnown
<1>3. CASE ReadPage
  <2> DEFINE page == NextPage(job.cur)
             taken == Taken(page)
             odds == job.odd \cup OddBy(job.cur, page)
  <2>1. job.cur \in Channels /\ job.known \in SUBSET Nat
    BY <1>3, UploadNat DEF ReadPage, Job
  <2>2. taken \in SUBSET Upload /\ IsFiniteSet(taken)
    BY <2>1, Finds, ListedUploads
  <2>3. odds \in SUBSET Oddity
    BY DEF OddBy, Job
  <2>4. Cardinality(taken) \in Nat
    BY <2>2, FS_CardinalityType
  <2>5. PageSize \in Nat
    BY ListingAssumption
  <2>6. PICK done \in BOOLEAN, met \in BOOLEAN :
          job' = [job EXCEPT !.pc = IF done THEN "commit" ELSE @,
                             !.off = @ + PageSize,
                             !.found = @ \cup taken,
                             !.took = @ + Cardinality(taken),
                             !.again = @ \cup (job.found \cap taken),
                             !.met = met,
                             !.fresh = 0,
                             !.odd = odds]
    <3> DEFINE done == Satisfied(page) \/ Exhausted(job.cur)
               met == job.met \/ job.known \cap page # {}
    <3>1. done \in BOOLEAN /\ met \in BOOLEAN
      BY DEF Satisfied, Exhausted, Job
    <3>2. job' = [job EXCEPT !.pc = IF done THEN "commit" ELSE @,
                             !.off = @ + PageSize,
                             !.found = @ \cup taken,
                             !.took = @ + Cardinality(taken),
                             !.again = @ \cup (job.found \cap taken),
                             !.met = met,
                             !.fresh = 0,
                             !.odd = odds]
      BY <1>3 DEF ReadPage
    <3> HIDE DEF done, met, odds, taken
    <3> QED
      BY <3>1, <3>2
  <2> HIDE DEF taken, odds
  <2>7. job' \in Job /\ job'.cur = job.cur
    <3>1. /\ job.off + PageSize \in Nat /\ job.took + Cardinality(taken) \in Nat
          /\ job.found \cup taken \in SUBSET Upload
          /\ job.again \cup (job.found \cap taken) \in SUBSET Upload
      BY <2>2, <2>4, <2>5 DEF Job
    <3>2. (IF done THEN "commit" ELSE job.pc) \in {"free", "queued", "next", "listing", "commit"}
      BY DEF Job
    <3> QED
      BY <2>3, <2>6, <3>1, <3>2 DEF Job
  <2> QED
    BY <1>3, <2>1, <2>7 DEF ReadPage
<1>4. CASE Commit
  <2> DEFINE c == job.cur
             row == [v \in Upload |-> IF v \in job.found \ Short(c) THEN IngestStatus ELSE video[c][v]]
  <2>1. c \in Channels
    BY <1>4 DEF Commit
  <2>2. row \in [Upload -> Status]
    BY <2>1, RowTypes
  <2>3. video' \in [Channels -> [Upload -> Status]]
    BY <1>4, <2>2 DEF Commit
  <2>4. channel' \in [Channels -> Channel]
    BY <1>4, <2>1 DEF Commit, Channel
  <2>5. odd' \in [Channels -> SUBSET Oddity]
    BY <1>4, <2>1 DEF Commit, Job
  <2>6. job' \in Job /\ job'.pc = "next"
    <3>1. Slot("next", job.kind, None) \in Job
      BY SlotType DEF Job
    <3> QED
      BY <1>4, <3>1 DEF Commit, Job, Slot
  <2> QED
    BY <1>4, <2>3, <2>4, <2>5, <2>6 DEF Commit
<1>5. CASE CommitFails \/ Done
  BY <1>5, FreeType DEF CommitFails, Done
<1> QED
  BY <1>1, <1>2, <1>3, <1>4, <1>5 DEF RunJob

LEMMA FaultType == ASSUME TypeOK, Fault PROVE TypeOK'
<1> USE DEF TypeOK, WalkHasChannel
<1>1. CASE JobFails
  BY <1>1, FreeType DEF JobFails, SpendFault
<1>2. ASSUME NEW c \in Channels, NEW v \in Upload, Remove(c, v) PROVE TypeOK'
  <2>1. job' \in Job /\ job'.pc = job.pc /\ job'.cur = job.cur
    BY <1>2 DEF Remove, Job, Oddity
  <2> QED
    BY <1>2, <2>1 DEF Remove, SpendFault
<1> QED
  BY <1>1, <1>2 DEF Fault

LEMMA NextType == ASSUME TypeOK, [Next]_vars PROVE TypeOK'
<1>1. ASSUME NEW c \in Channels, Publish(c) PROVE TypeOK'
  <2>1. published[c] + 1 \in Upload
    BY <1>1, ListedFinite, ListingAssumption DEF Publish, Upload
  <2>2. job' \in Job /\ job'.pc = job.pc /\ job'.cur = job.cur
    <3> DEFINE odds == job.odd \cup IF job.fresh + 1 < PageSize THEN {} ELSE {"slid"}
    <3>1. odds \in SUBSET Oddity /\ job.fresh + 1 \in Nat
      BY DEF TypeOK, Job, Oddity
    <3>2. job' = job \/ job' = [job EXCEPT !.fresh = @ + 1, !.odd = odds]
      BY <1>1 DEF Publish
    <3> HIDE DEF odds
    <3> QED
      BY <3>1, <3>2 DEF TypeOK, Job
  <2> QED
    BY <1>1, <2>1, <2>2 DEF Publish, TypeOK
<1>2. CASE Schedule
  <2>1. "discover" \in Kind /\ None \in Channels \cup {None}
    BY DEF Kind
  <2> QED
    BY <1>2, <2>1, EnqueueType DEF Schedule, TypeOK, WalkHasChannel
<1>3. CASE UNCHANGED vars
  BY <1>3 DEF vars, TypeOK
<1> QED
  BY <1>1, <1>2, <1>3, RequestType, RunJobType, FaultType DEF Next

-----------------------------------------------------------------------------
(* What leaves the rows or the walk alone *)

\* Channels publish and uploads are removed, nothing else is listed.
TopOnly ==
  \A d \in Channels :
    /\ published'[d] \in Nat /\ published[d] <= published'[d]
    /\ removed'[d] \subseteq removed[d] \cup (1 .. published[d])
    /\ \A v \in Listed(d)' : v \in Listed(d) \/ (v \in Nat /\ v > published[d])

LEMMA SameIsTopOnly == ASSUME TypeOK, UNCHANGED <<published, removed>> PROVE TopOnly
<1> SUFFICES ASSUME NEW d \in Channels
             PROVE  /\ published'[d] \in Nat /\ published[d] <= published'[d]
                    /\ removed'[d] \subseteq removed[d] \cup (1 .. published[d])
                    /\ \A v \in Listed(d)' : v \in Listed(d)
  BY DEF TopOnly
<1>1. published[d] \in Nat
  BY ListedFinite
<1> QED
  BY <1>1 DEF Listed

LEMMA PublishIsTopOnly == ASSUME TypeOK, NEW c \in Channels, Publish(c) PROVE TopOnly
<1> SUFFICES ASSUME NEW d \in Channels
             PROVE  /\ published'[d] \in Nat /\ published[d] <= published'[d]
                    /\ removed'[d] \subseteq removed[d] \cup (1 .. published[d])
                    /\ \A v \in Listed(d)' : v \in Listed(d) \/ (v \in Nat /\ v > published[d])
  BY DEF TopOnly
<1>1. published[d] \in Nat /\ published'[d] \in {published[d], published[d] + 1}
  BY ListedFinite DEF Publish, TypeOK
<1>2. removed' = removed
  BY DEF Publish
<1> QED
  BY <1>1, <1>2 DEF Listed

LEMMA RemoveIsTopOnly ==
  ASSUME TypeOK, NEW c \in Channels, NEW u \in Upload, Remove(c, u)
  PROVE  TopOnly
<1> SUFFICES ASSUME NEW d \in Channels
             PROVE  /\ published'[d] \in Nat /\ published[d] <= published'[d]
                    /\ removed'[d] \subseteq removed[d] \cup (1 .. published[d])
                    /\ \A v \in Listed(d)' : v \in Listed(d)
  BY DEF TopOnly
<1>1. published[d] \in Nat /\ published'[d] = published[d]
  BY ListedFinite DEF Remove
<1>2. removed[d] \subseteq removed'[d]
  BY DEF Remove, TypeOK
<1>3. removed'[d] \subseteq removed[d] \cup Listed(d)
  BY DEF Remove, TypeOK
<1> QED
  BY <1>1, <1>2, <1>3 DEF Listed

LEMMA StoredTypes ==
  ASSUME TypeOK, NEW c \in Channels
  PROVE  Stored(c) \in SUBSET Nat /\ base[c] \in Nat /\ published[c] \in Nat
<1>1. {0} \cup Upload \subseteq Nat
  BY UploadNat
<1>2. base[c] \in {0} \cup Upload /\ published[c] \in {0} \cup Upload
  BY DEF TypeOK
<1>3. Stored(c) \subseteq Upload
  BY DEF Stored
<1> QED
  BY <1>1, <1>2, <1>3

LEMMA RowsKept ==
  ASSUME TypeOK, RowsAreSound, TopOnly, UNCHANGED <<There, video, base, odd>>
  PROVE  RowsAreSound'
<1>1. \A c \in Channels : Stored(c)' = Stored(c) /\ Short(c)' = Short(c)
  BY DEF Stored, Short
<1>2. RowsExist'
  <2> SUFFICES ASSUME NEW c \in Channels
               PROVE  /\ base[c] <= published'[c]
                      /\ removed'[c] \subseteq 1 .. published'[c]
                      /\ Stored(c) \subseteq 1 .. published'[c]
                      /\ c \notin There => Stored(c) = {}
    BY <1>1 DEF RowsExist
  <2> QED
    BY StoredTypes DEF RowsAreSound, RowsExist, TopOnly
<1>3. BackfillIsTop'
  <2> SUFFICES ASSUME NEW c \in There, odd[c] \cap {"slid", "readded"} = {},
                      NEW v \in Listed(c)' \ (Stored(c) \cup Short(c)), v <= base[c],
                      NEW w \in Stored(c)
               PROVE  v < w
    BY <1>1 DEF BackfillIsTop, There
  <2>1. c \in Channels /\ base[c] <= published[c]
    BY DEF There, RowsAreSound, RowsExist
  <2>2. v \in Listed(c)
    BY <2>1, StoredTypes DEF TopOnly
  <2> QED
    BY <2>2 DEF RowsAreSound, BackfillIsTop
<1>4. NoGap'
  <2> SUFFICES ASSUME NEW c \in There, odd[c] = {},
                      NEW v \in Listed(c)' \ (Stored(c) \cup Short(c)), v \in Upload
               PROVE  (\A w \in Stored(c) : w > v) \/ (\A w \in Stored(c) : v > w)
    BY <1>1 DEF NoGap, There
  <2>1. c \in Channels /\ Stored(c) \subseteq 1 .. published[c]
    BY DEF There, RowsAreSound, RowsExist
  <2>2. CASE v \in Listed(c)
    BY <2>2 DEF RowsAreSound, NoGap
  <2>3. CASE v \in Nat /\ v > published[c]
    BY <2>1, <2>3, StoredTypes
  <2> QED
    BY <2>1, <2>2, <2>3 DEF TopOnly
<1>5. QueuedOnlyIfNew'
  BY DEF RowsAreSound, QueuedOnlyIfNew, There
<1> QED
  BY <1>2, <1>3, <1>4, <1>5 DEF RowsAreSound

\* The walk reads no page, and its channel stays.
WalkGoesOn ==
  /\ \A f \in {"pc", "kind", "cur", "known", "off", "found", "met"} : job'[f] = job[f]
  /\ job'.odd \in {job.odd, job.odd \cup {"slid"}}

LEMMA SameWalk ==
  ASSUME WalkGoesOn, UNCHANGED <<There, video, base, odd>>
  PROVE  /\ Walking' = Walking
         /\ \A c \in Channels : Stored(c)' = Stored(c) /\ Short(c)' = Short(c)
         /\ \A v : LeftOut(v) => LeftOut(v)'
         /\ NewOrOld' = NewOrOld
<1>1. /\ job'.pc = job.pc /\ job'.kind = job.kind /\ job'.cur = job.cur /\ job'.known = job.known
      /\ job'.off = job.off /\ job'.found = job.found /\ job'.met = job.met
  BY DEF WalkGoesOn
<1>2. "readded" \in job'.odd <=> "readded" \in job.odd
  BY DEF WalkGoesOn
<1>3. job.odd # {} => job'.odd # {}
  BY DEF WalkGoesOn
<1> QED
  BY <1>1, <1>2, <1>3 DEF Walking, Stored, Short, LeftOut, NewOrOld

\* What a walk knows, and what it has found at its end, outlasts the channel's moves.
LEMMA EndKept ==
  ASSUME TypeOK, IInv, TopOnly, WalkGoesOn, UNCHANGED <<There, video, base, odd>>
  PROVE  WalkKnows' /\ WalkFound' /\ WalkQueues'
<1>1. /\ job'.pc = job.pc /\ job'.kind = job.kind /\ job'.cur = job.cur /\ job'.known = job.known
      /\ job'.found = job.found /\ job.odd \subseteq job'.odd
  BY DEF WalkGoesOn
<1>2. job.pc \in {"listing", "commit"} => job.cur \in Channels
  BY DEF TypeOK
<1>3. WalkKnows'
  BY <1>1, <1>2, SameWalk DEF IInv, WalkIsSound, WalkKnows
<1>4. WalkFound'
  <2> SUFFICES ASSUME job.pc = "commit"
               PROVE  /\ job.found \subseteq 1 .. published'[job.cur]
                      /\ Walking /\ "slid" \notin job.odd =>
                           \A v \in Listed(job.cur)' \ (job.known \cup job.found) : LeftOut(v)
    BY <1>1, SameWalk DEF WalkFound
  <2>1. job.found \subseteq 1 .. published[job.cur] /\ job.cur \in Channels
    BY <1>2 DEF IInv, WalkIsSound, WalkFound
  <2>2. job.found \subseteq 1 .. published'[job.cur]
    BY <2>1, StoredTypes DEF TopOnly
  <2>3. ASSUME Walking, "slid" \notin job.odd,
               NEW v \in Listed(job.cur)' \ (job.known \cup job.found)
        PROVE  LeftOut(v)
    <3>1. CASE v \in Listed(job.cur)
      BY <2>3, <3>1 DEF IInv, WalkIsSound, WalkFound
    <3>2. CASE v \in Nat /\ v > published[job.cur]
      <4>1. job.known \subseteq 1 .. published[job.cur]
        BY <2>1, <2>3 DEF IInv, WalkIsSound, WalkKnows, RowsAreSound, RowsExist
      <4>2. v > base[job.cur]
        BY <2>1, <3>2, StoredTypes DEF IInv, RowsAreSound, RowsExist
      <4>3. \A w \in job.known \cup job.found : v > w
        BY <2>1, <3>2, <4>1, StoredTypes
      <4> QED
        BY <4>2, <4>3 DEF LeftOut
    <3>3. v \in Listed(job.cur) \/ (v \in Nat /\ v > published[job.cur])
      BY <1>1, <2>1, <2>3 DEF TopOnly
    <3> QED
      BY <3>1, <3>2, <3>3
  <2> QED
    BY <2>2, <2>3
<1>5. WalkQueues'
  BY <1>1, <1>2, SameWalk DEF IInv, WalkIsSound, WalkQueues
<1> QED
  BY <1>3, <1>4, <1>5

\* What happens to other channels is nothing to a walk.
LEMMA SameChannel ==
  ASSUME WalkIsSound, UNCHANGED <<job, Walking>>,
         UNCHANGED <<base[job.cur], odd[job.cur], published[job.cur]>>,
         UNCHANGED <<Listed(job.cur), Stored(job.cur), Short(job.cur)>>
  PROVE  WalkIsSound'
<1>1. \A v : NotYet(v)' = NotYet(v) /\ Behind(v)' = Behind(v) /\ LeftOut(v)' = LeftOut(v)
  BY DEF NotYet, Behind, Above, LeftOut
<1>2. PagesRead' = PagesRead /\ NothingPassed' = NothingPassed
  BY <1>1 DEF PagesRead, NothingPassed, NewOrOld, Above
<1> QED
  BY <1>1, <1>2 DEF WalkIsSound, WalkKnows, WalkReads, WalkFound, WalkQueues

LEMMA WalkKept ==
  ASSUME IInv, UNCHANGED <<published, removed, There, video, base, odd, job>>
  PROVE  WalkIsSound'
<1>1. Walking' = Walking
  BY DEF Walking
<1>2. /\ UNCHANGED <<base[job.cur], odd[job.cur], published[job.cur]>>
      /\ UNCHANGED <<Listed(job.cur), Stored(job.cur), Short(job.cur)>>
  BY DEF Listed, Stored, Short
<1> QED
  BY <1>1, <1>2, SameChannel DEF IInv

LEMMA NoWalk == ASSUME job'.pc \notin {"listing", "commit"} PROVE WalkIsSound'
  BY DEF WalkIsSound, WalkKnows, WalkReads, WalkFound, WalkQueues

\* What a list becomes under the walk's eyes: the same, one longer, or without one
\* upload that the walk has yet to reach.
Slips(c) ==
  \/ Listed(c)' = Listed(c) /\ job'.fresh = job.fresh /\ job'.odd = job.odd
  \/ /\ Listed(c)' = Listed(c) \cup {published[c] + 1}
     /\ job.off # 0 => /\ job'.fresh = job.fresh + 1
                       /\ job'.fresh < PageSize \/ "slid" \in job'.odd
     /\ job.off = 0 => job'.fresh = job.fresh
  \/ /\ job'.fresh = job.fresh
     /\ \E u \in Listed(c) :
          /\ Listed(c)' = Listed(c) \ {u}
          /\ job.off # 0 => Rank(Listed(c), u) >= job.off \/ "slid" \in job'.odd

LEMMA PagesKept ==
  ASSUME TypeOK, IInv, TopOnly, WalkGoesOn, UNCHANGED <<There, video, base, odd>>,
         job.pc = "listing" => Slips(job.cur)
  PROVE  WalkReads'
<1> DEFINE c == job.cur
           L == Listed(c)
           M == Listed(c)'
<1>1. /\ job'.pc = job.pc /\ job'.kind = job.kind /\ job'.cur = job.cur /\ job'.known = job.known
      /\ job'.off = job.off /\ job'.found = job.found /\ job'.met = job.met
      /\ job'.odd \in {job.odd, job.odd \cup {"slid"}}
  BY DEF WalkGoesOn
<1> SUFFICES ASSUME job.pc = "listing"
             PROVE  PagesRead' /\ (Walking /\ "slid" \notin job'.odd => NothingPassed')
  BY <1>1, SameWalk DEF WalkReads
<1>2. c \in Channels /\ Slips(c) /\ PagesRead
  BY DEF TypeOK, IInv, WalkIsSound, WalkReads
<1>3. /\ L \in SUBSET (1 .. published[c]) /\ IsFiniteSet(L) /\ published[c] \in Nat
      /\ base[c] \in Nat /\ base[c] <= published[c]
  BY <1>2, ListedFinite, StoredTypes DEF IInv, RowsAreSound, RowsExist
<1>4. job.off \in Nat /\ job.fresh \in Nat /\ job'.fresh \in Nat /\ PageSize \in Nat \ {0}
  <2>1. job.off \in Nat /\ job.fresh \in Nat /\ PageSize \in Nat \ {0}
    BY ListingAssumption DEF TypeOK, Job
  <2> QED
    BY <1>2, <2>1 DEF Slips
<1>5. PagesRead'
  <2>1. job.off = 0 => job'.fresh = 0
    BY <1>2 DEF Slips, PagesRead
  <2>2. job.found \subseteq 1 .. published'[c]
    BY <1>2, <1>3 DEF PagesRead, TopOnly
  <2>3. job'.kind = "load_older" /\ "dug" \notin job'.odd => job.kind = "load_older" /\ "dug" \notin job.odd
    BY <1>1
  <2> QED
    BY <1>1, <1>2, <2>1, <2>2, <2>3 DEF PagesRead
<1>6. ASSUME Walking, "slid" \notin job'.odd PROVE NothingPassed'
  <2>1. NothingPassed /\ job.known = Stored(c)
    BY <1>1, <1>6 DEF IInv, WalkIsSound, WalkReads, WalkKnows
  <2>2. job.known \subseteq 1 .. published[c] /\ job.found \subseteq 1 .. published[c]
    BY <1>2, <2>1 DEF PagesRead, IInv, RowsAreSound, RowsExist
  <2>3. NewOrOld'
    BY <2>1, SameWalk DEF NothingPassed
  <2>4. \A v : Rank(L, v) \in Nat
    BY <1>3, RankType
  <2>5. Above' = job.off - PageSize + job'.fresh /\ Above = job.off - PageSize + job.fresh
    BY <1>1 DEF Above
  <2> DEFINE Goes(v) == /\ Rank(L, v) >= job.off => Rank(M, v) >= job.off
                        /\ Rank(L, v) < Above => Rank(M, v) < Above'
  <2>6. ASSUME NEW v \in L, v \in M PROVE Goes(v)
    <3>1. CASE M = L /\ job'.fresh = job.fresh
      BY <2>5, <3>1
    <3>2. CASE M = L \cup {published[c] + 1} /\ job.off # 0 /\ job'.fresh = job.fresh + 1
      <4>1. Rank(M, v) = Rank(L, v) + 1
        <5>1. published[c] + 1 \in Int /\ (\A w \in L : w < published[c] + 1) /\ L \in SUBSET Int
          BY <1>3
        <5> QED
          BY <1>3, <2>6, <3>2, <5>1, RankOnTop
      <4> QED
        BY <1>4, <2>4, <2>5, <3>2, <4>1
    <3>3. CASE M = L \cup {published[c] + 1} /\ job.off = 0
      <4>1. Rank(M, v) \in Nat
        <5>1. IsFiniteSet(M)
          BY <1>3, <3>3, FS_AddElement
        <5> QED
          BY <5>1, RankType
      <4>2. job.fresh = 0
        BY <1>2, <3>3 DEF PagesRead
      <4> QED
        BY <1>4, <2>4, <2>5, <3>3, <4>1, <4>2
    <3>4. ASSUME NEW u \in L, M = L \ {u}, job'.fresh = job.fresh,
                 job.off # 0 => Rank(L, u) >= job.off
          PROVE  Goes(v)
      <4>1. Rank(M, v) = IF u > v THEN Rank(L, v) - 1 ELSE Rank(L, v)
        BY <1>3, <2>6, <3>4, RankWithout
      <4>2. u > v => Rank(L, u) < Rank(L, v)
        BY <1>3, <2>6, RankFalls
      <4>3. job.off = 0 => Rank(M, v) \in Nat
        <5>1. IsFiniteSet(M)
          BY <1>3, <3>4, FS_RemoveElement
        <5> QED
          BY <5>1, RankType
      <4> QED
        BY <1>4, <2>4, <2>5, <3>4, <4>1, <4>2, <4>3
    <3> QED
      BY <1>2, <1>6, <3>1, <3>2, <3>3, <3>4 DEF Slips
  <2>7. job'.fresh < PageSize
    <3>1. job.off = 0 => job.fresh = 0
      BY <1>2 DEF PagesRead
    <3> QED
      BY <1>2, <1>4, <1>6, <2>1, <3>1 DEF Slips, NothingPassed
  <2>8. ASSUME NEW v \in M \ (job.known \cup job.found) PROVE NotYet(v)' \/ Behind(v)'
    <3>1. CASE v \in L
      <4>1. NotYet(v) \/ Behind(v)
        BY <2>1, <2>8, <3>1 DEF NothingPassed
      <4> QED
        BY <1>1, <2>6, <2>8, <3>1, <4>1 DEF NotYet, Behind
    <3>2. CASE v \notin L
      <4>1. v = published[c] + 1 /\ M = L \cup {v}
        BY <1>2, <2>8, <3>2 DEF Slips
      <4>2. Rank(M, v) = 0
        <5>1. v \in Int /\ (\A w \in L : w < v) /\ L \in SUBSET Int
          BY <1>3, <4>1
        <5> QED
          BY <1>3, <4>1, <5>1, RankOnTop
      <4>3. v > base[c] /\ \A w \in job.known \cup job.found : v > w
        BY <1>3, <2>2, <4>1
      <4>4. CASE job.off = 0
        BY <1>1, <1>2, <4>2, <4>4 DEF NotYet, PagesRead
      <4>5. CASE job.off # 0
        <5>1. v \notin L /\ (M = L \/ (\E u \in L : M = L \ {u}) => v \in L)
          BY <2>8, <3>2
        <5>2. job'.fresh = job.fresh + 1 /\ job.off >= PageSize
          BY <1>2, <4>5, <5>1 DEF Slips, PagesRead
        <5> QED
          BY <1>1, <1>4, <2>5, <4>2, <4>3, <5>2 DEF Behind
      <4> QED
        BY <4>4, <4>5
    <3> QED
      BY <3>1, <3>2
  <2>9. ASSUME job.kind = "discover", NEW w \in job.known \cap M, NEW x \in job.found
        PROVE  x > w \/ Rank(M, w) < Above'
    <3>1. w \in L
      BY <1>2, <1>3, <2>2, <2>9 DEF Slips
    <3> QED
      BY <2>1, <2>6, <2>9, <3>1 DEF NothingPassed
  <2> QED
    BY <1>1, <2>3, <2>7, <2>8, <2>9 DEF NothingPassed
<1> QED
  BY <1>5, <1>6

-----------------------------------------------------------------------------
(* Requests *)

\* The queue of a job slot that was free, or the job as it was.
LEMMA EnqueueWalk ==
  ASSUME IInv, NEW kind, NEW c, Enqueue(kind, c),
         UNCHANGED <<published, removed, There, video, base, odd>>
  PROVE  RowsAreSound' /\ WalkIsSound'
<1>1. TypeOK /\ TopOnly
  BY SameIsTopOnly DEF IInv
<1>2. RowsAreSound'
  BY <1>1, RowsKept DEF IInv
<1>3. CASE job.pc = "free"
  <2>1. job'.pc = "queued"
    BY <1>3 DEF Enqueue, Slot
  <2> QED
    BY <1>2, <2>1, NoWalk
<1>4. CASE job.pc # "free"
  BY <1>1, <1>2, <1>4, WalkKept DEF Enqueue
<1> QED
  BY <1>3, <1>4

LEMMA PublishKeeps ==
  ASSUME IInv, TypeOK', NEW c \in Channels, Publish(c)
  PROVE  RowsAreSound' /\ WalkIsSound'
<1>1. TypeOK /\ TopOnly /\ UNCHANGED <<There, video, base, odd>>
  BY PublishIsTopOnly DEF IInv, Publish, There
<1>2. /\ \A d \in Channels \ {c} : Listed(d)' = Listed(d)
      /\ Listed(c)' = Listed(c) \cup {published[c] + 1}
  <2>1. published[c] \in Nat /\ removed' = removed /\ published'[c] = published[c] + 1
    BY <1>1, ListedFinite DEF Publish, TypeOK
  <2>2. published[c] + 1 \notin removed[c]
    BY <1>1, <2>1 DEF IInv, RowsAreSound, RowsExist
  <2>3. \A d \in Channels \ {c} : published'[d] = published[d]
    BY <1>1 DEF Publish, TypeOK
  <2>4. 1 .. published[c] + 1 = (1 .. published[c]) \cup {published[c] + 1}
    BY <2>1
  <2> QED
    BY <2>1, <2>2, <2>3, <2>4 DEF Listed
<1>3. RowsAreSound'
  BY <1>1, RowsKept DEF IInv
<1>4. WalkGoesOn
  BY <1>1 DEF Publish, WalkGoesOn, TypeOK, Job
<1>5. ASSUME job.pc = "listing" PROVE Slips(job.cur)
  <2>1. job.cur \in Channels /\ job.off \in Nat /\ job'.cur = job.cur
    BY <1>1, <1>4, <1>5 DEF TypeOK, Job, WalkGoesOn
  <2>2. CASE job.cur # c
    BY <1>2, <2>1, <2>2 DEF Publish, BetweenPages, Slips
  <2>3. CASE job.cur = c
    <3>1. CASE job.off = 0
      BY <1>2, <2>3, <3>1 DEF Publish, BetweenPages, Slips
    <3>2. CASE job.off # 0
      <4>1. BetweenPages(c)
        BY <1>5, <2>1, <2>3, <3>2 DEF BetweenPages
      <4>2. /\ job'.fresh = job.fresh + 1
            /\ job'.odd = job.odd \cup IF job.fresh + 1 < PageSize THEN {} ELSE {"slid"}
        BY <1>1, <4>1 DEF Publish, TypeOK, Job
      <4> QED
        BY <1>2, <2>1, <2>3, <3>2, <4>2 DEF Slips
    <3> QED
      BY <3>1, <3>2
  <2> QED
    BY <2>2, <2>3
<1> QED
  BY <1>1, <1>3, <1>4, <1>5, EndKept, PagesKept DEF WalkIsSound

LEMMA RemoveKeeps ==
  ASSUME IInv, TypeOK', NEW c \in Channels, NEW u \in Upload, Remove(c, u)
  PROVE  RowsAreSound' /\ WalkIsSound'
<1>1. TypeOK /\ TopOnly /\ UNCHANGED <<There, video, base, odd>>
  BY RemoveIsTopOnly DEF IInv, Remove, There
<1>2. /\ \A d \in Channels \ {c} : Listed(d)' = Listed(d)
      /\ u \in Listed(c) /\ Listed(c)' = Listed(c) \ {u}
  BY <1>1 DEF Remove, Listed, TypeOK
<1>3. RowsAreSound'
  BY <1>1, RowsKept DEF IInv
<1>4. WalkGoesOn
  BY <1>1 DEF Remove, WalkGoesOn, TypeOK, Job
<1>5. ASSUME job.pc = "listing" PROVE Slips(job.cur)
  <2>1. job.cur \in Channels /\ job.off \in Nat /\ job'.cur = job.cur
    BY <1>1, <1>4, <1>5 DEF TypeOK, Job, WalkGoesOn
  <2>2. CASE job.cur # c
    BY <1>2, <2>1, <2>2 DEF Remove, BetweenPages, Slips
  <2>3. CASE job.cur = c
    <3>1. job'.fresh = job.fresh
      BY <1>1 DEF Remove, TypeOK, Job
    <3>2. Rank(Listed(c), u) \in Nat
      BY <1>1, ListedFinite, RankType
    <3>3. CASE job.off # 0 /\ Rank(Listed(c), u) < job.off
      <4>1. BetweenPages(c)
        BY <1>5, <2>1, <2>3, <3>3 DEF BetweenPages
      <4>2. "slid" \in job'.odd
        BY <1>1, <3>3, <4>1 DEF Remove, TypeOK, Job
      <4> QED
        BY <1>2, <2>1, <2>3, <3>1, <4>2 DEF Slips
    <3>4. CASE ~(job.off # 0 /\ Rank(Listed(c), u) < job.off)
      BY <1>2, <2>1, <2>3, <3>1, <3>2, <3>4 DEF Slips
    <3> QED
      BY <3>3, <3>4
  <2> QED
    BY <2>2, <2>3
<1> QED
  BY <1>1, <1>3, <1>4, <1>5, EndKept, PagesKept DEF WalkIsSound

LEMMA AddChannelKeeps ==
  ASSUME IInv, TypeOK', NEW c \in Channels, AddChannel(c)
  PROVE  RowsAreSound' /\ WalkIsSound'
<1>1. TypeOK /\ There' = There \cup {c} /\ c \notin There
  BY DEF IInv, AddChannel, There, NewChannel, TypeOK
<1>2. /\ \A d \in Channels : Stored(d)' = Stored(d) /\ Short(d)' = Short(d)
      /\ \A d \in Channels : Listed(d)' = Listed(d) /\ odd'[d] = odd[d]
      /\ \A d \in Channels \ {c} : base'[d] = base[d]
      /\ base'[c] = published[c] /\ published' = published /\ removed' = removed
  BY <1>1 DEF AddChannel, Stored, Short, Listed, TypeOK
<1>3. Stored(c) = {} /\ \A v \in Upload : video'[c][v] = "none"
  BY <1>1 DEF IInv, RowsAreSound, RowsExist, AddChannel, Stored
<1>4. published[c] \in Nat
  BY <1>1, StoredTypes
<1>5. RowsExist'
  BY <1>1, <1>2, <1>4 DEF IInv, RowsAreSound, RowsExist
<1>6. BackfillIsTop'
  <2> SUFFICES ASSUME NEW d \in There', odd'[d] \cap {"slid", "readded"} = {},
                      NEW v \in Listed(d) \ (Stored(d) \cup Short(d)), v <= base'[d],
                      NEW w \in Stored(d)
               PROVE  v < w
    BY <1>1, <1>2 DEF BackfillIsTop, There
  <2> QED
    BY <1>1, <1>2, <1>3 DEF IInv, RowsAreSound, BackfillIsTop, There
<1>7. NoGap'
  <2> SUFFICES ASSUME NEW d \in There', odd'[d] = {}, NEW v \in Upload,
                      v \in Listed(d) \ (Stored(d) \cup Short(d))
               PROVE  (\A w \in Stored(d) : w > v) \/ (\A w \in Stored(d) : v > w)
    BY <1>1, <1>2 DEF NoGap, There
  <2> QED
    BY <1>1, <1>2, <1>3 DEF IInv, RowsAreSound, NoGap, There
<1>8. QueuedOnlyIfNew'
  <2> SUFFICES ASSUME NEW d \in There', NEW v \in Upload, video'[d][v] = "pending",
                      odd'[d] \cap {"lost", "slid", "readded"} = {}
               PROVE  v > base'[d]
    BY DEF QueuedOnlyIfNew
  <2>1. d \in There /\ d # c /\ d \in Channels
    BY <1>1, <1>3 DEF There
  <2>2. video' = video
    BY DEF AddChannel
  <2> QED
    BY <1>2, <2>1, <2>2 DEF IInv, RowsAreSound, QueuedOnlyIfNew
<1>9. WalkIsSound'
  <2>1. CASE Walked(c)
    <3>1. /\ job'.odd = job.odd \cup {"readded"}
          /\ \A f \in {"pc", "kind", "cur", "known", "off", "found", "met", "fresh"} :
               job'[f] = job[f]
      BY <1>1, <2>1 DEF AddChannel, TypeOK, Job
    <3>2. ~Walking'
      BY <3>1 DEF Walking
    <3>3. WalkFound'
      BY <1>2, <3>1, <3>2 DEF WalkFound, IInv, WalkIsSound
    <3>4. job.pc = "listing" => PagesRead /\ PagesRead'
      BY <1>2, <3>1 DEF IInv, WalkIsSound, WalkReads, PagesRead
    <3>5. WalkReads'
      BY <3>1, <3>2, <3>4 DEF WalkReads
    <3> QED
      BY <3>2, <3>3, <3>5 DEF WalkIsSound, WalkKnows, WalkQueues
  <2>2. CASE ~Walked(c) /\ job.pc \in {"listing", "commit"}
    <3>1. job' = job /\ job.cur # c /\ job.cur \in Channels
      BY <1>1, <2>2 DEF AddChannel, Walked, TypeOK
    <3>2. Walking' = Walking
      BY <1>1, <3>1 DEF Walking
    <3>3. /\ base'[job.cur] = base[job.cur] /\ odd'[job.cur] = odd[job.cur]
          /\ published'[job.cur] = published[job.cur] /\ Listed(job.cur)' = Listed(job.cur)
          /\ Stored(job.cur)' = Stored(job.cur) /\ Short(job.cur)' = Short(job.cur)
      BY <1>2, <3>1
    <3> QED
      BY <3>1, <3>2, <3>3, SameChannel DEF IInv
  <2>3. CASE job.pc \notin {"listing", "commit"}
    BY <2>3, NoWalk DEF AddChannel, Walked
  <2> QED
    BY <2>1, <2>2, <2>3
<1> QED
  BY <1>5, <1>6, <1>7, <1>8, <1>9 DEF RowsAreSound

LEMMA DeleteChannelKeeps ==
  ASSUME IInv, TypeOK', NEW c \in Channels, DeleteChannel(c)
  PROVE  RowsAreSound' /\ WalkIsSound'
<1>1. TypeOK /\ There' = There \ {c}
  BY DEF IInv, DeleteChannel, There, NoChannel, TypeOK
<1>2. /\ \A d \in Channels : Short(d)' = Short(d) /\ Listed(d)' = Listed(d)
      /\ \A d \in Channels \ {c} :
           Stored(d)' = Stored(d) /\ base'[d] = base[d] /\ odd'[d] = odd[d] /\ video'[d] = video[d]
      /\ base'[c] = 0 /\ published' = published /\ removed' = removed
  BY <1>1 DEF DeleteChannel, Stored, Short, Listed, TypeOK
<1>3. Stored(c)' = {}
  BY <1>1 DEF DeleteChannel, Stored, NoVideos, TypeOK
<1>4. published[c] \in Nat
  BY <1>1, StoredTypes
<1>5. RowsExist'
  BY <1>1, <1>2, <1>3, <1>4 DEF IInv, RowsAreSound, RowsExist
<1>6. \A d \in There' : d \in There /\ d \in Channels \ {c}
  BY <1>1 DEF There
<1>7. BackfillIsTop'
  BY <1>2, <1>6 DEF IInv, RowsAreSound, BackfillIsTop
<1>8. NoGap'
  BY <1>2, <1>6 DEF IInv, RowsAreSound, NoGap
<1>9. QueuedOnlyIfNew'
  BY <1>2, <1>6 DEF IInv, RowsAreSound, QueuedOnlyIfNew
<1>10. WalkIsSound'
  <2>1. job' = job
    BY DEF DeleteChannel
  <2>2. CASE job.pc \in {"listing", "commit"} /\ job.cur = c
    <3>1. ~Walking'
      BY <1>1, <2>1, <2>2 DEF Walking
    <3>2. WalkFound'
      BY <1>2, <2>1, <3>1 DEF WalkFound, IInv, WalkIsSound
    <3>3. WalkReads'
      BY <1>2, <2>1, <3>1 DEF WalkReads, IInv, WalkIsSound, PagesRead
    <3> QED
      BY <3>1, <3>2, <3>3 DEF WalkIsSound, WalkKnows, WalkQueues
  <2>3. CASE job.pc \in {"listing", "commit"} /\ job.cur # c
    <3>1. Walking' = Walking /\ job.cur \in Channels \ {c}
      BY <1>1, <2>1, <2>3 DEF Walking, TypeOK
    <3>2. /\ base'[job.cur] = base[job.cur] /\ odd'[job.cur] = odd[job.cur]
          /\ published'[job.cur] = published[job.cur] /\ Listed(job.cur)' = Listed(job.cur)
          /\ Stored(job.cur)' = Stored(job.cur) /\ Short(job.cur)' = Short(job.cur)
      BY <1>2, <2>1, <3>1
    <3> QED
      BY <2>1, <3>1, <3>2, SameChannel DEF IInv
  <2>4. CASE job.pc \notin {"listing", "commit"}
    BY <2>1, <2>4, NoWalk
  <2> QED
    BY <2>2, <2>3, <2>4
<1> QED
  BY <1>5, <1>7, <1>8, <1>9, <1>10 DEF RowsAreSound

-----------------------------------------------------------------------------
(* The walk *)

LEMMA ReadPageKeeps == ASSUME IInv, TypeOK', ReadPage PROVE RowsAreSound' /\ WalkIsSound'
<1> DEFINE c == job.cur
           L == Listed(c)
           K == job.known
           page == NextPage(c)
           T == Taken(page)
           ends == Satisfied(page) \/ Exhausted(c)
<1>1. TypeOK /\ c \in Channels /\ PagesRead
  BY DEF IInv, TypeOK, ReadPage, WalkIsSound, WalkReads
<1>2. /\ job'.pc = IF ends THEN "commit" ELSE "listing"
      /\ job'.kind = job.kind /\ job'.cur = c /\ job'.known = K
      /\ job'.off = job.off + PageSize /\ job'.found = job.found \cup T
      /\ job'.met = (job.met \/ K \cap page # {})
      /\ job'.fresh = 0 /\ job'.odd = job.odd \cup OddBy(c, page)
  <2> DEFINE pc == IF ends THEN "commit" ELSE job.pc
             met == job.met \/ K \cap page # {}
             odds == job.odd \cup OddBy(c, page)
  <2>1. /\ job.pc = "listing"
        /\ job' = [job EXCEPT !.pc = pc, !.off = @ + PageSize, !.found = @ \cup T,
                              !.took = @ + Cardinality(T),
                              !.again = @ \cup (job.found \cap T),
                              !.met = met, !.fresh = 0, !.odd = odds]
    BY DEF ReadPage
  <2> HIDE DEF met, odds, T, ends
  <2>2. /\ job'.pc = pc /\ job'.kind = job.kind /\ job'.cur = c /\ job'.known = K
        /\ job'.off = job.off + PageSize /\ job'.found = job.found \cup T
        /\ job'.met = met /\ job'.fresh = 0 /\ job'.odd = odds
    BY <1>1, <2>1 DEF TypeOK, Job
  <2> QED
    BY <2>1, <2>2 DEF met, odds
<1>3. UNCHANGED <<published, removed, There, video, base, odd>>
  BY DEF ReadPage, There
<1>4. \A d \in Channels : Listed(d)' = Listed(d) /\ Stored(d)' = Stored(d) /\ Short(d)' = Short(d)
  BY <1>3 DEF Listed, Stored, Short
<1>5. /\ K \in SUBSET Nat /\ job.found \in SUBSET Nat
      /\ job.off \in Nat /\ job.fresh \in Nat /\ PageSize \in Nat \ {0}
      /\ job.kind \in {"discover", "load_older"}
  BY <1>1, UploadNat, ListingAssumption DEF TypeOK, Job, Kind
<1>6. /\ L \in SUBSET (1 .. published[c]) /\ L \in SUBSET Nat /\ IsFiniteSet(L)
      /\ published[c] \in Nat /\ base[c] \in Nat
  <2>1. L \in SUBSET (1 .. published[c]) /\ IsFiniteSet(L) /\ published[c] \in Nat /\ base[c] \in Nat
    BY <1>1, ListedFinite, StoredTypes
  <2> QED
    BY <2>1
<1>7. /\ page \in SUBSET L
      /\ T \subseteq page \ K
      /\ \A v \in page \ (K \cup T), x \in T : v < x
      /\ job.kind = "discover" => \A w \in K \cap page, x \in T : x > w
      /\ ~Satisfied(page) => page \subseteq K \cup T
  BY <1>1, <1>5, Finds
<1>8. \A v \in L : /\ Rank(L, v) \in Nat
                   /\ v \in page <=> job.off <= Rank(L, v) /\ Rank(L, v) < job.off + PageSize
  <2>1. \A v : Rank(L, v) \in Nat
    BY <1>6, RankType
  <2> QED
    BY <1>5, <2>1 DEF NextPage
<1>9. \A u, v \in L : Rank(L, u) < Rank(L, v) => u > v
  BY <1>6, RankOrders
<1>10. Walking' => Walking
  BY <1>2, <1>3 DEF Walking
<1>11. RowsAreSound'
  BY <1>1, <1>3, SameIsTopOnly, RowsKept DEF IInv
<1>12. WalkKnows'
  BY <1>1, <1>2, <1>4, <1>10 DEF WalkKnows, IInv, WalkIsSound, ReadPage
<1>13. job.found \cup T \subseteq 1 .. published'[c]
  BY <1>1, <1>3, <1>6, <1>7 DEF PagesRead
<1>14. job.kind = "discover" /\ K # {} => (Satisfied(page) <=> K \cap page # {})
  BY DEF Satisfied, IsLimited
<1>15. ASSUME Walking', "slid" \notin job'.odd
       PROVE  c \in There /\ K = Stored(c) /\ NothingPassed /\ Above < job.off
  <2>1. c \in There /\ K = Stored(c) /\ NothingPassed
    BY <1>2, <1>10, <1>15 DEF Walking, IInv, WalkIsSound, WalkKnows, WalkReads, ReadPage
  <2> QED
    BY <1>5, <2>1 DEF NothingPassed, Above
<1> HIDE DEF page, T
\* What is behind the walk is newer than the page, what is ahead older than it takes.
<1>16. ASSUME Walking', "slid" \notin job'.odd, NEW v \in L \ (K \cup job.found \cup T)
       PROVE  \/ Behind(v) /\ (\A x \in T : v > x) /\ Rank(L, v) < job.off
              \/ NotYet(v) /\ (\A x \in T : v < x)
  <2>1. NotYet(v) \/ Behind(v)
    BY <1>15, <1>16 DEF NothingPassed
  <2>2. ASSUME Behind(v) PROVE (\A x \in T : v > x) /\ Rank(L, v) < job.off
    <3>1. Rank(L, v) < Above
      BY <2>2 DEF Behind
    <3>2. Rank(L, v) < job.off
      BY <1>5, <1>8, <1>15, <1>16, <3>1 DEF Above
    <3> QED
      BY <1>5, <1>7, <1>8, <1>9, <1>16, <3>2
  <2>3. ASSUME NotYet(v), NEW x \in T PROVE v < x
    <3>1. Rank(L, v) >= job.off
      BY <2>3 DEF NotYet
    <3>2. CASE v \in page
      BY <1>7, <1>16, <2>3, <3>2
    <3>3. CASE v \notin page
      <4>1. Rank(L, x) < Rank(L, v)
        BY <1>5, <1>7, <1>8, <1>16, <2>3, <3>1, <3>3
      <4> QED
        BY <1>6, <1>7, <1>9, <1>16, <2>3, <4>1
    <3> QED
      BY <3>2, <3>3
  <2> QED
    BY <2>1, <2>2, <2>3
\* What a discover takes of a page is new, or older than all it knows.
<1>17. ASSUME Walking', "slid" \notin job'.odd, job.kind = "discover",
              odd[c] \cap {"slid", "readded"} = {}, NEW x \in (job.found \cup T) \ Short(c)
       PROVE  x > base[c] \/ \A w \in K : x < w
  <2>1. CASE x \in job.found
    BY <1>15, <1>17, <2>1 DEF NothingPassed, NewOrOld
  <2>2. CASE x \in T
    <3>1. x \in L \ (Stored(c) \cup Short(c))
      BY <1>7, <1>15, <1>17, <2>2
    <3>2. x <= base[c] => \A w \in Stored(c) : x < w
      BY <1>15, <1>17, <3>1 DEF IInv, RowsAreSound, BackfillIsTop
    <3> QED
      BY <1>6, <1>15, <1>17, <3>1, <3>2
  <2> QED
    BY <1>17, <2>1, <2>2
\* A discover that ends neither at its limit nor lost has met a known video.
<1>18. ASSUME ends, job.kind = "discover", K # {}, "lost" \notin job'.odd
       PROVE  K \cap page # {}
  BY <1>1, <1>2, <1>14, <1>18 DEF PagesRead, OddBy, Oddity
<1>19. WalkReads'
  <2> SUFFICES ASSUME ~ends
               PROVE  PagesRead' /\ (Walking' /\ "slid" \notin job'.odd => NothingPassed')
    BY <1>2 DEF WalkReads
  <2>1. job.kind = "discover" => K \cap page = {}
    BY DEF Satisfied, page
  <2>2. PagesRead'
    <3>1. job'.off # 0 /\ job'.off >= PageSize
      BY <1>2, <1>5
    <3>2. ASSUME job.kind = "load_older", "dug" \notin job'.odd, NEW x \in job.found \cup T
          PROVE  \E w \in K : ~(x > w)
      <4>1. CASE x \in job.found
        BY <1>1, <1>2, <3>2, <4>1 DEF PagesRead
      <4>2. CASE x \in T
        BY <1>2, <3>2, <4>2 DEF OddBy, Oddity, T, page
      <4> QED
        BY <3>2, <4>1, <4>2
    <3> QED
      BY <1>1, <1>2, <1>13, <2>1, <3>1, <3>2 DEF PagesRead
  <2>3. ASSUME Walking', "slid" \notin job'.odd PROVE NothingPassed'
    <3>1. Above' = job.off
      BY <1>2, <1>5 DEF Above
    <3>2. job'.fresh < PageSize
      BY <1>2, <1>5
    <3>3. ASSUME NEW v \in L \ (K \cup job.found \cup T) PROVE NotYet(v)' \/ Behind(v)'
      <4>1. v \notin page
        BY <1>7, <3>3
      <4>2. CASE Behind(v) /\ (\A x \in T : v > x) /\ Rank(L, v) < job.off
        BY <1>1, <1>2, <1>3, <1>4, <3>1, <4>2 DEF Behind
      <4>3. CASE NotYet(v) /\ (\A x \in T : v < x)
        <5>1. Rank(L, v) >= job.off + PageSize
          BY <1>5, <1>8, <3>3, <4>1, <4>3 DEF NotYet
        <5> QED
          BY <1>1, <1>2, <1>4, <4>3, <5>1 DEF NotYet
      <4> QED
        BY <1>16, <2>3, <3>3, <4>2, <4>3
    <3>4. ASSUME job.kind = "discover", NEW w \in K \cap L, NEW x \in job.found \cup T
          PROVE  x > w \/ Rank(L, w) < Above'
      <4>1. w \notin page
        BY <2>1, <3>4
      <4>2. CASE Rank(L, w) >= job.off + PageSize /\ x \in T
        BY <1>5, <1>7, <1>8, <1>9, <3>4, <4>2
      <4>3. CASE x \in job.found
        BY <1>5, <1>8, <1>15, <2>3, <3>1, <3>4, <4>3 DEF NothingPassed, Above
      <4> QED
        BY <1>5, <1>8, <3>1, <3>4, <4>1, <4>2, <4>3
    <3>5. NewOrOld'
      BY <1>1, <1>2, <1>3, <1>4, <1>17, <2>3 DEF NewOrOld
    <3> QED
      BY <1>1, <1>2, <1>4, <3>2, <3>3, <3>4, <3>5 DEF NothingPassed
  <2> QED
    BY <2>2, <2>3
<1>20. WalkFound'
  <2>1. ASSUME ends, Walking', "slid" \notin job'.odd, NEW v \in L \ (K \cup job.found \cup T)
        PROVE  LeftOut(v)'
    <3>1. CASE Behind(v) /\ (\A x \in T : v > x)
      BY <1>2, <1>3, <3>1 DEF Behind, LeftOut
    <3>2. ASSUME NotYet(v), \A x \in T : v < x,
                 job'.odd = {}, K # {}, NEW x \in job.found \cup T
          PROVE  \E w \in K : v < w
      <4>0. v < x /\ v \in Nat /\ x \in Nat
        BY <1>5, <1>6, <1>7, <2>1, <3>2 DEF NotYet
      <4>1. CASE job.kind = "load_older"
        <5>1. \E w \in K : ~(x > w)
          <6>1. CASE x \in job.found
            BY <1>1, <1>2, <3>2, <4>1, <6>1 DEF PagesRead
          <6>2. CASE x \in T
            BY <1>2, <3>2, <4>1, <6>2 DEF OddBy, Oddity, T, page
          <6> QED
            BY <3>2, <6>1, <6>2
        <5> QED
          BY <1>5, <4>0, <5>1
      <4>2. CASE job.kind = "discover"
        <5>1. PICK w \in K : w \in page
          BY <1>18, <2>1, <3>2, <4>2
        <5>2. CASE v \notin page
          <6>1. Rank(L, w) < Rank(L, v)
            BY <1>5, <1>7, <1>8, <2>1, <3>2, <5>1, <5>2 DEF NotYet
          <6> QED
            BY <1>5, <1>7, <1>9, <2>1, <4>0, <5>1, <6>1
        <5>3. CASE v \in page
          <6>1. T = {u \in page : \A k \in K \cap page : u > k}
            BY <3>2, <4>2 DEF T, Taken, IsLimited, Unknown, list_new_uploads
          <6>2. PICK k \in K \cap page : ~(v > k)
            BY <2>1, <5>3, <6>1
          <6> QED
            BY <1>5, <2>1, <4>0, <6>2
        <5> QED
          BY <5>2, <5>3
      <4> QED
        BY <1>5, <4>1, <4>2
    <3>3. CASE NotYet(v) /\ (\A x \in T : v < x)
      <4>1. \A x \in job.found \cup T : v < x
        BY <3>3 DEF NotYet
      <4>2. job'.odd # {} \/ K = {} \/ job.found \cup T = {} \/ \E w \in K : v < w
        BY <3>2, <3>3
      <4> QED
        BY <1>2, <4>1, <4>2 DEF LeftOut
    <3> QED
      BY <1>16, <2>1, <3>1, <3>3
  <2> QED
    BY <1>1, <1>2, <1>4, <1>13, <2>1 DEF WalkFound
<1>21. WalkQueues'
  <2> SUFFICES ASSUME ends, Walking', job.kind = "discover", K # {},
                      (odd[c] \cup job'.odd) \cap {"lost", "slid", "readded"} = {},
                      NEW x \in (job.found \cup T) \ Short(c)
               PROVE  x > base[c]
    BY <1>1, <1>2, <1>3, <1>4 DEF WalkQueues
  <2>1. PICK w \in K : w \in page
    BY <1>18
  <2>2. x > w
    <3>1. CASE x \in T
      BY <1>7, <2>1, <3>1
    <3>2. CASE x \in job.found
      <4>1. w \in L /\ Rank(L, w) >= job.off /\ Rank(L, w) \in Nat
        BY <1>5, <1>7, <1>8, <2>1
      <4>2. x > w \/ Rank(L, w) < Above
        BY <1>15, <2>1, <3>2, <4>1 DEF NothingPassed
      <4> QED
        BY <1>5, <1>15, <4>1, <4>2 DEF Above
    <3> QED
      BY <3>1, <3>2
  <2>3. x \in Nat /\ w \in Nat
    BY <1>5, <1>6, <1>7, <2>1
  <2> QED
    BY <1>17, <2>1, <2>2, <2>3
<1> QED
  BY <1>11, <1>12, <1>19, <1>20, <1>21 DEF WalkIsSound

LEMMA CommitKeeps == ASSUME IInv, TypeOK', Commit PROVE RowsAreSound' /\ WalkIsSound'
<1>0. PICK c \in Channels : c = job.cur
  BY DEF IInv, TypeOK, Commit
<1> DEFINE new == job.found \ Short(c)
<1>1. TypeOK /\ c \in There /\ There' = There
  BY <1>0 DEF IInv, TypeOK, Commit, There, Channel
<1>2. /\ \A d \in Channels : Listed(d)' = Listed(d) /\ Short(d)' = Short(d)
      /\ \A d \in Channels \ {c} : Stored(d)' = Stored(d) /\ odd'[d] = odd[d] /\ video'[d] = video[d]
      /\ odd'[c] = odd[c] \cup job.odd
      /\ UNCHANGED <<published, removed, base>>
  BY <1>0, <1>1 DEF Commit, TypeOK, Listed, Short, Stored
<1>3. \A v \in Upload : video'[c][v] = IF v \in new THEN IngestStatus ELSE video[c][v]
  BY <1>0, <1>1 DEF Commit, TypeOK
<1>4. new \subseteq Upload /\ IngestStatus # "none"
  BY <1>1 DEF TypeOK, Job, IngestStatus
<1>5. Stored(c)' = Stored(c) \cup new
  <2>1. \A v \in Upload : video'[c][v] # "none" <=> v \in new \/ video[c][v] # "none"
    BY <1>3, <1>4
  <2> HIDE DEF new
  <2> QED
    BY <1>4, <2>1 DEF Stored
<1>6. job.found \subseteq 1 .. published[c]
  BY <1>0 DEF Commit, IInv, WalkIsSound, WalkFound
<1>7. WalkIsSound'
  <2>1. job'.pc = "next"
    BY DEF Commit, Slot
  <2> QED
    BY <2>1, NoWalk
<1>8. ASSUME odd'[c] \cap {"slid", "readded"} = {}
      PROVE  /\ job.known = Stored(c) /\ odd[c] \cap {"slid", "readded"} = {}
             /\ Walking
             /\ \A v \in Listed(c) \ (Stored(c) \cup job.found) : LeftOut(v)
  BY <1>0, <1>1, <1>2, <1>8 DEF Walking, Commit, IInv, WalkIsSound, WalkKnows, WalkFound
<1>9. RowsExist'
  <2>1. ASSUME NEW d \in Channels PROVE Stored(d)' \subseteq 1 .. published[d]
    <3>1. Stored(d) \subseteq 1 .. published[d]
      BY DEF IInv, RowsAreSound, RowsExist
    <3>2. CASE d = c
      BY <1>5, <1>6, <3>1, <3>2
    <3>3. CASE d # c
      BY <1>2, <3>1, <3>3
    <3> QED
      BY <3>2, <3>3
  <2>2. \A d \in Channels : d \notin There => Stored(d)' = {}
    BY <1>1, <1>2 DEF IInv, RowsAreSound, RowsExist
  <2> QED
    BY <1>1, <1>2, <2>1, <2>2 DEF IInv, RowsAreSound, RowsExist
<1>10. BackfillIsTop'
  <2>1. ASSUME NEW d \in There, d # c, odd'[d] \cap {"slid", "readded"} = {},
               NEW v \in Listed(d)' \ (Stored(d)' \cup Short(d)'), v <= base[d],
               NEW w \in Stored(d)'
        PROVE  v < w
    <3>1. d \in Channels \ {c}
      BY <2>1 DEF There
    <3> QED
      BY <1>2, <2>1, <3>1 DEF IInv, RowsAreSound, BackfillIsTop
  <2>2. ASSUME odd'[c] \cap {"slid", "readded"} = {},
               NEW v \in Listed(c) \ (Stored(c)' \cup Short(c)), v <= base[c],
               NEW w \in Stored(c)'
        PROVE  v < w
    <3>1. CASE w \in Stored(c)
      BY <1>1, <1>5, <1>8, <2>2, <3>1 DEF IInv, RowsAreSound, BackfillIsTop
    <3>2. CASE w \in new
      <4>1. v \in Listed(c) \ (Stored(c) \cup job.found)
        BY <1>5
      <4>2. LeftOut(v) /\ ~(v > base[c])
        <5>1. v \in Nat /\ base[c] \in Nat
          BY <1>1, ListedFinite, StoredTypes
        <5> QED
          BY <1>8, <2>2, <4>1, <5>1
      <4> QED
        BY <1>0, <3>2, <4>2 DEF LeftOut
    <3> QED
      BY <1>5, <3>1, <3>2
  <2> QED
    BY <1>1, <1>2, <2>1, <2>2 DEF BackfillIsTop
<1>11. NoGap'
  <2>1. ASSUME NEW d \in There, d # c, odd'[d] = {}, NEW v \in Upload,
               v \in Listed(d)' \ (Stored(d)' \cup Short(d)')
        PROVE  (\A w \in Stored(d)' : w > v) \/ (\A w \in Stored(d)' : v > w)
    <3>1. d \in Channels \ {c}
      BY <2>1 DEF There
    <3> QED
      BY <1>2, <2>1, <3>1 DEF IInv, RowsAreSound, NoGap
  <2>2. ASSUME odd'[c] = {}, NEW v \in Upload, v \in Listed(c) \ (Stored(c)' \cup Short(c))
        PROVE  (\A w \in Stored(c)' : w > v) \/ (\A w \in Stored(c)' : v > w)
    <3>1. /\ v \in Listed(c) \ (Stored(c) \cup job.found)
          /\ v \in Nat /\ Stored(c) \in SUBSET Nat /\ job.found \in SUBSET Nat
      BY <1>1, <1>5, <1>6, <2>2, ListedFinite, StoredTypes
    <3>2. LeftOut(v) /\ job.known = Stored(c) /\ job.odd = {} /\ odd[c] = {}
      BY <1>2, <1>8, <2>2, <3>1
    <3>3. (\A w \in Stored(c) : w > v) \/ (\A w \in Stored(c) : v > w)
      BY <1>1, <2>2, <3>1, <3>2 DEF IInv, RowsAreSound, NoGap
    <3>4. CASE \A w \in job.known \cup job.found : v > w
      BY <1>5, <3>2, <3>4
    <3>5. CASE /\ \A x \in job.found : v < x
               /\ job.known = {} \/ job.found = {} \/ \E w \in job.known : v < w
      BY <1>5, <3>1, <3>2, <3>3, <3>5
    <3> QED
      BY <3>2, <3>4, <3>5 DEF LeftOut
  <2> QED
    BY <1>1, <1>2, <2>1, <2>2 DEF NoGap
<1>12. QueuedOnlyIfNew'
  <2> SUFFICES ASSUME NEW d \in There, NEW v \in Upload, video'[d][v] = "pending",
                      odd'[d] \cap {"lost", "slid", "readded"} = {}
               PROVE  v > base[d]
    BY <1>1, <1>2 DEF QueuedOnlyIfNew
  <2>1. CASE video[d][v] = "pending"
    <3>1. odd[d] \subseteq odd'[d]
      BY <1>2 DEF There
    <3> QED
      BY <2>1, <3>1 DEF IInv, RowsAreSound, QueuedOnlyIfNew
  <2>2. CASE video[d][v] # "pending"
    <3>1. d = c /\ v \in new /\ IngestStatus = "pending"
      BY <1>2, <1>3, <2>2 DEF There
    <3>2. job.kind = "discover" /\ job.known # {}
      BY <3>1 DEF IngestStatus
    <3>3. Walking /\ (odd[c] \cup job.odd) \cap {"lost", "slid", "readded"} = {}
      BY <1>2, <1>8, <3>1
    <3> QED
      BY <1>0, <3>1, <3>2, <3>3 DEF Commit, IInv, WalkIsSound, WalkQueues
  <2> QED
    BY <2>1, <2>2
<1> QED
  BY <1>7, <1>9, <1>10, <1>11, <1>12 DEF RowsAreSound

-----------------------------------------------------------------------------
(* The theorems *)

LEMMA InitInv == Init => IInv
<1> SUFFICES ASSUME Init PROVE IInv
  OBVIOUS
<1>1. TypeOK
  BY InitType
<1>2. \A c \in Channels : Stored(c) = {}
  BY DEF Init, Stored, NoVideos
<1>3. \A c \in Channels, v \in Upload : video[c][v] = "none"
  BY DEF Init, NoVideos
<1>4. \A c \in Channels : base[c] <= published[c] /\ removed[c] = {}
  <2>1. base = published /\ removed = [c \in Channels |-> {}]
    BY DEF Init
  <2> QED
    BY <1>1, <2>1, StoredTypes
<1>5. RowsAreSound
  BY <1>2, <1>3, <1>4
     DEF RowsAreSound, RowsExist, BackfillIsTop, NoGap, QueuedOnlyIfNew, There
<1>6. job.pc = "free"
  BY FreeType DEF Init
<1>7. WalkIsSound
  BY <1>6 DEF WalkIsSound, WalkKnows, WalkReads, WalkFound, WalkQueues
<1> QED
  BY <1>1, <1>5, <1>7 DEF IInv

LEMMA NextInv == IInv /\ [Next]_vars => IInv'
<1> SUFFICES ASSUME IInv, [Next]_vars PROVE RowsAreSound' /\ WalkIsSound'
  BY NextType DEF IInv
<1>1. TypeOK /\ TypeOK'
  BY NextType DEF IInv
<1>2. ASSUME UNCHANGED <<published, removed, There, video, base, odd, job>>
      PROVE  RowsAreSound' /\ WalkIsSound'
  BY <1>1, <1>2, SameIsTopOnly, RowsKept, WalkKept DEF IInv
<1>3. ASSUME UNCHANGED <<published, removed, There, video, base, odd>>,
             job'.pc \notin {"listing", "commit"}
      PROVE  RowsAreSound' /\ WalkIsSound'
  BY <1>1, <1>3, SameIsTopOnly, RowsKept, NoWalk DEF IInv
<1>4. ASSUME NEW c \in Channels, Publish(c) PROVE RowsAreSound' /\ WalkIsSound'
  BY <1>1, <1>4, PublishKeeps
<1>5. ASSUME NEW c \in Channels, NEW v \in Upload, Remove(c, v)
      PROVE  RowsAreSound' /\ WalkIsSound'
  BY <1>1, <1>5, RemoveKeeps
<1>6. CASE Refresh
  BY <1>6, EnqueueWalk DEF Refresh, There
<1>7. CASE Schedule
  BY <1>7, EnqueueWalk DEF Schedule, There
<1>8. ASSUME NEW c \in Channels, EnqueueAdded(c) PROVE RowsAreSound' /\ WalkIsSound'
  BY <1>8, EnqueueWalk DEF EnqueueAdded, There
<1>9. ASSUME NEW c \in Channels, LoadOlder(c) PROVE RowsAreSound' /\ WalkIsSound'
  BY <1>9, EnqueueWalk DEF LoadOlder, There
<1>10. ASSUME NEW c \in Channels, SetAuto(c) PROVE RowsAreSound' /\ WalkIsSound'
  <2>1. There' = There
    BY <1>1, <1>10 DEF SetAuto, There, TypeOK, Channel
  <2> QED
    BY <1>2, <1>10, <2>1 DEF SetAuto
<1>11. ASSUME NEW c \in Channels, AddChannel(c) \/ DeleteChannel(c)
       PROVE  RowsAreSound' /\ WalkIsSound'
  BY <1>1, <1>11, AddChannelKeeps, DeleteChannelKeeps
<1>12. CASE Begin
  BY <1>1, <1>3, <1>12 DEF Begin, There, TypeOK, Job
<1>13. ASSUME NEW c \in Channels, ReadKnown(c) PROVE RowsAreSound' /\ WalkIsSound'
  <2>1. /\ UNCHANGED <<published, removed, There, video, base, odd>>
        /\ job'.pc = "listing" /\ job'.cur = c /\ job'.known = Stored(c)
        /\ job'.off = 0 /\ job'.found = {} /\ job'.fresh = 0 /\ job'.met = FALSE
    BY <1>13 DEF ReadKnown, There, Slot
  <2>2. RowsAreSound'
    BY <1>1, <2>1, SameIsTopOnly, RowsKept DEF IInv
  <2>3. PagesRead' /\ NothingPassed'
    <3>1. \A v : Rank(Listed(c)', v) \in Nat
      BY <1>1, <2>1, ListedFinite, RankType DEF Listed
    <3>2. \A v : NotYet(v)'
      BY <2>1, <3>1 DEF NotYet
    <3> QED
      BY <2>1, <3>2, ListingAssumption DEF PagesRead, NothingPassed, NewOrOld
  <2>4. WalkIsSound'
    BY <2>1, <2>3 DEF WalkIsSound, WalkKnows, WalkReads, WalkFound, WalkQueues, Stored
  <2> QED
    BY <2>2, <2>4
<1>14. CASE ReadPage
  BY <1>1, <1>14, ReadPageKeeps
<1>15. CASE Commit
  BY <1>1, <1>15, CommitKeeps
<1>16. CASE CommitFails \/ Done \/ JobFails
  BY <1>3, <1>16, FreeType DEF CommitFails, Done, JobFails, There
<1>17. CASE UNCHANGED vars
  BY <1>2, <1>17 DEF vars, There
<1> QED
  BY <1>4, <1>5, <1>6, <1>7, <1>8, <1>9, <1>10, <1>11, <1>12, <1>13, <1>14, <1>15, <1>16, <1>17
     DEF Next, Request, RunJob, Fault

LEMMA SpecInv == Spec => []IInv
  BY InitInv, NextInv, PTL DEF Spec

\* Types: what the listing's tables and its job hold.
THEOREM TypeCorrect == Spec => []TypeOK
  BY SpecInv, PTL DEF IInv

\* Nothing but Shorts is left out between two rows of a channel, though the list moves
\* between the pages of a walk, so a discover that stops at the first known video leaves
\* nothing behind (list_new_uploads); the exceptions are those NoGap names.
THEOREM NothingLeftBetween == Spec => []NoGap
<1>1. IInv => NoGap
  BY DEF IInv, RowsAreSound
<1> QED
  BY <1>1, SpecInv, PTL

\* Only what is published after a channel was added is queued by itself: the backfill
\* waits for a person (_ingest_channel_videos), unless a walk met nothing known or its
\* list slid.
THEOREM BackfillIsNotQueued == Spec => []QueuedOnlyIfNew
<1>1. IInv => QueuedOnlyIfNew
  BY DEF IInv, RowsAreSound
<1> QED
  BY <1>1, SpecInv, PTL

=============================================================================
