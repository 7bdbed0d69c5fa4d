----------------------------- MODULE PagesProofs -----------------------------
(***************************************************************************)
(* The pages on their own, for any videos, filters, tickers, pages and     *)
(* bounds: the provider implements Session, a channel page shows its own   *)
(* writes, the inbox skips nothing unseen, the dialogs tell every list,    *)
(* the overview shows what they told, and a list that ends has shown all.  *)
(***************************************************************************)
EXTENDS AdminSession, ChannelPage, ImportInbox, Dialogs, PagedList, SequenceTheorems,
        FiniteSetTheorems, WellFoundedInduction, TLAPS
-----------------------------------------------------------------------------
(* What a list keeps, and lists one after the other *)

\* Among natural numbers there is a least one.
LEMMA LeastOf ==
  ASSUME NEW S \in SUBSET Nat, S # {}
  PROVE  \E m \in S : \A k \in S : m <= k
<1> DEFINE R == OpToRel(<, Nat)
<1>1. IsWellFoundedOn(R, Nat)
  BY NatLessThanWellFounded
<1>2. R = {ss \in Nat \X Nat : ss[1] < ss[2]}
  BY DEF OpToRel
<1> HIDE DEF R
<1>3. PICK m \in S : \A k \in S : ~(<<k, m>> \in R)
  BY <1>1, WFMin
<1>4. ASSUME NEW k \in S
      PROVE  m <= k
  <2>1. m \in Nat /\ k \in Nat
    OBVIOUS
  <2>2. k < m => <<k, m>> \in R
    BY <1>2, <2>1
  <2> QED
    BY <1>3, <2>1, <2>2
<1> QED
  BY <1>4

\* A property of 0 that each number up to N hands on to the next holds up to N: the
\* least number without it has none before it.
LEMMA UpTo ==
  ASSUME NEW N \in Nat, NEW Good, 0 \in Good,
         \A m \in 0..N : m > 0 /\ m - 1 \in Good => m \in Good
  PROVE  \A m \in 0..N : m \in Good
<1> DEFINE Bad == {m \in 0..N : m \notin Good}
<1>1. CASE Bad = {}
  BY <1>1
<1>2. CASE Bad # {}
  <2>1. PICK m \in Bad : \A k \in Bad : m <= k
    <3>1. Bad \in SUBSET Nat
      OBVIOUS
    <3> HIDE DEF Bad
    <3> QED
      BY <1>2, <3>1, LeastOf
  <2>2. m \in 0..N /\ m \notin Good /\ m > 0
    OBVIOUS
  <2>3. m - 1 \in 0..N /\ ~(m <= m - 1)
    BY <2>2
  <2>4. m - 1 \in Good
    BY <2>1, <2>3
  <2> QED
    BY <2>2, <2>4
<1> QED
  BY <1>1, <1>2

\* The definition of FlattenSeq is one: a function on the positions exists that it
\* describes.
LEMMA JoinExists ==
  ASSUME NEW lists, NEW N \in Nat
  PROVE  \E f : f = [i \in 1..N |-> IF i = 1 THEN lists[i] ELSE f[i - 1] \o lists[i]]
<1> DEFINE Step(f, i) == IF i = 1 THEN lists[i] ELSE f[i - 1] \o lists[i]
           Exists(m) == \E f : f = [i \in 1..m |-> Step(f, i)]
           Good == {m \in 0..N : Exists(m)}
<1>1. 0 \in Good
  <2>1. [i \in 1..0 |-> lists] = [i \in 1..0 |-> Step([k \in 1..0 |-> lists], i)]
    OBVIOUS
  <2>2. Exists(0)
    <3> HIDE DEF Step
    <3> QED
      BY <2>1
  <2> HIDE DEF Exists
  <2> QED
    BY <2>2
<1>2. ASSUME NEW m \in 0..N, m > 0, m - 1 \in Good
      PROVE  m \in Good
  <2>1. PICK g : g = [i \in 1..(m - 1) |-> Step(g, i)]
    BY <1>2
  <2> DEFINE f == [i \in 1..m |-> IF i < m THEN g[i] ELSE Step(g, m)]
  <2>2. ASSUME NEW i \in 1..m
        PROVE  f[i] = Step(f, i)
    <3>1. i # 1 => i - 1 \in 1..m /\ i - 1 < m /\ f[i - 1] = g[i - 1]
      BY <1>2
    <3>2. Step(f, i) = Step(g, i)
      <4> HIDE DEF f
      <4> QED
        BY <3>1
    <3>3. CASE i = m
      <4>1. f[i] = Step(g, m)
        BY <3>3
      <4> HIDE DEF f, Step
      <4> QED
        BY <3>2, <3>3, <4>1
    <3>4. CASE i # m
      <4>1. i \in 1..(m - 1) /\ f[i] = g[i]
        BY <1>2, <3>4
      <4> HIDE DEF f, Step
      <4>2. g[i] = Step(g, i)
        BY <2>1, <4>1
      <4> QED
        BY <3>2, <4>1, <4>2
    <3> QED
      BY <3>3, <3>4
  <2>3. f = [i \in 1..m |-> f[i]]
    OBVIOUS
  <2> HIDE DEF f, Step
  <2>4. f = [i \in 1..m |-> Step(f, i)]
    BY <2>2, <2>3
  <2> QED
    BY <1>2, <2>4
<1>3. N \in Good
  <2> HIDE DEF Good
  <2>1. N \in 0..N
    OBVIOUS
  <2> QED
    BY <1>1, <1>2, <2>1, UpTo
<1>4. Exists(N)
  <2> HIDE DEF Exists
  <2> QED
    BY <1>3
<1> QED
  BY <1>4

\* What FlattenSeq gives grows list by list.
LEMMA ListsAreJoined ==
  ASSUME NEW S, NEW lists \in Seq(Seq(S))
  PROVE  \E joined : /\ joined[0] = <<>>
                     /\ \A n \in 1..Len(lists) : joined[n] = joined[n - 1] \o lists[n]
                     /\ \A n \in 0..Len(lists) : joined[n] \in Seq(S)
                     /\ Lists!FlattenSeq(lists) = joined[Len(lists)]
<1> DEFINE N == Len(lists)
<1>1. N \in Nat /\ \A n \in 1..N : lists[n] \in Seq(S)
  OBVIOUS
<1>2. CASE N = 0
  <2> DEFINE joined == [n \in 0..0 |-> <<>>]
  <2>1. lists = <<>>
    BY <1>2
  <2>2. Lists!FlattenSeq(lists) = lists
    BY <1>2, Zenon DEF Lists!FlattenSeq, N
  <2>3. joined[0] = <<>>
    OBVIOUS
  <2>4. 1..N = {} /\ 0..N = {0}
    BY <1>2
  <2>5. <<>> \in Seq(S)
    OBVIOUS
  <2> HIDE DEF N, joined
  <2> QED
    BY <1>2, <2>1, <2>2, <2>3, <2>4, <2>5 DEF N
<1>3. CASE N # 0
  <2> DEFINE f == CHOOSE g : g = [i \in 1..N |-> IF i = 1 THEN lists[i] ELSE g[i - 1] \o lists[i]]
             joined == [n \in 0..N |-> IF n = 0 THEN <<>> ELSE f[n]]
             Good == {n \in 0..N : joined[n] \in Seq(S)}
  <2>1. Lists!FlattenSeq(lists) = f[N]
    BY <1>3, Zenon DEF Lists!FlattenSeq, N
  <2>2. f = [i \in 1..N |-> IF i = 1 THEN lists[i] ELSE f[i - 1] \o lists[i]]
    <3> HIDE DEF N
    <3> QED
      BY <1>1, JoinExists, Zenon
  <2> HIDE DEF f, N
  <2>3. joined[0] = <<>> /\ joined[N] = f[N]
    BY <1>1, <1>3
  <2>4. \A n \in 1..N : joined[n] = joined[n - 1] \o lists[n]
    <3> SUFFICES ASSUME NEW n \in 1..N PROVE joined[n] = joined[n - 1] \o lists[n]
      OBVIOUS
    <3>1. joined[n] = IF n = 1 THEN lists[n] ELSE f[n - 1] \o lists[n]
      <4>1. joined[n] = f[n]
        BY <1>1
      <4> HIDE DEF joined
      <4> QED
        BY <2>2, <4>1, Zenon
    <3>2. CASE n = 1
      <4>1. lists[n] = <<>> \o lists[n]
        BY <1>1
      <4>2. joined[n - 1] = <<>>
        BY <1>1, <3>2
      <4> HIDE DEF joined
      <4> QED
        BY <3>1, <3>2, <4>1, <4>2
    <3>3. CASE n # 1
      <4>1. joined[n - 1] = f[n - 1]
        BY <1>1, <3>3
      <4> HIDE DEF joined
      <4> QED
        BY <3>1, <3>3, <4>1
    <3> QED
      BY <3>2, <3>3
  <2> HIDE DEF joined
  <2>5. 0 \in Good
    <3>1. 0 \in 0..N /\ <<>> \in Seq(S)
      BY <1>1
    <3> QED
      BY <2>3, <3>1
  <2>6. ASSUME NEW m \in 0..N, m > 0, m - 1 \in Good
        PROVE  m \in Good
    <3>1. m \in 1..N
      BY <1>1, <2>6
    <3>2. joined[m - 1] \in Seq(S) /\ lists[m] \in Seq(S)
      BY <1>1, <2>6, <3>1
    <3>3. joined[m - 1] \o lists[m] \in Seq(S)
      BY <3>2
    <3> QED
      BY <2>4, <3>1, <3>3
  <2>7. \A n \in 0..N : n \in Good
    <3> HIDE DEF Good
    <3> QED
      BY <1>1, <2>5, <2>6, UpTo
  <2>8. /\ joined[0] = <<>>
        /\ \A n \in 1..N : joined[n] = joined[n - 1] \o lists[n]
        /\ \A n \in 0..N : joined[n] \in Seq(S)
        /\ Lists!FlattenSeq(lists) = joined[N]
    BY <2>1, <2>3, <2>4, <2>7
  <2> QED
    BY <2>8, Zenon DEF N
<1> QED
  BY <1>2, <1>3

\* What is kept is of the rows at the given positions, and each of those is kept.
LEMMA KeptIsThose ==
  ASSUME NEW S, NEW rows \in Seq(S), NEW at
  PROVE  /\ Kept(rows, at) \in Seq(S)
         /\ \A j \in 1..Len(Kept(rows, at)) :
              \E i \in at \cap DOMAIN rows : Kept(rows, at)[j] = rows[i]
         /\ \A i \in at \cap DOMAIN rows :
              \E j \in 1..Len(Kept(rows, at)) : Kept(rows, at)[j] = rows[i]
         /\ Once(rows) => Once(Kept(rows, at))
<1> DEFINE N == Len(rows)
           lists == [i \in DOMAIN rows |-> IF i \in at THEN <<rows[i]>> ELSE <<>>]
<1>1. N \in Nat /\ DOMAIN rows = 1..N /\ \A i \in 1..N : rows[i] \in S
  OBVIOUS
<1>2. lists \in Seq(Seq(S)) /\ Len(lists) = N
  <2>1. \A i \in 1..N : lists[i] \in Seq(S)
    BY <1>1
  <2>2. lists = [i \in 1..N |-> lists[i]]
    BY <1>1
  <2> HIDE DEF lists
  <2>3. lists \in [1..N -> Seq(S)]
    BY <2>1, <2>2
  <2> HIDE DEF N
  <2> QED
    BY <1>1, <2>3
<1>3. \A n \in 1..N : lists[n] = IF n \in at THEN <<rows[n]>> ELSE <<>>
  BY <1>1
<1> HIDE DEF N, lists
<1>4. PICK kept : /\ kept[0] = <<>>
                  /\ \A n \in 1..N : kept[n] = kept[n - 1] \o lists[n]
                  /\ \A n \in 0..N : kept[n] \in Seq(S)
                  /\ Lists!FlattenSeq(lists) = kept[N]
  BY <1>2, ListsAreJoined
<1> DEFINE Right(m) == /\ \A j \in 1..Len(kept[m]) : \E i \in at \cap (1..m) : kept[m][j] = rows[i]
                       /\ \A i \in at \cap (1..m) : \E j \in 1..Len(kept[m]) : kept[m][j] = rows[i]
                       /\ Once(rows) => Once(kept[m])
           Good == {m \in 0..N : Right(m)}
<1>5. 0 \in Good
  <2>1. 0 \in 0..N /\ 1..0 = {} /\ Len(<<>>) = 0 /\ Once(<<>>)
    BY <1>1 DEF Once
  <2> QED
    BY <1>4, <2>1
<1>6. ASSUME NEW m \in 0..N, m > 0, m - 1 \in Good
      PROVE  m \in Good
  <2> DEFINE k == kept[m - 1]
  <2>1. m \in 1..N /\ m - 1 \in 0..N /\ rows[m] \in S
    BY <1>1, <1>6
  <2>2. kept[m] = k \o lists[m] /\ k \in Seq(S)
    BY <1>4, <2>1
  <2>3. /\ \A j \in 1..Len(k) : \E i \in at \cap (1..(m - 1)) : k[j] = rows[i]
        /\ \A i \in at \cap (1..(m - 1)) : \E j \in 1..Len(k) : k[j] = rows[i]
        /\ Once(rows) => Once(k)
    BY <1>6
  <2> HIDE DEF k
  <2>4. CASE m \notin at
    <3>1. kept[m] = k
      <4>1. lists[m] = <<>>
        BY <1>3, <2>1, <2>4
      <4> QED
        BY <2>2, <4>1
    <3>2. at \cap (1..m) = at \cap (1..(m - 1))
      BY <2>1, <2>4
    <3> QED
      BY <2>3, <3>1, <3>2
  <2>5. CASE m \in at
    <3>1. at \cap (1..m) = (at \cap (1..(m - 1))) \cup {m}
      BY <2>1, <2>5
    <3>2. /\ Len(kept[m]) = Len(k) + 1 /\ Len(k) \in Nat
          /\ kept[m][Len(k) + 1] = rows[m]
          /\ \A j \in 1..Len(k) : kept[m][j] = k[j]
      <4>1. lists[m] = <<rows[m]>>
        BY <1>3, <2>1, <2>5
      <4> QED
        BY <2>1, <2>2, <4>1
    <3>3. ASSUME NEW j \in 1..Len(kept[m])
          PROVE  \E i \in at \cap (1..m) : kept[m][j] = rows[i]
      <4>1. CASE j = Len(k) + 1
        BY <3>1, <3>2, <4>1
      <4>2. CASE j # Len(k) + 1
        <5>1. j \in 1..Len(k)
          BY <3>2, <4>2
        <5>2. PICK i \in at \cap (1..(m - 1)) : k[j] = rows[i]
          BY <2>3, <5>1
        <5> QED
          BY <3>1, <3>2, <5>1, <5>2
      <4> QED
        BY <4>1, <4>2
    <3>4. ASSUME NEW i \in at \cap (1..m)
          PROVE  \E j \in 1..Len(kept[m]) : kept[m][j] = rows[i]
      <4>1. CASE i = m
        BY <3>2, <4>1
      <4>2. CASE i # m
        <5>1. PICK j \in 1..Len(k) : k[j] = rows[i]
          BY <2>3, <3>1, <4>2
        <5>2. j \in 1..Len(kept[m])
          BY <3>2
        <5> QED
          BY <3>2, <5>1, <5>2
      <4> QED
        BY <4>1, <4>2
    <3>5. Once(rows) => Once(kept[m])
      <4> SUFFICES ASSUME Once(rows)
                   PROVE  Once(kept[m])
        OBVIOUS
      <4>1. ASSUME NEW j \in 1..Len(k)
            PROVE  k[j] # rows[m]
        <5>1. PICK i \in at \cap (1..(m - 1)) : k[j] = rows[i]
          BY <2>3
        <5>2. i \in 1..N /\ m \in 1..N /\ i # m
          BY <1>1, <2>1
        <5> QED
          BY <1>1, <5>1, <5>2 DEF Once
      <4>2. DOMAIN kept[m] = 1..(Len(k) + 1) /\ DOMAIN k = 1..Len(k)
        <5>1. kept[m] \in Seq(S) /\ m \in 0..N
          BY <1>4
        <5> QED
          BY <2>2, <3>2, <5>1
      <4>3. \A j \in 1..(Len(k) + 1) : j = Len(k) + 1 \/ j \in 1..Len(k)
        BY <3>2
      <4> QED
        BY <2>3, <3>2, <4>1, <4>2, <4>3 DEF Once
    <3> QED
      BY <3>3, <3>4, <3>5
  <2> QED
    BY <2>4, <2>5
<1>7. Right(N)
  <2>1. N \in 0..N
    BY <1>1
  <2>2. \A m \in 0..N : m \in Good
    <3> HIDE DEF Good
    <3> QED
      BY <1>1, <1>5, <1>6, UpTo
  <2> HIDE DEF Right
  <2> QED
    BY <2>1, <2>2
<1>8. Kept(rows, at) = kept[N] /\ kept[N] \in Seq(S)
  BY <1>1, <1>4 DEF Kept, lists
<1> QED
  BY <1>1, <1>7, <1>8
-----------------------------------------------------------------------------
(* The session *)

LEMMA AdminInitially ==
  ASSUME LockedInit, AdminInit
  PROVE  AdminTypeOK
<1> USE DEF AdminTypeOK, SessionTypeOK, Prompt
<1>1. cookie \in BOOLEAN /\ authed \in BOOLEAN /\ enabled \in BOOLEAN /\ ready \in BOOLEAN
  BY Zenon DEF LockedInit, AdminInit
<1>2. prompt \in Prompt
  BY DEF AdminInit
<1> QED
  BY <1>1, <1>2, Zenon DEF AdminInit

LEMMA AdminStep ==
  ASSUME AdminTypeOK, [AdminNext]_asVars
  PROVE  AdminTypeOK'
<1> USE DEF AdminTypeOK, SessionTypeOK, Prompt
<1>1. CASE SessionRead
  BY <1>1 DEF SessionRead
<1>2. CASE SessionKnown
  BY <1>2 DEF SessionKnown
<1>3. CASE UnlockAccepted
  BY <1>3 DEF UnlockAccepted, Grant
<1>4. CASE UnlockRejected
  BY <1>4 DEF UnlockRejected
<1>5. CASE UnlockDone
  BY <1>5 DEF UnlockDone
<1>6. CASE Locked
  <2>1. cookie' \in BOOLEAN /\ authed' \in BOOLEAN
    BY <1>6, Zenon DEF Locked
  <2> QED
    BY <1>6, <2>1 DEF Locked
<1>7. CASE LockDone
  BY <1>7 DEF LockDone
<1>8. CASE WriteAccepted
  BY <1>8 DEF WriteAccepted, Renew
<1>9. CASE HandleAuthError
  BY <1>9 DEF HandleAuthError, WriteRefused
<1>10. CASE PromptUnlock
  BY <1>10 DEF PromptUnlock
<1>11. CASE Type
  BY <1>11 DEF Type
<1>12. CASE CloseDialog
  BY <1>12 DEF CloseDialog
<1>13. CASE SubmitPassword
  BY <1>13 DEF SubmitPassword
<1>14. CASE Lock
  BY <1>14 DEF Lock
<1>15. CASE SendWrite
  BY <1>15 DEF SendWrite
<1>16. CASE CookieLapses
  <2>1. cookie' \in BOOLEAN /\ authed' \in BOOLEAN
    BY <1>16, Zenon DEF CookieLapses, Lapse
  <2> QED
    BY <1>16, <2>1 DEF CookieLapses, adminVars
<1>17. CASE UNCHANGED asVars
  BY <1>17 DEF asVars, adminVars
<1> QED
  BY <1>1, <1>2, <1>3, <1>4, <1>5, <1>6, <1>7, <1>8, <1>9, <1>10, <1>11, <1>12,
     <1>13, <1>14, <1>15, <1>16, <1>17 DEF AdminNext, AdminAnswer

LEMMA ProviderStep ==
  ASSUME AdminTypeOK, [AdminNext]_asVars
  PROVE  [SessionNext]_sessionVars
<1> USE DEF AdminTypeOK, SessionTypeOK, sessionVars, SessionNext
<1>1. CASE SessionKnown
  BY <1>1 DEF SessionKnown, Grant, Drop, Lapse
<1>2. CASE UnlockAccepted
  BY <1>2 DEF UnlockAccepted
<1>3. CASE Locked
  BY <1>3 DEF Locked, Drop, Lapse
<1>4. CASE WriteAccepted
  BY <1>4 DEF WriteAccepted
<1>5. CASE HandleAuthError
  BY <1>5 DEF HandleAuthError, WriteRefused, Drop
<1>6. CASE CookieLapses
  BY <1>6 DEF CookieLapses
<1>7. CASE SessionRead \/ UnlockRejected \/ UnlockDone \/ LockDone
  BY <1>7 DEF SessionRead, UnlockRejected, UnlockDone, LockDone
<1>8. CASE PromptUnlock \/ Type \/ CloseDialog \/ SubmitPassword \/ Lock \/ SendWrite
  BY <1>8 DEF PromptUnlock, Type, CloseDialog, SubmitPassword, Lock, SendWrite
<1>9. CASE UNCHANGED asVars
  BY <1>9 DEF asVars
<1> QED
  BY <1>1, <1>2, <1>3, <1>4, <1>5, <1>6, <1>7, <1>8, <1>9 DEF AdminNext, AdminAnswer

\* A belief that rises rises with the cookie, whatever answers cross: AdminProvider
\* takes the steps of Session or none.
THEOREM ProviderImplementsSession == AdminSpec => ImplementsSession
<1>1. AdminSpec => []AdminTypeOK
  BY AdminInitially, AdminStep, PTL DEF AdminSpec
<1> QED
  BY <1>1, ProviderStep, PTL DEF AdminSpec, ImplementsSession
-----------------------------------------------------------------------------
(* The channel page *)

\* What is left of two budgets when one of them is spent.
LEMMA Spent ==
  ASSUME NEW M \in Nat, NEW N \in Nat, NEW left \in (0..M) \X (0..N)
  PROVE  /\ left[1] > 0 => [left EXCEPT ![1] = @ - 1] \in (0..M) \X (0..N)
         /\ left[2] > 0 => [left EXCEPT ![2] = @ - 1] \in (0..M) \X (0..N)
<1>1. PICK m \in 0..M, n \in 0..N : left = <<m, n>>
  OBVIOUS
<1>2. m > 0 => <<m - 1, n>> \in (0..M) \X (0..N)
  BY <1>1
<1>3. n > 0 => <<m, n - 1>> \in (0..M) \X (0..N)
  BY <1>1
<1>4. /\ left[1] = m /\ left[2] = n
      /\ [left EXCEPT ![1] = @ - 1] = <<m - 1, n>>
      /\ [left EXCEPT ![2] = @ - 1] = <<m, n - 1>>
  BY <1>1
<1> QED
  BY <1>2, <1>3, <1>4

\* A page of a channel's list shows videos that are there, by their status, as they are.
LEMMA VideosAreRead ==
  ASSUME chRows \in [ChVideos -> VideoStatus \cup {"absent"}], NEW filter, NEW i
  PROVE  ReadVideos(filter, i) \in ChPage /\ ReadVideos(filter, i).seen = TRUE
<1> DEFINE shown == {w \in ChannelVideos(filter) :
                       Place(filter, w) \in (i - 1) * ChPageSize .. i * ChPageSize - 1}
           items == [v \in shown |-> chRows[v]]
<1>1. ChannelVideos(filter) \subseteq ChVideos /\ Cardinality(ChannelVideos(filter)) \in Nat
  <2>1. ChannelVideos(filter) \subseteq ChVideos
    BY DEF ChannelVideos
  <2> QED
    BY <2>1, ChannelAssumption, FS_Subset, FS_CardinalityType
<1>2. shown \in SUBSET ChVideos /\ \A v \in shown : chRows[v] \in VideoStatus
  <2>1. \A v \in ChannelVideos(filter) : chRows[v] \in VideoStatus
    BY DEF ChannelVideos
  <2> QED
    BY <1>1, <2>1
<1> HIDE DEF shown
<1>3. items \in ListItem
  BY <1>2 DEF ListItem
<1>4. ReadVideos(filter, i) = [items |-> items, total |-> Cardinality(ChannelVideos(filter)),
                               seen |-> TRUE]
  BY DEF ReadVideos, shown
<1> HIDE DEF items
<1> QED
  BY <1>1, <1>3, <1>4 DEF ChPage

AllSeen(pages) == \A i \in DOMAIN pages : pages[i].seen

\* A fetch starts with nothing read; a page that is appended is the last.
LEMMA FetchesStart ==
  ASSUME NEW list \in ChList
  PROVE  /\ Fetching(list) \in ChList /\ Fetching(list).read = <<>>
         /\ Fetching(list).pages = list.pages
         /\ Fetching(list).fetch \in {"first", "every"}
         /\ list.again => Fetching(list).fetch = "every"
         /\ AllSeen(Fetching(list).read)
<1>1. <<>> \in Seq(ChPage) /\ AllSeen(<<>>)
  BY DEF AllSeen
<1> QED
  BY <1>1 DEF Fetching, ChList

LEMMA NoListIsAList ==
  /\ NoList \in ChList /\ NoList.pages = <<>> /\ NoList.read = <<>> /\ NoList.fetch = "none"
  /\ AllSeen(NoList.read)
<1>1. <<>> \in Seq(ChPage) /\ 1 \in 1..ChMaxSize /\ AllSeen(<<>>)
  BY ChannelAssumption DEF AllSeen
<1> QED
  BY <1>1 DEF NoList, ChList

LEMMA PageIsAppended ==
  ASSUME NEW read \in Seq(ChPage), NEW p \in ChPage
  PROVE  /\ Append(read, p) \in Seq(ChPage)
         /\ AllSeen(read) /\ p.seen => AllSeen(Append(read, p))
<1>1. /\ Append(read, p) \in Seq(ChPage) /\ DOMAIN Append(read, p) = 1..(Len(read) + 1)
      /\ \A i \in 1..(Len(read) + 1) :
           Append(read, p)[i] = IF i = Len(read) + 1 THEN p ELSE read[i]
      /\ DOMAIN read = 1..Len(read) /\ Len(read) \in Nat
  OBVIOUS
<1>2. \A i \in 1..(Len(read) + 1) : i = Len(read) + 1 \/ i \in 1..Len(read)
  BY <1>1
<1> QED
  BY <1>1, <1>2 DEF AllSeen

LEMMA UnseenPages ==
  ASSUME NEW pages \in Seq(ChPage)
  PROVE  /\ Unseen(pages) \in Seq(ChPage)
         /\ pages = <<>> => AllSeen(Unseen(pages))
<1>1. DOMAIN pages = 1..Len(pages) /\ Len(pages) \in Nat /\ \A i \in 1..Len(pages) : pages[i] \in ChPage
  OBVIOUS
<1>2. \A i \in 1..Len(pages) : [pages[i] EXCEPT !.seen = FALSE] \in ChPage
  BY <1>1 DEF ChPage
<1>3. Unseen(pages) \in [1..Len(pages) -> ChPage] /\ DOMAIN Unseen(pages) = DOMAIN pages
  BY <1>1, <1>2 DEF Unseen
<1>4. pages = <<>> => DOMAIN pages = {}
  OBVIOUS
<1> QED
  BY <1>1, <1>3, <1>4 DEF AllSeen

\* What the page's own write makes of a list.
MadeOlder(list) == [list EXCEPT !.pages = Unseen(@), !.read = Unseen(@)]

LEMMA ListIsOutdated ==
  ASSUME NEW list \in ChList
  PROVE  /\ MadeOlder(list) \in ChList
         /\ MadeOlder(list).fetch = list.fetch
         /\ MadeOlder(list).pages = Unseen(list.pages) /\ MadeOlder(list).read = Unseen(list.read)
<1>1. Unseen(list.pages) \in Seq(ChPage) /\ Unseen(list.read) \in Seq(ChPage)
  BY UnseenPages DEF ChList
<1> QED
  BY <1>1 DEF MadeOlder, ChList

\* The polls that are left: a poll under way is not one too many.
PollsLeft ==
  /\ chReq.phase \in {"sent", "ok"} => chReq.polls = 0
  /\ chReq.phase = "polling" => chReq.polls < ChMaxPolls

\* The page is typed, whatever the session is.
ChannelIsTyped ==
  /\ chRows \in [ChVideos -> VideoStatus \cup {"absent"}]
  /\ chAuto \in BOOLEAN /\ chJob \in BOOLEAN
  /\ chMoves \in (0..ChMaxMoves) \X (0..ChMaxCalls)
  /\ chDetail \in [state : {"loading", "shown", "error"}, auto : BOOLEAN]
  /\ chFilter \in ChFilters
  /\ chLists \in [ChFilters -> ChList] /\ chOld \subseteq ChFilters
  /\ chSelected \subseteq ChVideos
  /\ chReq \in ChRequest
  /\ chMessage \in {"none", "queued", "busy", "failed", "olderBusy"}
  /\ PollsLeft

LEMMA ChannelStartsTyped ==
  ASSUME ChInit
  PROVE  ChannelIsTyped
<1> USE ChannelAssumption
<1>1. chRows \in [ChVideos -> VideoStatus \cup {"absent"}]
  BY DEF ChInit
<1>2. chLists \in [ChFilters -> ChList]
  BY NoListIsAList, FetchesStart DEF ChInit
<1>3. chReq \in ChRequest /\ PollsLeft
  BY DEF ChInit, NoRequest, ChRequest, PollsLeft
<1>4. chMoves \in (0..ChMaxMoves) \X (0..ChMaxCalls)
  BY DEF ChInit
<1> QED
  BY <1>1, <1>2, <1>3, <1>4 DEF ChInit, ChannelIsTyped

LEMMA ListsTyped ==
  ASSUME ChannelIsTyped, [ChNext]_chVars
  PROVE  chLists' \in [ChFilters -> ChList]
<1> USE DEF ChannelIsTyped
<1>1. ASSUME Outdate
      PROVE  chLists' \in [ChFilters -> ChList]
  <2>1. chLists' = [f \in ChFilters |-> MadeOlder(chLists[f])]
    <3> HIDE DEF ChannelIsTyped
    <3> QED
      BY <1>1, Zenon DEF Outdate, MadeOlder
  <2>2. \A f \in ChFilters : MadeOlder(chLists[f]) \in ChList
    BY ListIsOutdated
  <2> QED
    BY <2>1, <2>2
<1>2. ASSUME Refresh
      PROVE  chLists' \in [ChFilters -> ChList]
  <2> DEFINE marked(f) == [chLists[f] EXCEPT !.again = @ \/ f = chReq.at]
  <2>1. \A f \in ChFilters : marked(f) \in ChList
    <3> SUFFICES ASSUME NEW f \in ChFilters
                 PROVE  marked(f) \in ChList
      OBVIOUS
    <3>1. chLists[f] \in ChList
      OBVIOUS
    <3>2. (chLists[f].again \/ f = chReq.at) \in BOOLEAN
      OBVIOUS
    <3> QED
      BY <3>1, <3>2 DEF ChList
  <2> HIDE DEF marked
  <2>2. \A f \in ChFilters : Fetching(marked(f)) \in ChList
    BY <2>1, FetchesStart
  <2>3. chLists' = [f \in ChFilters |-> IF f = chFilter THEN Fetching(marked(f)) ELSE marked(f)]
    BY <1>2 DEF Refresh, marked
  <2> QED
    BY <2>1, <2>2, <2>3
<1>3. ASSUME NEW f \in ChFilters, ListPage(f)
      PROVE  chLists' \in [ChFilters -> ChList]
  <2> DEFINE i == Len(chLists[f].read) + 1
             page == IF i \in 2 .. Len(chLists[f].pages) /\ chLists[f].fetch # "every"
                     THEN chLists[f].pages[i] ELSE ReadVideos(f, i)
  <2>1. chLists[f].pages \in Seq(ChPage) /\ chLists[f].read \in Seq(ChPage) /\ chLists[f] \in ChList
    BY DEF ChList
  <2>2. page \in ChPage
    <3>1. ReadVideos(f, i) \in ChPage
      BY VideosAreRead
    <3>2. i \in 2..Len(chLists[f].pages) => chLists[f].pages[i] \in ChPage
      BY <2>1
    <3> HIDE DEF i
    <3> QED
      BY <3>1, <3>2
  <2>3. Append(chLists[f].read, page) \in Seq(ChPage)
    <3> HIDE DEF page
    <3> QED
      BY <2>1, <2>2, PageIsAppended
  <2>4. chLists' = [chLists EXCEPT ![f] = [chLists[f] EXCEPT !.read = Append(chLists[f].read, page)]]
    BY <1>3 DEF ListPage
  <2> HIDE DEF page
  <2>5. [chLists[f] EXCEPT !.read = Append(chLists[f].read, page)] \in ChList
    BY <2>1, <2>3 DEF ChList
  <2> QED
    BY <2>4, <2>5
<1>4. ASSUME NEW f \in ChFilters, ListLanded(f) \/ ListFails(f)
      PROVE  chLists' \in [ChFilters -> ChList]
  <2>1. chLists[f] \in ChList /\ <<>> \in Seq(ChPage)
    OBVIOUS
  <2>2. [NoList EXCEPT !.pages = chLists[f].read, !.size = chLists[f].size] \in ChList
    BY <2>1, NoListIsAList DEF ChList
  <2>3. [chLists[f] EXCEPT !.fetch = "none", !.read = <<>>, !.error = TRUE] \in ChList
    BY <2>1 DEF ChList
  <2>4. CASE ListLanded(f)
    BY <2>2, <2>4 DEF ListLanded
  <2>5. CASE ListFails(f)
    <3>1. chLists' = [chLists EXCEPT ![f] =
                        [chLists[f] EXCEPT !.fetch = "none", !.read = <<>>, !.error = TRUE]]
      BY <2>5 DEF ListFails
    <3> QED
      BY <2>3, <3>1
  <2> QED
    BY <1>4, <2>4, <2>5
<1>5. CASE ScrollDown
  <2>1. chLists[chFilter] \in ChList /\ chLists[chFilter].size \in 1..ChMaxSize
    BY DEF ChList
  <2>2. chLists[chFilter].size + 1 \in 1..ChMaxSize
    BY <1>5, <2>1, ChannelAssumption DEF ScrollDown
  <2>3. [chLists[chFilter] EXCEPT !.size = @ + 1, !.again = FALSE] \in ChList
    BY <2>1, <2>2 DEF ChList
  <2> QED
    BY <1>5, <2>3, FetchesStart DEF ScrollDown
<1>6. CASE ListRevalidates \/ \E f \in ChFilters : SetFilter(f)
  BY <1>6, FetchesStart DEF ListRevalidates, SetFilter
<1>7. CASE Handled \/ OlderJobEnds
  BY <1>1, <1>7 DEF Handled, SetAuto, MoveRows, StartOlder, OlderJobEnds, chCache
<1>8. CASE Acted \/ AutoToggled \/ PollEnded \/ PollAgain
  BY <1>2, <1>8 DEF Acted, AutoToggled, PollEnded, PollAgain, chCache
<1>9. CASE UNCHANGED chLists
  BY <1>9
<1> QED
  BY <1>3, <1>4, <1>5, <1>6, <1>7, <1>8, <1>9
     DEF ChNext, ChAnswer, ListStep, Refused, OlderCreated, PollRunning, PollFails, Refreshed,
     Toggle, ToggleSelectAll, ActOnRow, ActOnSelection, ToggleAutoAnalyze, LoadOlder, Send,
     LaneMoves, DetailFetched, SessionChanges, chVars, chCache

\* A request's budget, phase and polls.
LEMMA RequestTyped ==
  ASSUME ChannelIsTyped, [ChNext]_chVars
  PROVE  chReq' \in ChRequest /\ PollsLeft' /\ chOld' \subseteq ChFilters
<1> USE ChannelAssumption DEF ChannelIsTyped, PollsLeft, ChRequest
<1>1. NoRequest \in ChRequest /\ NoRequest.phase = "idle"
  BY DEF NoRequest
<1>2. ASSUME Refresh
      PROVE  chReq' \in ChRequest /\ PollsLeft' /\ chOld' \subseteq ChFilters
  BY <1>2 DEF Refresh
<1>3. CASE Handled \/ OlderJobEnds
  <2>1. CASE Handled
    BY <1>1, <2>1 DEF Handled, EndRequest, Cached
  <2>2. CASE OlderJobEnds
    BY <2>2 DEF OlderJobEnds, Cached, chCache
  <2> QED
    BY <1>3, <2>1, <2>2
<1>4. CASE Refused \/ PollFails \/ Refreshed
  BY <1>1, <1>4 DEF Refused, PollFails, Refreshed, EndRequest, chCache
<1>5. CASE Acted \/ AutoToggled \/ PollEnded
  BY <1>2, <1>5 DEF Acted, AutoToggled, PollEnded
<1>6. CASE PollAgain
  BY <1>2, <1>6 DEF PollAgain, chCache
<1>7. CASE OlderCreated
  BY <1>7 DEF OlderCreated, chCache
<1>8. CASE PollRunning
  <2>1. chReq.polls \in 0..ChMaxPolls /\ chReq.polls < ChMaxPolls
    BY <1>8 DEF PollRunning
  <2>2. chReq.polls + 1 \in 0..ChMaxPolls
    BY <2>1
  <2>3. chReq' = [chReq EXCEPT !.phase = "waiting", !.polls = chReq.polls + 1]
    BY <1>8 DEF PollRunning
  <2> QED
    BY <1>8, <2>2, <2>3 DEF PollRunning, chCache
<1>9. ASSUME NEW f \in ChFilters, ListStep(f)
      PROVE  chReq' \in ChRequest /\ PollsLeft' /\ chOld' \subseteq ChFilters
  <2>1. chOld' \subseteq ChFilters
    BY <1>9 DEF ListStep, ListPage, ListLanded, ListFails
  <2>2. UNCHANGED chReq \/ EndAwait(f)
    BY <1>9 DEF ListStep, ListPage, ListLanded, ListFails
  <2> QED
    BY <2>1, <2>2 DEF EndAwait
<1>10. ASSUME NEW kind \in {"auto", "analyze", "skip", "older"}, NEW ids \in SUBSET ChVideos,
              Send(kind, ids)
       PROVE  chReq' \in ChRequest /\ PollsLeft' /\ chOld' \subseteq ChFilters
  BY <1>10 DEF Send, chCache
<1>11. CASE \/ \E v \in ChVideos : ActOnRow(v)
            \/ ActOnSelection \/ ToggleAutoAnalyze \/ LoadOlder
  <2>1. \A v \in ChVideos : RowPaths(v) \subseteq {"analyze", "skip"} /\ {v} \in SUBSET ChVideos
    BY DEF RowPaths
  <2>2. {} \in SUBSET ChVideos /\ chSelected \in SUBSET ChVideos
    OBVIOUS
  <2> HIDE DEF ChannelIsTyped, PollsLeft, ChRequest
  <2> QED
    BY <1>10, <1>11, <2>1, <2>2 DEF ActOnRow, ActOnSelection, ToggleAutoAnalyze, LoadOlder
<1>12. CASE UNCHANGED <<chReq, chOld>>
  BY <1>12
<1> QED
  BY <1>3, <1>4, <1>5, <1>6, <1>7, <1>8, <1>9, <1>11, <1>12
     DEF ChNext, ChAnswer, Toggle, ToggleSelectAll, SetFilter, ScrollDown, LaneMoves,
     ListRevalidates, DetailFetched, SessionChanges, chVars, chCache

\* The rows, the budget, the lists, and what the page holds, each by the steps that
\* touch it.
LEMMA ChannelTyped ==
  ASSUME ChannelIsTyped, [ChNext]_chVars
  PROVE  ChannelIsTyped'
<1> USE ChannelAssumption DEF ChannelIsTyped
<1> DEFINE Moves == (0..ChMaxMoves) \X (0..ChMaxCalls)
<1>1. /\ chMoves[1] > 0 => [chMoves EXCEPT ![1] = @ - 1] \in Moves
      /\ chMoves[2] > 0 => [chMoves EXCEPT ![2] = @ - 1] \in Moves
  BY Spent
<1> HIDE DEF Moves
<1> DEFINE Typed == /\ chRows' \in [ChVideos -> VideoStatus \cup {"absent"}]
                    /\ chAuto' \in BOOLEAN /\ chJob' \in BOOLEAN
                    /\ chMoves' \in Moves
                    /\ chDetail' \in [state : {"loading", "shown", "error"}, auto : BOOLEAN]
                    /\ chFilter' \in ChFilters
                    /\ chSelected' \subseteq ChVideos
                    /\ chMessage' \in {"none", "queued", "busy", "failed", "olderBusy"}
<1> SUFFICES Typed
  BY ListsTyped, RequestTyped DEF Moves
<1>2. chMoves \in Moves
  BY DEF Moves
<1>3. CASE LaneMoves
  BY <1>1, <1>3 DEF LaneMoves, SpendMove, VideoStatus
<1>4. CASE OlderJobEnds
  BY <1>2, <1>4 DEF OlderJobEnds, VideoStatus
<1>5. CASE Handled
  <2>1. chRows' \in [ChVideos -> VideoStatus \cup {"absent"}] /\ chAuto' \in BOOLEAN /\ chJob' \in BOOLEAN
    <3>1. CASE SetAuto
      BY <3>1 DEF SetAuto
    <3>2. CASE MoveRows
      BY <3>2 DEF MoveRows, VideoStatus
    <3>3. CASE StartOlder
      BY <3>3 DEF StartOlder
    <3> QED
      BY <1>5, <3>1, <3>2, <3>3 DEF Handled
  <2>2. UNCHANGED <<chMoves, chDetail, chFilter, chSelected>>
    BY <1>5 DEF Handled
  <2>3. chMessage' \in {chMessage, "failed"}
    BY <1>5 DEF Handled, EndRequest
  <2> QED
    BY <1>2, <2>1, <2>2, <2>3
<1>6. CASE Refused
  BY <1>2, <1>6 DEF Refused, Refusals, EndRequest, chServer
<1>7. CASE Acted \/ AutoToggled \/ PollEnded \/ PollAgain \/ OlderCreated \/ PollRunning
  BY <1>2, <1>7 DEF Acted, AutoToggled, PollEnded, PollAgain, OlderCreated, PollRunning, chServer
<1>8. CASE PollFails \/ Refreshed
  <2>1. CASE PollFails
    BY <1>2, <2>1 DEF PollFails, EndRequest, chServer
  <2>2. CASE Refreshed
    <3>1. chDetail' \in [state : {"loading", "shown", "error"}, auto : BOOLEAN]
      BY <2>2 DEF Refreshed
    <3> QED
      BY <1>2, <2>2, <3>1 DEF Refreshed, EndRequest, chServer
  <2> QED
    BY <1>8, <2>1, <2>2
<1>9. CASE \E f \in ChFilters : ListStep(f) \/ SetFilter(f)
  BY <1>1, <1>2, <1>9 DEF ListStep, SetFilter, SpendMove, chServer
<1>10. CASE (\E v \in ChVideos : Toggle(v)) \/ ToggleSelectAll
  <2>1. actionableIds \subseteq ChVideos
    BY DEF actionableIds
  <2> QED
    BY <1>2, <1>10, <2>1 DEF Toggle, ToggleSelectAll, chServer
<1>11. CASE (\E v \in ChVideos : ActOnRow(v)) \/ ActOnSelection \/ ToggleAutoAnalyze \/ LoadOlder
  <2>1. \E kind, ids : Send(kind, ids)
    BY <1>11, Zenon DEF ActOnRow, ActOnSelection, ToggleAutoAnalyze, LoadOlder
  <2>2. /\ UNCHANGED <<chRows, chAuto, chJob, chDetail, chFilter, chSelected>>
        /\ chMoves[2] > 0 /\ chMoves' = [chMoves EXCEPT ![2] = @ - 1]
        /\ chMessage' = "none"
    BY <2>1, Zenon DEF Send, chServer
  <2> QED
    BY <1>1, <2>2
<1>12. CASE ScrollDown \/ ListRevalidates \/ DetailFetched
  <2>1. CASE ScrollDown \/ ListRevalidates
    BY <1>1, <1>2, <2>1 DEF ScrollDown, ListRevalidates, SpendMove, chServer
  <2>2. CASE DetailFetched
    <3>1. chDetail' \in [state : {"loading", "shown", "error"}, auto : BOOLEAN]
      BY <2>2 DEF DetailFetched
    <3> QED
      BY <1>1, <1>2, <2>2, <3>1 DEF DetailFetched, SpendMove, chServer
  <2> QED
    BY <1>12, <2>1, <2>2
<1>13. CASE SessionChanges \/ UNCHANGED chVars
  BY <1>1, <1>2, <1>13 DEF SessionChanges, SpendMove, chServer, chVars
<1> QED
  BY <1>3, <1>4, <1>5, <1>6, <1>7, <1>8, <1>9, <1>10, <1>11, <1>12, <1>13
     DEF ChNext, ChAnswer

\* A request whose write may be newer than what is cached, and one whose list is read anew.
Awaited(f) == chReq.at = f /\ chReq.phase \in {"ok", "polling", "waiting"}
BeingReread(f) == chReq.at = f /\ chReq.phase = "refreshing" /\ chLists[f].fetch = "every"

\* Of the lists that are held to it, nothing old is cached or under way, but in the list
\* of the request under way until it has been read anew: an answer that is late cannot
\* put an older page back.
NothingOldIsAwaited ==
  \A f \in ChFilters \ chOld :
    /\ Awaited(f) \/ AllSeen(chLists[f].read)
    /\ Awaited(f) \/ BeingReread(f) \/ AllSeen(chLists[f].pages)

\* A page that is not busy awaits nothing; without a fetch nothing is being read.
NothingIsLeftOver ==
  /\ chReq.kind = "none" => chReq.phase = "idle"
  /\ \A f \in ChFilters : chLists[f].fetch = "none" => chLists[f].read = <<>>

ChInv == ChannelIsTyped /\ NothingOldIsAwaited /\ NothingIsLeftOver

LEMMA ChInitially ==
  ASSUME ChInit
  PROVE  ChInv
<1>1. \A f \in ChFilters : /\ AllSeen(chLists[f].read) /\ AllSeen(chLists[f].pages)
                           /\ chLists[f].read = <<>>
  BY NoListIsAList, FetchesStart DEF ChInit
<1>2. chReq.phase = "idle"
  BY DEF ChInit, NoRequest
<1> QED
  BY <1>1, <1>2, ChannelStartsTyped DEF ChInv, NothingOldIsAwaited, NothingIsLeftOver

\* One list changes, the request stays: what the list keeps must be as good as before.
LEMMA OneListKeeps ==
  ASSUME ChInv, NEW f \in ChFilters, NEW next \in ChList, chLists' = [chLists EXCEPT ![f] = next],
         UNCHANGED chReq, chOld \subseteq chOld',
         next.fetch = "none" => next.read = <<>>,
         f \notin chOld' /\ ~Awaited(f) =>
           /\ AllSeen(next.read)
           /\ \/ AllSeen(next.pages)
              \/ BeingReread(f) /\ next.fetch = "every"
  PROVE  NothingOldIsAwaited' /\ NothingIsLeftOver'
<1>1. chLists'[f] = next /\ \A g \in ChFilters \ {f} : chLists'[g] = chLists[g]
  BY DEF ChInv, ChannelIsTyped
<1>2. NothingIsLeftOver'
  BY <1>1 DEF ChInv, NothingIsLeftOver
<1>3. ASSUME NEW g \in ChFilters, g \notin chOld'
      PROVE  /\ (Awaited(g) \/ AllSeen(chLists[g].read))'
             /\ (Awaited(g) \/ BeingReread(g) \/ AllSeen(chLists[g].pages))'
  <2>1. Awaited(g)' <=> Awaited(g)
    BY DEF Awaited
  <2>2. CASE g = f
    <3>1. BeingReread(f) /\ next.fetch = "every" => BeingReread(f)'
      BY <1>1 DEF BeingReread
    <3>2. /\ AllSeen(chLists[f].read)' <=> AllSeen(next.read)
          /\ AllSeen(chLists[f].pages)' <=> AllSeen(next.pages)
      BY <1>1 DEF AllSeen
    <3> QED
      BY <1>3, <2>1, <2>2, <3>1, <3>2
  <2>3. CASE g # f
    <3>1. chLists'[g] = chLists[g]
      BY <1>1, <2>3
    <3>2. BeingReread(g)' <=> BeingReread(g)
      BY <3>1 DEF BeingReread
    <3>3. /\ AllSeen(chLists[g].read)' <=> AllSeen(chLists[g].read)
          /\ AllSeen(chLists[g].pages)' <=> AllSeen(chLists[g].pages)
      BY <3>1 DEF AllSeen
    <3> QED
      BY <1>3, <2>1, <3>2, <3>3 DEF ChInv, NothingOldIsAwaited
  <2> QED
    BY <2>2, <2>3
<1> QED
  BY <1>2, <1>3 DEF NothingOldIsAwaited

\* The lists stay, and the request loses nothing it stood for.
LEMMA ListsStay ==
  ASSUME ChInv, chLists' = chLists, chOld \subseteq chOld',
         chReq'.kind = "none" => chReq'.phase = "idle",
         \/ chReq' = chReq
         \/ chReq.phase \notin {"ok", "polling", "waiting", "refreshing"}
         \/ chReq.at \in chOld'
         \/ /\ chReq'.at = chReq.at
            /\ {chReq.phase, chReq'.phase} \subseteq {"ok", "polling", "waiting"}
  PROVE  NothingOldIsAwaited' /\ NothingIsLeftOver'
<1>1. NothingIsLeftOver'
  BY DEF ChInv, NothingIsLeftOver
<1>2. ASSUME NEW f \in ChFilters, f \notin chOld'
      PROVE  (Awaited(f) => Awaited(f)') /\ (BeingReread(f) => BeingReread(f)')
  BY <1>2 DEF Awaited, BeingReread
<1>3. ASSUME NEW f \in ChFilters, f \notin chOld'
      PROVE  /\ (Awaited(f) \/ AllSeen(chLists[f].read))'
             /\ (Awaited(f) \/ BeingReread(f) \/ AllSeen(chLists[f].pages))'
  <2>1. /\ AllSeen(chLists[f].read)' <=> AllSeen(chLists[f].read)
        /\ AllSeen(chLists[f].pages)' <=> AllSeen(chLists[f].pages)
    BY DEF AllSeen
  <2>2. /\ Awaited(f) \/ AllSeen(chLists[f].read)
        /\ Awaited(f) \/ BeingReread(f) \/ AllSeen(chLists[f].pages)
    BY <1>3 DEF ChInv, NothingOldIsAwaited
  <2> QED
    BY <1>2, <1>3, <2>1, <2>2
<1> QED
  BY <1>1, <1>3 DEF NothingOldIsAwaited

\* A write of the page: every page is older than it, and only the list of the request is
\* held to show it.
LEMMA OutdatesAll ==
  ASSUME ChInv, Outdate, chOld' = {f \in Cached : chReq'.phase = "idle" \/ f # chReq.at},
         chReq'.kind = "none" => chReq'.phase = "idle",
         \/ chReq'.phase = "idle"
         \/ chReq'.at = chReq.at /\ chReq'.phase \in {"ok", "polling", "waiting"}
  PROVE  NothingOldIsAwaited' /\ NothingIsLeftOver'
<1>1. \A f \in ChFilters : /\ chLists[f] \in ChList /\ chLists'[f] = MadeOlder(chLists[f])
  <2>1. chLists \in [ChFilters -> ChList]
    BY DEF ChInv, ChannelIsTyped
  <2>2. chLists' = [f \in ChFilters |-> MadeOlder(chLists[f])]
    BY Zenon DEF Outdate, MadeOlder
  <2> QED
    BY <2>1, <2>2
<1>2. NothingIsLeftOver'
  <2>1. \A f \in ChFilters : chLists'[f].fetch = "none" => chLists'[f].read = <<>>
    <3> SUFFICES ASSUME NEW f \in ChFilters, chLists'[f].fetch = "none"
                 PROVE  chLists'[f].read = <<>>
      OBVIOUS
    <3>1. chLists[f].read = <<>> /\ chLists'[f].read = Unseen(chLists[f].read)
      BY <1>1, ListIsOutdated DEF ChInv, NothingIsLeftOver
    <3> QED
      BY <3>1 DEF Unseen
  <2> QED
    BY <2>1 DEF NothingIsLeftOver
<1>3. ASSUME NEW f \in ChFilters, f \notin chOld'
      PROVE  Awaited(f)' \/ (AllSeen(chLists[f].read) /\ AllSeen(chLists[f].pages))'
  <2>1. CASE f \in Cached
    <3>1. chReq'.phase # "idle" /\ f = chReq.at
      BY <1>3, <2>1
    <3> QED
      BY <3>1 DEF Awaited
  <2>2. CASE f \notin Cached
    <3>1. chLists[f].pages = <<>> /\ chLists[f].read = <<>>
      BY <2>2 DEF Cached, ChInv, NothingIsLeftOver
    <3>2. chLists'[f].pages = Unseen(chLists[f].pages) /\ chLists'[f].read = Unseen(chLists[f].read)
      BY <1>1, ListIsOutdated
    <3>3. AllSeen(Unseen(chLists[f].pages)) /\ AllSeen(Unseen(chLists[f].read))
      BY <1>1, <3>1, UnseenPages DEF ChList
    <3> QED
      BY <3>2, <3>3 DEF AllSeen
  <2> QED
    BY <2>1, <2>2
<1> QED
  BY <1>2, <1>3 DEF NothingOldIsAwaited

\* From the refresh on the list that is awaited is the one that is shown, all of it if the
\* request was made under it.
LEMMA RefreshAwaits ==
  ASSUME ChInv, Refresh, chReq.phase \in {"ok", "polling", "waiting"}
  PROVE  NothingOldIsAwaited' /\ NothingIsLeftOver'
<1> DEFINE marked(f) == [chLists[f] EXCEPT !.again = @ \/ f = chReq.at]
<1>1. chReq' = [chReq EXCEPT !.phase = "refreshing", !.at = chFilter] /\ chFilter \in ChFilters
      /\ chReq \in ChRequest
  BY DEF Refresh, ChInv, ChannelIsTyped
<1>2. \A f \in ChFilters : /\ marked(f) \in ChList
                           /\ marked(f).pages = chLists[f].pages /\ marked(f).read = chLists[f].read
                           /\ marked(f).fetch = chLists[f].fetch
                           /\ f = chReq.at => marked(f).again
  <2> SUFFICES ASSUME NEW f \in ChFilters
               PROVE  /\ marked(f) \in ChList
                      /\ marked(f).pages = chLists[f].pages /\ marked(f).read = chLists[f].read
                      /\ marked(f).fetch = chLists[f].fetch
                      /\ f = chReq.at => marked(f).again
    OBVIOUS
  <2>1. chLists[f] \in ChList
    BY DEF ChInv, ChannelIsTyped
  <2>2. (chLists[f].again \/ f = chReq.at) \in BOOLEAN
    OBVIOUS
  <2> QED
    BY <2>1, <2>2 DEF ChList
<1>3. \A f \in ChFilters : chLists'[f] = IF f = chFilter THEN Fetching(marked(f)) ELSE marked(f)
  BY DEF Refresh
<1> HIDE DEF marked
<1>4. /\ chReq'.phase = "refreshing" /\ chReq'.at = chFilter /\ chReq'.kind = chReq.kind
  BY <1>1 DEF ChRequest
<1>5. NothingIsLeftOver'
  <2>1. chReq'.kind # "none"
    BY <1>4 DEF ChInv, NothingIsLeftOver
  <2>2. ASSUME NEW f \in ChFilters, chLists'[f].fetch = "none"
        PROVE  chLists'[f].read = <<>>
    <3>1. f # chFilter
      BY <1>2, <1>3, <2>2, FetchesStart
    <3> QED
      BY <1>2, <1>3, <2>2, <3>1 DEF ChInv, NothingIsLeftOver
  <2> QED
    BY <2>1, <2>2 DEF NothingIsLeftOver
<1>6. ASSUME NEW f \in ChFilters, f \notin chOld'
      PROVE  /\ AllSeen(chLists[f].read)'
             /\ BeingReread(f)' \/ AllSeen(chLists[f].pages)'
  <2>1. f \notin chOld /\ (f = chReq.at => chFilter = f)
    BY <1>6 DEF Refresh
  <2>2. CASE f = chReq.at
    <3>1. chLists'[f].fetch = "every" /\ AllSeen(chLists'[f].read) /\ f = chFilter
      BY <1>2, <1>3, <2>1, <2>2, FetchesStart
    <3>2. AllSeen(chLists[f].read)'
      BY <3>1 DEF AllSeen
    <3> QED
      BY <1>4, <3>1, <3>2 DEF BeingReread
  <2>3. CASE f # chReq.at
    <3>1. AllSeen(chLists[f].read) /\ AllSeen(chLists[f].pages)
      BY <2>1, <2>3 DEF ChInv, NothingOldIsAwaited, Awaited, BeingReread
    <3>2. chLists'[f].pages = chLists[f].pages
      BY <1>2, <1>3, FetchesStart
    <3>3. AllSeen(chLists'[f].read)
      BY <1>2, <1>3, <3>1, FetchesStart
    <3> QED
      BY <3>1, <3>2, <3>3 DEF AllSeen
  <2> QED
    BY <2>2, <2>3
<1> QED
  BY <1>5, <1>6 DEF NothingOldIsAwaited

\* A page that is read is newer than the write, one out of the cache as old as it was.
LEMMA PageKeeps ==
  ASSUME ChInv, NEW f \in ChFilters, ListPage(f)
  PROVE  NothingOldIsAwaited' /\ NothingIsLeftOver'
<1> DEFINE list == chLists[f]
           i == Len(list.read) + 1
           page == IF i \in 2 .. Len(list.pages) /\ list.fetch # "every"
                   THEN list.pages[i] ELSE ReadVideos(f, i)
           next == [list EXCEPT !.read = Append(list.read, page)]
<1>1. list \in ChList /\ list.pages \in Seq(ChPage) /\ list.read \in Seq(ChPage)
  BY DEF ChInv, ChannelIsTyped, ChList
<1>2. ReadVideos(f, i) \in ChPage /\ ReadVideos(f, i).seen = TRUE
  BY VideosAreRead DEF ChInv, ChannelIsTyped
<1>3. i \in 2..Len(list.pages) => list.pages[i] \in ChPage /\ i \in DOMAIN list.pages
  BY <1>1
<1>4. page \in ChPage /\ (AllSeen(list.pages) \/ list.fetch = "every" => page.seen)
  <2> HIDE DEF i
  <2> QED
    BY <1>2, <1>3 DEF AllSeen
<1>5. chLists' = [chLists EXCEPT ![f] = next] /\ UNCHANGED <<chReq, chOld>> /\ list.fetch # "none"
  BY DEF ListPage, HasNextKey
<1> HIDE DEF page, i
<1>6. /\ Append(list.read, page) \in Seq(ChPage)
      /\ AllSeen(list.read) /\ page.seen => AllSeen(Append(list.read, page))
  BY <1>1, <1>4, PageIsAppended
<1>7. /\ next \in ChList /\ next.read = Append(list.read, page)
      /\ next.pages = list.pages /\ next.fetch = list.fetch
  BY <1>1, <1>6 DEF ChList
<1>8. f \notin chOld' /\ ~Awaited(f) =>
        /\ AllSeen(next.read)
        /\ AllSeen(next.pages) \/ (BeingReread(f) /\ next.fetch = "every")
  <2> SUFFICES ASSUME f \notin chOld', ~Awaited(f)
               PROVE  /\ AllSeen(next.read)
                      /\ AllSeen(next.pages) \/ (BeingReread(f) /\ next.fetch = "every")
    OBVIOUS
  <2>1. AllSeen(list.read) /\ (BeingReread(f) \/ AllSeen(list.pages))
    BY <1>5 DEF ChInv, NothingOldIsAwaited
  <2>2. BeingReread(f) => list.fetch = "every"
    BY DEF BeingReread
  <2> HIDE DEF list, next
  <2> QED
    BY <1>4, <1>6, <1>7, <2>1, <2>2
<1> HIDE DEF next
<1> QED
  BY <1>5, <1>7, <1>8, OneListKeeps

\* The pages that were read replace the others, and what awaited them goes on.
LEMMA LandingKeeps ==
  ASSUME ChInv, NEW f \in ChFilters, ListLanded(f) \/ ListFails(f)
  PROVE  NothingOldIsAwaited' /\ NothingIsLeftOver'
<1>1. /\ chLists[f] \in ChList /\ chLists \in [ChFilters -> ChList]
      /\ chLists[f].pages \in Seq(ChPage) /\ chLists[f].read \in Seq(ChPage) /\ chReq \in ChRequest
  BY DEF ChInv, ChannelIsTyped, ChList
<1>2. /\ \A g \in ChFilters \ {f} : chLists'[g] = chLists[g]
      /\ chLists'[f].fetch = "none" /\ chLists'[f].read = <<>>
      /\ EndAwait(f) /\ chOld \subseteq chOld'
      /\ \/ chLists'[f].pages = chLists[f].read
         \/ /\ chLists'[f].pages = chLists[f].pages
            /\ chReq' # chReq => f \in chOld'
  <2>1. CASE ListLanded(f)
    <3>1. chLists' = [chLists EXCEPT ![f] = [NoList EXCEPT !.pages = chLists[f].read, !.size = chLists[f].size]]
          /\ EndAwait(f) /\ UNCHANGED chOld
      BY <2>1 DEF ListLanded
    <3>2. chLists'[f] = [NoList EXCEPT !.pages = chLists[f].read, !.size = chLists[f].size]
      BY <1>1, <3>1
    <3> QED
      BY <1>1, <3>1, <3>2 DEF NoList
  <2>2. CASE ListFails(f)
    <3>1. /\ chLists' = [chLists EXCEPT ![f] =
                           [chLists[f] EXCEPT !.fetch = "none", !.read = <<>>, !.error = TRUE]]
          /\ EndAwait(f) /\ chOld' = IF chReq' = chReq THEN chOld ELSE chOld \cup {f}
      BY <2>2 DEF ListFails
    <3>2. chLists'[f] = [chLists[f] EXCEPT !.fetch = "none", !.read = <<>>, !.error = TRUE]
      BY <1>1, <3>1
    <3> QED
      BY <1>1, <3>1, <3>2 DEF ChList
  <2> QED
    BY <2>1, <2>2
<1>3. /\ chReq'.kind = chReq.kind /\ chReq'.at = chReq.at
      /\ \/ chReq' = chReq /\ ~(chReq.phase = "refreshing" /\ chReq.at = f)
         \/ /\ chReq.phase = "refreshing" /\ chReq.at = f
            /\ chReq'.phase = "refreshed" /\ chReq' # chReq
  BY <1>1, <1>2 DEF EndAwait, ChRequest
<1>4. NothingIsLeftOver'
  BY <1>2, <1>3 DEF ChInv, NothingIsLeftOver
<1>5. \A g \in ChFilters : Awaited(g)' <=> Awaited(g)
  BY <1>3 DEF Awaited
<1>6. ASSUME NEW g \in ChFilters, g \notin chOld', ~Awaited(g)
      PROVE  /\ AllSeen(chLists[g].read)'
             /\ (BeingReread(g) \/ AllSeen(chLists[g].pages))'
  <2>1. g \notin chOld /\ AllSeen(chLists[g].read) /\ (BeingReread(g) \/ AllSeen(chLists[g].pages))
    BY <1>2, <1>6 DEF ChInv, NothingOldIsAwaited
  <2>2. CASE g # f
    <3>1. chLists'[g] = chLists[g]
      BY <1>2, <2>2
    <3>2. BeingReread(g) => BeingReread(g)'
      BY <1>3, <2>2, <3>1 DEF BeingReread
    <3>3. /\ AllSeen(chLists[g].read) => AllSeen(chLists[g].read)'
          /\ AllSeen(chLists[g].pages) => AllSeen(chLists[g].pages)'
      BY <3>1 DEF AllSeen
    <3> QED
      BY <2>1, <3>2, <3>3
  <2>3. CASE g = f
    <3>1. AllSeen(chLists[f].read)'
      BY <1>2 DEF AllSeen
    <3>2. AllSeen(chLists[f].pages)'
      <4>1. AllSeen(chLists'[f].pages)
        <5>1. CASE chLists'[f].pages = chLists[f].read
          BY <2>1, <2>3, <5>1
        <5>2. CASE chLists'[f].pages = chLists[f].pages /\ (chReq' # chReq => f \in chOld')
          <6>1. ~BeingReread(f)
            BY <1>3, <1>6, <2>3, <5>2 DEF BeingReread
          <6> QED
            BY <2>1, <2>3, <5>2, <6>1
        <5> QED
          BY <1>2, <5>1, <5>2
      <4> QED
        BY <4>1 DEF AllSeen
    <3> QED
      BY <2>3, <3>1, <3>2
  <2> QED
    BY <2>2, <2>3
<1> QED
  BY <1>4, <1>5, <1>6 DEF NothingOldIsAwaited

\* A fetch that starts reads nothing old; the pages stay as they were.
LEMMA FetchKeeps ==
  ASSUME ChInv, NEW f \in ChFilters, NEW list \in ChList, list.pages = chLists[f].pages,
         chLists[f].fetch = "none", UNCHANGED <<chReq, chOld>>,
         chLists' = [chLists EXCEPT ![f] = Fetching(list)]
  PROVE  NothingOldIsAwaited' /\ NothingIsLeftOver'
<1> DEFINE next == Fetching(list)
<1>1. next \in ChList /\ next.pages = chLists[f].pages /\ AllSeen(next.read) /\ next.fetch # "none"
  BY FetchesStart
<1>2. f \notin chOld' /\ ~Awaited(f) => AllSeen(next.pages)
  BY <1>1 DEF ChInv, NothingOldIsAwaited, BeingReread
<1> HIDE DEF next
<1>3. chLists' = [chLists EXCEPT ![f] = next]
  BY DEF next
<1> QED
  BY <1>1, <1>2, <1>3, OneListKeeps

LEMMA ChStep ==
  ASSUME ChInv, [ChNext]_chVars
  PROVE  ChInv'
<1> DEFINE Good == NothingOldIsAwaited' /\ NothingIsLeftOver'
<1> SUFFICES Good
  BY ChannelTyped DEF ChInv
<1>1. /\ chReq \in ChRequest /\ chLists \in [ChFilters -> ChList] /\ chFilter \in ChFilters
      /\ chReq.kind = "none" => chReq.phase = "idle"
  BY DEF ChInv, ChannelIsTyped, NothingIsLeftOver
<1>2. NoRequest.kind = "none" /\ NoRequest.phase = "idle"
  BY DEF NoRequest
<1>3. ASSUME UNCHANGED <<chLists, chOld, chReq>>
      PROVE  Good
  <2>1. chReq'.kind = "none" => chReq'.phase = "idle"
    BY <1>1, <1>3
  <2> QED
    BY <1>3, <2>1, ListsStay
<1>4. CASE Handled
  <2>1. CASE chReq.kind = "older"
    <3>1. UNCHANGED <<chLists, chOld>> /\ chReq.phase = "sent"
      BY <1>4, <2>1 DEF Handled, SetAuto, MoveRows, StartOlder
    <3>2. chReq'.kind = "none" => chReq'.phase = "idle"
      BY <1>1, <1>2, <1>4, <2>1 DEF Handled, EndRequest, ChRequest
    <3> QED
      BY <3>1, <3>2, ListsStay
  <2>2. CASE chReq.kind # "older"
    <3>1. Outdate
      BY <1>4, <2>2 DEF Handled, SetAuto, MoveRows, StartOlder
    <3>2. chOld' = {f \in Cached : chReq'.phase = "ok" => f # chReq.at}
      BY <1>4, <2>2 DEF Handled
    <3>3. \/ chReq'.phase = "ok" /\ chReq'.kind = chReq.kind /\ chReq'.at = chReq.at
          \/ chReq' = NoRequest
      BY <1>1, <1>4 DEF Handled, EndRequest, ChRequest
    <3>4. chOld' = {f \in Cached : chReq'.phase = "idle" \/ f # chReq.at}
      BY <1>2, <3>2, <3>3
    <3>5. chReq.kind # "none"
      BY <1>1, <1>4 DEF Handled
    <3>6. \/ chReq'.phase = "idle"
          \/ chReq'.at = chReq.at /\ chReq'.phase \in {"ok", "polling", "waiting"}
      BY <1>2, <3>3
    <3>7. chReq'.kind = "none" => chReq'.phase = "idle"
      BY <1>2, <3>3, <3>5
    <3> QED
      BY <3>1, <3>4, <3>6, <3>7, OutdatesAll
  <2> QED
    BY <2>1, <2>2
<1>5. CASE Refused \/ Refreshed
  <2>1. UNCHANGED <<chLists, chOld>> /\ chReq' = NoRequest /\ chReq.phase \in {"sent", "refreshed"}
    BY <1>5 DEF Refused, Refreshed, EndRequest, chCache
  <2> QED
    BY <1>2, <2>1, ListsStay
<1>6. CASE PollFails
  <2>1. /\ UNCHANGED chLists /\ chOld' = chOld \cup {chReq.at} /\ chReq' = NoRequest
        /\ chReq.phase = "polling"
    BY <1>6 DEF PollFails, EndRequest
  <2> QED
    BY <1>2, <2>1, ListsStay
<1>7. CASE Acted \/ AutoToggled \/ PollEnded
  BY <1>7, RefreshAwaits DEF Acted, AutoToggled, PollEnded
<1>8. ASSUME UNCHANGED <<chLists, chOld>>, chReq.phase \in {"ok", "polling", "waiting"},
             chReq'.phase \in {"polling", "waiting"}, chReq'.at = chReq.at, chReq'.kind = chReq.kind
      PROVE  Good
  BY <1>1, <1>8, ListsStay
<1>9. CASE OlderCreated \/ PollRunning
  BY <1>1, <1>8, <1>9 DEF OlderCreated, PollRunning, ChRequest, chCache
<1>10. CASE PollAgain
  <2>1. CASE Refresh
    BY <1>10, <2>1, RefreshAwaits DEF PollAgain
  <2>2. CASE chReq' = [chReq EXCEPT !.phase = "polling"] /\ UNCHANGED chCache
    BY <1>1, <1>8, <1>10, <2>2 DEF PollAgain, ChRequest, chCache
  <2> QED
    BY <1>10, <2>1, <2>2 DEF PollAgain
<1>11. ASSUME NEW f \in ChFilters, ListStep(f)
       PROVE  Good
  BY <1>11, PageKeeps, LandingKeeps DEF ListStep
<1>12. ASSUME NEW kind \in {"auto", "analyze", "skip", "older"}, NEW ids, Send(kind, ids)
       PROVE  Good
  <2>1. UNCHANGED <<chLists, chOld>> /\ chReq.phase = "idle" /\ chReq'.kind = kind
    BY <1>1, <1>12 DEF Send, busy, chCache
  <2> QED
    BY <2>1, ListsStay
<1>13. CASE \/ \E v \in ChVideos : ActOnRow(v)
            \/ ActOnSelection \/ ToggleAutoAnalyze \/ LoadOlder
  <2>1. \A v : RowPaths(v) \subseteq {"analyze", "skip"}
    BY DEF RowPaths
  <2>2. \E ids : \E kind \in {"auto", "analyze", "skip", "older"} : Send(kind, ids)
    BY <1>13, <2>1, Zenon DEF ActOnRow, ActOnSelection, ToggleAutoAnalyze, LoadOlder
  <2> QED
    BY <1>12, <2>2
<1>14. CASE ListRevalidates
  BY <1>1, <1>14, FetchKeeps DEF ListRevalidates
<1>15. ASSUME NEW f \in ChFilters, SetFilter(f)
       PROVE  Good
  <2>1. CASE UNCHANGED chLists
    BY <1>3, <1>15, <2>1 DEF SetFilter
  <2>2. CASE chLists[f].fetch = "none" /\ chLists' = [chLists EXCEPT ![f] = Fetching(chLists[f])]
    BY <1>1, <1>15, <2>2, FetchKeeps DEF SetFilter
  <2> QED
    BY <1>15, <2>1, <2>2 DEF SetFilter
<1>16. CASE ScrollDown
  <2> DEFINE list == chLists[chFilter]
             more == [list EXCEPT !.size = @ + 1, !.again = FALSE]
  <2>1. list \in ChList /\ list.size \in 1..ChMaxSize /\ list.fetch = "none" /\ list.size < ChMaxSize
    BY <1>1, <1>16 DEF ScrollDown, ChList
  <2>2. list.size + 1 \in 1..ChMaxSize
    BY <2>1, ChannelAssumption
  <2>3. more \in ChList /\ more.pages = list.pages
    BY <2>1, <2>2 DEF ChList
  <2>4. chLists' = [chLists EXCEPT ![chFilter] = Fetching(more)] /\ UNCHANGED <<chReq, chOld>>
    BY <1>16 DEF ScrollDown
  <2> HIDE DEF more
  <2> QED
    BY <1>1, <2>1, <2>3, <2>4, FetchKeeps
<1>17. CASE OlderJobEnds
  <2>1. CASE UNCHANGED chCache
    BY <1>3, <1>17, <2>1 DEF OlderJobEnds, chCache
  <2>2. CASE /\ chReq.kind = "older" /\ chReq.phase \in {"ok", "polling", "waiting"}
             /\ Outdate /\ chOld' = Cached \ {chReq.at}
    <3>1. UNCHANGED chReq
      BY <1>17 DEF OlderJobEnds
    <3>2. chOld' = {f \in Cached : chReq'.phase = "idle" \/ f # chReq.at}
      BY <2>2, <3>1
    <3>3. /\ chReq'.at = chReq.at /\ chReq'.phase \in {"ok", "polling", "waiting"}
          /\ chReq'.kind = "none" => chReq'.phase = "idle"
      BY <1>1, <2>2, <3>1
    <3> QED
      BY <2>2, <3>2, <3>3, OutdatesAll
  <2> QED
    BY <1>17, <2>1, <2>2 DEF OlderJobEnds
<1>18. CASE \/ \E v \in ChVideos : Toggle(v)
            \/ ToggleSelectAll \/ LaneMoves \/ DetailFetched \/ SessionChanges \/ UNCHANGED chVars
  BY <1>3, <1>18 DEF Toggle, ToggleSelectAll, LaneMoves, DetailFetched, SessionChanges, chVars, chCache
<1> QED
  BY <1>4, <1>5, <1>6, <1>7, <1>9, <1>10, <1>11, <1>13, <1>14, <1>15, <1>16, <1>17, <1>18
     DEF ChNext, ChAnswer

LEMMA OldOnesAreNamed == ChInv => OwnWriteShows
<1> SUFFICES ASSUME ChInv, ~busy, NEW f \in ChFilters \ chOld
             PROVE  AllSeen(chLists[f].pages)
  BY DEF OwnWriteShows, AllSeen
<1>1. chReq.phase = "idle"
  BY DEF ChInv, NothingIsLeftOver, busy
<1> QED
  BY <1>1 DEF ChInv, NothingOldIsAwaited, Awaited, BeingReread

\* Once a request has succeeded and the page is usable again, every page in the cache was
\* read after it, in the list it was made under and in those first read since, for any
\* videos, filters, page size, pages, polls and requests.
THEOREM OwnWritesShow == ChSpec => []OwnWriteShows
<1>1. ChInv /\ [ChNext]_<<chVars, cookie, authed>> => ChInv'
  BY ChStep DEF chVars
<1> QED
  BY <1>1, ChInitially, OldOnesAreNamed, PTL DEF ChSpec
-----------------------------------------------------------------------------
(* The import inbox *)

InShapes ==
  /\ inReq = [phase |-> inReq.phase, skip |-> inReq.skip, analyze |-> inReq.analyze]
  /\ inReviewed = [touched |-> inReviewed.touched, ids |-> inReviewed.ids]
  /\ inReviewed.touched \in BOOLEAN
  /\ authed \in BOOLEAN

\* What is on screen was defaulted, what is reviewed or about to be skipped with it; so
\* what appears later is none of these. Before a review nothing is late.
NothingLateIsReviewed ==
  /\ authed => allIds \subseteq inDefaulted
  /\ inReviewed.ids \subseteq inDefaulted
  /\ inReq.skip \subseteq inDefaulted
  /\ inReviewed.ids \cap inLate = {}
  /\ ~inReviewed.touched => inLate = {}

InInv == InShapes /\ NothingLateIsReviewed /\ NeverSkipsUnseen

LEMMA InInitially ==
  ASSUME SessionInit, InInit
  PROVE  InInv
<1>1. authed \in BOOLEAN
  BY Zenon DEF SessionInit
<1>2. allIds = {}
  BY DEF InInit, allIds, ShownIds, InNoData
<1> QED
  BY <1>1, <1>2 DEF InInit, InInv, InShapes, NothingLateIsReviewed, NeverSkipsUnseen,
     InNoRequest, InNotReviewed

\* The effect that ticks what appears leaves what is reviewed and posted alone.
LEMMA DefaultKeeps ==
  ASSUME InInv, Default, UNCHANGED <<inReviewed, inReq>>, authed' \in BOOLEAN
  PROVE  InInv'
<1>1. allIds' \subseteq inDefaulted' /\ inDefaulted \subseteq inDefaulted'
  BY DEF Default, allIds
<1>2. inLate' \cap inDefaulted \subseteq inLate
  BY DEF Default
<1>3. ~inReviewed.touched => inLate' = inLate
  BY DEF Default
<1> QED
  BY <1>1, <1>2, <1>3 DEF InInv, InShapes, NothingLateIsReviewed, NeverSkipsUnseen

\* A page that is locked remembers nothing.
LEMMA ForgetKeeps ==
  ASSUME InForget, authed' = FALSE
  PROVE  InInv'
  BY DEF InForget, InInv, InShapes, NothingLateIsReviewed, NeverSkipsUnseen, InNoRequest,
     InNotReviewed

LEMMA PostedKeeps ==
  ASSUME InInv, NEW ids, NEW status, NEW next, Posted(ids, status, next)
  PROVE  InInv'
<1>1. CASE /\ inReq' \in {[inReq EXCEPT !.phase = next], InNoRequest}
           /\ UNCHANGED <<inMemory, cookie, authed, inTotal, inData>>
  <2>1. UNCHANGED <<inReviewed, inDefaulted, inLate, authed, inTotal, inData, allIds>>
    BY <1>1 DEF inMemory, allIds
  <2>2. inReq'.skip \in {inReq.skip, {}} /\ inReq'.analyze \in {inReq.analyze, {}}
        /\ (inReq'.skip = {} \/ inReq'.analyze = inReq.analyze)
    BY <1>1 DEF InInv, InShapes, InNoRequest
  <2>3. inReq' = [phase |-> inReq'.phase, skip |-> inReq'.skip, analyze |-> inReq'.analyze]
    BY <1>1 DEF InInv, InShapes, InNoRequest
  <2> QED
    BY <2>1, <2>2, <2>3 DEF InInv, InShapes, NothingLateIsReviewed, NeverSkipsUnseen
<1>2. CASE inReq' = InNoRequest /\ UNCHANGED <<inMemory, cookie, authed, inTotal, inData>>
  BY <1>1, <1>2
<1>3. CASE WriteRefused /\ InForget
  BY <1>3, ForgetKeeps DEF WriteRefused
<1> QED
  BY <1>1, <1>2, <1>3 DEF Posted

LEMMA InStep ==
  ASSUME InInv, [InNext]_<<inVars, cookie, authed>>
  PROVE  InInv'
<1> USE DEF InInv
<1>1. authed \in BOOLEAN
  BY DEF InShapes
<1>2. CASE RowMoves
  BY <1>2 DEF RowMoves, inMemory, allIds, ShownIds, InShapes, NothingLateIsReviewed, NeverSkipsUnseen
<1>3. CASE SnapshotPolled
  BY <1>1, <1>3, DefaultKeeps DEF SnapshotPolled
<1>4. CASE InboxFetched
  BY <1>1, <1>4, DefaultKeeps DEF InboxFetched
<1>5. CASE Tick
  <2>1. /\ authed /\ inReviewed' = Reviewed
        /\ UNCHANGED <<inDefaulted, inLate, inReq, authed, inTotal, inData>>
    BY <1>5 DEF Tick, ListShown, SetMany
  <2>2. UNCHANGED allIds
    BY <2>1 DEF allIds
  <2> QED
    BY <2>1, <2>2 DEF Reviewed, InShapes, NothingLateIsReviewed, NeverSkipsUnseen
<1>6. CASE Submit
  <2> DEFINE skipped == (IF inReviewed.touched THEN inReviewed.ids \cap allIds ELSE allIds) \ inChecked
  <2>1. /\ authed
        /\ inReq' = [skip |-> skipped, analyze |-> selectedIds, phase |-> inReq'.phase]
        /\ UNCHANGED <<inReviewed, inDefaulted, inLate, authed, inTotal, inData>>
    BY <1>6 DEF Submit, ListShown
  <2>2. UNCHANGED allIds
    BY <2>1 DEF allIds
  <2>3. skipped \subseteq inDefaulted /\ skipped \cap inLate = {} /\ skipped \cap selectedIds = {}
    BY <2>1 DEF selectedIds, NothingLateIsReviewed, InShapes
  <2> QED
    BY <2>1, <2>2, <2>3 DEF InShapes, NothingLateIsReviewed, NeverSkipsUnseen
<1>7. CASE SkipPosted
  BY <1>7, PostedKeeps DEF SkipPosted
<1>8. CASE AnalyzePosted
  BY <1>8, PostedKeeps DEF AnalyzePosted
<1>9. CASE SubmitDone
  <2>1. UNCHANGED allIds
    BY <1>9 DEF SubmitDone, allIds
  <2> QED
    BY <1>9, <2>1 DEF SubmitDone, InNotReviewed, InShapes, NothingLateIsReviewed, NeverSkipsUnseen
<1>10. CASE SubmitRefreshed
  <2>1. Default /\ UNCHANGED <<inReviewed, authed>> /\ inReq' = InNoRequest
    BY <1>10 DEF SubmitRefreshed
  <2>2. allIds' \subseteq inDefaulted' /\ inDefaulted \subseteq inDefaulted'
    BY <2>1 DEF Default, allIds
  <2>3. inLate' \cap inDefaulted \subseteq inLate /\ (~inReviewed.touched => inLate' = inLate)
    BY <2>1 DEF Default
  <2> QED
    BY <2>1, <2>2, <2>3 DEF InNoRequest, InShapes, NothingLateIsReviewed, NeverSkipsUnseen
<1>11. CASE InSession
  <2>1. authed' \in BOOLEAN
    BY <1>1, <1>11, Zenon DEF InSession, SessionStep, Lapse, Grant, Drop
  <2>2. CASE authed'
    BY <1>11, <2>1, <2>2, DefaultKeeps DEF InSession
  <2>3. CASE ~authed'
    BY <1>11, <2>1, <2>3, ForgetKeeps DEF InSession
  <2> QED
    BY <2>2, <2>3
<1>12. CASE UNCHANGED <<inVars, cookie, authed>>
  BY <1>12 DEF inVars, allIds, InShapes, NothingLateIsReviewed, NeverSkipsUnseen
<1> QED
  BY <1>2, <1>3, <1>4, <1>5, <1>6, <1>7, <1>8, <1>9, <1>10, <1>11, <1>12 DEF InNext

\* No submission skips what came on screen during the review, for any videos, groups and
\* number of submissions, wherever one of them failed.
THEOREM NothingUnseenIsSkipped == InSpec => []NeverSkipsUnseen
<1>1. InInv => NeverSkipsUnseen
  BY DEF InInv
<1> QED
  BY <1>1, InInitially, InStep, PTL DEF InSpec
-----------------------------------------------------------------------------
(* The dialogs *)

DgShapes ==
  /\ dgShown = [items |-> dgShown.items, own |-> dgShown.own]
  /\ dgFetch = [on |-> dgFetch.on, read |-> dgFetch.read, own |-> dgFetch.own,
                items |-> dgFetch.items]
  /\ dgFetch.on \in BOOLEAN /\ dgFetch.read \in BOOLEAN
  /\ dgAdd = [at |-> dgAdd.at, of |-> dgAdd.of]
  /\ dgRemove \in [DgTickers -> Awaits]
  /\ authed \in BOOLEAN

\* What was read is as new as the last answer (an answer throws away what is being
\* fetched), and whoever has not told the lists yet is in revalidate().
AwaitsAreSound ==
  /\ dgFetch.read => dgFetch.own
  /\ dgUntold => \/ dgAdd.at \in {"own", "lists"}
                 \/ \E t \in DgTickers : dgRemove[t] \in {"own", "lists"}
  /\ adUntold => adSubmit = "lists"
  /\ authed /\ ~dgFetch.on => dgShown.own

DgInv == DgShapes /\ AwaitsAreSound

LEMMA DgInitially ==
  ASSUME SessionInit, DgInit
  PROVE  DgInv
<1>1. authed \in BOOLEAN
  BY Zenon DEF SessionInit
<1> QED
  BY <1>1 DEF DgInit, DgInv, DgShapes, AwaitsAreSound, NoDgFetch, NoAdd, Awaits

\* A belief that can only fall.
LEMMA Falling ==
  ASSUME NEW b, NEW c, b \in BOOLEAN, c = b \/ c = FALSE
  PROVE  c \in BOOLEAN /\ (c => b)
<1>1. CASE c = b
  BY <1>1
<1>2. CASE c = FALSE
  BY <1>2
<1> QED
  BY <1>1, <1>2

LEMMA DgStep ==
  ASSUME DgInv, [DgNext]_<<dgVars, cookie, authed>>
  PROVE  DgInv'
<1> USE DEF DgInv, DgShapes, AwaitsAreSound
<1>1. CASE HoldingsRevalidate
  BY <1>1 DEF HoldingsRevalidate, NoDgFetch, adVars
<1>2. CASE ListHoldings
  BY <1>2 DEF ListHoldings, adVars
<1>3. CASE HoldingsFetched
  <2>1. CASE dgShown' = [items |-> dgFetch.items, own |-> dgFetch.own] /\ dgFetch' = NoDgFetch
    BY <1>3, <2>1 DEF HoldingsFetched, NoDgFetch, adVars
  <2>2. CASE dgFetch' = [NoDgFetch EXCEPT !.on = TRUE] /\ UNCHANGED dgShown
    BY <1>3, <2>2 DEF HoldingsFetched, NoDgFetch, adVars
  <2> QED
    BY <1>3, <2>1, <2>2 DEF HoldingsFetched
<1>4. CASE ClickAdd
  BY <1>4 DEF ClickAdd, adVars
<1>5. CASE ClickRemove
  BY <1>5 DEF ClickRemove, adVars, Awaits
<1>6. CASE HoldingsAdded
  BY <1>6 DEF HoldingsAdded, adVars
<1>7. CASE HoldingRemoved
  BY <1>7 DEF HoldingRemoved, adVars, Awaits
<1>8. CASE ChangeAnswered
  BY <1>8 DEF ChangeAnswered, MutateHoldings, NoDgFetch, adVars, Awaits
<1>9. CASE ChangeRefused
  <2>1. authed' = authed \/ authed' = FALSE
    BY <1>9, Zenon DEF ChangeRefused, Denied, WriteRefused
  <2>2. authed' \in BOOLEAN /\ (authed' => authed)
    <3>1. authed \in BOOLEAN
      OBVIOUS
    <3> HIDE DEF DgInv, DgShapes, AwaitsAreSound
    <3> QED
      BY <2>1, <3>1, Falling, Zenon
  <2>3. CASE dgAdd.at = "request" /\ dgAdd' = NoAdd /\ UNCHANGED dgRemove
    BY <1>9, <2>2, <2>3 DEF ChangeRefused, NoAdd, adVars
  <2>4. CASE UNCHANGED dgAdd /\ \E t \in DgTickers :
               dgRemove[t] = "request" /\ dgRemove' = [dgRemove EXCEPT ![t] = "idle"]
    BY <1>9, <2>2, <2>4 DEF ChangeRefused, adVars, Awaits
  <2> QED
    BY <1>9, <2>3, <2>4 DEF ChangeRefused
<1>10. CASE AnswerLost
  BY <1>10 DEF AnswerLost, NoAdd, adVars, Awaits
<1>11. CASE RevalidateOwn
  BY <1>11 DEF RevalidateOwn, adVars, Awaits
<1>12. CASE HoldingsAnnounced
  BY <1>12 DEF HoldingsAnnounced, NoAdd, adVars, Awaits
<1>13. CASE OpenAddChannel
  BY <1>13 DEF OpenAddChannel
<1>14. CASE SubmitChannels
  BY <1>14 DEF SubmitChannels
<1>15. CASE ChannelsPosted
  <2>1. authed' = authed \/ authed' = FALSE
    BY <1>15, Zenon DEF ChannelsPosted, Denied, WriteRefused
  <2>2. authed' \in BOOLEAN /\ (authed' => authed)
    <3>1. authed \in BOOLEAN
      OBVIOUS
    <3> HIDE DEF DgInv, DgShapes, AwaitsAreSound
    <3> QED
      BY <2>1, <3>1, Falling, Zenon
  <2>3. adSubmit' \in {"answer", "idle"} /\ adSubmit = "request" /\ UNCHANGED adUntold
    BY <1>15 DEF ChannelsPosted
  <2>4. UNCHANGED <<dgShown, dgFetch, dgAdd, dgRemove, dgUntold>>
    BY <1>15 DEF ChannelsPosted
  <2> QED
    BY <2>2, <2>3, <2>4
<1>16. CASE ChannelsAnswered
  BY <1>16 DEF ChannelsAnswered
<1>17. CASE ChannelsAnnounced
  BY <1>17 DEF ChannelsAnnounced
<1>18. CASE DgSession
  <2>1. authed' \in BOOLEAN
    BY <1>18, Zenon DEF DgSession, SessionStep, Lapse, Grant, Drop
  <2> QED
    BY <1>18, <2>1 DEF DgSession, adVars
<1>19. CASE UNCHANGED <<dgVars, cookie, authed>>
  BY <1>19 DEF dgVars
<1> QED
  BY <1>1, <1>2, <1>3, <1>4, <1>5, <1>6, <1>7, <1>8, <1>9, <1>10, <1>11, <1>12, <1>13,
     <1>14, <1>15, <1>16, <1>17, <1>18, <1>19 DEF DgNext

\* A change that was answered is shown and told, for any tickers and number of requests,
\* however they overlap and whenever the page is locked.
THEOREM ChangesAreToldAlways == DgSpec => []ChangesAreTold
<1>1. DgInv => ChangesAreTold
  BY DEF DgInv, DgShapes, AwaitsAreSound, ChangesAreTold
<1> QED
  BY <1>1, DgInitially, DgStep, PTL DEF DgSpec
-----------------------------------------------------------------------------
(* The paged lists *)

\* Pages, the list and the fetch are lists of what they should hold.
PagesAreTyped ==
  /\ pgSrv \in Seq(PgItems)
  /\ pgPages \in Seq(PgPage)
  /\ pgFlight \in [on : BOOLEAN, all : BOOLEAN, pages : Seq(PgPage)]
  /\ pgOther = [pages |-> pgOther.pages, size |-> pgOther.size, all |-> pgOther.all,
                error |-> pgOther.error]
  /\ pgOther.pages \in Seq(PgPage) /\ pgOther.all \in BOOLEAN

\* What was read since the last change is what the api has, with the filter and without.
CurrentIn(pages, list) ==
  \A i \in DOMAIN pages : pages[i].seen =>
    pages[i].items = PageOf(list, i).items /\ pages[i].total = Len(list)
Current(pages) == CurrentIn(pages, Listed)
OtherIsCurrent == CurrentIn(pgOther.pages, Under(~pgNarrowed))

AllOwn(pages) == \A i \in DOMAIN pages : pages[i].own = TRUE

\* A bound mutate() has every page read anew, and of what was read before its change
\* nothing is taken out of the cache.
MutateReadsAll ==
  pgKind = "channels" =>
    /\ pgOwn = "none" => AllOwn(pgPages) /\ AllOwn(pgFlight.pages)
    /\ pgOwn = "done" => pgFlight.on /\ pgFlight.all /\ AllOwn(pgFlight.pages)

PgInv ==
  /\ PagesAreTyped /\ MutateReadsAll
  /\ Current(pgPages) /\ Current(pgFlight.pages) /\ OtherIsCurrent

LEMMA NoPages == <<>> \in Seq(PgPage) /\ Current(<<>>) /\ AllOwn(<<>>)
  BY DEF Current, CurrentIn, AllOwn

LEMMA ListedTyped ==
  ASSUME PagesAreTyped
  PROVE  Listed \in Seq(PgItems)
  BY KeptIsThose DEF PagesAreTyped, Listed, Under

LEMMA ReadTyped ==
  ASSUME PagesAreTyped, NEW i \in Nat \ {0}
  PROVE  /\ ReadPage(i) \in PgPage /\ ReadPage(i).seen = TRUE /\ ReadPage(i).own = TRUE
         /\ ReadPage(i).total = Len(Listed)
<1> DEFINE m == (i - 1) * PgPageSize + 1
           n == IF i * PgPageSize < Len(Listed) THEN i * PgPageSize ELSE Len(Listed)
<1>1. Listed \in Seq(PgItems) /\ Len(Listed) \in Nat
  BY ListedTyped
<1>2. (i - 1) * PgPageSize \in Nat /\ i * PgPageSize \in Nat
  BY PagedAssumption
<1>3. m \in Int /\ n \in Int /\ \A k \in m..n : Listed[k] \in PgItems
  BY <1>1, <1>2
<1>4. SubSeq(Listed, m, n) \in Seq(PgItems)
  <2> HIDE DEF m, n
  <2> QED
    BY <1>3, SubSeqProperties
<1>5. ReadPage(i) = [items |-> SubSeq(Listed, m, n), total |-> Len(Listed), seen |-> TRUE, own |-> TRUE]
  BY Zenon DEF ReadPage, PageOf
<1> HIDE DEF m, n
<1> QED
  BY <1>1, <1>4, <1>5 DEF PgPage

\* One page more.
LEMMA PageAppended ==
  ASSUME NEW pages \in Seq(PgPage), Current(pages), NEW p \in PgPage,
         p.seen => p.items = ReadPage(Len(pages) + 1).items /\ p.total = Len(Listed)
  PROVE  /\ Append(pages, p) \in Seq(PgPage)
         /\ Current(Append(pages, p))
         /\ AllOwn(pages) /\ p.own = TRUE => AllOwn(Append(pages, p))
<1> DEFINE more == Append(pages, p)
<1>1. /\ more \in Seq(PgPage) /\ Len(pages) \in Nat
      /\ DOMAIN more = 1..(Len(pages) + 1) /\ DOMAIN pages = 1..Len(pages)
      /\ \A i \in 1..Len(pages) : more[i] = pages[i]
      /\ more[Len(pages) + 1] = p
  OBVIOUS
<1> HIDE DEF more
<1>2. \A i \in DOMAIN more : i = Len(pages) + 1 \/ (i \in DOMAIN pages /\ more[i] = pages[i])
  BY <1>1
<1>3. Current(more)
  BY <1>1, <1>2 DEF Current, CurrentIn, ReadPage
<1>4. AllOwn(pages) /\ p.own = TRUE => AllOwn(more)
  BY <1>1, <1>2 DEF AllOwn
<1> QED
  BY <1>1, <1>3, <1>4 DEF more

\* What was read before a change is known to be older; another's change leaves own alone.
LEMMA PagesOlder ==
  ASSUME NEW pages \in Seq(PgPage), NEW own \in BOOLEAN
  PROVE  /\ Older(pages, own) \in Seq(PgPage)
         /\ \A i \in DOMAIN Older(pages, own) : Older(pages, own)[i].seen = FALSE
         /\ own = FALSE /\ AllOwn(pages) => AllOwn(Older(pages, own))
<1> DEFINE older(p) == [p EXCEPT !.seen = FALSE, !.own = @ /\ ~own]
<1>1. ASSUME NEW p \in PgPage
      PROVE  /\ older(p) \in PgPage /\ older(p).seen = FALSE
             /\ own = FALSE /\ p.own = TRUE => older(p).own = TRUE
  BY <1>1 DEF PgPage
<1>2. Older(pages, own) = [i \in DOMAIN pages |-> older(pages[i])]
  BY DEF Older
<1> HIDE DEF older
<1>3. /\ DOMAIN pages = 1..Len(pages) /\ Len(pages) \in Nat
      /\ \A i \in DOMAIN pages : pages[i] \in PgPage
  OBVIOUS
<1>4. Older(pages, own) \in [1..Len(pages) -> PgPage]
  BY <1>1, <1>2, <1>3
<1>5. Older(pages, own) \in Seq(PgPage)
  BY <1>3, <1>4
<1>6. ASSUME own = FALSE, AllOwn(pages)
      PROVE  AllOwn(Older(pages, own))
  BY <1>1, <1>2, <1>3, <1>6 DEF AllOwn
<1>7. ASSUME NEW i \in DOMAIN pages
      PROVE  Older(pages, own)[i].seen = FALSE
  <2>1. older(pages[i]).seen = FALSE
    BY <1>1, <1>3
  <2>2. Older(pages, own)[i] = older(pages[i])
    BY <1>2
  <2> QED
    BY <2>1, <2>2
<1>8. DOMAIN Older(pages, own) = DOMAIN pages
  BY <1>2
<1> QED
  BY <1>5, <1>6, <1>7, <1>8

LEMMA PgInitially ==
  ASSUME PgInit
  PROVE  PgInv
<1>1. /\ pgSrv \in Seq(PgItems) /\ pgPages = <<>>
      /\ pgFlight = [on |-> TRUE, all |-> FALSE, pages |-> <<>>]
      /\ pgOther = [pages |-> <<>>, size |-> 1, all |-> FALSE, error |-> FALSE]
  BY PagedAssumption DEF PgInit
<1>2. PagesAreTyped
  BY <1>1, NoPages DEF PagesAreTyped
<1>4. OtherIsCurrent
  BY <1>1 DEF OtherIsCurrent, CurrentIn
<1>3. pgFlight.pages = <<>> /\ pgOwn = "none"
  BY <1>1 DEF PgInit
<1> QED
  BY <1>1, <1>2, <1>3, <1>4, NoPages DEF PgInv, MutateReadsAll

\* A fetch that starts has read nothing.
LEMMA StartIsEmpty ==
  ASSUME NEW all \in BOOLEAN
  PROVE  /\ StartPages(all) \in [on : BOOLEAN, all : BOOLEAN, pages : Seq(PgPage)]
         /\ StartPages(all).on = TRUE /\ StartPages(all).all = all
         /\ StartPages(all).pages = <<>>
  BY NoPages DEF StartPages

\* While neither the list nor the filter changes, what is current stays so.
LEMMA StaysCurrent ==
  ASSUME UNCHANGED <<pgSrv, pgNarrowed>>, NEW pages, Current(pages)
  PROVE  /\ pgPages' = pages => Current(pgPages)'
         /\ pgFlight'.pages = pages => Current(pgFlight.pages)'
<1>1. Listed' = Listed
  BY DEF Listed, Under
<1> QED
  BY <1>1 DEF Current, CurrentIn, PageOf

LEMMA OtherStaysCurrent ==
  ASSUME PgInv, UNCHANGED <<pgSrv, pgNarrowed, pgOther>>
  PROVE  OtherIsCurrent'
<1>1. Under(~pgNarrowed)' = Under(~pgNarrowed)
  BY DEF Under
<1> QED
  BY <1>1 DEF PgInv, OtherIsCurrent, CurrentIn, PageOf

\* A fetch begins, of the list that is shown.
LEMMA FetchStarts ==
  ASSUME PgInv, NEW all \in BOOLEAN, pgFlight' = StartPages(all),
         UNCHANGED <<pgKind, pgSrv, pgNarrowed, pgOther, pgPages, pgOwn>>,
         pgKind = "channels" => pgOwn # "done"
  PROVE  PgInv'
<1>1. PagesAreTyped'
  BY StartIsEmpty, NoPages DEF PgInv, PagesAreTyped
<1>2. pgFlight'.pages = <<>>
  BY StartIsEmpty
<1>3. Current(pgFlight.pages)'
  BY <1>2 DEF Current, CurrentIn
<1>4. Current(pgPages)'
  BY StaysCurrent DEF PgInv
<1>5. MutateReadsAll'
  <2>1. AllOwn(pgFlight.pages)'
    BY <1>2 DEF AllOwn
  <2>2. UNCHANGED pgPages /\ AllOwn(pgPages) => AllOwn(pgPages)'
    BY DEF AllOwn
  <2> QED
    BY <2>1, <2>2 DEF PgInv, MutateReadsAll
<1> QED
  BY <1>1, <1>3, <1>4, <1>5, OtherStaysCurrent DEF PgInv

\* Another filter: what is cached of its list, or the first page of that, is shown, and
\* what was shown is cached.
LEMMA ListIsSwitched ==
  ASSUME PgInv, SetQuery, pgKind # "channels"
  PROVE  PgInv'
<1>1. /\ pgNarrowed' = ~pgNarrowed /\ UNCHANGED <<pgKind, pgSrv>>
      /\ pgOther' = [pages |-> pgPages, size |-> pgSize, all |-> pgFlight.all, error |-> pgError]
      /\ pgPages' \in {pgOther.pages, FirstOf(pgOther.pages)}
      /\ pgFlight' \in {StartPages(FALSE), StartPages(pgOther.all),
                        [NoPgFlight EXCEPT !.all = pgOther.all]}
  BY DEF SetQuery
<1>2. /\ pgSrv \in Seq(PgItems) /\ pgPages \in Seq(PgPage) /\ pgOther.pages \in Seq(PgPage)
      /\ pgFlight.all \in BOOLEAN /\ pgOther.all \in BOOLEAN
  BY DEF PgInv, PagesAreTyped
<1>3. /\ pgFlight' \in [on : BOOLEAN, all : BOOLEAN, pages : Seq(PgPage)]
      /\ pgFlight'.pages = <<>>
  BY <1>1, <1>2, StartIsEmpty, NoPages DEF NoPgFlight
<1>4. /\ pgPages' \in Seq(PgPage)
      /\ DOMAIN pgPages' \subseteq DOMAIN pgOther.pages
      /\ \A i \in DOMAIN pgPages' : pgPages'[i] = pgOther.pages[i]
  <2>1. CASE pgPages' = pgOther.pages
    BY <1>2, <2>1
  <2>3. CASE pgPages' = <<>>
    <3>1. DOMAIN pgPages' = {}
      BY <2>3
    <3> QED
      BY <2>3, <3>1, NoPages
  <2>2. CASE pgOther.pages # <<>> /\ pgPages' = <<pgOther.pages[1]>>
    <3>1. 1 \in DOMAIN pgOther.pages /\ pgOther.pages[1] \in PgPage
      BY <1>2, <2>2
    <3>2. DOMAIN pgPages' = {1} /\ pgPages'[1] = pgOther.pages[1]
      BY <2>2
    <3> QED
      BY <2>2, <3>1, <3>2
  <2> QED
    BY <1>1, <2>1, <2>2, <2>3 DEF FirstOf
<1>5. pgOther'.pages = pgPages /\ pgOther'.all = pgFlight.all
  BY <1>1
<1>6. PagesAreTyped'
  BY <1>1, <1>2, <1>3, <1>4, <1>5 DEF PagesAreTyped
<1>7. Listed' = Under(~pgNarrowed) /\ Under(~pgNarrowed)' = Listed
  BY <1>1 DEF Listed, Under
<1>8. Current(pgPages)'
  BY <1>4, <1>7 DEF PgInv, OtherIsCurrent, Current, CurrentIn, PageOf
<1>9. OtherIsCurrent'
  BY <1>5, <1>7 DEF PgInv, OtherIsCurrent, Current, CurrentIn, PageOf
<1>10. Current(pgFlight.pages)'
  BY <1>3 DEF Current, CurrentIn
<1>11. MutateReadsAll'
  BY <1>1 DEF MutateReadsAll
<1> QED
  BY <1>6, <1>8, <1>9, <1>10, <1>11 DEF PgInv

LEMMA PageIsRead ==
  ASSUME PgInv, NextPage
  PROVE  PgInv'
<1> DEFINE i == Len(pgFlight.pages) + 1
           p == IF i <= Len(pgPages) /\ ~pgFlight.all /\ ~(i = 1 /\ thisList.first)
                THEN pgPages[i] ELSE ReadPage(i)
<1>1. /\ pgFlight.on = TRUE /\ pgFlight' = [pgFlight EXCEPT !.pages = Append(@, p)]
      /\ UNCHANGED <<pgKind, pgSrv, pgNarrowed, pgOther, pgPages, pgOwn>>
  BY DEF NextPage, pgQuery, PgInv, PagesAreTyped
<1>2. pgFlight \in [on : BOOLEAN, all : BOOLEAN, pages : Seq(PgPage)] /\ pgPages \in Seq(PgPage)
  BY DEF PgInv, PagesAreTyped
<1>3. i \in Nat \ {0}
  BY <1>2
<1>4. p \in PgPage /\ (p.seen => p.items = ReadPage(i).items /\ p.total = Len(Listed))
  <2>1. CASE p = ReadPage(i)
    BY <1>3, <2>1, ReadTyped DEF PgInv
  <2>2. CASE p = pgPages[i] /\ i <= Len(pgPages)
    <3>1. i \in DOMAIN pgPages
      BY <1>2, <1>3, <2>2
    <3> HIDE DEF i, p
    <3> QED
      BY <1>2, <2>2, <3>1 DEF PgInv, Current, CurrentIn, ReadPage
  <2> QED
    BY <2>1, <2>2
<1>5. ASSUME pgKind = "channels", pgOwn \in {"none", "done"}
      PROVE  p.own = TRUE
  <2>1. CASE p = ReadPage(i)
    BY <1>3, <2>1, ReadTyped DEF PgInv
  <2>2. CASE p = pgPages[i] /\ i <= Len(pgPages) /\ ~pgFlight.all
    <3>1. i \in DOMAIN pgPages
      BY <1>2, <1>3, <2>2
    <3> HIDE DEF i, p
    <3> QED
      BY <1>5, <2>2, <3>1 DEF PgInv, MutateReadsAll, AllOwn
  <2> QED
    BY <2>1, <2>2
<1>6. /\ Append(pgFlight.pages, p) \in Seq(PgPage)
      /\ Current(Append(pgFlight.pages, p))
      /\ AllOwn(pgFlight.pages) /\ p.own = TRUE => AllOwn(Append(pgFlight.pages, p))
  <2> HIDE DEF p
  <2> QED
    BY <1>2, <1>4, PageAppended DEF PgInv
<1> HIDE DEF i, p
<1>7. /\ pgFlight' = [on |-> pgFlight.on, all |-> pgFlight.all, pages |-> Append(pgFlight.pages, p)]
      /\ pgFlight'.pages = Append(pgFlight.pages, p)
  BY <1>1, <1>2
<1>8. PagesAreTyped'
  BY <1>1, <1>2, <1>6, <1>7 DEF PgInv, PagesAreTyped
<1>9. Current(pgPages)' /\ Current(pgFlight.pages)'
  BY <1>1, <1>6, <1>7, StaysCurrent DEF PgInv
<1>10. MutateReadsAll'
  <2>1. AllOwn(Append(pgFlight.pages, p)) => AllOwn(pgFlight.pages)'
    BY <1>7 DEF AllOwn
  <2>2. AllOwn(pgPages) => AllOwn(pgPages)'
    BY <1>1 DEF AllOwn
  <2>3. pgFlight'.on = pgFlight.on /\ pgFlight'.all = pgFlight.all
    BY <1>7
  <2> QED
    BY <1>1, <1>5, <1>6, <2>1, <2>2, <2>3 DEF PgInv, MutateReadsAll
<1> QED
  BY <1>1, <1>8, <1>9, <1>10, OtherStaysCurrent DEF PgInv

LEMMA PagesAreShown ==
  ASSUME PgInv, PagesShown
  PROVE  PgInv'
<1>1. /\ pgFlight.on /\ pgPages' = pgFlight.pages /\ pgFlight' = NoPgFlight
      /\ pgOwn' = IF pgOwn = "done" THEN "none" ELSE pgOwn
      /\ UNCHANGED <<pgKind, pgSrv, pgNarrowed, pgOther>>
  BY DEF PagesShown, pgQuery
<1>2. pgFlight'.pages = <<>> /\ pgFlight' \in [on : BOOLEAN, all : BOOLEAN, pages : Seq(PgPage)]
  BY <1>1, NoPages DEF NoPgFlight
<1>3. PagesAreTyped'
  BY <1>1, <1>2 DEF PgInv, PagesAreTyped
<1>4. Current(pgPages)'
  BY <1>1, StaysCurrent DEF PgInv
<1>5. Current(pgFlight.pages)' /\ AllOwn(pgFlight.pages)'
  BY <1>2 DEF Current, CurrentIn, AllOwn
<1>6. AllOwn(pgFlight.pages) => AllOwn(pgPages)'
  BY <1>1 DEF AllOwn
<1>7. MutateReadsAll'
  BY <1>1, <1>5, <1>6 DEF PgInv, MutateReadsAll
<1> QED
  BY <1>1, <1>3, <1>4, <1>5, <1>7, OtherStaysCurrent DEF PgInv

LEMMA FetchFails ==
  ASSUME PgInv, PagesFail
  PROVE  PgInv'
<1>1. /\ pgFlight' = [NoPgFlight EXCEPT !.all = pgFlight.all]
      /\ pgOwn' = IF pgOwn = "done" THEN "failed" ELSE pgOwn
      /\ UNCHANGED <<pgKind, pgSrv, pgNarrowed, pgOther, pgPages>>
  BY DEF PagesFail, pgQuery
<1>2. pgFlight'.pages = <<>> /\ pgFlight' \in [on : BOOLEAN, all : BOOLEAN, pages : Seq(PgPage)]
  BY <1>1, NoPages DEF NoPgFlight, PgInv, PagesAreTyped
<1>3. PagesAreTyped'
  BY <1>1, <1>2 DEF PgInv, PagesAreTyped
<1>4. Current(pgPages)'
  BY <1>1, StaysCurrent DEF PgInv
<1>5. Current(pgFlight.pages)' /\ AllOwn(pgFlight.pages)'
  BY <1>2 DEF Current, CurrentIn, AllOwn
<1>6. AllOwn(pgPages) => AllOwn(pgPages)'
  BY <1>1 DEF AllOwn
<1>7. MutateReadsAll'
  BY <1>1, <1>5, <1>6 DEF PgInv, MutateReadsAll
<1> QED
  BY <1>1, <1>3, <1>4, <1>5, <1>7, OtherStaysCurrent DEF PgInv

\* The list changed: nothing that was read is taken for current any more.
LEMMA ListIsChanged ==
  ASSUME PgInv, NEW list \in Seq(PgItems), NEW own \in BOOLEAN, Changed(list, own),
         pgOwn' = IF own THEN "sent" ELSE pgOwn
  PROVE  PgInv'
<1>1. /\ pgSrv' = list /\ pgPages' = Older(pgPages, own)
      /\ pgFlight' = [pgFlight EXCEPT !.pages = Older(@, own)]
      /\ pgOther' = [pgOther EXCEPT !.pages = Older(@, own)]
      /\ UNCHANGED pgKind
  BY DEF Changed
<1>2. pgFlight \in [on : BOOLEAN, all : BOOLEAN, pages : Seq(PgPage)] /\ pgPages \in Seq(PgPage)
  BY DEF PgInv, PagesAreTyped
<1>3. /\ pgFlight' = [on |-> pgFlight.on, all |-> pgFlight.all, pages |-> Older(pgFlight.pages, own)]
      /\ pgFlight'.pages = Older(pgFlight.pages, own)
      /\ pgFlight'.on = pgFlight.on /\ pgFlight'.all = pgFlight.all
  BY <1>1, <1>2
<1>8. /\ pgOther' = [pages |-> Older(pgOther.pages, own), size |-> pgOther.size,
                      all |-> pgOther.all, error |-> pgOther.error]
      /\ pgOther'.pages = Older(pgOther.pages, own)
      /\ pgOther.pages \in Seq(PgPage) /\ pgOther.all \in BOOLEAN
  BY <1>1 DEF PgInv, PagesAreTyped
<1>4. PagesAreTyped'
  <2>1. /\ Older(pgPages, own) \in Seq(PgPage) /\ Older(pgFlight.pages, own) \in Seq(PgPage)
        /\ Older(pgOther.pages, own) \in Seq(PgPage)
    BY <1>2, <1>8, PagesOlder
  <2> QED
    BY <1>1, <1>2, <1>3, <1>8, <2>1 DEF PagesAreTyped
<1>9. OtherIsCurrent'
  <2>1. \A i \in DOMAIN pgOther'.pages : pgOther'.pages[i].seen = FALSE
    BY <1>8, PagesOlder
  <2> QED
    BY <2>1 DEF OtherIsCurrent, CurrentIn
<1>5. Current(pgPages)'
  <2>1. \A i \in DOMAIN pgPages' : pgPages'[i].seen = FALSE
    BY <1>1, <1>2, PagesOlder
  <2> QED
    BY <2>1 DEF Current, CurrentIn
<1>6. Current(pgFlight.pages)'
  <2>1. \A i \in DOMAIN pgFlight'.pages : pgFlight'.pages[i].seen = FALSE
    BY <1>2, <1>3, PagesOlder
  <2> QED
    BY <2>1 DEF Current, CurrentIn
<1>7. MutateReadsAll'
  <2>1. CASE own = TRUE
    BY <2>1 DEF MutateReadsAll
  <2>2. CASE own = FALSE
    <3>1. AllOwn(pgPages) => AllOwn(Older(pgPages, own))
      BY <1>2, <2>2, PagesOlder
    <3>2. AllOwn(pgFlight.pages) => AllOwn(Older(pgFlight.pages, own))
      BY <1>2, <2>2, PagesOlder
    <3>3. AllOwn(Older(pgPages, own)) => AllOwn(pgPages)'
      BY <1>1 DEF AllOwn
    <3>4. AllOwn(Older(pgFlight.pages, own)) => AllOwn(pgFlight.pages)'
      BY <1>3 DEF AllOwn
    <3> QED
      BY <1>1, <1>3, <2>2, <3>1, <3>2, <3>3, <3>4 DEF PgInv, MutateReadsAll
  <2> QED
    BY <2>1, <2>2
<1> QED
  BY <1>4, <1>5, <1>6, <1>7, <1>9 DEF PgInv

LEMMA ListStaysAList ==
  ASSUME PgInv, NEW own \in BOOLEAN, ListChanges(own)
  PROVE  \E list \in Seq(PgItems) : Changed(list, own)
<1>1. pgSrv \in Seq(PgItems)
  BY DEF PgInv, PagesAreTyped
<1>2. PICK x \in PgItems : Changed(<<x>> \o pgSrv, own)
                           \/ Changed(Kept(pgSrv, {i \in DOMAIN pgSrv : pgSrv[i] # x}), own)
  BY DEF ListChanges
<1>3. <<x>> \o pgSrv \in Seq(PgItems)
  BY <1>1
<1>4. Kept(pgSrv, {i \in DOMAIN pgSrv : pgSrv[i] # x}) \in Seq(PgItems)
  BY <1>1, KeptIsThose
<1> QED
  BY <1>2, <1>3, <1>4

LEMMA PgStep ==
  ASSUME PgInv, [PgNext]_pgVars
  PROVE  PgInv'
<1>1. CASE NextPage
  BY <1>1, PageIsRead
<1>2. CASE PagesShown
  BY <1>2, PagesAreShown
<1>3. CASE PagesFail
  BY <1>3, FetchFails
<1>4. CASE PagesRevalidate
  <2>1. pgFlight.all \in BOOLEAN
    BY DEF PgInv, PagesAreTyped
  <2>2. pgKind = "channels" => pgOwn # "done"
    BY <1>4 DEF PagesRevalidate, PgInv, MutateReadsAll
  <2> QED
    BY <1>4, <2>1, <2>2, FetchStarts DEF PagesRevalidate, pgQuery
<1>5. CASE SentinelSeen \/ LoadMore
  <2>1. pgKind = "channels" => ~pgFlight.on
    BY <1>5 DEF SentinelSeen, LoadMore, thisList, PgLists, ChannelPages, isValidating
  <2>2. pgKind = "channels" => pgOwn # "done"
    BY <2>1 DEF PgInv, MutateReadsAll
  <2>3. SetSize
    BY <1>5 DEF SentinelSeen, LoadMore
  <2> QED
    BY <2>2, <2>3, FetchStarts DEF SetSize, pgQuery
<1>6. CASE FeedFilterBar \/ TrendingFilters \/ VideosFilter
  <2>1. pgKind # "channels" /\ SetQuery
    BY <1>6 DEF FeedFilterBar, TrendingFilters, VideosFilter
  <2> QED
    BY <2>1, ListIsSwitched
<1>7. CASE ElsewhereChanged
  <2>1. PICK list \in Seq(PgItems) : Changed(list, FALSE)
    BY <1>7, ListStaysAList DEF ElsewhereChanged
  <2> QED
    BY <1>7, <2>1, ListIsChanged DEF ElsewhereChanged
<1>8. CASE OwnChange
  <2>1. PICK list \in Seq(PgItems) : Changed(list, TRUE)
    BY <1>8, ListStaysAList DEF OwnChange
  <2> QED
    BY <1>8, <2>1, ListIsChanged DEF OwnChange
<1>9. CASE Announce
  <2>1. /\ pgOwn' = "done" /\ pgFlight' = StartPages(pgKind # "failures")
        /\ UNCHANGED <<pgKind, pgSrv, pgNarrowed, pgOther, pgPages>>
    BY <1>9 DEF Announce, pgQuery
  <2>2. /\ pgFlight' \in [on : BOOLEAN, all : BOOLEAN, pages : Seq(PgPage)]
        /\ pgFlight'.on = TRUE /\ pgFlight'.all = (pgKind # "failures") /\ pgFlight'.pages = <<>>
    BY <2>1, StartIsEmpty
  <2>3. PagesAreTyped'
    BY <2>1, <2>2 DEF PgInv, PagesAreTyped
  <2>4. Current(pgPages)'
    BY <2>1, StaysCurrent DEF PgInv
  <2>5. Current(pgFlight.pages)' /\ AllOwn(pgFlight.pages)'
    BY <2>2 DEF Current, CurrentIn, AllOwn
  <2>6. MutateReadsAll'
    BY <2>1, <2>2, <2>5 DEF MutateReadsAll
  <2> QED
    BY <2>1, <2>3, <2>4, <2>5, <2>6, OtherStaysCurrent DEF PgInv
<1>10. CASE ScrollBack \/ UNCHANGED pgVars
  <2>1. UNCHANGED <<pgKind, pgSrv, pgNarrowed, pgOther, pgPages, pgFlight, pgOwn>>
    BY <1>10 DEF ScrollBack, pgVars, pgQuery
  <2>2. Current(pgPages)' /\ Current(pgFlight.pages)'
    BY <2>1, StaysCurrent DEF PgInv
  <2> QED
    BY <2>1, <2>2, OtherStaysCurrent DEF PgInv, PagesAreTyped, MutateReadsAll, AllOwn
<1> QED
  BY <1>1, <1>2, <1>3, <1>4, <1>5, <1>6, <1>7, <1>8, <1>9, <1>10 DEF PgNext

\* Where n pages of a list end.
PagesEnd(n) == IF n * PgPageSize < Len(Listed) THEN n * PgPageSize ELSE Len(Listed)

\* Current pages, one after the other, are the beginning of the list.
LEMMA PagesAreTheBeginning ==
  ASSUME PagesAreTyped, Current(pgPages), \A i \in DOMAIN pgPages : pgPages[i].seen
  PROVE  ListItems = SubSeq(Listed, 1, PagesEnd(Len(pgPages)))
<1> DEFINE N == Len(pgPages)
           lists == [i \in DOMAIN pgPages |-> pgPages[i].items]
<1>1. N \in Nat /\ DOMAIN pgPages = 1..N /\ \A i \in 1..N : pgPages[i].items \in Seq(PgItems)
  <2>1. pgPages \in Seq(PgPage)
    BY DEF PagesAreTyped
  <2>2. \A p \in PgPage : p.items \in Seq(PgItems)
    BY DEF PgPage
  <2> QED
    BY <2>1, <2>2
<1>2. Listed \in Seq(PgItems) /\ Len(Listed) \in Nat
  BY ListedTyped
<1>3. lists \in Seq(Seq(PgItems)) /\ Len(lists) = N
  <2>1. lists \in [1..N -> Seq(PgItems)]
    BY <1>1
  <2> HIDE DEF N, lists
  <2> QED
    BY <1>1, <2>1
<1>4. \A n \in 1..N : lists[n] = SubSeq(Listed, (n - 1) * PgPageSize + 1, PagesEnd(n))
  <2> SUFFICES ASSUME NEW n \in 1..N
               PROVE  lists[n] = SubSeq(Listed, (n - 1) * PgPageSize + 1, PagesEnd(n))
    OBVIOUS
  <2>1. lists[n] = ReadPage(n).items
    BY <1>1 DEF Current, CurrentIn, ReadPage
  <2>2. ReadPage(n).items = SubSeq(Listed, (n - 1) * PgPageSize + 1, PagesEnd(n))
    BY DEF ReadPage, PageOf, PagesEnd
  <2> HIDE DEF lists
  <2> QED
    BY <2>1, <2>2
<1> HIDE DEF N, lists
<1>5. PICK joined : /\ joined[0] = <<>>
                    /\ \A n \in 1..N : joined[n] = joined[n - 1] \o lists[n]
                    /\ \A n \in 0..N : joined[n] \in Seq(PgItems)
                    /\ Lists!FlattenSeq(lists) = joined[N]
  BY <1>3, ListsAreJoined
<1> DEFINE Good == {n \in 0..N : joined[n] = SubSeq(Listed, 1, PagesEnd(n))}
<1>6. 0 \in Good
  <2>1. PagesEnd(0) = 0
    BY <1>2, PagedAssumption DEF PagesEnd
  <2>2. SubSeq(Listed, 1, 0) = <<>>
    BY SubSeqEmpty
  <2> QED
    BY <1>1, <1>5, <2>1, <2>2
<1>7. ASSUME NEW n \in 0..N, n > 0, n - 1 \in Good
      PROVE  n \in Good
  <2> DEFINE a == (n - 1) * PgPageSize
             b == n * PgPageSize
  <2>1. n \in 1..N /\ a \in Nat /\ b = a + PgPageSize /\ PgPageSize \in Nat \ {0}
    BY <1>1, <1>7, PagedAssumption
  <2>2. joined[n] = SubSeq(Listed, 1, PagesEnd(n - 1)) \o SubSeq(Listed, a + 1, PagesEnd(n))
    BY <1>4, <1>5, <1>7, <2>1
  <2>3. /\ PagesEnd(n - 1) = IF a < Len(Listed) THEN a ELSE Len(Listed)
        /\ PagesEnd(n) = IF b < Len(Listed) THEN b ELSE Len(Listed)
    BY DEF PagesEnd
  <2> HIDE DEF a, b
  <2>4. CASE a <= Len(Listed)
    <3>1. /\ PagesEnd(n - 1) = a /\ 1 \in 1..(Len(Listed) + 1) /\ a \in (1 - 1)..Len(Listed)
          /\ PagesEnd(n) \in a..Len(Listed)
      BY <1>2, <2>1, <2>3, <2>4
    <3>2. SubSeq(Listed, 1, a) \o SubSeq(Listed, a + 1, PagesEnd(n)) = SubSeq(Listed, 1, PagesEnd(n))
      BY <1>2, <3>1, ConcatAdjacentSubSeq
    <3> QED
      BY <2>2, <3>1, <3>2
  <2>5. CASE ~(a <= Len(Listed))
    <3>1. PagesEnd(n - 1) = Len(Listed) /\ PagesEnd(n) = Len(Listed) /\ Len(Listed) < a + 1
      BY <1>2, <2>1, <2>3, <2>5
    <3>2. SubSeq(Listed, a + 1, Len(Listed)) = <<>>
      BY <1>2, <2>1, <3>1, SubSeqEmpty
    <3>3. SubSeq(Listed, 1, Len(Listed)) = Listed
      BY <1>2, SubSeqFull
    <3>4. Listed \o <<>> = Listed
      BY <1>2
    <3> QED
      BY <2>2, <3>1, <3>2, <3>3, <3>4
  <2> QED
    BY <2>4, <2>5
<1>8. N \in Good
  <2>1. N \in 0..N
    BY <1>1
  <2> HIDE DEF Good
  <2> QED
    BY <1>1, <1>6, <1>7, <2>1, UpTo
<1>9. ListItems = Lists!FlattenSeq(lists)
  BY DEF ListItems, lists
<1> QED
  BY <1>5, <1>8, <1>9 DEF N

\* A list that offers no more has shown everything.
LEMMA EndIsTheEnd ==
  ASSUME PgInv
  PROVE  ListsEverything
<1> SUFFICES ASSUME pgPages # <<>>, ~HasMore, \A i \in DOMAIN pgPages : pgPages[i].seen
             PROVE  ListItems = Listed
  BY DEF ListsEverything
<1> DEFINE N == Len(pgPages)
<1>1. PagesAreTyped /\ Current(pgPages) /\ pgPages \in Seq(PgPage)
  BY DEF PgInv, PagesAreTyped
<1>2. N \in Nat \ {0} /\ 1 \in DOMAIN pgPages /\ N \in DOMAIN pgPages
  BY <1>1
<1>3. Listed \in Seq(PgItems) /\ Len(Listed) \in Nat
  BY <1>1, ListedTyped
<1>4. ListItems = SubSeq(Listed, 1, PagesEnd(N))
  BY <1>1, PagesAreTheBeginning
<1>5. PagesEnd(N) \in 0..Len(Listed)
  BY <1>2, <1>3, PagedAssumption DEF PagesEnd
<1>6. CASE thisList.more = "full"
  <2>1. Len(pgPages[N].items) # PgPageSize
    BY <1>6 DEF HasMore, LastPageFull
  <2>2. pgPages[N].items = SubSeq(Listed, (N - 1) * PgPageSize + 1, PagesEnd(N))
    <3>1. pgPages[N].items = ReadPage(N).items
      BY <1>1, <1>2 DEF Current, CurrentIn, ReadPage
    <3>2. ReadPage(N).items = SubSeq(Listed, (N - 1) * PgPageSize + 1, PagesEnd(N))
      BY DEF ReadPage, PageOf, PagesEnd
    <3> QED
      BY <3>1, <3>2
  <2>3. CASE N * PgPageSize < Len(Listed)
    <3> DEFINE m == (N - 1) * PgPageSize + 1
               n == N * PgPageSize
    <3>1. m \in Nat /\ m >= 1 /\ n = m + PgPageSize - 1 /\ PgPageSize \in Nat \ {0} /\ n \in Nat
      BY <1>2, PagedAssumption
    <3>2. PagesEnd(N) = n /\ n < Len(Listed)
      BY <2>3 DEF PagesEnd
    <3> HIDE DEF m, n
    <3>3. \A i \in m..n : Listed[i] \in PgItems
      BY <1>3, <3>1, <3>2
    <3>4. Len(SubSeq(Listed, m, n)) = n - m + 1
      BY <3>1, <3>3, SubSeqProperties
    <3>5. pgPages[N].items = SubSeq(Listed, m, n)
      BY <2>2, <3>2 DEF m
    <3> HIDE DEF N
    <3> QED
      BY <2>1, <3>1, <3>4, <3>5
  <2>4. CASE ~(N * PgPageSize < Len(Listed))
    <3>1. PagesEnd(N) = Len(Listed)
      BY <2>4 DEF PagesEnd
    <3> QED
      BY <1>3, <1>4, <3>1, SubSeqFull
  <2> QED
    BY <2>3, <2>4
<1>7. CASE thisList.more # "full"
  <2>1. ~(Len(ListItems) < pgPages[1].total) /\ pgPages[1].total = Len(Listed)
    BY <1>1, <1>2, <1>7 DEF HasMore, Current, CurrentIn
  <2>2. Len(ListItems) = PagesEnd(N)
    <3>1. \A i \in 1..PagesEnd(N) : Listed[i] \in PgItems
      BY <1>3, <1>5
    <3>2. Len(SubSeq(Listed, 1, PagesEnd(N))) = IF 1 <= PagesEnd(N) THEN PagesEnd(N) - 1 + 1 ELSE 0
      BY <1>5, <3>1, SubSeqProperties
    <3> QED
      BY <1>4, <1>5, <3>2
  <2>3. PagesEnd(N) = Len(Listed)
    BY <1>3, <1>5, <2>1, <2>2
  <2> QED
    BY <1>3, <1>4, <2>3, SubSeqFull
<1> QED
  BY <1>6, <1>7

\* A list that offers no more has shown everything, for any lists, page size, filters and
\* changes behind the api.
THEOREM ListsShowEverything == PgSpec => []ListsEverything
  BY EndIsTheEnd, PgInitially, PgStep, PTL DEF PgSpec

\* A channel that was removed or added is gone or there once the overview has come to
\* rest, for any lists, page size and number of pages, whatever was being read.
THEOREM OverviewShowsOwnChanges == PgSpec => []OwnChangeShows
<1>1. PgInv => OwnChangeShows
  BY DEF PgInv, MutateReadsAll, AllOwn, OwnChangeShows
<1> QED
  BY <1>1, PgInitially, PgStep, PTL DEF PgSpec
=============================================================================
