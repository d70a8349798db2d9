-------------------------- MODULE SocialApiProofs --------------------------
(***************************************************************************)
(* The composed service, for any contents, tasks, page sizes and number of *)
(* versions: what is cached was true, mutations write or invalidate every  *)
(* key they make stale, walks through the pages are exact, events tell of  *)
(* changes and the likes follow the ledger.                                *)
(***************************************************************************)
EXTENDS SocialApi, FiniteSetTheorems, SequenceTheorems, NaturalsInduction,
        WellFoundedInduction, TLAPS

Row == [id : Nat, at : Nat, c : Contents]

\* A version of table likes: finitely many rows, unique by content and by id.
Table(S) ==
  /\ S \subseteq Row
  /\ IsFiniteSet(S)
  /\ \A q, r \in S : q # r => q.c # r.c /\ q.id # r.id

-----------------------------------------------------------------------------
(* The order of the pages.                                                 *)

Before(S, r) == {q \in S : Newer(q, r)}
Rank(S, r) == Cardinality(Before(S, r))

\* ORDER BY created_at DESC, id DESC is a strict total order where ids differ.
LEMMA NewerOrder ==
  /\ \A r \in Row : ~ Newer(r, r)
  /\ \A q, r \in Row : Newer(q, r) => ~ Newer(r, q)
  /\ \A p, q, r \in Row : Newer(p, q) /\ Newer(q, r) => Newer(p, r)
  /\ \A q, r \in Row : q.id # r.id => Newer(q, r) \/ Newer(r, q)
  BY DEF Newer, Row

\* A table is totally ordered, and so is each part of it.
LEMMA TableOrder ==
  ASSUME NEW S, Table(S)
  PROVE  \A q, r \in S : q # r => Newer(q, r) \/ Newer(r, q)
  BY NewerOrder DEF Table

LEMMA TableSubset ==
  ASSUME NEW S, Table(S), NEW T \in SUBSET S
  PROVE  Table(T) /\ Cardinality(T) \in Nat /\ Cardinality(T) <= Cardinality(S)
<1>1. IsFiniteSet(T) /\ Cardinality(T) <= Cardinality(S)
  BY FS_Subset DEF Table
<1>2. Cardinality(T) \in Nat
  BY <1>1, FS_CardinalityType
<1> QED
  BY <1>1, <1>2 DEF Table

\* The rows before a row: fewer than all, and fewer for a newer row.
LEMMA RankBounds ==
  ASSUME NEW S, Table(S), NEW r \in S
  PROVE  Rank(S, r) \in Nat /\ Cardinality(S) \in Nat /\ Rank(S, r) < Cardinality(S)
<1>1. Before(S, r) \in SUBSET S /\ S \in SUBSET S
  BY DEF Before
<1>2. /\ Rank(S, r) \in Nat /\ Rank(S, r) <= Cardinality(S)
      /\ Cardinality(S) \in Nat
  BY <1>1, TableSubset DEF Rank
<1>3. r \notin Before(S, r)
  BY NewerOrder DEF Before, Table
<1>4. Rank(S, r) # Cardinality(S)
  BY <1>1, <1>3, FS_Subset DEF Rank, Table
<1> QED
  BY <1>2, <1>4

LEMMA RankRises ==
  ASSUME NEW S, Table(S), NEW q \in S, NEW r \in S, Newer(q, r)
  PROVE  Rank(S, q) < Rank(S, r)
<1>1. Before(S, q) \in SUBSET Before(S, r)
  BY NewerOrder DEF Before, Table
<1>2. q \in Before(S, r) /\ q \notin Before(S, q)
  BY NewerOrder DEF Before, Table
<1>3. IsFiniteSet(Before(S, r))
  BY TableSubset DEF Before, Table
<1>4. Rank(S, q) <= Rank(S, r) /\ Rank(S, q) # Rank(S, r)
  BY <1>1, <1>2, <1>3, FS_Subset DEF Rank
<1> QED
  BY <1>4, RankBounds

\* Ranks tell rows apart, and every number below the size of the table is one.
LEMMA RankBijective ==
  ASSUME NEW S, Table(S)
  PROVE  /\ \A q, r \in S : Rank(S, q) = Rank(S, r) => q = r
         /\ \A i \in 0 .. Cardinality(S) - 1 : \E r \in S : Rank(S, r) = i
<1> DEFINE n == Cardinality(S)
           f == [r \in S |-> Rank(S, r)]
<1>1. n \in Nat /\ IsFiniteSet(S)
  BY FS_CardinalityType DEF Table
<1>2. \A q, r \in S : Rank(S, q) = Rank(S, r) => q = r
  <2> SUFFICES ASSUME NEW q \in S, NEW r \in S, q # r
               PROVE  Rank(S, q) # Rank(S, r)
    OBVIOUS
  <2>1. Rank(S, q) \in Nat /\ Rank(S, r) \in Nat
    BY RankBounds
  <2> QED
    BY <2>1, TableOrder, RankRises
<1>3. f \in [S -> 0 .. n - 1]
  BY <1>1, RankBounds
<1>4. f \in Injection(S, 0 .. n - 1)
  BY <1>2, <1>3 DEF Injection, IsInjective
<1>5. IsFiniteSet(0 .. n - 1) /\ Cardinality(0 .. n - 1) = n
  BY <1>1, FS_Interval
<1>6. f \in Surjection(S, 0 .. n - 1)
  BY <1>4, <1>5, FS_Injection
<1> QED
  BY <1>2, <1>6 DEF Surjection

\* A page of n rows is full, or holds everything.
LEMMA NewestSize ==
  ASSUME NEW S, Table(S), NEW n \in Nat
  PROVE  Cardinality(Newest(S, n)) = IF Cardinality(S) <= n THEN Cardinality(S) ELSE n
<1> DEFINE N == Newest(S, n)
           m == IF Cardinality(S) <= n THEN Cardinality(S) ELSE n
           g == [r \in N |-> Rank(S, r)]
<1>1. Cardinality(S) \in Nat /\ m \in Nat
  BY FS_CardinalityType DEF Table
<1>2. N = {r \in S : Rank(S, r) < n}
  BY DEF Newest, Rank, Before
<1> HIDE DEF N
<1>3. IsFiniteSet(N)
  BY <1>2, FS_Subset DEF Table
<1>4. g \in [N -> 0 .. m - 1]
  BY <1>1, <1>2, RankBounds
<1>5. \A q, r \in N : g[q] = g[r] => q = r
  BY <1>2, RankBijective
<1>6. \A i \in 0 .. m - 1 : \E r \in N : g[r] = i
  <2> SUFFICES ASSUME NEW i \in 0 .. m - 1
               PROVE  \E r \in N : g[r] = i
    OBVIOUS
  <2>1. i \in 0 .. Cardinality(S) - 1 /\ i < n
    BY <1>1
  <2>2. PICK r \in S : Rank(S, r) = i
    BY <2>1, RankBijective
  <2> QED
    BY <1>2, <2>1, <2>2
<1> HIDE DEF m, g
<1>7. g \in Bijection(N, 0 .. m - 1)
  BY <1>4, <1>5, <1>6 DEF Bijection, Injection, Surjection, IsInjective
<1>8. Cardinality(0 .. m - 1) = Cardinality(N)
  BY <1>3, <1>7, FS_Bijection DEF ExistsBijection
<1>9. Cardinality(0 .. m - 1) = m
  BY <1>1, FS_Interval
<1> QED
  BY <1>8, <1>9 DEF m, N

\* Cutting a page down is the same as asking for fewer rows.
LEMMA NewestOfNewest ==
  ASSUME NEW S, Table(S), NEW m \in Nat, NEW n \in Nat, n <= m
  PROVE  Newest(Newest(S, m), n) = Newest(S, n)
<1> DEFINE M == Newest(S, m)
<1>1. M = {r \in S : Rank(S, r) < m} /\ M \in SUBSET S
  BY DEF Newest, Rank, Before
<1> HIDE DEF M
<1>2. ASSUME NEW r \in M
      PROVE  Before(M, r) = Before(S, r)
  <2>1. r \in S /\ Rank(S, r) < m
    BY <1>1, <1>2
  <2>2. ASSUME NEW q \in S, Newer(q, r)
        PROVE  q \in M
    <3>1. Rank(S, q) < Rank(S, r) /\ Rank(S, q) \in Nat /\ Rank(S, r) \in Nat
      BY <2>1, <2>2, RankRises, RankBounds
    <3> QED
      BY <1>1, <2>1, <3>1
  <2> QED
    BY <1>1, <2>2 DEF Before
<1>3. Newest(M, n) = {r \in M : Rank(S, r) < n}
  BY <1>2 DEF Newest, Rank, Before
<1>4. Newest(S, n) = {r \in S : Rank(S, r) < n}
  BY DEF Newest, Rank, Before
<1>5. \A r \in S : Rank(S, r) \in Nat
  BY RankBounds
<1> QED
  BY <1>1, <1>3, <1>4, <1>5 DEF M

\* The row more that a query asks for tells whether there are more.
LEMMA MoreRows ==
  ASSUME NEW S, Table(S), NEW n \in Nat
  PROVE  Cardinality(Newest(S, n + 1)) > n <=> Cardinality(S) > n
<1>1. Cardinality(S) \in Nat
  BY FS_CardinalityType DEF Table
<1> QED
  BY <1>1, NewestSize

\* Nothing is left out of a page that is not full.
LEMMA NewestAll ==
  ASSUME NEW S, Table(S), NEW n \in Nat, Cardinality(S) <= n
  PROVE  Newest(S, n) = S
<1>1. \A r \in S : Rank(S, r) < n
  BY RankBounds
<1> QED
  BY <1>1 DEF Newest, Rank, Before

\* What is left out comes after every row of the page.
LEMMA NewestAbove ==
  ASSUME NEW S, Table(S), NEW n \in Nat, NEW q \in Newest(S, n),
         NEW r \in S \ Newest(S, n)
  PROVE  Newer(q, r)
<1>1. q \in S /\ Rank(S, q) < n /\ ~ (Rank(S, r) < n)
  BY DEF Newest, Rank, Before
<1>2. Rank(S, q) \in Nat /\ Rank(S, r) \in Nat
  BY <1>1, RankBounds
<1>3. ~ Newer(r, q)
  BY <1>1, <1>2, RankRises
<1> QED
  BY <1>1, <1>3, TableOrder

\* A page is part of the table, and not empty unless the table is.
LEMMA NewestPart ==
  ASSUME NEW S, Table(S), NEW n \in Nat
  PROVE  /\ Newest(S, n) \subseteq S
         /\ Table(Newest(S, n))
         /\ S # {} /\ n > 0 => Newest(S, n) # {}
<1>1. Newest(S, n) \in SUBSET S
  BY DEF Newest
<1>2. Table(Newest(S, n))
  BY <1>1, TableSubset
<1>3. ASSUME S # {}, n > 0
      PROVE  Newest(S, n) # {}
  <2>1. Cardinality(S) \in Nat /\ Cardinality(S) # 0
    BY <1>3, FS_CardinalityType, FS_EmptySet DEF Table
  <2>2. Cardinality(Newest(S, n)) # 0
    BY <1>3, <2>1, NewestSize
  <2> QED
    BY <2>2, FS_EmptySet
<1> QED
  BY <1>1, <1>2, <1>3

\* The last row of a page, from which the cursor is made.
LEMMA OldestRow ==
  ASSUME NEW S, Table(S), S # {}
  PROVE  /\ Oldest(S) \in S
         /\ \A q \in S : q = Oldest(S) \/ Newer(q, Oldest(S))
<1> DEFINE n == Cardinality(S)
<1>1. n \in Nat /\ n # 0
  BY FS_CardinalityType, FS_EmptySet DEF Table
<1>2. PICK r \in S : Rank(S, r) = n - 1
  BY <1>1, RankBijective
<1>3. \A q \in S : ~ Newer(r, q)
  <2> SUFFICES ASSUME NEW q \in S, Newer(r, q)
               PROVE  FALSE
    OBVIOUS
  <2>1. Rank(S, r) < Rank(S, q) /\ Rank(S, q) < n /\ Rank(S, q) \in Nat
    BY RankRises, RankBounds
  <2> QED
    BY <1>1, <1>2, <2>1
<1>4. \A q \in S : q = r \/ Newer(q, r)
  BY <1>3, TableOrder
<1> QED
  BY <1>4 DEF Oldest

-----------------------------------------------------------------------------
(* What a query returns is what the key stands for.                        *)

\* A user's likes of one content: at most one row.
LEMMA RowsOfContent ==
  ASSUME NEW S, Table(S), NEW c
  PROVE  /\ RowsOf(S, c) = {} => Cardinality(RowsOf(S, c)) = 0
         /\ RowsOf(S, c) # {} => /\ \E r \in S : RowsOf(S, c) = {r} /\ r.c = c
                                 /\ Cardinality(RowsOf(S, c)) = 1
<1>1. ASSUME RowsOf(S, c) # {}
      PROVE  \E r \in S : RowsOf(S, c) = {r} /\ r.c = c
  <2>1. PICK r \in RowsOf(S, c) : TRUE
    BY <1>1
  <2>2. r \in S /\ r.c = c
    BY DEF RowsOf
  <2>3. \A q \in RowsOf(S, c) : q = r
    BY <2>2 DEF RowsOf, Table
  <2> QED
    BY <2>1, <2>2, <2>3
<1> QED
  BY <1>1, FS_EmptySet, FS_Singleton

\* The time of a like, read with CHOOSE in two ways.
StatusIn(S, c) == IF RowsOf(S, c) = {} THEN 0 ELSE (CHOOSE r \in RowsOf(S, c) : TRUE).at

LEMMA StatusExact ==
  ASSUME Table(Rows), NEW c
  PROVE  LikeStatus(c) = StatusIn(Rows, c)
<1>1. CASE RowsOf(Rows, c) = {}
  BY <1>1 DEF LikeStatus, Liked, StatusIn
<1>2. CASE RowsOf(Rows, c) # {}
  <2>1. PICK r \in Rows : RowsOf(Rows, c) = {r} /\ r.c = c
    BY <1>2, RowsOfContent
  <2>2. \A q \in Rows : q.c = c <=> q = r
    BY <2>1 DEF RowsOf
  <2>3. (CHOOSE q \in Rows : q.c = c) = r
    BY <2>2
  <2>4. (CHOOSE q \in RowsOf(Rows, c) : TRUE) = r
    BY <2>1
  <2>5. LikeStatus(c) = r.at
    BY <1>2, <2>3 DEF LikeStatus, Liked
  <2>6. StatusIn(Rows, c) = r.at
    BY <1>2, <2>4 DEF StatusIn
  <2> QED
    BY <2>5, <2>6
<1> QED
  BY <1>1, <1>2

\* The first page, cut from one row more than it holds, is the newest rows.
LEMMA FirstPageExact ==
  ASSUME Table(Rows), NEW f
  PROVE  LET mine == {r \in Rows : Matches(f, r.c)}
         IN FirstPage(f) = [rows |-> Newest(mine, PageCap),
                            more |-> Cardinality(mine) > PageCap]
<1> DEFINE mine == {r \in Rows : Matches(f, r.c)}
           rows == UserLikes(f, None, PageCap)
<1>1. rows = Newest(mine, PageCap + 1)
  BY DEF UserLikes, Beyond
<1>2. PageCap \in Nat
  BY ViewsAssumption
<1>3. Table(mine)
  BY TableSubset
<1> HIDE DEF mine, rows
<1>4. Newest(rows, PageCap) = Newest(mine, PageCap)
  BY <1>1, <1>2, <1>3, NewestOfNewest
<1>5. (Cardinality(rows) > PageCap) = (Cardinality(mine) > PageCap)
  BY <1>1, <1>2, <1>3, MoreRows
<1> QED
  BY <1>4, <1>5 DEF FirstPage, rows, mine

\* A cache miss loads the truth.
LEMMA LoadIsTruth ==
  ASSUME Table(Rows), NEW k
  PROVE  Load(k) = Truth(k, Rows)
<1>1. CASE Kind(k) = "lc"
  BY <1>1, RowsOfContent DEF Load, Truth, LikeCount
<1>2. CASE Kind(k) = "ls"
  BY <1>2, StatusExact DEF Load, Truth, StatusIn
<1>3. CASE Kind(k) = "ul"
  BY <1>3, FirstPageExact DEF Load, Truth
<1>4. CASE Kind(k) \notin {"lc", "ls", "ul"}
  BY <1>4 DEF Load, Truth, Leaders
<1> QED
  BY <1>1, <1>2, <1>3, <1>4

-----------------------------------------------------------------------------
(* The invariant.  Its parts speak of a log L, so that they can be carried *)
(* from one version of the database to the next.                           *)

\* Every version is a table, and ids are given out in order.
VersionsOK(L) ==
  /\ L \in Seq(SUBSET Row) /\ Len(L) \in 1 .. MaxVersion
  /\ \A v \in 1 .. Len(L) : Table(L[v]) /\ \A r \in L[v] : r.id < Seeds + v

Extends(M, L) == Len(L) <= Len(M) /\ \A v \in 1 .. Len(L) : M[v] = L[v]

\* A cache entry is a record whose value was the truth of its version.
EntryOK(k, e, L) ==
  /\ e = [val |-> e.val, ver |-> e.ver, late |-> e.late]
  /\ e.ver \in 1 .. Len(L)
  /\ e.val = Truth(k, L[e.ver])

Was(k, e, L) == e = None \/ EntryOK(k, e, L)

\* A pending event tells of the change that made its version.
Told(v, reply, L) ==
  LET gone == L[v - 1] \ L[v]
      new  == L[v] \ L[v - 1]
  IN /\ v \in 2 .. Len(L)
     /\ \E q \in gone \cup new :
          /\ reply = Reply(IF q \in new THEN "Inserted" ELSE "Removed", L[v], q.c)
          /\ gone \cup new = {q}

\* What a task holds or has to write fits the keys K that are followed.
TaskFields == {"pc", "keys", "hold", "todo", "event", "reply"}

IsTask(r) == r = [f \in TaskFields |-> r[f]]

TaskOK(r, K, L) ==
  /\ IsTask(r)
  /\ r.pc \in {"idle", "redis", "local", "query", "near", "far", "publish"}
  /\ r.keys \subseteq K
  /\ r.pc \in {"redis", "query"} => r.keys # {}
  /\ r.pc \in {"idle", "redis", "local", "query"} => r.reply = NoReply /\ r.event = 0
  /\ r.pc = "local" => \A k \in DOMAIN r.hold : k \in K /\ Was(k, r.hold[k], L)
  /\ r.pc \in {"near", "far"} =>
       \E puts : /\ r.todo = <<puts>> /\ DOMAIN puts = K
                 /\ \A k \in K : Was(k, puts[k], L)
  /\ r.pc = "publish" => r.event # 0
  /\ r.event # 0 => Told(r.event, r.reply, L)

\* A walk never shows a like twice, and what was there all the time has been shown
\* or lies behind the cursor.
WalkOK(w, L) ==
  /\ w = [pc |-> w.pc, filter |-> w.filter, limit |-> w.limit, cursor |-> w.cursor,
          pages |-> w.pages, from |-> w.from]
  /\ w.pc \in {"idle", "paging", "done"}
  /\ w.pc # "idle" =>
       /\ w.limit \in 1 .. MaxLimit
       /\ w.from \in 1 .. Len(L)
       /\ w.pages \in Seq(SUBSET Row)
       /\ \A i, j \in DOMAIN w.pages : \A r \in w.pages[i] \cap w.pages[j] : i = j
       /\ \A r \in Row :
            Matches(w.filter, r.c) /\ (\A v \in w.from .. Len(L) : r \in L[v]) =>
              \/ \E i \in DOMAIN w.pages : r \in w.pages[i]
              \/ w.pc = "paging" /\ Newer(w.cursor, r)
  /\ w.pc = "paging" =>
       /\ w.cursor \in Row
       /\ \A i \in DOMAIN w.pages : \A r \in w.pages[i] : ~ Newer(w.cursor, r)

CachesOK ==
  /\ l1 = [k \in hot |-> l1[k]] /\ l2 = [k \in hot |-> l2[k]]
  /\ \A k \in hot : Was(k, l1[k], log) /\ Was(k, l2[k], log)

TasksOK ==
  /\ task = [t \in Tasks |-> task[t]]
  /\ \A t \in Tasks : TaskOK(task[t], hot, log)

ApiInv ==
  /\ VersionsOK(log)
  /\ hot \in Choices
  /\ CachesOK
  /\ TasksOK
  /\ WalkOK(walk, log)
  /\ lost \subseteq {"l1", "l2"}

\* The latest version.
LEMMA CurrentVersion ==
  ASSUME VersionsOK(log)
  PROVE  /\ Now \in Nat /\ Now >= 1 /\ Now <= MaxVersion
         /\ Table(Rows) /\ \A r \in Rows : r.id < Seeds + Now
  BY ViewsAssumption DEF VersionsOK, Now, Rows

\* One key is followed.
LEMMA OneKey ==
  ASSUME hot \in Choices
  PROVE  \E h : /\ hot = {h}
                /\ h \in {CountKey(Focus), BoardKey, TypedBoardKey(Type(Focus)),
                          StatusKey(Focus), PageKey("_"), PageKey(Type(Focus))}
  BY DEF Choices

\* What was true of a version stays true of it.
LEMMA WasExtends ==
  ASSUME NEW L, NEW M, VersionsOK(L), VersionsOK(M), Extends(M, L), NEW k, NEW e
  PROVE  /\ EntryOK(k, e, L) => EntryOK(k, e, M)
         /\ Was(k, e, L) => Was(k, e, M)
<1>1. Len(L) \in Nat /\ Len(M) \in Nat /\ Len(L) <= Len(M)
  BY ViewsAssumption DEF VersionsOK, Extends
<1>2. EntryOK(k, e, L) => EntryOK(k, e, M)
  BY <1>1 DEF EntryOK, Extends
<1> QED
  BY <1>2 DEF Was

LEMMA TaskExtends ==
  ASSUME NEW L, NEW M, VersionsOK(L), VersionsOK(M), Extends(M, L),
         NEW r, NEW K, TaskOK(r, K, L)
  PROVE  TaskOK(r, K, M)
<1>1. Len(L) \in Nat /\ Len(M) \in Nat /\ Len(L) <= Len(M)
  BY ViewsAssumption DEF VersionsOK, Extends
<1>2. Told(r.event, r.reply, L) => Told(r.event, r.reply, M)
  BY <1>1 DEF Told, Extends
<1>3. \A k, e : Was(k, e, L) => Was(k, e, M)
  BY WasExtends
<1> QED
  BY <1>2, <1>3 DEF TaskOK

LEMMA WalkExtends ==
  ASSUME NEW L, NEW M, VersionsOK(L), VersionsOK(M), Extends(M, L),
         NEW w, WalkOK(w, L)
  PROVE  WalkOK(w, M)
<1>1. Len(L) \in Nat /\ Len(M) \in Nat /\ Len(L) <= Len(M)
  BY ViewsAssumption DEF VersionsOK, Extends
<1>2. w.pc # "idle" => w.from \in 1 .. Len(L)
  BY DEF WalkOK
<1>3. ASSUME w.pc # "idle", NEW r, \A v \in w.from .. Len(M) : r \in M[v]
      PROVE  \A v \in w.from .. Len(L) : r \in L[v]
  BY <1>1, <1>2, <1>3 DEF Extends
<1>4. w.pc # "idle" => w.from \in 1 .. Len(M)
  BY <1>1, <1>2
<1>5. ASSUME w.pc # "idle", NEW r \in Row, Matches(w.filter, r.c),
             \A v \in w.from .. Len(M) : r \in M[v]
      PROVE  \/ \E i \in DOMAIN w.pages : r \in w.pages[i]
             \/ w.pc = "paging" /\ Newer(w.cursor, r)
  BY <1>3, <1>5 DEF WalkOK
<1> QED
  BY <1>4, <1>5 DEF WalkOK

-----------------------------------------------------------------------------
(* The first version.                                                      *)

\* A set of numbers that is not empty has a least one.
LEMMA LeastNumber ==
  ASSUME NEW T \in SUBSET Nat, T # {}
  PROVE  \E m \in T : \A k \in T : m <= k
<1>0. IsWellFoundedOn(OpToRel(<, Nat), Nat)
  BY NatLessThanWellFounded
<1>1. PICK m \in T : \A k \in T : ~ (<<k, m>> \in OpToRel(<, Nat))
  BY <1>0, WFMin
<1>2. \A k \in T : ~ (k < m)
  BY <1>1 DEF OpToRel
<1> QED
  BY <1>2

\* The earliest of the times, which the seeds are given.
LEMMA EarliestTime ==
  LET early == CHOOSE t \in Times : \A u \in Times : t <= u
  IN early \in Times /\ early \in Nat
<1>1. Times \in SUBSET Nat /\ Times # {}
  BY ViewsAssumption
<1>2. \E m \in Times : \A k \in Times : m <= k
  BY <1>1, LeastNumber
<1> QED
  BY <1>1, <1>2

\* There are contents enough for the seeds.
LEMMA SeedContents ==
  LET first == CHOOSE f \in [1..Seeds -> Contents] :
                 \A i, j \in 1..Seeds : i # j => f[i] # f[j]
  IN /\ first \in [1..Seeds -> Contents]
     /\ \A i, j \in 1..Seeds : i # j => first[i] # first[j]
<1> DEFINE N == Cardinality(Contents)
<1>1. IsFiniteSet(Contents) /\ N \in Nat /\ Seeds \in 0 .. N
  BY ViewsAssumption, FS_CardinalityType
<1>2. PICK g : g \in Bijection(1 .. N, Contents)
  BY <1>1, FS_CardinalityType DEF ExistsBijection
<1>3. g \in [1 .. N -> Contents] /\ \A i, j \in 1 .. N : g[i] = g[j] => i = j
  BY <1>2 DEF Bijection, Injection, IsInjective
<1> DEFINE f == [i \in 1..Seeds |-> g[i]]
<1> HIDE DEF N
<1>4. /\ f \in [1..Seeds -> Contents]
      /\ \A i, j \in 1..Seeds : i # j => f[i] # f[j]
  BY <1>1, <1>3
<1> HIDE DEF f
<1> QED
  BY <1>4

\* The seeds are a table.
LEMMA FirstVersion ==
  ASSUME Init
  PROVE  VersionsOK(log) /\ Now = 1
<1> DEFINE first == CHOOSE f \in [1..Seeds -> Contents] :
                      \A i, j \in 1..Seeds : i # j => f[i] # f[j]
           early == CHOOSE t \in Times : \A u \in Times : t <= u
           row == [i \in 1..Seeds |-> [id |-> i, at |-> early, c |-> first[i]]]
           S == {row[i] : i \in 1..Seeds}
<1>1. log = <<S>>
  BY DEF Init
<1>2. early \in Nat
  BY EarliestTime
<1>3. /\ first \in [1..Seeds -> Contents]
      /\ \A i, j \in 1..Seeds : i # j => first[i] # first[j]
  BY SeedContents
<1>4. Seeds \in Nat /\ MaxVersion \in Nat \ {0}
  BY ViewsAssumption, FS_CardinalityType
<1> HIDE DEF first, early
<1>5. \A i \in 1..Seeds : /\ row[i] \in Row /\ row[i].id = i
                          /\ row[i].c = first[i]
  BY <1>2, <1>3, <1>4 DEF Row
<1> HIDE DEF row
<1>6. S \subseteq Row /\ \A r \in S : r.id < Seeds + 1
  BY <1>4, <1>5
<1>7. \A q, r \in S : q # r => q.c # r.c /\ q.id # r.id
  BY <1>3, <1>5
<1>8. IsFiniteSet(S)
  <2> DEFINE g == [r \in S |-> r.id]
  <2>1. g \in Injection(S, 1..Seeds)
    BY <1>5 DEF Injection, IsInjective
  <2>2. IsFiniteSet(1..Seeds)
    BY <1>4, FS_Interval
  <2> QED
    BY <2>1, <2>2, FS_Injection
<1>9. Table(S)
  BY <1>6, <1>7, <1>8 DEF Table
<1> HIDE DEF S
<1>10. log \in Seq(SUBSET Row) /\ Len(log) = 1 /\ log[1] = S
  BY <1>1, <1>6
<1>11. VersionsOK(log)
  BY <1>4, <1>6, <1>9, <1>10 DEF VersionsOK
<1> QED
  BY <1>10, <1>11 DEF Now

LEMMA ApiInitInv == ApiInit => ApiInv
<1> SUFFICES ASSUME ApiInit
             PROVE  ApiInv
  OBVIOUS
<1>1. Init
  BY DEF ApiInit
<1>2. VersionsOK(log)
  BY <1>1, FirstVersion
<1>3. hot \in Choices /\ lost \subseteq {"l1", "l2"}
  BY <1>1 DEF Init
<1>4. CachesOK
  BY <1>1 DEF Init, CachesOK, Was
<1>5. TaskOK(Idle, hot, log)
  BY DEF TaskOK, IsTask, TaskFields, Idle
<1>6. TasksOK
  BY <1>1, <1>5 DEF Init, TasksOK
<1>7. WalkOK(walk, log)
  BY <1>1 DEF Init, WalkOK, AtHome
<1> QED
  BY <1>2, <1>3, <1>4, <1>6, <1>7 DEF ApiInv

-----------------------------------------------------------------------------
(* The walk.                                                               *)

\* The cursor made from the last row of a page separates the page from the rest.
LEMMA CursorCuts ==
  ASSUME NEW S, Table(S), S # {}, NEW n \in Nat \ {0}
  PROVE  LET cursor == Oldest(Newest(S, n))
         IN /\ cursor \in S /\ cursor \in Row
            /\ \A r \in Newest(S, n) : ~ Newer(cursor, r)
            /\ \A r \in S \ Newest(S, n) : Newer(cursor, r)
<1> DEFINE P == Newest(S, n)
           cursor == Oldest(P)
<1>1. P \subseteq S /\ Table(P) /\ P # {}
  BY NewestPart
<1>2. cursor \in P /\ \A q \in P : q = cursor \/ Newer(q, cursor)
  BY <1>1, OldestRow
<1>3. \A r \in S \ P : Newer(cursor, r)
  BY <1>2, NewestAbove
<1> HIDE DEF P, cursor
<1>4. cursor \in Row /\ P \subseteq Row
  BY <1>1, <1>2 DEF Table
<1>5. \A r \in P : ~ Newer(cursor, r)
  BY <1>2, <1>4, NewerOrder
<1> QED
  BY <1>1, <1>2, <1>3, <1>4, <1>5 DEF P, cursor

\* A first page, whole or cut down to the limit, from the database or a cache.
LEMMA FirstPageCut ==
  ASSUME NEW S, Table(S), NEW n \in 1 .. MaxLimit, NEW page,
         page = [rows |-> Newest(S, PageCap), more |-> Cardinality(S) > PageCap]
  PROVE  /\ Items(page, n) = Newest(S, n)
         /\ HasMore(page, n) => S # {}
         /\ ~ HasMore(page, n) => Newest(S, n) = S
<1>1. n \in Nat /\ n >= 1 /\ PageCap \in Nat /\ n <= PageCap
  BY ViewsAssumption
<1>2. Items(page, n) = Newest(S, n)
  BY <1>1, NewestOfNewest DEF Items
<1>3. Cardinality(S) \in Nat
  BY FS_CardinalityType DEF Table
<1>4. Cardinality(page.rows) = IF Cardinality(S) <= PageCap THEN Cardinality(S) ELSE PageCap
  BY <1>1, NewestSize
<1>5. page.more = (Cardinality(S) > PageCap)
  OBVIOUS
<1>6. HasMore(page, n) => Cardinality(S) # 0
  BY <1>1, <1>3, <1>4 DEF HasMore
<1>7. ~ HasMore(page, n) => Cardinality(S) <= n
  <2>1. CASE Cardinality(S) > PageCap
    <3>1. page.more
      BY <1>5, <2>1
    <3>2. Cardinality(page.rows) = PageCap
      BY <1>1, <1>3, <1>4, <2>1
    <3>3. Cardinality(page.rows) > n \/ Cardinality(page.rows) = n
      BY <1>1, <3>2
    <3> QED
      BY <3>1, <3>3 DEF HasMore
  <2>2. CASE ~ (Cardinality(S) > PageCap)
    <3>1. Cardinality(page.rows) = Cardinality(S)
      BY <1>1, <1>3, <1>4, <2>2
    <3> QED
      BY <1>1, <1>3, <3>1 DEF HasMore
  <2> QED
    BY <2>1, <2>2
<1>8. HasMore(page, n) => S # {}
  BY <1>6, FS_EmptySet
<1> QED
  BY <1>1, <1>2, <1>7, <1>8, NewestAll

\* A walk begins with a page that was true of the version it is counted from.
LEMMA MayWalkOK ==
  ASSUME ApiInv, NEW k \in hot, NEW e, EntryOK(k, e, log), MayWalk(k, e)
  PROVE  WalkOK(walk', log)
<1>1. CASE walk' = walk
  BY <1>1 DEF ApiInv
<1>2. CASE Kind(k) = "ul" /\ walk' # walk
  <2>1. PICK n \in 1 .. MaxLimit :
          walk' = [pc |-> IF HasMore(e.val, n) THEN "paging" ELSE "done",
                   filter |-> k[2], limit |-> n, from |-> e.ver,
                   cursor |-> IF HasMore(e.val, n) THEN Oldest(Items(e.val, n)) ELSE None,
                   pages |-> <<Items(e.val, n)>>]
    BY <1>2 DEF MayWalk
  <2> DEFINE mine == {r \in log[e.ver] : Matches(k[2], r.c)}
             items == Newest(mine, n)
             more == HasMore(e.val, n)
             cursor == Oldest(items)
  <2>2. /\ e.ver \in 1 .. Len(log) /\ Len(log) \in Nat
        /\ e.val = [rows |-> Newest(mine, PageCap), more |-> Cardinality(mine) > PageCap]
    BY <1>2 DEF EntryOK, Truth, ApiInv, VersionsOK
  <2>3. Table(log[e.ver])
    BY <2>2 DEF ApiInv, VersionsOK
  <2>4. Table(mine) /\ n \in Nat \ {0}
    BY <2>3, TableSubset, ViewsAssumption
  <2>5. Items(e.val, n) = items /\ (more => mine # {}) /\ (~ more => items = mine)
    BY <2>2, <2>4, FirstPageCut
  <2>6. more => /\ cursor \in Row
                /\ \A r \in items : ~ Newer(cursor, r)
                /\ \A r \in mine \ items : Newer(cursor, r)
    BY <2>4, <2>5, CursorCuts
  <2>7. items \subseteq Row
    BY <2>4, NewestPart DEF Table
  <2>8. \A r : Matches(k[2], r.c) /\ r \in log[e.ver] => r \in mine
    OBVIOUS
  <2> HIDE DEF mine, items, more, cursor
  <2>9. walk' = [pc |-> IF more THEN "paging" ELSE "done",
                 filter |-> k[2], limit |-> n, from |-> e.ver,
                 cursor |-> IF more THEN cursor ELSE None,
                 pages |-> <<items>>]
    BY <2>1, <2>5 DEF more, cursor
  <2>10. /\ walk'.pc = (IF more THEN "paging" ELSE "done")
         /\ walk'.filter = k[2] /\ walk'.limit = n /\ walk'.from = e.ver
         /\ walk'.cursor = (IF more THEN cursor ELSE None)
         /\ walk'.pages = <<items>>
    BY <2>9
  <2>11. <<items>> \in Seq(SUBSET Row) /\ DOMAIN <<items>> = {1} /\ <<items>>[1] = items
    BY <2>7
  <2>12. ASSUME NEW r \in Row, Matches(walk'.filter, r.c),
                \A v \in walk'.from .. Len(log) : r \in log[v]
         PROVE  \/ \E i \in DOMAIN walk'.pages : r \in walk'.pages[i]
                \/ walk'.pc = "paging" /\ Newer(walk'.cursor, r)
    <3>1. r \in mine
      BY <2>2, <2>8, <2>10, <2>12
    <3>2. CASE r \in items
      BY <2>10, <2>11, <3>2
    <3>3. CASE r \notin items
      <4>1. more /\ Newer(cursor, r)
        BY <2>5, <2>6, <3>1, <3>3
      <4> QED
        BY <2>10, <4>1
    <3> QED
      BY <3>2, <3>3
  <2>13. walk' = [pc |-> walk'.pc, filter |-> walk'.filter, limit |-> walk'.limit,
                  cursor |-> walk'.cursor, pages |-> walk'.pages, from |-> walk'.from]
    BY <2>9
  <2>14. \A i, j \in DOMAIN walk'.pages : \A r \in walk'.pages[i] \cap walk'.pages[j] : i = j
    BY <2>10, <2>11
  <2>15. walk'.pc = "paging" =>
           /\ walk'.cursor \in Row
           /\ \A i \in DOMAIN walk'.pages : \A r \in walk'.pages[i] : ~ Newer(walk'.cursor, r)
    BY <2>6, <2>10, <2>11
  <2>16. walk'.limit \in 1 .. MaxLimit /\ walk'.from \in 1 .. Len(log)
         /\ walk'.pages \in Seq(SUBSET Row) /\ walk'.pc \in {"idle", "paging", "done"}
    BY <2>2, <2>10, <2>11
  <2> QED
    BY <2>12, <2>13, <2>14, <2>15, <2>16 DEF WalkOK
<1> QED
  BY <1>1, <1>2 DEF MayWalk

\* A further page continues behind the cursor, whatever changed in between.
LEMMA NextPageOK ==
  ASSUME ApiInv, NextPage
  PROVE  WalkOK(walk', log)
<1> DEFINE B == {r \in Rows : Matches(walk.filter, r.c) /\ Beyond(walk.cursor, r)}
           items == Newest(B, walk.limit)
           more == Cardinality(B) > walk.limit
           cursor == Oldest(items)
           m == Len(walk.pages)
<1>1. /\ walk.pc = "paging" /\ WalkOK(walk, log) /\ walk.cursor \in Row
      /\ walk.limit \in 1 .. MaxLimit /\ walk.from \in 1 .. Len(log)
      /\ walk.pages \in Seq(SUBSET Row)
      /\ walk = [pc |-> walk.pc, filter |-> walk.filter, limit |-> walk.limit,
                 cursor |-> walk.cursor, pages |-> walk.pages, from |-> walk.from]
  BY DEF NextPage, ApiInv, WalkOK
<1>2. walk.limit \in Nat \ {0} /\ m \in Nat /\ DOMAIN walk.pages = 1 .. m
  BY <1>1, ViewsAssumption, LenProperties
<1>3. Table(Rows) /\ Rows = log[Len(log)] /\ Len(log) \in Nat
  BY CurrentVersion DEF ApiInv, Rows, Now
<1>4. Table(B)
  BY <1>3, TableSubset
<1>5. \A r \in B : Newer(walk.cursor, r)
  BY <1>1, ViewsAssumption DEF Beyond, Row
<1>6. \A r \in Rows : Matches(walk.filter, r.c) /\ Newer(walk.cursor, r) => r \in B
  BY DEF Beyond
<1>7. items \subseteq B /\ items \subseteq Row
  BY <1>2, <1>4, NewestPart DEF Table
<1>8. more => B # {}
  <2> HIDE DEF B
  <2> SUFFICES ASSUME B = {}
               PROVE  ~ more
    OBVIOUS
  <2>1. Cardinality(B) = 0
    BY FS_EmptySet
  <2>2. walk.limit \in Nat
    BY <1>2
  <2> QED
    BY <2>1, <2>2
<1>9. more => /\ cursor \in B /\ cursor \in Row
              /\ \A r \in items : ~ Newer(cursor, r)
              /\ \A r \in B \ items : Newer(cursor, r)
  BY <1>2, <1>4, <1>8, CursorCuts
<1>10. ~ more => items = B
  <2>1. Cardinality(B) \in Nat
    BY <1>4, FS_CardinalityType DEF Table
  <2> HIDE DEF B
  <2> QED
    BY <1>2, <1>4, <2>1, NewestAll
<1>11. /\ walk'.pc = (IF more THEN "paging" ELSE "done")
       /\ walk'.filter = walk.filter /\ walk'.limit = walk.limit /\ walk'.from = walk.from
       /\ walk'.cursor = (IF more THEN cursor ELSE None)
       /\ walk'.pages = Append(walk.pages, items)
       /\ walk' = [pc |-> walk'.pc, filter |-> walk'.filter, limit |-> walk'.limit,
                   cursor |-> walk'.cursor, pages |-> walk'.pages, from |-> walk'.from]
  <2> DEFINE rows == UserLikes(walk.filter, walk.cursor, walk.limit)
  <2>1. rows = Newest(B, walk.limit + 1)
    BY DEF UserLikes
  <2> HIDE DEF B, rows
  <2>2. Newest(rows, walk.limit) = items /\ (Cardinality(rows) > walk.limit) = more
    <3>1. walk.limit \in Nat /\ walk.limit + 1 \in Nat /\ walk.limit <= walk.limit + 1
      BY <1>2
    <3>2. Newest(rows, walk.limit) = items
      BY <1>4, <2>1, <3>1, NewestOfNewest
    <3>3. (Cardinality(rows) > walk.limit) = more
      BY <1>4, <2>1, <3>1, MoreRows
    <3> QED
      BY <3>2, <3>3
  <2>3. walk' = [walk EXCEPT !.pc = IF Cardinality(rows) > walk.limit THEN "paging" ELSE "done",
                             !.cursor = IF Cardinality(rows) > walk.limit
                                          THEN Oldest(Newest(rows, walk.limit)) ELSE None,
                             !.pages = Append(@, Newest(rows, walk.limit))]
    BY DEF NextPage, rows
  <2>4. walk' = [walk EXCEPT !.pc = IF more THEN "paging" ELSE "done",
                             !.cursor = IF more THEN cursor ELSE None,
                             !.pages = Append(@, items)]
    BY <2>2, <2>3
  <2> HIDE DEF more, cursor, items
  <2> QED
    BY <1>1, <2>4
<1> HIDE DEF B, items, more, cursor
<1>12. /\ Append(walk.pages, items) \in Seq(SUBSET Row)
       /\ DOMAIN Append(walk.pages, items) = 1 .. m + 1
       /\ \A i \in 1 .. m : Append(walk.pages, items)[i] = walk.pages[i]
       /\ Append(walk.pages, items)[m + 1] = items
  BY <1>1, <1>2, <1>7, AppendProperties, LenProperties
<1> HIDE DEF m
<1>13. \A i \in 1 .. m : \A r \in walk.pages[i] : ~ Newer(walk.cursor, r)
  BY <1>1, <1>2 DEF WalkOK
<1>14. ASSUME NEW i \in DOMAIN walk'.pages, NEW j \in DOMAIN walk'.pages,
              NEW r \in walk'.pages[i] \cap walk'.pages[j]
       PROVE  i = j
  <2>1. CASE i \in 1 .. m /\ j \in 1 .. m
    BY <1>1, <1>2, <1>11, <1>12, <1>14, <2>1 DEF WalkOK
  <2>2. i \in 1 .. m \/ i = m + 1
    BY <1>2, <1>11, <1>12
  <2>3. j \in 1 .. m \/ j = m + 1
    BY <1>2, <1>11, <1>12
  <2>4. CASE i \in 1 .. m /\ j = m + 1
    BY <1>5, <1>7, <1>11, <1>12, <1>13, <1>14, <2>4
  <2>5. CASE j \in 1 .. m /\ i = m + 1
    BY <1>5, <1>7, <1>11, <1>12, <1>13, <1>14, <2>5
  <2> QED
    BY <2>1, <2>2, <2>3, <2>4, <2>5
<1>15. ASSUME NEW r \in Row, Matches(walk'.filter, r.c),
              \A v \in walk'.from .. Len(log) : r \in log[v]
       PROVE  \/ \E i \in DOMAIN walk'.pages : r \in walk'.pages[i]
              \/ walk'.pc = "paging" /\ Newer(walk'.cursor, r)
  <2>1. r \in Rows
    BY <1>1, <1>3, <1>11, <1>15
  <2>2. (\E i \in 1 .. m : r \in walk.pages[i]) \/ Newer(walk.cursor, r)
    BY <1>1, <1>2, <1>11, <1>15 DEF WalkOK
  <2>3. CASE \E i \in 1 .. m : r \in walk.pages[i]
    BY <1>2, <1>11, <1>12, <2>3
  <2>4. CASE r \in items
    <3>1. m + 1 \in DOMAIN walk'.pages /\ walk'.pages[m + 1] = items
      BY <1>2, <1>11, <1>12
    <3> QED
      BY <2>4, <3>1
  <2>5. CASE Newer(walk.cursor, r) /\ r \notin items
    <3>1. r \in B
      BY <1>6, <1>11, <1>15, <2>1, <2>5
    <3>2. more /\ Newer(cursor, r)
      BY <1>9, <1>10, <2>5, <3>1
    <3> QED
      BY <1>11, <3>2
  <2> QED
    BY <2>2, <2>3, <2>4, <2>5
<1>16. ASSUME walk'.pc = "paging"
       PROVE  /\ walk'.cursor \in Row
              /\ \A i \in DOMAIN walk'.pages : \A r \in walk'.pages[i] : ~ Newer(walk'.cursor, r)
  <2>1. more /\ walk'.cursor = cursor
    BY <1>11, <1>16
  <2>2. cursor \in Row /\ Newer(walk.cursor, cursor)
    BY <1>5, <1>9, <2>1
  <2>3. ASSUME NEW i \in 1 .. m, NEW r \in walk.pages[i]
        PROVE  ~ Newer(cursor, r)
    <3>1. r \in Row
      <4>1. walk.pages[i] \in SUBSET Row
        BY <1>1, <1>2, <2>3, ElementOfSeq DEF m
      <4> QED
        BY <2>3, <4>1
    <3>2. ~ Newer(walk.cursor, r)
      BY <1>13, <2>3
    <3> QED
      BY <1>1, <2>2, <3>1, <3>2, NewerOrder
  <2>4. \A r \in items : ~ Newer(cursor, r)
    BY <1>9, <2>1
  <2> QED
    BY <1>2, <1>11, <1>12, <2>1, <2>2, <2>3, <2>4
<1>17. walk'.limit \in 1 .. MaxLimit /\ walk'.from \in 1 .. Len(log)
       /\ walk'.pages \in Seq(SUBSET Row) /\ walk'.pc \in {"idle", "paging", "done"}
  BY <1>1, <1>11, <1>12
<1> QED
  BY <1>11, <1>14, <1>15, <1>16, <1>17 DEF WalkOK

-----------------------------------------------------------------------------
(* Caches and tasks.                                                       *)

\* An entry is stamped as it goes into a cache: it is in date, or it says so.
Fresh(k, e) == Current(k, e) \/ e.late

LEMMA StampOK ==
  ASSUME NEW puts, NEW k \in DOMAIN puts, Was(k, puts[k], log)
  PROVE  Was(k, Stamp(puts)[k], log) /\ Fresh(k, Stamp(puts)[k])
<1> DEFINE e == puts[k]
           late == ~ Current(k, e)
           new == [val |-> e.val, ver |-> e.ver, late |-> late]
<1>1. CASE e = None
  <2>1. Stamp(puts)[k] = None
    BY <1>1 DEF Stamp
  <2> QED
    BY <2>1 DEF Was, Fresh, Current
<1>2. CASE e # None
  <2>1. EntryOK(k, e, log)
    BY <1>2 DEF Was
  <2>2. Stamp(puts)[k] = [e EXCEPT !.late = late]
    BY <1>2 DEF Stamp
  <2>3. e = [val |-> e.val, ver |-> e.ver, late |-> e.late]
    BY <2>1 DEF EntryOK
  <2> HIDE DEF e, late
  <2>4. [e EXCEPT !.late = late] = new
    BY <2>3
  <2>5. EntryOK(k, new, log)
    BY <2>1 DEF EntryOK
  <2>6. new.val = e.val /\ new.late = late
    OBVIOUS
  <2> HIDE DEF new
  <2>7. late \/ Current(k, new)
    BY <1>2, <2>6 DEF late, Current
  <2> QED
    BY <2>2, <2>4, <2>5, <2>6, <2>7 DEF Was, Fresh
<1> QED
  BY <1>1, <1>2

LEMMA PutOK ==
  ASSUME NEW cache, cache = [k \in hot |-> cache[k]],
         \A k \in hot : Was(k, cache[k], log),
         NEW puts, \A k \in DOMAIN puts : Was(k, puts[k], log)
  PROVE  /\ Put(cache, puts) = [k \in hot |-> Put(cache, puts)[k]]
         /\ \A k \in hot : Was(k, Put(cache, puts)[k], log)
         /\ \A k \in hot \cap DOMAIN puts : Fresh(k, Put(cache, puts)[k])
         /\ \A k \in hot \ DOMAIN puts : Put(cache, puts)[k] = cache[k]
<1>1. DOMAIN cache = hot
  OBVIOUS
<1>2. Put(cache, puts) =
        [k \in hot |-> IF k \in DOMAIN puts THEN Stamp(puts)[k] ELSE cache[k]]
  BY <1>1 DEF Put
<1>3. \A k \in DOMAIN puts : Was(k, Stamp(puts)[k], log) /\ Fresh(k, Stamp(puts)[k])
  BY StampOK
<1> QED
  BY <1>2, <1>3

\* One task moves on, the others stay what they were.
LEMMA BecomeOK ==
  ASSUME ApiInv, VersionsOK(log'), Extends(log', log), hot' = hot,
         NEW t \in Tasks, NEW r, TaskOK(r, hot, log'), Become(t, r)
  PROVE  TasksOK' /\ \A u \in Tasks : task'[u] = IF u = t THEN r ELSE task[u]
<1>1. task = [u \in Tasks |-> task[u]] /\ \A u \in Tasks : TaskOK(task[u], hot, log)
  BY DEF ApiInv, TasksOK
<1>2. task' = [task EXCEPT ![t] = r]
  BY DEF Become
<1>3. /\ task' = [u \in Tasks |-> task'[u]]
      /\ \A u \in Tasks : task'[u] = IF u = t THEN r ELSE task[u]
  BY <1>1, <1>2
<1>4. \A u \in Tasks : TaskOK(task[u], hot, log')
  BY <1>1, TaskExtends DEF ApiInv
<1>5. \A u \in Tasks : TaskOK(task'[u], hot', log')
  BY <1>3, <1>4
<1> QED
  BY <1>3, <1>5 DEF TasksOK

\* A step that leaves the database alone.
LEMMA SameVersion ==
  ASSUME ApiInv, log' = log
  PROVE  VersionsOK(log') /\ Extends(log', log)
<1>1. Len(log) \in Nat
  BY DEF ApiInv, VersionsOK
<1> QED
  BY <1>1 DEF ApiInv, Extends

LEMMA IdleOK == \A K, L : TaskOK(Idle, K, L)
  BY DEF TaskOK, IsTask, TaskFields, Idle

\* The fields of a task after an update.
LEMMA ChangedPc ==
  ASSUME NEW r, IsTask(r), NEW a
  PROVE  LET s == [r EXCEPT !.pc = a]
         IN /\ IsTask(s)
            /\ s.pc = a
            /\ s.keys = r.keys /\ s.hold = r.hold /\ s.todo = r.todo /\ s.event = r.event /\ s.reply = r.reply
  BY DEF IsTask, TaskFields

LEMMA IdleTask ==
  /\ IsTask(Idle) /\ Idle.pc = "idle"
  /\ Idle.keys = {} /\ Idle.event = 0 /\ Idle.reply = NoReply
  BY DEF Idle, IsTask, TaskFields

\* Reading the database yields entries that are true now.
LEMMA ReadOK ==
  ASSUME ApiInv, NEW k
  PROVE  EntryOK(k, Read(k), log)
<1>1. Table(Rows) /\ Now \in 1 .. Len(log) /\ Rows = log[Now]
  BY CurrentVersion DEF ApiInv, Rows, Now
<1>2. Load(k) = Truth(k, log[Now])
  BY <1>1, LoadIsTruth
<1> QED
  BY <1>1, <1>2 DEF Read, EntryOK

LEMMA LookupStep ==
  ASSUME ApiInv, NEW t \in Tasks, NEW K, Lookup(t, K)
  PROVE  ApiInv'
<1> DEFINE missing == {k \in K : l1[k] = None}
<1>1. /\ K # {} /\ K \subseteq hot
      /\ UNCHANGED <<hot, log, l1, l2, lost>>
  BY DEF Lookup
<1>2. VersionsOK(log') /\ Extends(log', log) /\ hot' \in Choices /\ CachesOK'
      /\ lost' \subseteq {"l1", "l2"}
  BY <1>1, SameVersion DEF ApiInv, CachesOK
<1>3. CASE missing = {}
  <2>1. task' = task /\ \A k \in K : MayWalk(k, l1[k])
    BY <1>3 DEF Lookup
  <2>2. PICK k \in K : MayWalk(k, l1[k])
    BY <1>1, <2>1
  <2>3. EntryOK(k, l1[k], log)
    BY <1>1, <1>3 DEF ApiInv, CachesOK, Was
  <2>4. WalkOK(walk', log)
    BY <1>1, <2>2, <2>3, MayWalkOK
  <2>5. TasksOK'
    BY <1>1, <2>1 DEF ApiInv, TasksOK
  <2> QED
    BY <1>1, <1>2, <2>4, <2>5 DEF ApiInv
<1>4. CASE missing # {}
  <2> DEFINE r == [Idle EXCEPT !.pc = "redis", !.keys = missing]
  <2>1. Become(t, r) /\ walk' = walk
    BY <1>4 DEF Lookup
  <2>2. TaskOK(r, hot, log')
    <3>1. missing \subseteq hot
      BY <1>1
    <3> HIDE DEF missing
    <3>2. r.pc = "redis" /\ r.keys = missing /\ r.event = 0 /\ r.reply = NoReply /\ IsTask(r)
      BY IdleTask DEF IsTask, TaskFields
    <3> HIDE DEF r
    <3> QED
      BY <1>4, <3>1, <3>2 DEF TaskOK
  <2>3. TasksOK'
    BY <1>1, <1>2, <2>1, <2>2, BecomeOK
  <2> QED
    BY <1>1, <1>2, <2>1, <2>3 DEF ApiInv
<1> QED
  BY <1>3, <1>4

LEMMA ReadRedisStep ==
  ASSUME ApiInv, NEW t \in Tasks, ReadRedis(t)
  PROVE  ApiInv'
<1> DEFINE r == task[t]
<1>1. r.pc = "redis" /\ UNCHANGED <<hot, log, l1, l2, lost>>
  BY DEF ReadRedis
<1>2. VersionsOK(log') /\ Extends(log', log) /\ hot' \in Choices /\ CachesOK'
      /\ lost' \subseteq {"l1", "l2"}
  BY <1>1, SameVersion DEF ApiInv, CachesOK
<1>3. TaskOK(r, hot, log) /\ r.keys \subseteq hot /\ r.keys # {}
  BY <1>1 DEF ApiInv, TasksOK, TaskOK
<1>4. PICK hits \in {{}, {k \in r.keys : l2[k] # None}} :
        /\ Become(t, [r EXCEPT !.pc = IF hits = {} THEN "query" ELSE "local",
                               !.keys = @ \ hits,
                               !.hold = [k \in hits |-> l2[k]]])
        /\ IF hits = {} THEN UNCHANGED walk ELSE \A k \in hits : MayWalk(k, l2[k])
  BY DEF ReadRedis
<1>5. \A k \in hits : k \in hot /\ EntryOK(k, l2[k], log)
  BY <1>3, <1>4 DEF ApiInv, CachesOK, Was
<1> DEFINE s == [r EXCEPT !.pc = IF hits = {} THEN "query" ELSE "local",
                          !.keys = @ \ hits,
                          !.hold = [k \in hits |-> l2[k]]]
<1>6. TaskOK(s, hot, log')
  <2>1. IsTask(r) /\ r.reply = NoReply /\ r.event = 0
    BY <1>1, <1>3 DEF TaskOK
  <2> DEFINE pc == IF hits = {} THEN "query" ELSE "local"
             hold == [k \in hits |-> l2[k]]
  <2>2. s = [r EXCEPT !.pc = pc, !.keys = @ \ hits, !.hold = hold]
    OBVIOUS
  <2>3. \A k \in DOMAIN hold : k \in hot /\ Was(k, hold[k], log')
    BY <1>1, <1>5 DEF Was
  <2>4. pc \in {"query", "local"} /\ (pc = "query" => hits = {})
    OBVIOUS
  <2> HIDE DEF r, s, pc, hold
  <2>5. s.pc = pc /\ s.keys = r.keys \ hits /\ s.hold = hold /\ s.event = 0
        /\ s.reply = NoReply /\ IsTask(s)
    BY <2>1, <2>2 DEF IsTask, TaskFields
  <2> QED
    BY <1>3, <2>3, <2>4, <2>5 DEF TaskOK
<1>7. TasksOK'
  BY <1>1, <1>2, <1>4, <1>6, BecomeOK
<1>8. WalkOK(walk', log)
  BY <1>4, <1>5, MayWalkOK DEF ApiInv
<1> QED
  BY <1>1, <1>2, <1>7, <1>8 DEF ApiInv

LEMMA FillL1Step ==
  ASSUME ApiInv, NEW t \in Tasks, FillL1(t)
  PROVE  ApiInv'
<1> DEFINE r == task[t]
           s == [r EXCEPT !.pc = "query", !.hold = <<>>]
<1>1. /\ r.pc = "local" /\ UNCHANGED <<hot, log, l2, walk, lost>>
      /\ l1' = Put(l1, r.hold)
      /\ Become(t, IF r.keys = {} THEN Idle ELSE s)
  BY DEF FillL1
<1>2. VersionsOK(log') /\ Extends(log', log)
  BY <1>1, SameVersion
<1>3. TaskOK(r, hot, log)
  BY DEF ApiInv, TasksOK
<1>4. CachesOK'
  <2>1. \A k \in DOMAIN r.hold : Was(k, r.hold[k], log)
    BY <1>1, <1>3 DEF TaskOK
  <2>2. l1 = [k \in hot |-> l1[k]] /\ \A k \in hot : Was(k, l1[k], log)
    BY DEF ApiInv, CachesOK
  <2>3. l1' = [k \in hot |-> l1'[k]] /\ \A k \in hot : Was(k, l1'[k], log)
    BY <1>1, <2>1, <2>2, PutOK
  <2> QED
    BY <1>1, <2>3 DEF ApiInv, CachesOK
<1>5. ASSUME r.keys # {}
      PROVE  TaskOK(s, hot, log')
  <2>1. IsTask(r) /\ r.reply = NoReply /\ r.event = 0 /\ r.keys \subseteq hot
    BY <1>1, <1>3 DEF TaskOK
  <2> HIDE DEF r
  <2>2. s.pc = "query" /\ s.keys = r.keys /\ s.event = 0 /\ s.reply = NoReply /\ IsTask(s)
    <3> DEFINE empty == <<>>
    <3>1. s = [r EXCEPT !.pc = "query", !.hold = empty]
      OBVIOUS
    <3> HIDE DEF empty, s
    <3> QED
      BY <2>1, <3>1 DEF IsTask, TaskFields
  <2> HIDE DEF s
  <2> QED
    BY <1>5, <2>1, <2>2 DEF TaskOK
<1>6. TasksOK'
  BY <1>1, <1>2, <1>5, IdleOK, BecomeOK
<1> QED
  BY <1>1, <1>2, <1>4, <1>6 DEF ApiInv

\* What a reader takes back to the caches, or a refresh cycle brings.
LEMMA FillTask ==
  ASSUME NEW K, NEW puts, DOMAIN puts = K, \A k \in K : Was(k, puts[k], log)
  PROVE  LET r == [Idle EXCEPT !.pc = "near", !.todo = <<puts>>]
         IN /\ TaskOK(r, K, log) /\ r.pc = "near" /\ r.reply = NoReply
            /\ r.todo = <<puts>>
<1> DEFINE r == [Idle EXCEPT !.pc = "near", !.todo = <<puts>>]
<1>2. /\ r.pc = "near" /\ r.keys = {} /\ r.todo = <<puts>> /\ r.event = 0
      /\ r.reply = NoReply /\ IsTask(r)
  <2> DEFINE todo == <<puts>>
  <2>1. r = [Idle EXCEPT !.pc = "near", !.todo = todo]
    OBVIOUS
  <2> HIDE DEF todo, r
  <2>2. r.pc = "near" /\ r.keys = {} /\ r.todo = todo /\ r.event = 0
        /\ r.reply = NoReply /\ IsTask(r)
    BY <2>1, IdleTask DEF IsTask, TaskFields
  <2> QED
    BY <2>2 DEF todo
<1> HIDE DEF r
<1>3. TaskOK(r, K, log)
  BY <1>2 DEF TaskOK
<1> QED
  BY <1>2, <1>3 DEF r

LEMMA ReadDbStep ==
  ASSUME ApiInv, NEW t \in Tasks, ReadDb(t)
  PROVE  ApiInv'
<1> DEFINE keys == task[t].keys
           puts == [k \in keys |-> Read(k)]
<1>1. /\ task[t].pc = "query" /\ UNCHANGED <<hot, log, l1, l2, lost>>
      /\ Become(t, IF \E k \in keys : WritesBack(k)
                     THEN [Idle EXCEPT !.pc = "near", !.todo = <<puts>>] ELSE Idle)
      /\ \A k \in keys : MayWalk(k, Read(k))
  BY DEF ReadDb
<1>2. VersionsOK(log') /\ Extends(log', log) /\ hot' \in Choices /\ CachesOK'
      /\ lost' \subseteq {"l1", "l2"}
  BY <1>1, SameVersion DEF ApiInv, CachesOK
<1>3. keys \subseteq hot /\ keys # {}
  BY <1>1 DEF ApiInv, TasksOK, TaskOK
<1>4. keys = hot
  BY <1>3, OneKey DEF ApiInv
<1>5. DOMAIN puts = hot /\ \A k \in hot : Was(k, puts[k], log)
  BY <1>4, ReadOK DEF Was
<1>6. WalkOK(walk', log)
  <2>1. PICK k \in keys : MayWalk(k, Read(k))
    BY <1>1, <1>3
  <2> QED
    BY <1>3, <2>1, ReadOK, MayWalkOK
<1> HIDE DEF puts
<1>7. TaskOK([Idle EXCEPT !.pc = "near", !.todo = <<puts>>], hot, log')
  BY <1>1, <1>5, FillTask
<1>8. TasksOK'
  BY <1>1, <1>2, <1>7, IdleOK, BecomeOK
<1> QED
  BY <1>1, <1>2, <1>6, <1>8 DEF ApiInv

LEMMA RefreshStep ==
  ASSUME ApiInv, NEW t \in Tasks, Refresh(t)
  PROVE  ApiInv'
<1> DEFINE boards == {k \in hot : ~WritesBack(k)}
           puts == [k \in boards |-> IF k = BoardKey /\ Load(k) = {} THEN None ELSE Read(k)]
<1>1. /\ UNCHANGED <<hot, log, l1, l2, walk, lost>> /\ boards # {}
      /\ Become(t, [Idle EXCEPT !.pc = "near", !.todo = <<puts>>])
  BY DEF Refresh
<1>2. VersionsOK(log') /\ Extends(log', log) /\ hot' \in Choices /\ CachesOK'
      /\ lost' \subseteq {"l1", "l2"} /\ WalkOK(walk', log')
  BY <1>1, SameVersion DEF ApiInv, CachesOK
<1>3. boards = hot
  BY <1>1, OneKey DEF ApiInv
<1>4. DOMAIN puts = hot /\ \A k \in hot : Was(k, puts[k], log)
  BY <1>3, ReadOK DEF Was
<1> HIDE DEF puts
<1>5. TaskOK([Idle EXCEPT !.pc = "near", !.todo = <<puts>>], hot, log')
  BY <1>1, <1>4, FillTask
<1>6. TasksOK'
  BY <1>1, <1>2, <1>5, BecomeOK
<1> QED
  BY <1>2, <1>6 DEF ApiInv

\* The writes a task has before it.
LEMMA Pending ==
  ASSUME ApiInv, NEW t \in Tasks, task[t].pc \in {"near", "far"}
  PROVE  LET puts == Head(task[t].todo)
         IN /\ DOMAIN puts = hot /\ \A k \in hot : Was(k, puts[k], log)
            /\ Tail(task[t].todo) = <<>>
            /\ task[t].todo = <<puts>>
<1>1. PICK puts : /\ task[t].todo = <<puts>> /\ DOMAIN puts = hot
                  /\ \A k \in hot : Was(k, puts[k], log)
  BY DEF ApiInv, TasksOK, TaskOK
<1>2. Head(<<puts>>) = puts /\ Tail(<<puts>>) = <<>>
  OBVIOUS
<1> QED
  BY <1>1, <1>2

LEMMA WriteL1Step ==
  ASSUME ApiInv, NEW t \in Tasks, WriteL1(t)
  PROVE  ApiInv'
<1> DEFINE r == task[t]
           puts == Head(r.todo)
           some == [k \in DOMAIN puts \ {BoardKey} |-> puts[k]]
           s == [r EXCEPT !.pc = "far"]
<1>1. /\ r.pc = "near" /\ UNCHANGED <<hot, log, l2, walk, lost>>
      /\ l1' = Put(l1, some) /\ Become(t, s)
  BY DEF WriteL1
<1>2. VersionsOK(log') /\ Extends(log', log)
  BY <1>1, SameVersion
<1>3. TaskOK(r, hot, log)
  BY DEF ApiInv, TasksOK
<1>4. CachesOK'
  <2>1. \A k \in DOMAIN some : Was(k, some[k], log)
    BY <1>1, Pending
  <2>2. l1 = [k \in hot |-> l1[k]] /\ \A k \in hot : Was(k, l1[k], log)
    BY DEF ApiInv, CachesOK
  <2> HIDE DEF some
  <2>3. l1' = [k \in hot |-> l1'[k]] /\ \A k \in hot : Was(k, l1'[k], log)
    BY <1>1, <2>1, <2>2, PutOK
  <2> QED
    BY <1>1, <2>3 DEF ApiInv, CachesOK
<1>5. TaskOK(s, hot, log')
  <2>1. IsTask(r)
    BY <1>3 DEF TaskOK
  <2> HIDE DEF r
  <2>3. /\ s.pc = "far" /\ s.keys = r.keys /\ s.todo = r.todo /\ s.event = r.event
        /\ s.reply = r.reply /\ IsTask(s)
    BY <2>1, ChangedPc
  <2> HIDE DEF s
  <2> QED
    BY <1>1, <1>3, <2>3 DEF TaskOK
<1>6. TasksOK'
  BY <1>1, <1>2, <1>5, BecomeOK
<1> QED
  BY <1>1, <1>2, <1>4, <1>6 DEF ApiInv

\* A task that has written everything publishes its event, if it has one.
LEMMA FinishedOK ==
  ASSUME NEW r, NEW K, NEW L, IsTask(r), r.keys \subseteq K,
         r.event # 0 => Told(r.event, r.reply, L)
  PROVE  /\ TaskOK(Finished(r), K, L)
         /\ Finished(r).pc \in {"idle", "publish"}
         /\ r.event = 0 => Finished(r) = Idle
         /\ r.event # 0 => Finished(r).reply = r.reply
<1>1. CASE r.event = 0
  BY <1>1, IdleOK DEF Finished, Idle
<1>2. CASE r.event # 0
  <2> DEFINE s == [r EXCEPT !.pc = "publish"]
  <2>1. Finished(r) = s
    BY <1>2 DEF Finished
  <2>3. /\ s.pc = "publish" /\ s.keys = r.keys /\ s.event = r.event
        /\ s.reply = r.reply /\ IsTask(s)
    BY ChangedPc
  <2> HIDE DEF s
  <2>4. TaskOK(s, K, L)
    BY <1>2, <2>3 DEF TaskOK
  <2> QED
    BY <1>2, <2>1, <2>3, <2>4
<1> QED
  BY <1>1, <1>2

LEMMA WriteRedisStep ==
  ASSUME ApiInv, NEW t \in Tasks, WriteRedis(t)
  PROVE  ApiInv'
<1> DEFINE r == task[t]
           puts == Head(r.todo)
<1>1. /\ r.pc = "far" /\ UNCHANGED <<hot, log, l1, walk>>
      /\ Become(t, IF Tail(r.todo) = <<>> THEN Finished(r)
                   ELSE [r EXCEPT !.pc = "near", !.todo = Tail(r.todo)])
  BY DEF WriteRedis
<1>2. PICK done \in SUBSET DOMAIN puts :
        /\ l2' = Put(l2, [k \in done |-> puts[k]])
        /\ lost' = IF done # DOMAIN puts /\ r.reply # NoReply
                     THEN lost \cup {"l2"} ELSE lost
  BY DEF WriteRedis
<1>3. VersionsOK(log') /\ Extends(log', log) /\ lost' \subseteq {"l1", "l2"}
  BY <1>1, <1>2, SameVersion DEF ApiInv
<1>4. TaskOK(r, hot, log)
  BY DEF ApiInv, TasksOK
<1>5. Become(t, Finished(r))
  BY <1>1, Pending
<1>6. CachesOK'
  <2> DEFINE some == [k \in done |-> puts[k]]
  <2>1. \A k \in DOMAIN some : Was(k, some[k], log)
    BY <1>1, Pending
  <2>2. l2 = [k \in hot |-> l2[k]] /\ \A k \in hot : Was(k, l2[k], log)
    BY DEF ApiInv, CachesOK
  <2>3. l2' = Put(l2, some)
    BY <1>2
  <2> HIDE DEF some
  <2> HIDE DEF r, puts
  <2>4. /\ Put(l2, some) = [k \in hot |-> Put(l2, some)[k]]
        /\ \A k \in hot : Was(k, Put(l2, some)[k], log)
    BY <2>1, <2>2, PutOK
  <2>5. l2' = [k \in hot |-> l2'[k]] /\ \A k \in hot : Was(k, l2'[k], log)
    BY <2>3, <2>4
  <2> QED
    BY <1>1, <2>5 DEF ApiInv, CachesOK
<1>7. TaskOK(Finished(r), hot, log')
  BY <1>1, <1>4, FinishedOK DEF TaskOK
<1>8. TasksOK'
  BY <1>1, <1>3, <1>5, <1>7, BecomeOK
<1> QED
  BY <1>1, <1>3, <1>6, <1>8 DEF ApiInv

-----------------------------------------------------------------------------
(* The commands.                                                           *)

\* A version more.
LEMMA NewVersion ==
  ASSUME VersionsOK(log), Now < MaxVersion, NEW S, Table(S),
         \A r \in S : r.id < Seeds + Now + 1, NEW L, L = Append(log, S)
  PROVE  /\ VersionsOK(L) /\ Extends(L, log)
         /\ Len(L) = Now + 1 /\ L[Now + 1] = S /\ L[Now] = Rows
<1>1. Now \in Nat /\ Now >= 1 /\ log \in Seq(SUBSET Row) /\ S \in SUBSET Row
      /\ MaxVersion \in Nat /\ Seeds \in Nat
  BY CurrentVersion, ViewsAssumption, FS_CardinalityType DEF VersionsOK, Table
<1>2. /\ L \in Seq(SUBSET Row) /\ Len(L) = Now + 1 /\ L[Now + 1] = S
      /\ \A v \in 1 .. Now : L[v] = log[v]
  BY <1>1, AppendProperties DEF Now
<1>3. Extends(L, log) /\ L[Now] = Rows
  BY <1>1, <1>2 DEF Extends, Now, Rows
<1>4. \A v \in 1 .. Len(L) : Table(L[v]) /\ \A r \in L[v] : r.id < Seeds + v
  <2> SUFFICES ASSUME NEW v \in 1 .. Now + 1
               PROVE  Table(L[v]) /\ \A r \in L[v] : r.id < Seeds + v
    BY <1>2
  <2>1. CASE v = Now + 1
    <3>1. L[v] = S
      BY <1>2, <2>1
    <3>2. ASSUME NEW r \in S
          PROVE  r.id < Seeds + v
      <4>1. r.id \in Nat /\ r.id < Seeds + Now + 1
        BY DEF Table, Row
      <4> QED
        BY <1>1, <2>1, <4>1
    <3> QED
      BY <3>1, <3>2
  <2>2. CASE v \in 1 .. Now
    BY <1>2, <2>2 DEF VersionsOK, Now
  <2>3. v = Now + 1 \/ v \in 1 .. Now
    BY <1>1
  <2> QED
    BY <2>1, <2>2, <2>3
<1>5. Now + 1 \in 1 .. MaxVersion
  BY <1>1
<1>6. VersionsOK(L)
  BY <1>1, <1>2, <1>4, <1>5 DEF VersionsOK
<1> QED
  BY <1>2, <1>3, <1>6

\* The row that an INSERT adds is new, by its id and by its content.
LEMMA InsertedTable ==
  ASSUME VersionsOK(log), NEW c \in Contents, ~ Liked(c), NEW at \in Times, NEW row,
         row = [id |-> Seeds + Now, at |-> at, c |-> c]
  PROVE  /\ Table(Rows \cup {row})
         /\ \A r \in Rows \cup {row} : r.id < Seeds + Now + 1
         /\ row \notin Rows /\ row.c = c
<1>1. Now \in Nat /\ Seeds \in Nat /\ at \in Nat
  BY CurrentVersion, ViewsAssumption, FS_CardinalityType
<1>2. row \in Row /\ row.id = Seeds + Now /\ row.c = c
  BY <1>1 DEF Row
<1>3. Table(Rows) /\ Rows \subseteq Row /\ \A r \in Rows : r.id < Seeds + Now
  BY CurrentVersion DEF Table
<1>4. \A r \in Rows : r.c # c /\ r.id # row.id
  BY <1>1, <1>2, <1>3 DEF Liked, RowsOf, Row
<1>5. IsFiniteSet(Rows \cup {row})
  BY <1>3, FS_AddElement DEF Table
<1>6. \A q, r \in Rows \cup {row} : q # r => q.c # r.c /\ q.id # r.id
  BY <1>2, <1>3, <1>4 DEF Table
<1>7. \A r \in Rows \cup {row} : r.id < Seeds + Now + 1
  BY <1>1, <1>2, <1>3 DEF Row
<1> QED
  BY <1>2, <1>3, <1>4, <1>5, <1>6, <1>7 DEF Table

\* A DELETE takes one row away, or none.
LEMMA RemovedTable ==
  ASSUME VersionsOK(log), NEW c
  PROVE  LET S == Rows \ RowsOf(Rows, c)
         IN /\ Table(S) /\ \A r \in S : r.id < Seeds + Now + 1
            /\ RowsOf(S, c) = {}
            /\ ~ Liked(c) => S = Rows
            /\ Liked(c) => \E r \in Rows : Rows \ S = {r} /\ r.c = c
<1> DEFINE S == Rows \ RowsOf(Rows, c)
<1>1. Now \in Nat /\ Seeds \in Nat
  BY CurrentVersion, ViewsAssumption, FS_CardinalityType
<1>2. Table(Rows) /\ \A r \in Rows : r.id < Seeds + Now
  BY CurrentVersion
<1>3. Table(S)
  BY <1>2, TableSubset
<1>4. \A r \in S : r.id < Seeds + Now + 1
  BY <1>1, <1>2 DEF Table, Row
<1>5. RowsOf(S, c) = {} /\ (~ Liked(c) => S = Rows)
  BY DEF RowsOf, Liked
<1>6. ASSUME Liked(c)
      PROVE  \E r \in Rows : Rows \ S = {r} /\ r.c = c
  <2>1. PICK r : r \in RowsOf(Rows, c)
    BY <1>6 DEF Liked
  <2>2. r \in Rows /\ r.c = c
    BY <2>1 DEF RowsOf
  <2>3. \A q \in RowsOf(Rows, c) : q = r
    BY <1>2, <2>2 DEF RowsOf, Table
  <2>4. RowsOf(Rows, c) = {r}
    BY <2>1, <2>3
  <2>5. Rows \ S = {r}
    BY <2>2, <2>4
  <2> QED
    BY <2>2, <2>5
<1> QED
  BY <1>3, <1>4, <1>5, <1>6

\* A cache call is made if it is about the key that is followed.
LEMMA FollowedOne ==
  ASSUME NEW h, hot = {h}, NEW puts
  PROVE  /\ h \notin DOMAIN puts => Followed(puts) = <<>>
         /\ h \in DOMAIN puts => Followed(puts) = <<[k \in hot |-> puts[k]]>>
<1>1. h \notin DOMAIN puts => Followed(puts) = <<>>
  BY DEF Followed
<1>2. ASSUME h \in DOMAIN puts
      PROVE  Followed(puts) = <<[k \in hot |-> puts[k]]>>
  <2>1. DOMAIN puts \cap hot = hot /\ hot # {}
    BY <1>2
  <2> QED
    BY <2>1 DEF Followed
<1> QED
  BY <1>1, <1>2

LEMMA EmptyConcat ==
  ASSUME NEW x
  PROVE  /\ <<>> \o <<>> = <<>>
         /\ <<x>> \o <<>> = <<x>>
         /\ <<>> \o <<x>> = <<x>>
<1>1. <<x>> \in Seq({x}) /\ <<>> \in Seq({x})
  OBVIOUS
<1> QED
  BY <1>1, ConcatEmptySeq

\* What a command writes to the caches of key h, if anything: one entry, or its
\* invalidation, and it was true of the version the command made or saw.
WritesOK(todo, L) ==
  todo = <<>> \/ \E puts : /\ todo = <<puts>> /\ DOMAIN puts = hot
                           /\ \A k \in hot : Was(k, puts[k], L)

LEMMA WriteThroughOK ==
  ASSUME hot \in Choices, NEW L, VersionsOK(L), NEW v \in 1 .. Len(L), NEW c
  PROVE  LET todo == WriteThrough(c, L[v], v)
         IN /\ WritesOK(todo, L)
            /\ hot \in {{CountKey(c)}, {StatusKey(c)}} <=> todo # <<>>
<1> DEFINE S == L[v]
           todo == WriteThrough(c, S, v)
           A == [k \in {CountKey(c)} |-> Entry(Cardinality(RowsOf(S, c)), v)]
           B == [k \in {StatusKey(c)} |-> Entry(StatusIn(S, c), v)]
<1>1. todo = Followed(A) \o Followed(B)
  BY DEF WriteThrough, StatusIn
<1>2. Table(S)
  BY DEF VersionsOK
<1>3. PICK h : hot = {h}
  BY OneKey
<1>4. CountKey(c) # StatusKey(c) /\ Kind(CountKey(c)) = "lc" /\ Kind(StatusKey(c)) = "ls"
      /\ CountKey(c)[2] = c /\ StatusKey(c)[2] = c
  BY DEF CountKey, StatusKey, Kind
<1>5. EntryOK(CountKey(c), Entry(Cardinality(RowsOf(S, c)), v), L)
  BY <1>2, <1>4, RowsOfContent DEF EntryOK, Entry, Truth
<1>6. EntryOK(StatusKey(c), Entry(StatusIn(S, c), v), L)
  BY <1>4 DEF EntryOK, Entry, Truth, StatusIn
<1>7. /\ DOMAIN A = {CountKey(c)} /\ DOMAIN B = {StatusKey(c)}
      /\ Was(CountKey(c), A[CountKey(c)], L) /\ Was(StatusKey(c), B[StatusKey(c)], L)
  BY <1>5, <1>6 DEF Was
<1> HIDE DEF todo, A, B
<1>8. CASE h = CountKey(c)
  <2> DEFINE puts == [k \in hot |-> A[k]]
  <2>1. Followed(A) = <<puts>> /\ Followed(B) = <<>>
    BY <1>3, <1>4, <1>7, <1>8, FollowedOne
  <2>2. DOMAIN puts = hot /\ \A k \in hot : Was(k, puts[k], L)
    BY <1>3, <1>7, <1>8
  <2> HIDE DEF puts
  <2>3. todo = <<puts>> /\ <<puts>> # <<>>
    BY <1>1, <2>1, EmptyConcat
  <2> QED
    BY <1>3, <1>8, <2>2, <2>3 DEF WritesOK, todo
<1>9. CASE h = StatusKey(c)
  <2> DEFINE puts == [k \in hot |-> B[k]]
  <2>1. Followed(A) = <<>> /\ Followed(B) = <<puts>>
    BY <1>3, <1>4, <1>7, <1>9, FollowedOne
  <2>2. DOMAIN puts = hot /\ \A k \in hot : Was(k, puts[k], L)
    BY <1>3, <1>7, <1>9
  <2> HIDE DEF puts
  <2>3. todo = <<puts>> /\ <<puts>> # <<>>
    BY <1>1, <2>1, EmptyConcat
  <2> QED
    BY <1>3, <1>9, <2>2, <2>3 DEF WritesOK, todo
<1>10. CASE h \notin {CountKey(c), StatusKey(c)}
  <2>1. Followed(A) = <<>> /\ Followed(B) = <<>>
    BY <1>3, <1>7, <1>10, FollowedOne
  <2>2. todo = <<>>
    BY <1>1, <2>1, EmptyConcat
  <2> QED
    BY <1>3, <1>10, <2>2 DEF WritesOK, todo
<1> QED
  BY <1>8, <1>9, <1>10

\* The pages a command invalidates.
LEMMA InvalidateOK ==
  ASSUME hot \in Choices, NEW L, NEW c
  PROVE  LET todo == Followed(InvalidateUserLikes(c))
         IN /\ WritesOK(todo, L)
            /\ hot \in {{PageKey("_")}, {PageKey(Type(c))}} <=> todo # <<>>
<1> DEFINE P == InvalidateUserLikes(c)
           todo == Followed(P)
<1>1. PICK h : hot = {h}
  BY OneKey
<1>2. /\ DOMAIN P = {PageKey("_"), PageKey(Type(c))}
      /\ \A k \in DOMAIN P : Was(k, P[k], L)
  BY DEF InvalidateUserLikes, Was
<1> HIDE DEF P
<1>3. CASE h \in DOMAIN P
  <2> DEFINE puts == [k \in hot |-> P[k]]
  <2>1. todo = <<puts>>
    BY <1>1, <1>3, FollowedOne
  <2>2. DOMAIN puts = hot /\ \A k \in hot : Was(k, puts[k], L)
    BY <1>1, <1>2, <1>3
  <2> HIDE DEF puts
  <2>3. <<puts>> # <<>>
    OBVIOUS
  <2> QED
    BY <1>1, <1>2, <1>3, <2>1, <2>2, <2>3 DEF WritesOK, P
<1>4. CASE h \notin DOMAIN P
  <2>1. todo = <<>>
    BY <1>1, <1>4, FollowedOne
  <2> QED
    BY <1>1, <1>2, <1>4, <2>1 DEF WritesOK, P
<1> QED
  BY <1>3, <1>4

\* Everything a mutation writes.
LEMMA CommandWrites ==
  ASSUME hot \in Choices, NEW L, VersionsOK(L), NEW v \in 1 .. Len(L), NEW c
  PROVE  LET todo == WriteThrough(c, L[v], v) \o Followed(InvalidateUserLikes(c))
         IN /\ WritesOK(todo, L)
            /\ hot \in {{CountKey(c)}, {StatusKey(c)}, {PageKey("_")}, {PageKey(Type(c))}}
                 => todo # <<>>
<1> DEFINE A == WriteThrough(c, L[v], v)
           B == Followed(InvalidateUserLikes(c))
           todo == A \o B
<1>1. WritesOK(A, L) /\ (hot \in {{CountKey(c)}, {StatusKey(c)}} <=> A # <<>>)
  BY WriteThroughOK
<1>2. WritesOK(B, L) /\ (hot \in {{PageKey("_")}, {PageKey(Type(c))}} <=> B # <<>>)
  BY InvalidateOK
<1>3. \A f : {CountKey(c)} # {PageKey(f)} /\ {StatusKey(c)} # {PageKey(f)}
  <2>1. \A f : CountKey(c) # PageKey(f) /\ StatusKey(c) # PageKey(f)
    BY DEF CountKey, StatusKey, PageKey
  <2> QED
    BY <2>1
<1>4. A = <<>> \/ B = <<>>
  BY <1>1, <1>2, <1>3
<1> HIDE DEF A, B
<1>5. CASE A = <<>> /\ B = <<>>
  <2>1. todo = <<>>
    BY <1>5, EmptyConcat
  <2> QED
    BY <1>1, <1>2, <1>5, <2>1 DEF WritesOK, A, B
<1>6. CASE A # <<>>
  <2>1. PICK puts : A = <<puts>>
    BY <1>1, <1>6 DEF WritesOK
  <2>2. todo = A
    BY <1>4, <1>6, <2>1, EmptyConcat
  <2> QED
    BY <1>1, <1>6, <2>2 DEF A, B
<1>7. CASE B # <<>>
  <2>1. PICK puts : B = <<puts>>
    BY <1>2, <1>7 DEF WritesOK
  <2>2. todo = B
    BY <1>4, <1>7, <2>1, EmptyConcat
  <2> QED
    BY <1>2, <1>7, <2>2 DEF A, B
<1> QED
  BY <1>5, <1>6, <1>7

\* A command replies, and goes on to write what it has to.
LEMMA RespondOK ==
  ASSUME ApiInv, VersionsOK(log'), Extends(log', log), hot' = hot,
         NEW t \in Tasks, NEW todo, NEW event, NEW reply,
         Respond(t, todo, event, reply), WritesOK(todo, log'),
         event # 0 => Told(event, reply, log')
  PROVE  /\ TasksOK'
         /\ \A u \in Tasks \ {t} : task'[u] = task[u]
         /\ todo # <<>> => task'[t].pc = "near" /\ task'[t].reply = reply
         /\ todo = <<>> => task'[t].reply \in {reply, NoReply}
         /\ event # 0 => task'[t].reply = reply
<1> DEFINE r == [Idle EXCEPT !.pc = "near", !.todo = todo, !.event = event, !.reply = reply]
           s == IF todo = <<>> THEN Finished(r) ELSE r
<1>1. Become(t, s)
  BY DEF Respond
<1>2. /\ r.pc = "near" /\ r.keys = {} /\ r.todo = todo /\ r.event = event
      /\ r.reply = reply /\ IsTask(r)
  BY IdleTask DEF IsTask, TaskFields
<1> HIDE DEF r
<1>3. TaskOK(s, hot, log') /\ (todo = <<>> => s.reply \in {reply, NoReply})
      /\ (event # 0 => s.reply = reply)
  <2>1. CASE todo = <<>>
    <3>1. /\ TaskOK(Finished(r), hot, log')
          /\ event = 0 => Finished(r) = Idle
          /\ event # 0 => Finished(r).reply = reply
      BY <1>2, FinishedOK
    <3> QED
      BY <2>1, <3>1, IdleTask
  <2>2. CASE todo # <<>>
    <3>1. TaskOK(r, hot, log')
      BY <1>2, <2>2 DEF TaskOK, WritesOK
    <3> QED
      BY <1>2, <2>2, <3>1
  <2> QED
    BY <2>1, <2>2
<1> HIDE DEF s
<1>4. TasksOK' /\ \A u \in Tasks : task'[u] = IF u = t THEN s ELSE task[u]
  BY <1>1, <1>3, BecomeOK
<1>5. todo # <<>> => s = r
  BY DEF s
<1> QED
  BY <1>2, <1>3, <1>4, <1>5

\* The caches do not change when the database does, and what they hold was true.
LEMMA CachesExtend ==
  ASSUME ApiInv, VersionsOK(log'), Extends(log', log), UNCHANGED <<hot, l1, l2>>
  PROVE  CachesOK'
<1>1. \A k \in hot : Was(k, l1[k], log') /\ Was(k, l2[k], log')
  BY WasExtends DEF ApiInv, CachesOK
<1> QED
  BY <1>1 DEF ApiInv, CachesOK

\* What every command does to the invariant, once its writes and its event fit.
LEMMA CommandOK ==
  ASSUME ApiInv, VersionsOK(log'), Extends(log', log),
         NEW t \in Tasks, NEW todo, NEW event, NEW reply,
         Respond(t, todo, event, reply), WritesOK(todo, log'),
         event # 0 => Told(event, reply, log'),
         UNCHANGED <<hot, l1, l2, walk, lost>>
  PROVE  ApiInv'
<1>1. TasksOK'
  BY RespondOK
<1>2. CachesOK'
  BY CachesExtend
<1>3. WalkOK(walk', log')
  BY WalkExtends DEF ApiInv
<1> QED
  BY <1>1, <1>2, <1>3 DEF ApiInv

\* A new like: the log, the writes and the event.
LEMMA InsertedOK ==
  ASSUME ApiInv, NEW t \in Tasks, NEW c \in Contents, Inserted(t, c), hot' = hot
  PROVE  \E row, todo :
           /\ ~ Liked(c) /\ row \notin Rows /\ row.c = c
           /\ VersionsOK(log') /\ Extends(log', log) /\ Now' = Now + 1
           /\ Rows' = Rows \cup {row}
           /\ todo = WriteThrough(c, Rows', Now') \o Followed(InvalidateUserLikes(c))
           /\ Respond(t, todo, Now', Reply("Inserted", Rows', c))
           /\ WritesOK(todo, log')
           /\ Told(Now', Reply("Inserted", Rows', c), log')
<1>1. PICK at \in Times :
        LET S == Rows \cup {[id |-> Seeds + Now, at |-> at, c |-> c]} IN
        /\ log' = Append(log, S)
        /\ Respond(t, WriteThrough(c, S, Now + 1) \o Followed(InvalidateUserLikes(c)),
                   Now + 1, Reply("Inserted", S, c))
  BY DEF Inserted
<1>2. ~ Liked(c) /\ Now < MaxVersion /\ VersionsOK(log)
  BY DEF Inserted, ApiInv
<1> DEFINE row == [id |-> Seeds + Now, at |-> at, c |-> c]
           S == Rows \cup {row}
           v == Now + 1
           todo == WriteThrough(c, S, v) \o Followed(InvalidateUserLikes(c))
           L == log'
<1>3. /\ Table(S) /\ \A r \in S : r.id < Seeds + Now + 1
      /\ row \notin Rows /\ row.c = c
  BY <1>2, InsertedTable
<1>4. L = Append(log, S) /\ Respond(t, todo, v, Reply("Inserted", S, c))
  BY <1>1
<1> HIDE DEF row, L
<1>5. /\ VersionsOK(L) /\ Extends(L, log)
      /\ Len(L) = Now + 1 /\ L[Now + 1] = S /\ L[Now] = Rows
  <2> HIDE DEF S
  <2> QED
    BY <1>2, <1>3, <1>4, NewVersion
<1>6. Now \in Nat /\ Now >= 1
  BY <1>2, CurrentVersion
<1>7. v \in 1 .. Len(L) /\ v \in 2 .. Len(L) /\ v - 1 = Now /\ v # 0
  BY <1>5, <1>6
<1>8. WritesOK(todo, L)
  <2>1. hot \in Choices
    BY DEF ApiInv
  <2> QED
    BY <1>5, <1>7, <2>1, CommandWrites
<1>9. Told(v, Reply("Inserted", S, c), L)
  <2>1. L[v] \ L[v - 1] = {row} /\ L[v - 1] \ L[v] = {} /\ L[v] = S
    BY <1>3, <1>5, <1>7
  <2> QED
    BY <1>3, <1>7, <2>1 DEF Told
<1>10. Now' = v /\ Rows' = S
  BY <1>5 DEF L, Now, Rows
<1> HIDE DEF v, S
<1>11. todo = WriteThrough(c, Rows', Now') \o Followed(InvalidateUserLikes(c))
  BY <1>10
<1> HIDE DEF todo
<1> QED
  BY <1>2, <1>3, <1>4, <1>5, <1>8, <1>9, <1>10, <1>11 DEF L, v, S

\* A row is removed, or there was none.
LEMMA UnlikeOK ==
  ASSUME ApiInv, NEW t \in Tasks, NEW c \in Contents, Unlike(t, c)
  PROVE  LET S     == Rows \ RowsOf(Rows, c)
             todo  == WriteThrough(c, S, Now') \o Followed(InvalidateUserLikes(c))
             event == IF Liked(c) THEN Now' ELSE 0
             reply == Reply(IF Liked(c) THEN "Removed" ELSE "NotLiked", S, c)
         IN /\ VersionsOK(log') /\ Extends(log', log)
            /\ Rows' = S
            /\ Respond(t, todo, event, reply)
            /\ WritesOK(todo, log')
            /\ event # 0 => Told(event, reply, log')
            /\ Liked(c) => event # 0
<1> DEFINE S == Rows \ RowsOf(Rows, c)
           v == IF Liked(c) THEN Now + 1 ELSE Now
           todo == WriteThrough(c, S, v) \o Followed(InvalidateUserLikes(c))
           event == IF Liked(c) THEN v ELSE 0
           reply == Reply(IF Liked(c) THEN "Removed" ELSE "NotLiked", S, c)
           L == log'
<1>1. /\ L = IF Liked(c) THEN Append(log, S) ELSE log
      /\ v <= MaxVersion
      /\ Respond(t, todo, event, reply)
      /\ UNCHANGED <<hot, l1, l2, walk, lost>>
  BY DEF Unlike
<1>2. VersionsOK(log) /\ hot \in Choices
  BY DEF ApiInv
<1>3. /\ Table(S) /\ \A r \in S : r.id < Seeds + Now + 1
      /\ ~ Liked(c) => S = Rows
      /\ Liked(c) => \E r \in Rows : Rows \ S = {r} /\ r.c = c
  BY <1>2, RemovedTable
<1>4. S \subseteq Rows
  OBVIOUS
<1>5. Now \in Nat /\ Now >= 1 /\ MaxVersion \in Nat
  BY <1>2, CurrentVersion, ViewsAssumption
<1>6. L = log' /\ Rows = log[Now] /\ Now = Len(log)
  BY DEF Rows, Now
<1> HIDE DEF S, L
<1>7. /\ VersionsOK(L) /\ Extends(L, log) /\ v \in 1 .. Len(L) /\ L[v] = S /\ v = Len(L)
      /\ event # 0 => Told(event, reply, L)
      /\ Liked(c) => event # 0
  <2>1. CASE Liked(c)
    <3>1. v = Now + 1 /\ Now < MaxVersion /\ L = Append(log, S) /\ event = v
          /\ reply = Reply("Removed", S, c)
      BY <1>1, <1>5, <2>1
    <3>2. /\ VersionsOK(L) /\ Extends(L, log)
          /\ Len(L) = Now + 1 /\ L[Now + 1] = S /\ L[Now] = Rows
      BY <1>2, <1>3, <3>1, NewVersion
    <3> HIDE DEF v, event, reply
    <3>3. v \in 2 .. Len(L) /\ v \in 1 .. Len(L) /\ v - 1 = Now /\ event # 0
      BY <1>5, <3>1, <3>2
    <3>4. PICK r \in Rows : Rows \ S = {r} /\ r.c = c
      BY <1>3, <2>1
    <3>5. L[v] = S /\ L[v - 1] = Rows
      BY <3>1, <3>2, <3>3
    <3>6. S \ Rows = {}
      BY <1>4
    <3>7. L[v] \ L[v - 1] = {} /\ L[v - 1] \ L[v] = {r} /\ L[v] = S
      BY <3>4, <3>5, <3>6
    <3>8. Told(v, reply, L)
      <4> DEFINE gone == L[v - 1] \ L[v]
                 new  == L[v] \ L[v - 1]
      <4>1. new = {} /\ gone = {r} /\ gone \cup new = {r}
        BY <3>7
      <4>2. r \in gone \cup new /\ r \notin new
        BY <4>1
      <4>3. reply = Reply("Removed", L[v], r.c)
        BY <3>1, <3>4, <3>7
      <4>4. \E q \in gone \cup new :
              /\ reply = Reply(IF q \in new THEN "Inserted" ELSE "Removed", L[v], q.c)
              /\ gone \cup new = {q}
        <5> HIDE DEF gone, new
        <5> QED
          BY <4>1, <4>2, <4>3
      <4> QED
        BY <3>3, <4>4 DEF Told
    <3> QED
      BY <3>1, <3>2, <3>3, <3>8
  <2>2. CASE ~ Liked(c)
    <3>1. v = Now /\ L = log /\ event = 0 /\ S = Rows
      BY <1>1, <1>3, <2>2
    <3>2. Extends(L, log)
      BY <1>5, <1>6, <3>1 DEF Extends
    <3> HIDE DEF v, event, reply
    <3> QED
      BY <1>2, <1>5, <1>6, <2>2, <3>1, <3>2
  <2> QED
    BY <2>1, <2>2
<1>8. Now' = v /\ Rows' = S
  BY <1>7 DEF L, Now, Rows
<1>9. WritesOK(todo, L)
  <2> HIDE DEF v
  <2> QED
    BY <1>2, <1>7, CommandWrites
<1> HIDE DEF v
<1>10. /\ todo = WriteThrough(c, S, Now') \o Followed(InvalidateUserLikes(c))
       /\ event = IF Liked(c) THEN Now' ELSE 0
  BY <1>8
<1> QED
  BY <1>1, <1>7, <1>8, <1>9, <1>10 DEF L, S

\* A like of what is liked already: the caches are written, no event is due.
LEMMA AlreadyExistedOK ==
  ASSUME ApiInv, NEW t \in Tasks, NEW c \in Contents, AlreadyExisted(t, c)
  PROVE  LET todo == WriteThrough(c, Rows, Now)
         IN /\ log' = log /\ Liked(c)
            /\ Respond(t, todo, 0, Reply("AlreadyExisted", Rows, c))
            /\ WritesOK(todo, log')
<1>1. /\ log' = log /\ Liked(c)
      /\ Respond(t, WriteThrough(c, Rows, Now), 0, Reply("AlreadyExisted", Rows, c))
  BY DEF AlreadyExisted
<1>2. Now \in 1 .. Len(log) /\ VersionsOK(log) /\ hot \in Choices
  BY CurrentVersion DEF ApiInv, Now
<1>3. WritesOK(WriteThrough(c, log[Now], Now), log)
  BY <1>2, WriteThroughOK
<1> QED
  BY <1>1, <1>3 DEF Rows

LEMMA LikeStep ==
  ASSUME ApiInv, NEW t \in Tasks, NEW c \in Contents, Like(t, c)
  PROVE  ApiInv'
<1>1. UNCHANGED <<hot, l1, l2, walk, lost>>
  BY DEF Like
<1>2. CASE Inserted(t, c)
  <2>1. PICK row, todo :
           /\ VersionsOK(log') /\ Extends(log', log)
           /\ Respond(t, todo, Now', Reply("Inserted", Rows', c))
           /\ WritesOK(todo, log')
           /\ Told(Now', Reply("Inserted", Rows', c), log')
    BY <1>1, <1>2, InsertedOK
  <2> QED
    BY <1>1, <2>1, CommandOK
<1>3. CASE AlreadyExisted(t, c)
  <2>1. VersionsOK(log') /\ Extends(log', log)
    BY <1>3, AlreadyExistedOK, SameVersion
  <2>2. PICK todo : /\ Respond(t, todo, 0, Reply("AlreadyExisted", Rows, c))
                    /\ WritesOK(todo, log')
    BY <1>3, AlreadyExistedOK
  <2> QED
    BY <1>1, <2>1, <2>2, CommandOK
<1>4. CASE ConcurrentlyRemoved(t, c)
  BY <1>1, <1>4 DEF ConcurrentlyRemoved, ApiInv, CachesOK, TasksOK
<1> QED
  BY <1>2, <1>3, <1>4 DEF Like

LEMMA UnlikeStep ==
  ASSUME ApiInv, NEW t \in Tasks, NEW c \in Contents, Unlike(t, c)
  PROVE  ApiInv'
<1>1. UNCHANGED <<hot, l1, l2, walk, lost>>
  BY DEF Unlike
<1>2. VersionsOK(log') /\ Extends(log', log)
  BY UnlikeOK
<1> DEFINE S     == Rows \ RowsOf(Rows, c)
           todo  == WriteThrough(c, S, Now') \o Followed(InvalidateUserLikes(c))
           event == IF Liked(c) THEN Now' ELSE 0
           reply == Reply(IF Liked(c) THEN "Removed" ELSE "NotLiked", S, c)
<1>3. /\ Respond(t, todo, event, reply)
      /\ WritesOK(todo, log')
      /\ event # 0 => Told(event, reply, log')
  BY UnlikeOK
<1> HIDE DEF S, todo, event, reply
<1> QED
  BY <1>1, <1>2, <1>3, CommandOK

-----------------------------------------------------------------------------
(* The other steps, and all of them.                                       *)

\* A task gives up, or is through.
LEMMA RestStep ==
  ASSUME ApiInv, NEW t \in Tasks, Publish(t) \/ DbFails(t) \/ Dropped(t)
  PROVE  ApiInv'
<1>1. Become(t, Idle) /\ UNCHANGED <<hot, log, l1, l2, walk>>
  BY DEF Publish, DbFails, Dropped
<1>2. lost' \subseteq {"l1", "l2"}
  BY DEF Publish, DbFails, Dropped, ApiInv
<1>3. VersionsOK(log') /\ Extends(log', log)
  BY <1>1, SameVersion
<1>4. TasksOK'
  BY <1>1, <1>3, IdleOK, BecomeOK
<1> QED
  BY <1>1, <1>2, <1>3, <1>4 DEF ApiInv, CachesOK

LEMMA ExpireStep ==
  ASSUME ApiInv, NEW k \in hot, ExpireL1(k) \/ ExpireL2(k)
  PROVE  ApiInv'
<1>1. UNCHANGED <<hot, log, task, walk, lost>>
  BY DEF ExpireL1, ExpireL2
<1>2. CachesOK'
  <2>1. CASE ExpireL1(k)
    BY <2>1 DEF ExpireL1, ApiInv, CachesOK, Was
  <2>2. CASE ExpireL2(k)
    BY <2>2 DEF ExpireL2, ApiInv, CachesOK, Was
  <2> QED
    BY <2>1, <2>2
<1> QED
  BY <1>1, <1>2 DEF ApiInv, TasksOK

LEMMA WalkStep ==
  ASSUME ApiInv, NextPage \/ EndWalk
  PROVE  ApiInv'
<1>1. UNCHANGED <<hot, log, l1, l2, task, lost>>
  BY DEF NextPage, EndWalk
<1>2. WalkOK(walk', log)
  <2>1. CASE EndWalk
    BY <2>1 DEF EndWalk, AtHome, WalkOK
  <2> QED
    BY <2>1, NextPageOK
<1> QED
  BY <1>1, <1>2 DEF ApiInv, CachesOK, TasksOK

LEMMA StutterStep ==
  ASSUME ApiInv, UNCHANGED vars
  PROVE  ApiInv'
<1>1. UNCHANGED <<hot, log, l1, l2, task, walk, lost>>
  BY DEF vars
<1> QED
  BY <1>1 DEF ApiInv, CachesOK, TasksOK

\* The steps of the caches, the database and the walk within a step of the service.
Moves ==
  \/ \E t \in Tasks, c \in Contents : Like(t, c) \/ Unlike(t, c)
  \/ \E t \in Tasks, K \in SUBSET hot : Lookup(t, K)
  \/ \E t \in Tasks : \/ ReadRedis(t) \/ FillL1(t) \/ ReadDb(t) \/ DbFails(t)
                      \/ WriteL1(t) \/ WriteRedis(t) \/ Publish(t)
                      \/ Dropped(t) \/ Refresh(t)
  \/ NextPage \/ EndWalk
  \/ \E k \in hot : ExpireL1(k) \/ ExpireL2(k)

LEMMA ApiMoves ==
  ASSUME [ApiNext]_apiVars
  PROVE  Moves \/ UNCHANGED vars
<1>1. CASE UNCHANGED apiVars
  BY <1>1 DEF apiVars
<1>2. CASE FrontStep
  BY <1>2 DEF FrontStep
<1>3. ASSUME NEW t \in Tasks, Command(t)
      PROVE  Moves
  <2>1. Mutable \subseteq Contents
    BY ViewsAssumption DEF Mutable
  <2> QED
    BY <1>3, <2>1 DEF Command, Moves
<1>4. ASSUME NEW t \in Tasks, Query(t)
      PROVE  Moves
  <2>1. \E K : Lookup(t, K)
    BY <1>4 DEF Query, GetCount, GetStatus, BatchStatuses, GetUserLikes, GetLeaderboard,
                Get, MGet
  <2>2. \A K : Lookup(t, K) => K \in SUBSET hot
    BY DEF Lookup
  <2> QED
    BY <2>1, <2>2 DEF Moves
<1>5. ASSUME NEW t \in Tasks, Step(t) \/ Drop(t) \/ Cycle(t)
      PROVE  Moves
  BY <1>5 DEF Step, Drop, Cycle, Moves
<1>6. CASE Walk \/ TtlL1 \/ TtlL2
  BY <1>6 DEF Walk, TtlL1, TtlL2, Moves
<1> QED
  BY <1>1, <1>2, <1>3, <1>4, <1>5, <1>6 DEF ApiNext

LEMMA ApiStep == ApiInv /\ [ApiNext]_apiVars => ApiInv'
<1> SUFFICES ASSUME ApiInv, [ApiNext]_apiVars
             PROVE  ApiInv'
  OBVIOUS
<1>1. ASSUME NEW t \in Tasks, NEW c \in Contents, Like(t, c) \/ Unlike(t, c)
      PROVE  ApiInv'
  BY <1>1, LikeStep, UnlikeStep
<1>2. ASSUME NEW t \in Tasks, NEW K \in SUBSET hot, Lookup(t, K)
      PROVE  ApiInv'
  BY <1>2, LookupStep
<1>3. ASSUME NEW t \in Tasks, ReadRedis(t) \/ FillL1(t) \/ ReadDb(t) \/ DbFails(t)
      PROVE  ApiInv'
  BY <1>3, ReadRedisStep, FillL1Step, ReadDbStep, RestStep
<1>4. ASSUME NEW t \in Tasks, WriteL1(t) \/ WriteRedis(t) \/ Publish(t)
      PROVE  ApiInv'
  BY <1>4, WriteL1Step, WriteRedisStep, RestStep
<1>5. ASSUME NEW t \in Tasks, Dropped(t) \/ Refresh(t)
      PROVE  ApiInv'
  BY <1>5, RestStep, RefreshStep
<1>6. ASSUME NEW k \in hot, ExpireL1(k) \/ ExpireL2(k)
      PROVE  ApiInv'
  BY <1>6, ExpireStep
<1>7. CASE NextPage \/ EndWalk
  BY <1>7, WalkStep
<1>8. CASE UNCHANGED vars
  BY <1>8, StutterStep
<1> QED
  BY <1>1, <1>2, <1>3, <1>4, <1>5, <1>6, <1>7, <1>8, ApiMoves DEF Moves

LEMMA Invariance == ApiSpec => []ApiInv
  BY ApiInitInv, ApiStep, PTL DEF ApiSpec

-----------------------------------------------------------------------------
(* What follows from the invariant.                                        *)

\* Types, and the unique constraint: in no version are there two likes of one
\* content or two rows with one id, whatever commands run at the same time.
THEOREM TypeCorrect == ApiSpec => []TypeOK
<1>1. ApiInv => TypeOK
  <2> SUFFICES ASSUME ApiInv
               PROVE  TypeOK
    OBVIOUS
  <2>1. \A v \in 1 .. Now : \A q, r \in log[v] : q # r => q.c # r.c /\ q.id # r.id
    BY DEF ApiInv, VersionsOK, Table, Now
  <2>2. Now <= MaxVersion
    BY CurrentVersion DEF ApiInv
  <2>3. DOMAIN l1 = hot /\ DOMAIN l2 = hot
    BY DEF ApiInv, CachesOK
  <2>4. \A t \in Tasks :
          task[t].pc \in {"idle", "redis", "local", "query", "near", "far", "publish"}
    BY DEF ApiInv, TasksOK, TaskOK
  <2> QED
    BY <2>1, <2>2, <2>3, <2>4 DEF ApiInv, TypeOK, WalkOK
<1> QED
  BY <1>1, Invariance, PTL

\* Nothing the caches ever hold is made up: an entry is what its key stood for in
\* the version it was read from, also when it was computed by write-through or cut
\* from a page of one row more.
THEOREM CacheEntriesWereTrue == ApiSpec => []CachedWasTrue
<1>1. ApiInv => CachedWasTrue
  BY DEF ApiInv, CachesOK, Was, EntryOK, CachedWasTrue
<1> QED
  BY <1>1, Invariance, PTL

\* A walk that is complete showed no like twice and missed none that was there all
\* the time, for every page size and every tie of created_at.
THEOREM WalksAreExact == ApiSpec => []WalkExact
<1>1. ApiInv => WalkExact
  <2> SUFFICES ASSUME ApiInv, walk.pc = "done", NEW v \in 1 .. Now, NEW r \in log[v]
               PROVE  LET seen == {i \in DOMAIN walk.pages : r \in walk.pages[i]} IN
                      /\ Cardinality(seen) <= 1
                      /\ Matches(walk.filter, r.c) /\ (\A u \in walk.from..Now : r \in log[u])
                           => seen # {}
    BY DEF WalkExact
  <2> DEFINE seen == {i \in DOMAIN walk.pages : r \in walk.pages[i]}
  <2>1. r \in Row
    BY DEF ApiInv, VersionsOK, Table, Now
  <2>2. \A i, j \in seen : i = j
    BY DEF ApiInv, WalkOK
  <2>3. Matches(walk.filter, r.c) /\ (\A u \in walk.from..Now : r \in log[u]) => seen # {}
    BY <2>1 DEF ApiInv, WalkOK, Now
  <2> HIDE DEF seen
  <2>4. Cardinality(seen) <= 1
    <3>1. seen = {} \/ \E i : seen = {i}
      BY <2>2
    <3>2. CASE seen = {}
      <4>1. Cardinality(seen) = 0
        BY <3>2, FS_EmptySet
      <4> QED
        BY <4>1
    <3>3. CASE seen # {}
      <4>1. PICK i : seen = {i}
        BY <3>1, <3>3
      <4>2. Cardinality(seen) = 1
        BY <4>1, FS_Singleton
      <4> QED
        BY <4>2
    <3> QED
      BY <3>2, <3>3
  <2> QED
    BY <2>3, <2>4 DEF seen
<1> QED
  BY <1>1, Invariance, PTL

\* An event that is about to be published tells of one change that took place, of
\* the row it names, with the count that change left.
THEOREM EventsTellChanges == ApiSpec => []EventsMatchChanges
<1>1. ApiInv => EventsMatchChanges
  <2> SUFFICES ASSUME ApiInv, NEW t \in Tasks, task[t].pc = "publish"
               PROVE  Told(task[t].event, task[t].reply, log)
    BY DEF EventsMatchChanges, Told, Now
  <2> QED
    BY DEF ApiInv, TasksOK, TaskOK
<1> QED
  BY <1>1, Invariance, PTL

-----------------------------------------------------------------------------
(* The likes and the replies follow the ledger.                            *)

\* The ledger's Cardinality is this module's.
LEMMA LedgerCounts ==
  ASSUME NEW S
  PROVE  Ledger!Cardinality(S) = Cardinality(S)
  BY DEF Ledger!Cardinality, Cardinality

Pairs(S) == {<<User, r.c>> : r \in S}

\* A pair is in the ledger when the table has a row of its content.
LEMMA PairOf ==
  ASSUME NEW S, NEW c
  PROVE  <<User, c>> \in Pairs(S) <=> RowsOf(S, c) # {}
<1>1. \A d : <<User, d>> = <<User, c>> <=> d = c
  OBVIOUS
<1> QED
  BY <1>1 DEF Pairs, RowsOf

\* A command's count is the ledger's.
LEMMA SameReply ==
  ASSUME NEW S, Table(S), NEW c, NEW kind
  PROVE  Ledger!Reply(kind, Pairs(S), c) = Reply(kind, S, c)
<1> DEFINE likers == {u \in {User} : <<u, c>> \in Pairs(S)}
<1>1. Cardinality(likers) = Cardinality(RowsOf(S, c))
  <2>1. CASE RowsOf(S, c) = {}
    <3>1. likers = {}
      BY <2>1, PairOf
    <3> HIDE DEF likers
    <3> QED
      BY <2>1, <3>1
  <2>2. CASE RowsOf(S, c) # {}
    <3>1. likers = {User}
      BY <2>2, PairOf
    <3>2. Cardinality(RowsOf(S, c)) = 1
      BY <2>2, RowsOfContent
    <3> HIDE DEF likers
    <3>3. Cardinality(likers) = 1
      BY <3>1, FS_Singleton
    <3> QED
      BY <3>2, <3>3
  <2> QED
    BY <2>1, <2>2
<1>2. Ledger!Likers(Pairs(S), c) = likers
  BY DEF Ledger!Likers
<1> HIDE DEF likers
<1>3. Ledger!Cardinality(likers) = Cardinality(likers)
  BY LedgerCounts
<1> QED
  BY <1>1, <1>2, <1>3 DEF Ledger!Reply, Reply

\* The replies after a step of one task.
LEMMA RepliesAfter ==
  ASSUME ApiInv, ApiInv', NEW t \in Tasks, \A u \in Tasks \ {t} : task'[u] = task[u]
  PROVE  Replies' = [Replies EXCEPT ![t] = task'[t].reply]
  BY DEF Replies

\* Every step but a command leaves the likes alone and gives no answer.
LEMMA QuietMoves ==
  ASSUME ApiInv, ApiInv', NEW t \in Tasks, log' = log,
         \A u \in Tasks \ {t} : task'[u] = task[u],
         task'[t].reply \in {task[t].reply, NoReply}
  PROVE  Ledger!Next \/ UNCHANGED <<Liking, Replies>>
<1>1. Liking' = Liking
  BY DEF Liking, Rows, Now
<1>2. Replies' = [Replies EXCEPT ![t] = task'[t].reply]
  BY RepliesAfter
<1>3. CASE task'[t].reply = NoReply
  <2>1. Ledger!Clear(t)
    BY <1>1, <1>2, <1>3 DEF Ledger!Clear
  <2> QED
    BY <2>1 DEF Ledger!Next
<1>4. CASE task'[t].reply = task[t].reply
  BY <1>1, <1>2, <1>4 DEF Replies
<1> QED
  BY <1>3, <1>4

\* The others stay what they were.
LEMMA OtherTasks ==
  ASSUME ApiInv, NEW t \in Tasks, NEW r, Become(t, r)
  PROVE  task'[t] = r /\ \A u \in Tasks \ {t} : task'[u] = task[u]
<1>1. task = [u \in Tasks |-> task[u]]
  BY DEF ApiInv, TasksOK
<1> QED
  BY <1>1 DEF Become

LEMMA InsertedLedger ==
  ASSUME ApiInv, ApiInv', NEW t \in Tasks, NEW c \in Contents, Inserted(t, c), hot' = hot
  PROVE  Ledger!Next
<1>1. PICK row, todo :
        /\ ~ Liked(c) /\ row \notin Rows /\ row.c = c
        /\ VersionsOK(log') /\ Extends(log', log) /\ Now' = Now + 1
        /\ Rows' = Rows \cup {row}
        /\ Respond(t, todo, Now', Reply("Inserted", Rows', c))
        /\ WritesOK(todo, log')
        /\ Told(Now', Reply("Inserted", Rows', c), log')
  BY InsertedOK
<1>2. Now' # 0
  BY <1>1, CurrentVersion DEF ApiInv
<1>3. /\ \A u \in Tasks \ {t} : task'[u] = task[u]
      /\ task'[t].reply = Reply("Inserted", Rows', c)
  BY <1>1, <1>2, RespondOK
<1>4. Replies' = [Replies EXCEPT ![t] = Reply("Inserted", Rows', c)]
  BY <1>3, RepliesAfter
<1>5. Liking = Pairs(Rows) /\ Liking' = Pairs(Rows')
  BY DEF Liking, Pairs
<1>6. Liking' = Liking \cup {<<User, c>>} /\ <<User, c>> \notin Liking
  <2>1. Pairs(Rows \cup {row}) = Pairs(Rows) \cup {<<User, row.c>>}
    BY DEF Pairs
  <2> QED
    BY <1>1, <1>5, <2>1, PairOf DEF Liked
<1>7. Table(Rows')
  <2>1. Rows' = log'[Len(log')]
    BY DEF Rows, Now
  <2>2. Len(log') \in 1 .. MaxVersion /\ MaxVersion \in Nat
    BY <1>1, ViewsAssumption DEF VersionsOK
  <2>3. Len(log') \in 1 .. Len(log')
    BY <2>2
  <2> QED
    BY <1>1, <2>1, <2>3 DEF VersionsOK
<1>8. Ledger!Reply("Inserted", Liking', c) = Reply("Inserted", Rows', c)
  BY <1>5, <1>7, SameReply
<1>9. Ledger!Add(t, User, c)
  BY <1>4, <1>6, <1>8 DEF Ledger!Add, Ledger!Change
<1> QED
  BY <1>9 DEF Ledger!Next

LEMMA AlreadyExistedLedger ==
  ASSUME ApiInv, ApiInv', NEW t \in Tasks, NEW c \in Contents,
         AlreadyExisted(t, c), hot' = hot
  PROVE  Ledger!Next
<1> DEFINE reply == Reply("AlreadyExisted", Rows, c)
<1>1. PICK todo : /\ log' = log /\ Liked(c)
                  /\ Respond(t, todo, 0, reply) /\ WritesOK(todo, log')
  BY AlreadyExistedOK
<1>2. VersionsOK(log') /\ Extends(log', log)
  BY <1>1, SameVersion
<1>3. /\ \A u \in Tasks \ {t} : task'[u] = task[u]
      /\ task'[t].reply \in {reply, NoReply}
  BY <1>1, <1>2, RespondOK
<1>4. Replies' = [Replies EXCEPT ![t] = task'[t].reply]
  BY <1>3, RepliesAfter
<1>5. Liking' = Liking /\ Liking = Pairs(Rows)
  BY <1>1 DEF Liking, Pairs, Rows, Now
<1>6. Table(Rows)
  BY CurrentVersion DEF ApiInv
<1>7. Ledger!Reply("AlreadyExisted", Liking, c) = reply /\ <<User, c>> \in Liking
  BY <1>1, <1>5, <1>6, SameReply, PairOf DEF Liked
<1>8. CASE task'[t].reply = NoReply
  BY <1>4, <1>5, <1>8 DEF Ledger!Next, Ledger!Clear
<1>9. CASE task'[t].reply = reply
  <2>1. Ledger!Observe(t, User, c, "AlreadyExisted")
    BY <1>4, <1>5, <1>7, <1>9 DEF Ledger!Observe
  <2> QED
    BY <2>1 DEF Ledger!Next, Ledger!ReplyKind
<1> QED
  BY <1>3, <1>8, <1>9

LEMMA UnlikeLedger ==
  ASSUME ApiInv, ApiInv', NEW t \in Tasks, NEW c \in Contents, Unlike(t, c)
  PROVE  Ledger!Next
<1> DEFINE S     == Rows \ RowsOf(Rows, c)
           kind  == IF Liked(c) THEN "Removed" ELSE "NotLiked"
           todo  == WriteThrough(c, S, Now') \o Followed(InvalidateUserLikes(c))
           event == IF Liked(c) THEN Now' ELSE 0
           reply == Reply(kind, S, c)
<1>1. /\ VersionsOK(log') /\ Extends(log', log) /\ Rows' = S
      /\ Respond(t, todo, event, reply) /\ WritesOK(todo, log')
      /\ event # 0 => Told(event, reply, log')
      /\ Liked(c) => event # 0
  BY UnlikeOK
<1>2. hot' = hot
  BY DEF Unlike
<1>3. /\ \A u \in Tasks \ {t} : task'[u] = task[u]
      /\ task'[t].reply \in {reply, NoReply}
      /\ Liked(c) => task'[t].reply = reply
  <2> HIDE DEF S, todo, event, reply
  <2> QED
    BY <1>1, <1>2, RespondOK
<1>4. Replies' = [Replies EXCEPT ![t] = task'[t].reply]
  BY <1>3, RepliesAfter
<1>5. Liking = Pairs(Rows) /\ Liking' = Pairs(S)
  BY <1>1 DEF Liking, Pairs
<1>6. Table(S)
  BY RemovedTable DEF ApiInv
<1>7. Ledger!Reply(kind, Liking', c) = reply
  BY <1>5, <1>6, SameReply
<1>8. Liking' = Liking \ {<<User, c>>}
  <2>1. \A d : <<User, d>> = <<User, c>> <=> d = c
    OBVIOUS
  <2> QED
    BY <1>5, <2>1 DEF Pairs, RowsOf
<1>9. <<User, c>> \in Liking <=> Liked(c)
  BY <1>5, PairOf DEF Liked
<1> HIDE DEF S, todo, event, reply
<1>10. CASE Liked(c)
  <2>1. Ledger!Remove(t, User, c)
    BY <1>3, <1>4, <1>7, <1>8, <1>9, <1>10 DEF Ledger!Remove, Ledger!Change
  <2> QED
    BY <2>1 DEF Ledger!Next
<1>11. CASE ~ Liked(c)
  <2>1. Liking' = Liking
    BY <1>8, <1>9, <1>11
  <2>2. CASE task'[t].reply = NoReply
    BY <1>4, <2>1, <2>2 DEF Ledger!Next, Ledger!Clear
  <2>3. CASE task'[t].reply = reply
    <3>1. Ledger!Observe(t, User, c, "NotLiked")
      BY <1>4, <1>7, <1>11, <2>1, <2>3 DEF Ledger!Observe
    <3> QED
      BY <3>1 DEF Ledger!Next, Ledger!ReplyKind
  <2> QED
    BY <1>3, <2>2, <2>3
<1> QED
  BY <1>10, <1>11

\* Reading, writing back, expiry and the walk answer no command.
LEMMA TaskLedger ==
  ASSUME ApiInv, ApiInv', NEW t \in Tasks,
         \/ ReadRedis(t) \/ FillL1(t) \/ ReadDb(t) \/ DbFails(t)
         \/ WriteL1(t) \/ WriteRedis(t) \/ Publish(t) \/ Dropped(t) \/ Refresh(t)
  PROVE  Ledger!Next \/ UNCHANGED <<Liking, Replies>>
<1>1. log' = log
  BY DEF ReadRedis, FillL1, ReadDb, DbFails, WriteL1, WriteRedis, Publish, Dropped, Refresh
<1>2. \A r : Become(t, r) => task'[t] = r /\ \A u \in Tasks \ {t} : task'[u] = task[u]
  BY OtherTasks
<1>3. IsTask(task[t])
  BY DEF ApiInv, TasksOK, TaskOK
<1>4. ASSUME NEW r, Become(t, r), r.reply \in {task[t].reply, NoReply}
      PROVE  Ledger!Next \/ UNCHANGED <<Liking, Replies>>
  BY <1>1, <1>2, <1>4, QuietMoves
<1>5. CASE DbFails(t) \/ Publish(t) \/ Dropped(t)
  BY <1>4, <1>5, IdleTask DEF DbFails, Publish, Dropped
<1>6. CASE ReadRedis(t)
  <2>1. PICK hits :
          Become(t, [task[t] EXCEPT !.pc = IF hits = {} THEN "query" ELSE "local",
                                    !.keys = @ \ hits,
                                    !.hold = [k \in hits |-> l2[k]]])
    BY <1>6 DEF ReadRedis
  <2> DEFINE pc == IF hits = {} THEN "query" ELSE "local"
             hold == [k \in hits |-> l2[k]]
             r == [task[t] EXCEPT !.pc = pc, !.keys = @ \ hits, !.hold = hold]
  <2>2. Become(t, r)
    BY <2>1
  <2> HIDE DEF pc, hold
  <2>3. r.reply = task[t].reply
    BY <1>3 DEF IsTask, TaskFields
  <2> HIDE DEF r
  <2> QED
    BY <1>4, <2>2, <2>3
<1>7. CASE FillL1(t)
  <2> DEFINE none == <<>>
             r == [task[t] EXCEPT !.pc = "query", !.hold = none]
  <2>1. Become(t, Idle) \/ Become(t, r)
    BY <1>7 DEF FillL1
  <2> HIDE DEF none
  <2>2. r.reply = task[t].reply
    BY <1>3 DEF IsTask, TaskFields
  <2> HIDE DEF r
  <2> QED
    BY <1>4, <2>1, <2>2, IdleTask
<1>8. CASE ReadDb(t) \/ Refresh(t)
  <2>1. ASSUME NEW puts
        PROVE  [Idle EXCEPT !.pc = "near", !.todo = <<puts>>].reply = NoReply
    <3> DEFINE todo == <<puts>>
    <3> HIDE DEF todo
    <3>1. [Idle EXCEPT !.pc = "near", !.todo = todo].reply = NoReply
      BY IdleTask DEF IsTask, TaskFields
    <3> QED
      BY <3>1 DEF todo
  <2>2. \/ Become(t, Idle)
        \/ \E puts : Become(t, [Idle EXCEPT !.pc = "near", !.todo = <<puts>>])
    BY <1>8 DEF ReadDb, Refresh
  <2> QED
    BY <1>4, <2>1, <2>2, IdleTask
<1>9. CASE WriteL1(t)
  <2>1. Become(t, [task[t] EXCEPT !.pc = "far"])
    BY <1>9 DEF WriteL1
  <2> QED
    BY <1>3, <1>4, <2>1, ChangedPc
<1>10. CASE WriteRedis(t)
  <2>1. task[t].pc = "far"
    BY <1>10 DEF WriteRedis
  <2>2. Tail(task[t].todo) = <<>>
    BY <2>1, Pending
  <2>3. Become(t, Finished(task[t]))
    BY <1>10, <2>2 DEF WriteRedis
  <2>4. Finished(task[t]).reply \in {task[t].reply, NoReply}
    BY <1>3, IdleTask, ChangedPc DEF Finished
  <2> QED
    BY <1>4, <2>3, <2>4
<1> QED
  BY <1>5, <1>6, <1>7, <1>8, <1>9, <1>10

\* Every step of the service, caches and all, is a step of the ledger or changes
\* nothing the ledger shows: likes come and go one at a time, and a command's answer
\* has the count of the moment it took effect.
THEOREM FollowsLedger == ApiSpec => LedgerSteps
<1>1. ApiInv /\ ApiInv' /\ [ApiNext]_apiVars => [Ledger!Next]_<<Liking, Replies>>
  <2> SUFFICES ASSUME ApiInv, ApiInv', [ApiNext]_apiVars
               PROVE  Ledger!Next \/ UNCHANGED <<Liking, Replies>>
    OBVIOUS
  <2>1. ASSUME NEW t \in Tasks, NEW c \in Contents, Like(t, c)
        PROVE  Ledger!Next \/ UNCHANGED <<Liking, Replies>>
    <3>1. hot' = hot
      BY <2>1 DEF Like
    <3>2. ConcurrentlyRemoved(t, c) => UNCHANGED <<Liking, Replies>>
      BY DEF ConcurrentlyRemoved, Liking, Replies, Rows, Now
    <3> QED
      BY <2>1, <3>1, <3>2, InsertedLedger, AlreadyExistedLedger DEF Like
  <2>2. ASSUME NEW t \in Tasks, NEW c \in Contents, Unlike(t, c)
        PROVE  Ledger!Next
    BY <2>2, UnlikeLedger
  <2>3. ASSUME NEW t \in Tasks, NEW K \in SUBSET hot, Lookup(t, K)
        PROVE  Ledger!Next \/ UNCHANGED <<Liking, Replies>>
    <3> DEFINE missing == {k \in K : l1[k] = None}
               r == [Idle EXCEPT !.pc = "redis", !.keys = missing]
    <3>1. log' = log /\ (task' = task \/ Become(t, r))
      BY <2>3 DEF Lookup
    <3>2. CASE task' = task
      BY <3>1, <3>2 DEF Liking, Replies, Rows, Now
    <3>3. CASE Become(t, r)
      <4> HIDE DEF missing
      <4>1. r.reply = NoReply
        BY IdleTask DEF IsTask, TaskFields
      <4> HIDE DEF r
      <4> QED
        BY <3>1, <3>3, <4>1, OtherTasks, QuietMoves
    <3> QED
      BY <3>1, <3>2, <3>3
  <2>4. ASSUME NEW t \in Tasks,
               \/ ReadRedis(t) \/ FillL1(t) \/ ReadDb(t) \/ DbFails(t)
               \/ WriteL1(t) \/ WriteRedis(t) \/ Publish(t) \/ Dropped(t) \/ Refresh(t)
        PROVE  Ledger!Next \/ UNCHANGED <<Liking, Replies>>
    BY <2>4, TaskLedger
  <2>5. ASSUME \/ NextPage \/ EndWalk \/ UNCHANGED vars
               \/ \E k \in hot : ExpireL1(k) \/ ExpireL2(k)
        PROVE  UNCHANGED <<Liking, Replies>>
    <3>1. UNCHANGED <<log, task>>
      BY <2>5 DEF NextPage, EndWalk, vars, ExpireL1, ExpireL2
    <3> QED
      BY <3>1 DEF Liking, Replies, Rows, Now
  <2> QED
    BY <2>1, <2>2, <2>3, <2>4, <2>5, ApiMoves DEF Moves
<1> QED
  BY <1>1, Invariance, PTL DEF ApiSpec, LedgerSteps

-----------------------------------------------------------------------------
(* Who answers for an entry that is out of date.                           *)

\* A command that has replied and has this level still to write.
OwesL1 == \E u \in Tasks : task[u].pc = "near" /\ task[u].reply # NoReply
OwesL2 == \E u \in Tasks : task[u].pc \in {"near", "far"} /\ task[u].reply # NoReply

\* An entry of a key that readers fill is in date, or was late when it was written,
\* or some command is about to replace it, or a command's write was lost.
Covered ==
  \A k \in hot : WritesBack(k) =>
    /\ Fresh(k, l1[k]) \/ "l1" \in lost \/ OwesL1
    /\ Fresh(k, l2[k]) \/ "l2" \in lost \/ OwesL2

\* A task that owes nothing may become anything.
LEMMA StillOwed ==
  ASSUME NEW t \in Tasks, \A u \in Tasks \ {t} : task'[u] = task[u],
         task[t].pc \notin {"near", "far"} \/ task[t].reply = NoReply
  PROVE  (OwesL1 => OwesL1') /\ (OwesL2 => OwesL2')
  BY DEF OwesL1, OwesL2

\* Steps that leave database and caches alone, by a task that owes nothing.
LEMMA QuietCovered ==
  ASSUME Covered, UNCHANGED <<hot, log, l1, l2, lost>>,
         (OwesL1 => OwesL1') /\ (OwesL2 => OwesL2')
  PROVE  Covered'
  BY DEF Covered, Fresh, Current, Rows, Now

\* The pc and the reply of a task after a step of another kind.
LEMMA Unowing ==
  ASSUME ApiInv, NEW t \in Tasks, task[t].pc \in {"idle", "redis", "local", "query", "publish"},
         NEW r, Become(t, r)
  PROVE  (OwesL1 => OwesL1') /\ (OwesL2 => OwesL2')
<1>1. \A u \in Tasks \ {t} : task'[u] = task[u]
  BY OtherTasks
<1> QED
  BY <1>1, StillOwed

LEMMA FillL1Covered ==
  ASSUME ApiInv, Covered, NEW t \in Tasks, FillL1(t)
  PROVE  Covered'
<1> DEFINE hold == task[t].hold
<1>1. /\ task[t].pc = "local" /\ l1' = Put(l1, hold)
      /\ \E r : Become(t, r)
      /\ UNCHANGED <<hot, log, l2, walk, lost>>
  BY DEF FillL1
<1>2. (OwesL1 => OwesL1') /\ (OwesL2 => OwesL2')
  BY <1>1, Unowing
<1>3. \A k \in DOMAIN hold : Was(k, hold[k], log)
  BY <1>1 DEF ApiInv, TasksOK, TaskOK
<1>4. l1 = [k \in hot |-> l1[k]] /\ \A k \in hot : Was(k, l1[k], log)
  BY DEF ApiInv, CachesOK
<1> HIDE DEF hold
<1>5. \A k \in hot : Fresh(k, l1'[k]) \/ l1'[k] = l1[k]
  BY <1>1, <1>3, <1>4, PutOK
<1> QED
  BY <1>1, <1>2, <1>5 DEF Covered, Fresh, Current, Rows, Now

LEMMA WriteL1Covered ==
  ASSUME ApiInv, Covered, NEW t \in Tasks, WriteL1(t)
  PROVE  Covered'
<1> DEFINE puts == Head(task[t].todo)
           some == [k \in DOMAIN puts \ {BoardKey} |-> puts[k]]
           s == [task[t] EXCEPT !.pc = "far"]
<1>1. /\ task[t].pc = "near" /\ UNCHANGED <<hot, log, l2, walk, lost>>
      /\ l1' = Put(l1, some) /\ Become(t, s)
  BY DEF WriteL1
<1>2. DOMAIN puts = hot /\ \A k \in hot : Was(k, puts[k], log)
  BY <1>1, Pending
<1>3. \A k \in DOMAIN some : Was(k, some[k], log)
  BY <1>2
<1>4. l1 = [k \in hot |-> l1[k]] /\ \A k \in hot : Was(k, l1[k], log)
  BY DEF ApiInv, CachesOK
<1>5. \A k \in hot : WritesBack(k) => k \in DOMAIN some
  <2>1. DOMAIN some = hot \ {BoardKey}
    BY <1>2
  <2>2. ~ WritesBack(BoardKey)
    BY DEF WritesBack, BoardKey, Kind
  <2> QED
    BY <2>1, <2>2
<1> HIDE DEF some
<1>6. \A k \in hot : WritesBack(k) => Fresh(k, l1'[k])
  BY <1>1, <1>3, <1>4, <1>5, PutOK
<1>7. IsTask(task[t])
  BY DEF ApiInv, TasksOK, TaskOK
<1>8. s.pc = "far" /\ s.reply = task[t].reply
  BY <1>7, ChangedPc
<1> HIDE DEF s
<1>9. task'[t] = s /\ \A u \in Tasks \ {t} : task'[u] = task[u]
  BY <1>1, OtherTasks
<1>10. OwesL2 => OwesL2'
  BY <1>1, <1>8, <1>9 DEF OwesL2
<1> QED
  BY <1>1, <1>6, <1>10 DEF Covered, Fresh, Current, Rows, Now

LEMMA WriteRedisCovered ==
  ASSUME ApiInv, Covered, NEW t \in Tasks, WriteRedis(t)
  PROVE  Covered'
<1> DEFINE puts == Head(task[t].todo)
<1>1. /\ task[t].pc = "far" /\ UNCHANGED <<hot, log, l1, walk>>
      /\ \E r : Become(t, r)
  BY DEF WriteRedis
<1>2. PICK done \in SUBSET DOMAIN puts :
        /\ l2' = Put(l2, [k \in done |-> puts[k]])
        /\ lost' = IF done # DOMAIN puts /\ task[t].reply # NoReply
                     THEN lost \cup {"l2"} ELSE lost
  BY DEF WriteRedis
<1> DEFINE some == [k \in done |-> puts[k]]
<1>3. DOMAIN puts = hot /\ \A k \in hot : Was(k, puts[k], log)
  BY <1>1, Pending
<1>4. DOMAIN some = done /\ \A k \in DOMAIN some : Was(k, some[k], log)
  BY <1>3
<1>5. l2 = [k \in hot |-> l2[k]] /\ \A k \in hot : Was(k, l2[k], log)
  BY DEF ApiInv, CachesOK
<1>6. l2' = Put(l2, some)
  BY <1>2
<1> HIDE DEF some, puts
<1>7. \A k \in hot : Fresh(k, l2'[k]) \/ (k \notin done /\ l2'[k] = l2[k])
  BY <1>4, <1>5, <1>6, PutOK
<1>8. \A u \in Tasks \ {t} : task'[u] = task[u]
  BY <1>1, OtherTasks
<1>9. OwesL1 => OwesL1'
  BY <1>1, <1>8 DEF OwesL1
<1>10. task[t].reply = NoReply => (OwesL2 => OwesL2')
  BY <1>8, StillOwed
<1>11. lost \subseteq lost'
  BY <1>2
<1>12. \A k \in hot : WritesBack(k) => Fresh(k, l2'[k]) \/ "l2" \in lost' \/ OwesL2'
  <2> SUFFICES ASSUME NEW k \in hot, WritesBack(k), ~ Fresh(k, l2'[k])
               PROVE  "l2" \in lost' \/ OwesL2'
    OBVIOUS
  <2>1. k \notin done /\ l2'[k] = l2[k] /\ done # DOMAIN puts
    BY <1>3, <1>7
  <2>2. "l2" \in lost \/ OwesL2
    BY <2>1 DEF Covered
  <2>3. CASE task[t].reply = NoReply
    BY <1>10, <1>11, <2>2, <2>3
  <2>4. CASE task[t].reply # NoReply
    BY <1>2, <2>1, <2>4
  <2> QED
    BY <2>3, <2>4
<1> QED
  BY <1>1, <1>9, <1>11, <1>12 DEF Covered, Fresh, Current, Rows, Now

LEMMA DroppedCovered ==
  ASSUME ApiInv, Covered, NEW t \in Tasks, Dropped(t)
  PROVE  Covered'
<1>1. /\ Become(t, Idle) /\ UNCHANGED <<hot, log, l1, l2, walk>> /\ lost \subseteq lost'
      /\ task[t].pc = "near" => lost' = lost \cup {"l1", "l2"}
      /\ task[t].pc = "far" => lost' = lost \cup {"l2"}
  BY DEF Dropped
<1>2. \A u \in Tasks \ {t} : task'[u] = task[u]
  BY <1>1, OtherTasks
<1>3. (OwesL1 => OwesL1' \/ "l1" \in lost') /\ (OwesL2 => OwesL2' \/ "l2" \in lost')
  BY <1>1, <1>2 DEF OwesL1, OwesL2
<1> QED
  BY <1>1, <1>3 DEF Covered, Fresh, Current, Rows, Now

LEMMA ExpireCovered ==
  ASSUME ApiInv, Covered, NEW k \in hot, ExpireL1(k) \/ ExpireL2(k)
  PROVE  Covered'
<1>1. UNCHANGED <<hot, log, task, walk, lost>>
  BY DEF ExpireL1, ExpireL2
<1>2. \A h \in hot : (l1'[h] = l1[h] \/ l1'[h] = None) /\ (l2'[h] = l2[h] \/ l2'[h] = None)
  BY DEF ExpireL1, ExpireL2, ApiInv, CachesOK
<1>3. (OwesL1 => OwesL1') /\ (OwesL2 => OwesL2')
  BY <1>1 DEF OwesL1, OwesL2
<1> QED
  BY <1>1, <1>2, <1>3 DEF Covered, Fresh, Current, Rows, Now

\* A reply is not the absence of one.
LEMMA IsReply ==
  ASSUME NEW S, Table(S), NEW c,
         NEW kind \in {"Inserted", "AlreadyExisted", "Removed", "NotLiked"}
  PROVE  Reply(kind, S, c) # NoReply
<1>1. Cardinality(RowsOf(S, c)) \in Nat
  BY RowsOfContent
<1> QED
  BY <1>1, ViewsAssumption DEF Reply

\* A mutation of c changes nothing that the keys of other contents and of the other
\* type's pages show.
LEMMA TruthElsewhere ==
  ASSUME NEW S, NEW T, NEW c, \A r : r.c # c => (r \in S <=> r \in T),
         hot \in Choices, NEW k \in hot, WritesBack(k),
         k \notin {CountKey(c), StatusKey(c), PageKey("_"), PageKey(Type(c))}
  PROVE  Truth(k, S) = Truth(k, T)
<1>1. k \in {CountKey(Focus), BoardKey, TypedBoardKey(Type(Focus)),
             StatusKey(Focus), PageKey("_"), PageKey(Type(Focus))}
  BY OneKey
<1>2. ~ WritesBack(BoardKey) /\ \A f : ~ WritesBack(TypedBoardKey(f))
  BY DEF WritesBack, BoardKey, TypedBoardKey, Kind
<1>3. CASE k \in {CountKey(Focus), StatusKey(Focus)}
  <2>1. (Kind(k) = "lc" \/ Kind(k) = "ls") /\ k[2] = Focus
    <3>1. CASE k = CountKey(Focus)
      BY <3>1 DEF CountKey, Kind
    <3>2. CASE k = StatusKey(Focus)
      BY <3>2 DEF StatusKey, Kind
    <3> QED
      BY <1>3, <3>1, <3>2
  <2>2. Focus # c
    BY <1>3
  <2>3. RowsOf(S, k[2]) = RowsOf(T, k[2])
    BY <2>1, <2>2 DEF RowsOf
  <2>4. CASE Kind(k) = "lc"
    BY <2>3, <2>4 DEF Truth
  <2>5. CASE Kind(k) = "ls"
    <3> DEFINE at(X) == IF X = {} THEN 0 ELSE (CHOOSE r \in X : TRUE).at
    <3>1. Truth(k, S) = at(RowsOf(S, k[2])) /\ Truth(k, T) = at(RowsOf(T, k[2]))
      BY <2>5 DEF Truth
    <3> HIDE DEF at
    <3> QED
      BY <2>3, <3>1
  <2> QED
    BY <2>1, <2>4, <2>5
<1>4. CASE k = PageKey(Type(Focus))
  <2>1. Kind(k) = "ul" /\ k[2] = Type(Focus)
    BY <1>4 DEF PageKey, Kind
  <2>2. Type(Focus) # Type(c) /\ Type(Focus) # "_"
    <3>1. Type(Focus) # Type(c)
      BY <1>4
    <3> QED
      BY <3>1 DEF Type
  <2>3. ~ Matches(k[2], c)
    BY <2>1, <2>2 DEF Matches
  <2>4. {r \in S : Matches(k[2], r.c)} = {r \in T : Matches(k[2], r.c)}
    BY <2>3
  <2> QED
    BY <2>1, <2>4 DEF Truth
<1> QED
  BY <1>1, <1>2, <1>3, <1>4

\* A command that changes the table owes every key it made out of date its write.
LEMMA ChangeCovered ==
  ASSUME ApiInv, Covered, VersionsOK(log'), Extends(log', log),
         NEW t \in Tasks, task[t].pc = "idle", NEW c, NEW event,
         NEW kind \in {"Inserted", "AlreadyExisted", "Removed", "NotLiked"},
         NEW todo,
         todo = WriteThrough(c, Rows', Now') \o Followed(InvalidateUserLikes(c)),
         Respond(t, todo, event, Reply(kind, Rows', c)), WritesOK(todo, log'),
         event # 0 => Told(event, Reply(kind, Rows', c), log'),
         \A r : r.c # c => (r \in Rows <=> r \in Rows'),
         UNCHANGED <<hot, l1, l2, walk, lost>>
  PROVE  Covered'
<1>1. Now' \in 1 .. Len(log') /\ Rows' = log'[Now'] /\ hot \in Choices
  <2>1. Len(log') \in 1 .. MaxVersion /\ MaxVersion \in Nat
    BY ViewsAssumption DEF VersionsOK
  <2> QED
    BY <2>1 DEF Now, Rows, ApiInv
<1>2. Table(Rows')
  BY <1>1 DEF VersionsOK
<1>3. Reply(kind, Rows', c) # NoReply
  BY <1>2, IsReply
<1> DEFINE reply == Reply(kind, Rows', c)
           L == log'
           v == Now'
<1>4. /\ \A u \in Tasks \ {t} : task'[u] = task[u]
      /\ todo # <<>> => task'[t].pc = "near" /\ task'[t].reply = reply
  <2> HIDE DEF reply
  <2> QED
    BY RespondOK DEF reply
<1>5. CASE todo # <<>>
  <2>1. OwesL1' /\ OwesL2'
    BY <1>3, <1>4, <1>5 DEF OwesL1, OwesL2
  <2> QED
    BY <2>1 DEF Covered
<1>6. CASE todo = <<>>
  <2>1. hot \notin {{CountKey(c)}, {StatusKey(c)}, {PageKey("_")}, {PageKey(Type(c))}}
    <3>1. v \in 1 .. Len(L) /\ VersionsOK(L) /\ Rows' = L[v]
      BY <1>1
    <3>2. todo = WriteThrough(c, L[v], v) \o Followed(InvalidateUserLikes(c))
      BY <3>1
    <3> HIDE DEF L, v
    <3> QED
      BY <1>1, <1>6, <3>1, <3>2, CommandWrites
  <2>2. ASSUME NEW k \in hot, WritesBack(k)
        PROVE  Truth(k, Rows') = Truth(k, Rows)
    <3>1. k \notin {CountKey(c), StatusKey(c), PageKey("_"), PageKey(Type(c))}
      BY <1>1, <2>1, OneKey
    <3> QED
      BY <1>1, <2>2, <3>1, TruthElsewhere
  <2>3. (OwesL1 => OwesL1') /\ (OwesL2 => OwesL2')
    BY <1>4, StillOwed
  <2>4. ASSUME NEW k \in hot, WritesBack(k), NEW e, Fresh(k, e)
        PROVE  Current(k, e)' \/ e.late
    BY <2>2, <2>4 DEF Fresh, Current
  <2> QED
    BY <2>3, <2>4 DEF Covered, Fresh
<1> QED
  BY <1>5, <1>6

LEMMA CommandCovered ==
  ASSUME ApiInv, Covered, NEW t \in Tasks, NEW c \in Contents, Like(t, c) \/ Unlike(t, c)
  PROVE  Covered'
<1>1. UNCHANGED <<hot, l1, l2, walk, lost>> /\ task[t].pc = "idle"
  BY DEF Like, Unlike
<1>2. CASE Like(t, c) /\ Inserted(t, c)
  <2>1. PICK row, todo :
          /\ row.c = c
          /\ VersionsOK(log') /\ Extends(log', log)
          /\ Rows' = Rows \cup {row}
          /\ todo = WriteThrough(c, Rows', Now') \o Followed(InvalidateUserLikes(c))
          /\ Respond(t, todo, Now', Reply("Inserted", Rows', c))
          /\ WritesOK(todo, log')
          /\ Told(Now', Reply("Inserted", Rows', c), log')
    BY <1>1, <1>2, InsertedOK
  <2>2. \A r : r.c # c => (r \in Rows <=> r \in Rows')
    BY <2>1
  <2> QED
    BY <1>1, <2>1, <2>2, ChangeCovered
<1>3. CASE Unlike(t, c)
  <2> DEFINE kind  == IF Liked(c) THEN "Removed" ELSE "NotLiked"
             event == IF Liked(c) THEN Now' ELSE 0
             todo  == WriteThrough(c, Rows', Now') \o Followed(InvalidateUserLikes(c))
  <2>1. /\ VersionsOK(log') /\ Extends(log', log)
        /\ Rows' = Rows \ RowsOf(Rows, c)
        /\ Respond(t, todo, event, Reply(kind, Rows', c))
        /\ WritesOK(todo, log')
        /\ event # 0 => Told(event, Reply(kind, Rows', c), log')
    BY <1>3, UnlikeOK
  <2>2. \A r : r.c # c => (r \in Rows <=> r \in Rows')
    BY <2>1 DEF RowsOf
  <2>3. kind \in {"Inserted", "AlreadyExisted", "Removed", "NotLiked"}
    OBVIOUS
  <2> HIDE DEF kind, event
  <2>4. todo = WriteThrough(c, Rows', Now') \o Followed(InvalidateUserLikes(c))
    OBVIOUS
  <2> HIDE DEF todo
  <2> QED
    BY <1>1, <2>1, <2>2, <2>3, <2>4, ChangeCovered
<1>4. CASE AlreadyExisted(t, c)
  <2>1. PICK todo, r : /\ log' = log
                       /\ Respond(t, todo, 0, r)
    BY <1>4, AlreadyExistedOK
  <2>2. \E s : Become(t, s)
    BY <2>1 DEF Respond
  <2>3. (OwesL1 => OwesL1') /\ (OwesL2 => OwesL2')
    BY <1>1, <2>2, Unowing
  <2> QED
    BY <1>1, <2>1, <2>3, QuietCovered
<1>5. CASE ConcurrentlyRemoved(t, c)
  <2>1. UNCHANGED <<log, task>>
    BY <1>5 DEF ConcurrentlyRemoved
  <2>2. (OwesL1 => OwesL1') /\ (OwesL2 => OwesL2')
    BY <2>1 DEF OwesL1, OwesL2
  <2> QED
    BY <1>1, <2>1, <2>2, QuietCovered
<1> QED
  BY <1>2, <1>3, <1>4, <1>5 DEF Like

LEMMA CoveredStep == ApiInv /\ Covered /\ [ApiNext]_apiVars => Covered'
<1> SUFFICES ASSUME ApiInv, Covered, [ApiNext]_apiVars
             PROVE  Covered'
  OBVIOUS
<1>1. ASSUME NEW t \in Tasks, NEW c \in Contents, Like(t, c) \/ Unlike(t, c)
      PROVE  Covered'
  BY <1>1, CommandCovered
<1>2. ASSUME UNCHANGED <<hot, log, l1, l2, task, lost>>
      PROVE  Covered'
  <2>1. (OwesL1 => OwesL1') /\ (OwesL2 => OwesL2')
    BY <1>2 DEF OwesL1, OwesL2
  <2> QED
    BY <1>2, <2>1, QuietCovered
<1>3. ASSUME NEW t \in Tasks, NEW r, Become(t, r), UNCHANGED <<hot, log, l1, l2, lost>>,
             task[t].pc \in {"idle", "redis", "local", "query", "publish"}
      PROVE  Covered'
  BY <1>3, Unowing, QuietCovered
<1>4. ASSUME NEW t \in Tasks, NEW K \in SUBSET hot, Lookup(t, K)
      PROVE  Covered'
  BY <1>2, <1>3, <1>4 DEF Lookup
<1>5. ASSUME NEW t \in Tasks,
             ReadRedis(t) \/ ReadDb(t) \/ DbFails(t) \/ Publish(t) \/ Refresh(t)
      PROVE  Covered'
  <2>1. /\ UNCHANGED <<hot, log, l1, l2, lost>>
        /\ task[t].pc \in {"idle", "redis", "query", "publish"}
        /\ \E r : Become(t, r)
    BY <1>5 DEF ReadRedis, ReadDb, DbFails, Publish, Refresh
  <2> QED
    BY <1>3, <2>1
<1>6. ASSUME NEW t \in Tasks, FillL1(t) \/ WriteL1(t) \/ WriteRedis(t) \/ Dropped(t)
      PROVE  Covered'
  BY <1>6, FillL1Covered, WriteL1Covered, WriteRedisCovered, DroppedCovered
<1>7. ASSUME NEW k \in hot, ExpireL1(k) \/ ExpireL2(k)
      PROVE  Covered'
  BY <1>7, ExpireCovered
<1>8. CASE NextPage \/ EndWalk \/ UNCHANGED vars
  BY <1>2, <1>8 DEF NextPage, EndWalk, vars
<1> QED
  BY <1>1, <1>4, <1>5, <1>6, <1>7, <1>8, ApiMoves DEF Moves

\* When nothing is under way, a cached entry of a like count, a like status or a
\* user's first page that is out of date was out of date already when it was written
\* (a reader was overtaken), or its level missed a command's write (Redis failed, or
\* the client went away): no command forgets a key it made out of date.
THEOREM StaleByRaceOnly == ApiSpec => []StaleOnlyByRace
<1>1. ApiInit => Covered
  BY DEF ApiInit, Init, Covered, Fresh, Current
<1>2. Covered => StaleOnlyByRace
  BY DEF Covered, StaleOnlyByRace, Fresh, OwesL1, OwesL2
<1> QED
  BY <1>1, <1>2, CoveredStep, Invariance, PTL DEF ApiSpec

-----------------------------------------------------------------------------
(* The front ends.                                                         *)

\* The flaws there are checks for, each with the error it is refused with; an id that
\* is no UUID is an error of its own kind inside a JSON body.
Refusal ==
  {<<"no_token", "MissingToken">>, <<"profile_down", "ServiceUnavailable">>,
   <<"bad_token", "InvalidToken">>, <<"over_write", "RateLimited">>,
   <<"over_read", "RateLimited">>, <<"over_ip", "RateLimited">>,
   <<"type", "ContentTypeUnknown">>, <<"id", "InvalidContentId">>,
   <<"id", "JsonRejection">>, <<"window", "InvalidWindow">>,
   <<"no_window", "InvalidWindow">>, <<"db_down", "Database">>,
   <<"content_down", "DependencyUnavailable">>, <<"no_content", "ContentNotFound">>,
   <<"size", "BatchTooLarge">>, <<"cursor", "InvalidCursor">>}

\* Checks that between them catch the flaws F.
Wellformed(s) == s \in Seq(Refusal)
Flaws(s) == {s[i][1] : i \in DOMAIN s}
Catches(s, F) == Wellformed(s) /\ Flaws(s) = F

\* Checks of which the first is that there is a token.
Guarded(s) == s # <<>> /\ s[1] = <<"no_token", "MissingToken">>

LEMMA OneCheck ==
  ASSUME NEW f, NEW e, <<f, e>> \in Refusal
  PROVE  Catches(<< <<f, e>> >>, {f})
<1> DEFINE p == <<f, e>>
           s == <<p>>
<1>1. p \in Refusal /\ p[1] = f
  OBVIOUS
<1> HIDE DEF p
<1>2. s \in Seq(Refusal) /\ DOMAIN s = {1} /\ s[1] = p
  BY <1>1
<1>3. {s[i][1] : i \in DOMAIN s} = {f}
  BY <1>1, <1>2
<1> QED
  BY <1>2, <1>3 DEF Catches, Wellformed, Flaws, p

LEMMA MoreChecks ==
  ASSUME NEW s, NEW t, NEW F, NEW G, Catches(s, F), Catches(t, G)
  PROVE  /\ Catches(s \o t, F \cup G)
         /\ Guarded(s) => Guarded(s \o t)
<1> DEFINE u == s \o t
           m == Len(s)
           n == Len(t)
<1>1. s \in Seq(Refusal) /\ t \in Seq(Refusal) /\ m \in Nat /\ n \in Nat
      /\ DOMAIN s = 1 .. m /\ DOMAIN t = 1 .. n
  BY LenProperties DEF Catches, Wellformed, Flaws
<1>2. /\ u \in Seq(Refusal) /\ Len(u) = m + n
      /\ \A i \in 1 .. m + n : u[i] = IF i <= m THEN s[i] ELSE t[i - m]
  BY <1>1, ConcatProperties
<1>3. DOMAIN u = 1 .. m + n
  BY <1>2, LenProperties
<1> HIDE DEF u, m, n
<1>4. ASSUME NEW f
      PROVE  (\E i \in DOMAIN u : u[i][1] = f) <=>
               (\E i \in DOMAIN s : s[i][1] = f) \/ (\E i \in DOMAIN t : t[i][1] = f)
  <2>1. ASSUME NEW i \in DOMAIN s
        PROVE  i \in DOMAIN u /\ u[i] = s[i]
    BY <1>1, <1>2, <1>3
  <2>2. ASSUME NEW i \in DOMAIN t
        PROVE  m + i \in DOMAIN u /\ u[m + i] = t[i]
    BY <1>1, <1>2, <1>3
  <2>3. ASSUME NEW i \in DOMAIN u
        PROVE  (i \in DOMAIN s /\ u[i] = s[i]) \/ (i - m \in DOMAIN t /\ u[i] = t[i - m])
    BY <1>1, <1>2, <1>3
  <2> QED
    BY <2>1, <2>2, <2>3
<1>5. {u[i][1] : i \in DOMAIN u} = F \cup G
  BY <1>4 DEF Catches, Wellformed, Flaws
<1>6. ASSUME Guarded(s)
      PROVE  Guarded(u)
  <2>1. s # <<>> /\ s[1] = <<"no_token", "MissingToken">>
    BY <1>6 DEF Guarded
  <2>2. m # 0
    BY <1>1, <2>1, EmptySeq DEF m
  <2>3. u[1] = s[1] /\ Len(u) # 0
    BY <1>1, <1>2, <2>2
  <2>4. u # <<>>
    BY <2>3
  <2> QED
    BY <2>1, <2>3, <2>4 DEF Guarded
<1> QED
  BY <1>2, <1>5, <1>6 DEF Catches, Wellformed, Flaws, u

\* The groups of checks that the handlers share.
LEMMA SharedChecks ==
  /\ Catches(ParseBearerToken, {"no_token"}) /\ Guarded(ParseBearerToken)
  /\ Catches(AuthUser, Authenticated) /\ Guarded(AuthUser)
  /\ Catches(GrpcAuthenticate, Authenticated) /\ Guarded(GrpcAuthenticate)
  /\ Catches(UserWriteLimit, {"over_write"}) /\ Catches(GrpcWriteLimit, {"over_write"})
  /\ Catches(UserReadLimit, {"over_read"}) /\ Catches(GrpcReadLimit, {"over_read"})
  /\ Catches(PublicReadLimit, {"over_ip"}) /\ Catches(GrpcPublicLimit, {"over_ip"})
  /\ Catches(RegisteredType, {"type"}) /\ Catches(ParseUuid, {"id"})
  /\ Catches(JsonBody, {"id"}) /\ Catches(ContentPath, Addressed)
  /\ Catches(Window, {"window"}) /\ Catches(ProtoWindow, {"window", "no_window"})
  /\ Catches(Database, {"db_down"})
  /\ Catches(Mutate, {"content_down", "no_content", "db_down"})
  /\ Catches(Batch, {"size", "db_down"}) /\ Catches(Paginate, {"cursor", "db_down"})
<1>1. ASSUME NEW s, NEW t, NEW F, NEW G, Catches(s, F), Catches(t, G)
      PROVE  Catches(s \o t, F \cup G)
  BY <1>1, MoreChecks
<1>2. ASSUME NEW f, NEW e, NEW g, NEW d, <<f, e>> \in Refusal, <<g, d>> \in Refusal
      PROVE  Catches(<< <<f, e>>, <<g, d>> >>, {f, g})
  <2> DEFINE p == <<f, e>>
             q == <<g, d>>
             s == <<p, q>>
  <2>1. p \in Refusal /\ q \in Refusal /\ p[1] = f /\ q[1] = g
    BY <1>2
  <2> HIDE DEF p, q
  <2>2. s \in Seq(Refusal) /\ DOMAIN s = {1, 2} /\ s[1] = p /\ s[2] = q
    BY <2>1
  <2>3. {s[i][1] : i \in DOMAIN s} = {f, g}
    BY <2>1, <2>2
  <2> QED
    BY <2>2, <2>3 DEF Catches, Wellformed, Flaws, p, q
<1>3. Catches(ParseBearerToken, {"no_token"})
  BY OneCheck DEF ParseBearerToken, Refusal
<1>4. Guarded(ParseBearerToken)
  BY DEF Guarded, ParseBearerToken
<1>5. Catches(AuthenticateToken, {"profile_down", "bad_token"})
  <2>1. AuthenticateToken[1] \in Refusal /\ AuthenticateToken[2] \in Refusal
    BY DEF AuthenticateToken, Refusal
  <2> QED
    BY <1>2, <2>1 DEF AuthenticateToken
<1>6. Catches(AuthUser, Authenticated) /\ Guarded(AuthUser)
  <2>1. {"no_token"} \cup {"profile_down", "bad_token"} = Authenticated
    BY DEF Authenticated
  <2> QED
    BY <1>3, <1>4, <1>5, <2>1, MoreChecks DEF AuthUser
<1>7. Catches(GrpcAuthenticate, Authenticated) /\ Guarded(GrpcAuthenticate)
  BY <1>6 DEF AuthUser, GrpcAuthenticate
<1>8. Catches(UserWriteLimit, {"over_write"}) /\ Catches(GrpcWriteLimit, {"over_write"})
  BY OneCheck DEF UserWriteLimit, GrpcWriteLimit, Refusal
<1>9. Catches(UserReadLimit, {"over_read"}) /\ Catches(GrpcReadLimit, {"over_read"})
  BY OneCheck DEF UserReadLimit, GrpcReadLimit, Refusal
<1>10. Catches(PublicReadLimit, {"over_ip"}) /\ Catches(GrpcPublicLimit, {"over_ip"})
  BY OneCheck DEF PublicReadLimit, GrpcPublicLimit, Refusal
<1>11. Catches(RegisteredType, {"type"}) /\ Catches(ParseUuid, {"id"})
       /\ Catches(JsonBody, {"id"})
  BY OneCheck DEF RegisteredType, ParseUuid, JsonBody, Refusal
<1>12. Catches(ContentPath, Addressed)
  <2>1. {"type"} \cup {"id"} = Addressed
    BY DEF Addressed
  <2> QED
    BY <1>1, <1>11, <2>1 DEF ContentPath
<1>13. Catches(Window, {"window"}) /\ Catches(Database, {"db_down"})
  BY OneCheck DEF Window, Database, Refusal
<1>14. Catches(ProtoWindow, {"window", "no_window"})
  <2>1. Catches(<< <<"no_window", "InvalidWindow">> >>, {"no_window"})
    BY OneCheck DEF Refusal
  <2>2. {"window"} \cup {"no_window"} = {"window", "no_window"}
    OBVIOUS
  <2> QED
    BY <1>1, <1>13, <2>1, <2>2 DEF ProtoWindow
<1>15. Catches(Mutate, {"content_down", "no_content", "db_down"})
  <2>1. Catches(ValidateContent, {"content_down", "no_content"})
    <3>1. ValidateContent[1] \in Refusal /\ ValidateContent[2] \in Refusal
      BY DEF ValidateContent, Refusal
    <3> QED
      BY <1>2, <3>1 DEF ValidateContent
  <2>2. {"content_down", "no_content"} \cup {"db_down"}
          = {"content_down", "no_content", "db_down"}
    OBVIOUS
  <2> QED
    BY <1>1, <1>13, <2>1, <2>2 DEF Mutate
<1>16. Catches(Batch, {"size", "db_down"})
  <2>1. Catches(<< <<"size", "BatchTooLarge">> >>, {"size"})
    BY OneCheck DEF Refusal
  <2>2. {"size"} \cup {"db_down"} = {"size", "db_down"}
    OBVIOUS
  <2> QED
    BY <1>1, <1>13, <2>1, <2>2 DEF Batch
<1>17. Catches(Paginate, {"cursor", "db_down"})
  <2>1. Catches(<< <<"cursor", "InvalidCursor">> >>, {"cursor"})
    BY OneCheck DEF Refusal
  <2>2. {"cursor"} \cup {"db_down"} = {"cursor", "db_down"}
    OBVIOUS
  <2> QED
    BY <1>1, <1>13, <2>1, <2>2 DEF Paginate
<1> QED
  BY <1>3, <1>4, <1>6, <1>7, <1>8, <1>9, <1>10, <1>11, <1>12, <1>13, <1>14, <1>15,
     <1>16, <1>17

\* Every handler checks what its operation requires, no less and no more: except that
\* the gRPC leaderboard also refuses a window that is not given.  An operation for
\* which a token is required asks for it before anything else.
Caught(tr, op) ==
  Requires[op] \cup IF tr = "grpc" /\ op = "leaderboard" THEN {"no_window"} ELSE {}

LEMMA HandlerChecks ==
  ASSUME NEW tr \in Transports, NEW op \in Operations
  PROVE  /\ Catches(Checks(tr, op), Caught(tr, op))
         /\ "no_token" \in Requires[op] => Guarded(Checks(tr, op))
<1>1. \A s, t : Wellformed(s) /\ Wellformed(t) =>
                 /\ Wellformed(s \o t) /\ Flaws(s \o t) = Flaws(s) \cup Flaws(t)
                 /\ Guarded(s) => Guarded(s \o t)
  BY MoreChecks DEF Catches
<1>2. /\ tr = "http" => Checks(tr, op) = HttpRoutes[op]
      /\ tr = "grpc" => Checks(tr, op) = GrpcMethods[op]
  BY DEF Checks
<1>3. CASE op = "like"
  <2>1. Requires[op] = (((Authenticated \cup {"id"}) \cup {"over_write"}) \cup {"type"})
                         \cup {"content_down", "no_content", "db_down"}
    BY <1>3 DEF Requires, Addressed
  <2>2. Requires[op] = (((Authenticated \cup {"over_write"}) \cup {"type"}) \cup {"id"})
                         \cup {"content_down", "no_content", "db_down"}
    BY <1>3 DEF Requires, Addressed
  <2>3. Catches(LikeContent, Requires[op]) /\ Guarded(LikeContent)
    BY <1>1, <2>1, SharedChecks DEF Catches, LikeContent
  <2>4. Catches(GrpcLike, Requires[op]) /\ Guarded(GrpcLike)
    BY <1>1, <2>2, SharedChecks DEF Catches, GrpcLike
  <2>5. HttpRoutes[op] = LikeContent /\ GrpcMethods[op] = GrpcLike
    BY <1>3 DEF HttpRoutes, GrpcMethods
  <2> QED
    BY <1>2, <1>3, <2>3, <2>4, <2>5 DEF Caught, Transports
<1>4. CASE op = "unlike"
  <2>1. Requires[op] = ((Authenticated \cup Addressed) \cup {"over_write"})
                         \cup {"content_down", "no_content", "db_down"}
    BY <1>4 DEF Requires
  <2>2. Requires[op] = (((Authenticated \cup {"over_write"}) \cup {"type"}) \cup {"id"})
                         \cup {"content_down", "no_content", "db_down"}
    BY <1>4 DEF Requires, Addressed
  <2>3. Catches(UnlikeContent, Requires[op]) /\ Guarded(UnlikeContent)
    BY <1>1, <2>1, SharedChecks DEF Catches, UnlikeContent
  <2>4. Catches(GrpcUnlike, Requires[op]) /\ Guarded(GrpcUnlike)
    BY <1>1, <2>2, SharedChecks DEF Catches, GrpcUnlike
  <2>5. HttpRoutes[op] = UnlikeContent /\ GrpcMethods[op] = GrpcUnlike
    BY <1>4 DEF HttpRoutes, GrpcMethods
  <2> QED
    BY <1>2, <1>4, <2>3, <2>4, <2>5 DEF Caught, Transports
<1>5. CASE op = "count"
  <2>1. /\ Requires[op] = ({"over_ip"} \cup Addressed) \cup {"db_down"}
        /\ "no_token" \notin Requires[op]
    BY <1>5 DEF Requires, Addressed
  <2>2. Requires[op] = (({"over_ip"} \cup {"type"}) \cup {"id"}) \cup {"db_down"}
    BY <2>1 DEF Addressed
  <2>3. Catches(HttpGetCount, Requires[op])
    BY <1>1, <2>1, SharedChecks DEF Catches, HttpGetCount
  <2>4. Catches(GrpcGetCount, Requires[op])
    BY <1>1, <2>2, SharedChecks DEF Catches, GrpcGetCount
  <2>5. HttpRoutes[op] = HttpGetCount /\ GrpcMethods[op] = GrpcGetCount
    BY <1>5 DEF HttpRoutes, GrpcMethods
  <2> QED
    BY <1>2, <1>5, <2>1, <2>3, <2>4, <2>5 DEF Caught, Transports
<1>6. CASE op = "status"
  <2>1. Requires[op] = ((Authenticated \cup Addressed) \cup {"over_read"}) \cup {"db_down"}
    BY <1>6 DEF Requires
  <2>2. Requires[op] = (((Authenticated \cup {"over_read"}) \cup {"type"}) \cup {"id"})
                         \cup {"db_down"}
    BY <2>1 DEF Addressed
  <2>3. Catches(HttpGetStatus, Requires[op]) /\ Guarded(HttpGetStatus)
    BY <1>1, <2>1, SharedChecks DEF Catches, HttpGetStatus
  <2>4. Catches(GrpcGetStatus, Requires[op]) /\ Guarded(GrpcGetStatus)
    BY <1>1, <2>2, SharedChecks DEF Catches, GrpcGetStatus
  <2>5. HttpRoutes[op] = HttpGetStatus /\ GrpcMethods[op] = GrpcGetStatus
    BY <1>6 DEF HttpRoutes, GrpcMethods
  <2> QED
    BY <1>2, <1>6, <2>3, <2>4, <2>5 DEF Caught, Transports
<1>7. CASE op = "user_likes"
  <2>1. Requires[op] = ((Authenticated \cup {"over_read"}) \cup {"type"})
                         \cup {"cursor", "db_down"}
    BY <1>7 DEF Requires
  <2>2. Catches(HttpGetUserLikes, Requires[op]) /\ Guarded(HttpGetUserLikes)
    BY <1>1, <2>1, SharedChecks DEF Catches, HttpGetUserLikes
  <2>3. Catches(GrpcGetUserLikes, Requires[op]) /\ Guarded(GrpcGetUserLikes)
    BY <1>1, <2>1, SharedChecks DEF Catches, GrpcGetUserLikes
  <2>4. HttpRoutes[op] = HttpGetUserLikes /\ GrpcMethods[op] = GrpcGetUserLikes
    BY <1>7 DEF HttpRoutes, GrpcMethods
  <2> QED
    BY <1>2, <1>7, <2>2, <2>3, <2>4 DEF Caught, Transports
<1>8. CASE op = "batch_counts"
  <2>1. /\ Requires[op] = (({"over_ip"} \cup {"id"}) \cup {"type"}) \cup {"size", "db_down"}
        /\ "no_token" \notin Requires[op]
    BY <1>8 DEF Requires, Addressed
  <2>2. Catches(HttpBatchCounts, Requires[op])
    BY <1>1, <2>1, SharedChecks DEF Catches, HttpBatchCounts
  <2>3. Catches(GrpcBatchCounts, Requires[op])
    BY <1>1, <2>1, SharedChecks DEF Catches, GrpcBatchCounts
  <2>4. HttpRoutes[op] = HttpBatchCounts /\ GrpcMethods[op] = GrpcBatchCounts
    BY <1>8 DEF HttpRoutes, GrpcMethods
  <2> QED
    BY <1>2, <1>8, <2>1, <2>2, <2>3, <2>4 DEF Caught, Transports
<1>9. CASE op = "batch_statuses"
  <2>1. Requires[op] = (((Authenticated \cup {"id"}) \cup {"over_read"}) \cup {"type"})
                         \cup {"size", "db_down"}
    BY <1>9 DEF Requires, Addressed
  <2>2. Requires[op] = (((Authenticated \cup {"over_read"}) \cup {"id"}) \cup {"type"})
                         \cup {"size", "db_down"}
    BY <1>9 DEF Requires, Addressed
  <2>3. Catches(HttpBatchStatuses, Requires[op]) /\ Guarded(HttpBatchStatuses)
    BY <1>1, <2>1, SharedChecks DEF Catches, HttpBatchStatuses
  <2>4. Catches(GrpcBatchStatuses, Requires[op]) /\ Guarded(GrpcBatchStatuses)
    BY <1>1, <2>2, SharedChecks DEF Catches, GrpcBatchStatuses
  <2>5. HttpRoutes[op] = HttpBatchStatuses /\ GrpcMethods[op] = GrpcBatchStatuses
    BY <1>9 DEF HttpRoutes, GrpcMethods
  <2> QED
    BY <1>2, <1>9, <2>3, <2>4, <2>5 DEF Caught, Transports
<1>10. CASE op = "leaderboard"
  <2>1. /\ Requires[op] = (({"over_ip"} \cup {"type"}) \cup {"window"}) \cup {"db_down"}
        /\ "no_token" \notin Requires[op]
    BY <1>10 DEF Requires
  <2>2. Requires[op] \cup {"no_window"}
          = (({"over_ip"} \cup {"window", "no_window"}) \cup {"type"}) \cup {"db_down"}
    BY <2>1
  <2>3. Catches(HttpGetLeaderboard, Requires[op])
    BY <1>1, <2>1, SharedChecks DEF Catches, HttpGetLeaderboard
  <2>4. Catches(GrpcGetLeaderboard, Requires[op] \cup {"no_window"})
    BY <1>1, <2>2, SharedChecks DEF Catches, GrpcGetLeaderboard
  <2>5. HttpRoutes[op] = HttpGetLeaderboard /\ GrpcMethods[op] = GrpcGetLeaderboard
    BY <1>10 DEF HttpRoutes, GrpcMethods
  <2> QED
    BY <1>2, <1>10, <2>1, <2>3, <2>4, <2>5 DEF Caught, Transports
<1>11. CASE op = "stream"
  <2>1. /\ Requires[op] = ({"over_ip"} \cup {"type"}) \cup {"id"}
        /\ "no_token" \notin Requires[op]
    BY <1>11 DEF Requires, Addressed
  <2>2. Catches(LikeStream, Requires[op])
    BY <1>1, <2>1, SharedChecks DEF Catches, LikeStream
  <2>3. Catches(StreamLikes, Requires[op])
    BY <1>1, <2>1, SharedChecks DEF Catches, StreamLikes
  <2>4. HttpRoutes[op] = LikeStream /\ GrpcMethods[op] = StreamLikes
    BY <1>11 DEF HttpRoutes, GrpcMethods
  <2> QED
    BY <1>2, <1>11, <2>1, <2>2, <2>3, <2>4 DEF Caught, Transports
<1> QED
  BY <1>3, <1>4, <1>5, <1>6, <1>7, <1>8, <1>9, <1>10, <1>11 DEF Operations

\* The error a malformed id is refused with.
IdError(tr, op) ==
  IF tr = "http" /\ op \in JsonBodies THEN "JsonRejection" ELSE "InvalidContentId"

\* Whichever of the checks s refuses an id, it does so with e.
IdBy(s, e) == \A i \in DOMAIN s : s[i][1] = "id" => s[i][2] = e

LEMMA MoreIds ==
  ASSUME NEW s, NEW t, NEW e, Wellformed(s), Wellformed(t), IdBy(s, e), IdBy(t, e)
  PROVE  IdBy(s \o t, e)
<1> DEFINE u == s \o t
           m == Len(s)
           n == Len(t)
<1>1. s \in Seq(Refusal) /\ t \in Seq(Refusal) /\ m \in Nat /\ n \in Nat
      /\ DOMAIN s = 1 .. m /\ DOMAIN t = 1 .. n
  BY LenProperties DEF Wellformed
<1>2. /\ u \in Seq(Refusal) /\ Len(u) = m + n
      /\ \A i \in 1 .. m + n : u[i] = IF i <= m THEN s[i] ELSE t[i - m]
  BY <1>1, ConcatProperties
<1>3. DOMAIN u = 1 .. m + n
  BY <1>2, LenProperties
<1> HIDE DEF u, m, n
<1>4. ASSUME NEW i \in DOMAIN u, u[i][1] = "id"
      PROVE  u[i][2] = e
  <2>1. CASE i <= m
    <3>1. i \in DOMAIN s /\ u[i] = s[i]
      BY <1>1, <1>2, <1>3, <2>1
    <3> QED
      BY <1>4, <3>1 DEF IdBy
  <2>2. CASE ~(i <= m)
    <3>1. i - m \in DOMAIN t /\ u[i] = t[i - m]
      BY <1>1, <1>2, <1>3, <2>2
    <3> QED
      BY <1>4, <3>1 DEF IdBy
  <2> QED
    BY <2>1, <2>2
<1> QED
  BY <1>4 DEF IdBy, u

\* A handler that takes the id from a JSON body leaves it to the deserialiser, the
\* others parse it themselves; no handler does both.
LEMMA IdErrors ==
  ASSUME NEW tr \in Transports, NEW op \in Operations
  PROVE  IdBy(Checks(tr, op), IdError(tr, op))
<1> DEFINE e == IdError(tr, op)
           Good(s) == Wellformed(s) /\ IdBy(s, e)
<1>1. \A s, t : Good(s) /\ Good(t) => Good(s \o t)
  BY MoreIds, MoreChecks DEF Catches
<1>2. \A s, F : Catches(s, F) /\ "id" \notin F => Good(s)
  BY DEF Catches, Flaws, IdBy
<1>3. /\ Good(AuthUser) /\ Good(GrpcAuthenticate)
      /\ Good(UserWriteLimit) /\ Good(GrpcWriteLimit)
      /\ Good(UserReadLimit) /\ Good(GrpcReadLimit)
      /\ Good(PublicReadLimit) /\ Good(GrpcPublicLimit)
  <2>1. "id" \notin Authenticated
    BY DEF Authenticated
  <2> HIDE DEF Good
  <2> QED
    BY <1>2, <2>1, SharedChecks
<1>4. /\ Good(RegisteredType) /\ Good(Window) /\ Good(ProtoWindow) /\ Good(Database)
      /\ Good(Mutate) /\ Good(Batch) /\ Good(Paginate)
  <2> HIDE DEF Good
  <2> QED
    BY <1>2, SharedChecks
<1>5. e = "InvalidContentId" => Good(ParseUuid)
  <2>1. DOMAIN ParseUuid = {1} /\ ParseUuid[1][2] = "InvalidContentId"
    BY DEF ParseUuid
  <2> QED
    BY <2>1, SharedChecks DEF Catches, IdBy
<1>6. e = "JsonRejection" => Good(JsonBody)
  <2>1. DOMAIN JsonBody = {1} /\ JsonBody[1][2] = "JsonRejection"
    BY DEF JsonBody
  <2> QED
    BY <2>1, SharedChecks DEF Catches, IdBy
<1> HIDE DEF Good
<1>7. e = "InvalidContentId" => Good(ContentPath)
  BY <1>1, <1>4, <1>5 DEF ContentPath
<1>8. ASSUME tr = "grpc"
      PROVE  Good(GrpcMethods[op])
  <2>1. e = "InvalidContentId"
    BY <1>8 DEF IdError
  <2> HIDE DEF e
  <2>2. /\ Good(GrpcLike) /\ Good(GrpcUnlike) /\ Good(GrpcGetCount) /\ Good(StreamLikes)
    BY <1>1, <1>3, <1>4, <1>5, <2>1 DEF GrpcLike, GrpcUnlike, GrpcGetCount, StreamLikes
  <2>3. /\ Good(GrpcGetStatus) /\ Good(GrpcGetUserLikes) /\ Good(GrpcGetLeaderboard)
    BY <1>1, <1>3, <1>4, <1>5, <2>1
    DEF GrpcGetStatus, GrpcGetUserLikes, GrpcGetLeaderboard
  <2>4. Good(GrpcBatchCounts) /\ Good(GrpcBatchStatuses)
    BY <1>1, <1>3, <1>4, <1>5, <2>1 DEF GrpcBatchCounts, GrpcBatchStatuses
  <2> QED
    BY <2>2, <2>3, <2>4 DEF GrpcMethods, Operations
<1>9. ASSUME tr = "http", op \in JsonBodies
      PROVE  Good(HttpRoutes[op])
  <2>1. e = "JsonRejection"
    BY <1>9 DEF IdError
  <2> HIDE DEF e
  <2>2. Good(LikeContent) /\ Good(HttpBatchCounts) /\ Good(HttpBatchStatuses)
    BY <1>1, <1>3, <1>4, <1>6, <2>1 DEF LikeContent, HttpBatchCounts, HttpBatchStatuses
  <2> QED
    BY <1>9, <2>2 DEF HttpRoutes, JsonBodies
<1>10. ASSUME tr = "http", op \notin JsonBodies
       PROVE  Good(HttpRoutes[op])
  <2>1. e = "InvalidContentId"
    BY <1>10 DEF IdError
  <2> HIDE DEF e
  <2>2. Good(UnlikeContent) /\ Good(HttpGetCount) /\ Good(HttpGetStatus)
    BY <1>1, <1>3, <1>4, <1>7, <2>1 DEF UnlikeContent, HttpGetCount, HttpGetStatus
  <2>3. Good(HttpGetUserLikes) /\ Good(HttpGetLeaderboard) /\ Good(LikeStream)
    BY <1>1, <1>3, <1>4, <1>5, <2>1 DEF HttpGetUserLikes, HttpGetLeaderboard, LikeStream
  <2> QED
    BY <1>10, <2>2, <2>3 DEF HttpRoutes, JsonBodies, Operations
<1>11. tr = "http" \/ tr = "grpc"
  BY DEF Transports
<1>12. Good(Checks(tr, op))
  BY <1>8, <1>9, <1>10, <1>11 DEF Checks
<1> QED
  BY <1>12 DEF Good

\* o is the error of a check for one of the flaws D.
ErrorOf(o, tr, op, D) ==
  \E p \in Refusal : p[1] \in D /\ o = p[2] /\ (p[1] = "id" => o = IdError(tr, op))

\* A request is refused when it has a flaw that is checked for, with the error of such
\* a flaw; without a token, with that.
LEMMA FirstRefusal ==
  ASSUME NEW tr \in Transports, NEW op \in Operations, NEW D,
         NEW o, o = Outcome(tr, op, D)
  PROVE  /\ o = "Ok" <=> Caught(tr, op) \cap D = {}
         /\ o # "Ok" => ErrorOf(o, tr, op, D)
         /\ "no_token" \in Requires[op] \cap D => o = "MissingToken"
<1> DEFINE s == Checks(tr, op)
           R == {i \in DOMAIN s : s[i][1] \in D}
           first == CHOOSE i \in R : \A j \in R : i <= j
<1>1. /\ s \in Seq(Refusal) /\ {s[i][1] : i \in DOMAIN s} = Caught(tr, op)
      /\ "no_token" \in Requires[op] => Guarded(s)
  BY HandlerChecks DEF Catches, Wellformed, Flaws
<1>2. Len(s) \in Nat /\ DOMAIN s = 1 .. Len(s) /\ \A i \in DOMAIN s : s[i] \in Refusal
  BY <1>1, LenProperties, ElementOfSeq
<1>3. o = IF R = {} THEN "Ok" ELSE s[first][2]
  BY DEF Outcome
<1> HIDE DEF s
<1>4. R = {} <=> Caught(tr, op) \cap D = {}
  BY <1>1
<1>5. \A p \in Refusal : p[2] # "Ok"
  BY DEF Refusal
<1>6. R # {} => first \in R /\ \A j \in R : first <= j
  <2> SUFFICES ASSUME R # {}
               PROVE  first \in R /\ \A j \in R : first <= j
    OBVIOUS
  <2>1. R \in SUBSET Nat
    BY <1>2
  <2> HIDE DEF R
  <2>2. \E m \in R : \A k \in R : m <= k
    BY <2>1, LeastNumber
  <2> QED
    BY <2>2
<1> HIDE DEF first
<1>7. R # {} => /\ s[first] \in Refusal /\ s[first][1] \in D
                /\ s[first][1] = "id" => s[first][2] = IdError(tr, op)
  <2>1. IdBy(s, IdError(tr, op))
    BY IdErrors DEF s
  <2> QED
    BY <1>2, <1>6, <2>1 DEF IdBy
<1>8. ASSUME "no_token" \in Requires[op] \cap D
      PROVE  o = "MissingToken"
  <2>1. s # <<>> /\ s[1] = <<"no_token", "MissingToken">>
    BY <1>1, <1>8 DEF Guarded
  <2>2. Len(s) # 0
    BY <1>1, <2>1, EmptySeq
  <2>3. 1 \in DOMAIN s
    BY <1>2, <2>2
  <2>4. s[1][1] = "no_token" /\ s[1][2] = "MissingToken"
    BY <2>1
  <2>5. 1 \in R
    BY <1>8, <2>3, <2>4
  <2>6. first \in 1 .. Len(s) /\ first <= 1
    BY <1>2, <1>6, <2>5
  <2>7. first = 1
    BY <1>2, <2>6
  <2> QED
    BY <1>3, <2>4, <2>5, <2>7
<1> HIDE DEF R
<1> QED
  BY <1>3, <1>4, <1>5, <1>7, <1>8 DEF ErrorOf

\* One flaw, two transports: the statuses correspond, except for that of a malformed
\* JSON body.
LEMMA StatusesMatch ==
  ASSUME NEW p \in Refusal, NEW q \in Refusal, p[1] = q[1],
         p[1] = "id" => q[2] = "InvalidContentId"
  PROVE  <<HttpStatus(p[2]), GrpcStatus(q[2])>> \in Same <=> p[2] # "JsonRejection"
<1> DEFINE S(a, b) == <<HttpStatus(a), GrpcStatus(b)>> \in Same
<1> USE DEF HttpStatus, HttpStatusOf, ErrorCode, AuthErrorCode, AuthFailures,
            GrpcStatus, AuthFailureToStatus, AppErrorToStatus, Same
<1>1. S("MissingToken", "MissingToken")
  OBVIOUS
<1>2. S("ServiceUnavailable", "ServiceUnavailable")
  OBVIOUS
<1>3. S("InvalidToken", "InvalidToken")
  OBVIOUS
<1>4. S("RateLimited", "RateLimited")
  OBVIOUS
<1>5. S("ContentTypeUnknown", "ContentTypeUnknown")
  OBVIOUS
<1>6. S("InvalidContentId", "InvalidContentId") /\ ~S("JsonRejection", "InvalidContentId")
  OBVIOUS
<1>7. S("InvalidWindow", "InvalidWindow")
  OBVIOUS
<1>8. S("Database", "Database")
  OBVIOUS
<1>9. S("DependencyUnavailable", "DependencyUnavailable")
  OBVIOUS
<1>10. S("ContentNotFound", "ContentNotFound")
  OBVIOUS
<1>11. S("BatchTooLarge", "BatchTooLarge")
  OBVIOUS
<1>12. S("InvalidCursor", "InvalidCursor")
  OBVIOUS
<1> HIDE DEF HttpStatus, GrpcStatus, Same, S
<1>13. \/ p[1] = "id" /\ p[2] \in {"InvalidContentId", "JsonRejection"}
       \/ p[1] # "id" /\ p[2] = q[2]
  BY DEF Refusal
<1>14. p[1] # "id" =>
         p[2] \in {"MissingToken", "ServiceUnavailable", "InvalidToken", "RateLimited",
                   "ContentTypeUnknown", "InvalidWindow", "Database",
                   "DependencyUnavailable", "ContentNotFound", "BatchTooLarge",
                   "InvalidCursor"}
  BY DEF Refusal
<1>15. S(p[2], q[2]) <=> p[2] # "JsonRejection"
  BY <1>1, <1>2, <1>3, <1>4, <1>5, <1>6, <1>7, <1>8, <1>9, <1>10, <1>11, <1>12,
     <1>13, <1>14
<1> QED
  BY <1>15 DEF S

\* A request, and the answers it has got.
FrontInv ==
  /\ request \in Requests \cup {NoRequest}
  /\ answer = [tr \in Transports |-> answer[tr]]
  /\ \A tr \in Transports :
       answer[tr] \in {"none", Outcome(tr, request.op, request.flaws)}
  /\ request = NoRequest => answer = Unanswered

LEMMA RequestOK ==
  ASSUME NEW r \in Requests
  PROVE  r.op \in Operations /\ r.flaws \subseteq Requires[r.op] \cup Omits(r.op)
  BY DEF Requests

\* Flaws are finitely many.
LEMMA FewFlaws ==
  ASSUME NEW op \in Operations
  PROVE  IsFiniteSet(Requires[op] \cup Omits(op))
<1> DEFINE s == Checks("grpc", op)
<1>1. s \in Seq(Refusal) /\ {s[i][1] : i \in DOMAIN s} = Requires[op] \cup Omits(op)
  BY HandlerChecks DEF Catches, Wellformed, Flaws, Caught, Omits, Transports
<1>2. Len(s) \in Nat /\ DOMAIN s = 1 .. Len(s)
  BY <1>1, LenProperties
<1> HIDE DEF s
<1>3. IsFiniteSet(DOMAIN s)
  BY <1>2, FS_Interval
<1> DEFINE F == {s[i][1] : i \in DOMAIN s}
           name == [i \in DOMAIN s |-> s[i][1]]
<1>4. name \in Surjection(DOMAIN s, F)
  BY DEF Surjection
<1>5. IsFiniteSet(F)
  <2> HIDE DEF name, F
  <2> QED
    BY <1>3, <1>4, FS_Surjection
<1> QED
  BY <1>1, <1>5

LEMMA AddressesAndSizes == SameBuckets /\ SameLimits
<1>1. SameBuckets
  BY DEF SameBuckets, ReadRateLimitIp, ExtractClientIp, Absent, Blank
<1>2. \A n \in Int : Clamp(Clamp(n, 1, 100), 1, 100) = Clamp(n, 1, 100)
  BY DEF Clamp
<1>3. \A n \in Int : Clamp(Clamp(n, 1, 50), 1, 50) = Clamp(n, 1, 50)
  BY DEF Clamp
<1>4. \A n, k : UnwrapOr({n}, k) = n /\ UnwrapOr({}, k) = k
  BY DEF UnwrapOr
<1>5. ASSUME NEW n \in Int
      PROVE  /\ UserLikesLimit("http", TRUE, {n}) = UserLikesLimit("grpc", TRUE, {n})
             /\ LeaderboardLimit("http", {n}) = LeaderboardLimit("grpc", {n})
  <2>1. UnwrapOr({n}, 20) = n /\ UnwrapOr({n}, 10) = n /\ UnwrapOr({n}, 0) = n
    BY <1>4
  <2>2. /\ UserLikesLimit("http", TRUE, {n}) = Clamp(Clamp(n, 1, 100), 1, 100)
        /\ UserLikesLimit("grpc", TRUE, {n}) = Clamp(n, 1, 100)
    BY <2>1 DEF UserLikesLimit
  <2>3. /\ LeaderboardLimit("http", {n}) = Clamp(Clamp(n, 1, 50), 1, 50)
        /\ LeaderboardLimit("grpc", {n}) = Clamp(n, 1, 50)
    BY <2>1 DEF LeaderboardLimit
  <2> QED
    BY <1>2, <1>3, <2>2, <2>3
<1>6. ASSUME NEW p \in BOOLEAN
      PROVE  /\ UserLikesLimit("http", p, {}) = 20
             /\ UserLikesLimit("grpc", p, {}) = IF p THEN 1 ELSE 20
  BY <1>4 DEF UserLikesLimit, Clamp
<1>7. LeaderboardLimit("http", {}) = 10 /\ LeaderboardLimit("grpc", {}) = 1
  BY <1>4 DEF LeaderboardLimit, Clamp
<1>8. \A p \in BOOLEAN :
        UserLikesLimit("http", p, {}) = UserLikesLimit("grpc", p, {}) <=> ~p
  BY <1>6
<1>9. LeaderboardLimit("http", {}) # LeaderboardLimit("grpc", {})
  BY <1>7
<1>10. {-1, 0, 1, 49, 50, 51, 99, 100, 101} \subseteq Int
  OBVIOUS
<1>11. SameLimits
  BY <1>5, <1>8, <1>9, <1>10, Zenon DEF SameLimits
<1> QED
  BY <1>1, <1>11

LEMMA FrontAgrees ==
  ASSUME FrontInv
  PROVE  TransportsAgree
<1> DEFINE h == answer["http"]
           g == answer["grpc"]
           D == request.flaws
           op == request.op
<1> SUFFICES ASSUME "none" \notin {h, g}
             PROVE  /\ (h = "Ok") = (g = "Ok") <=> D # {"no_window"}
                    /\ Cardinality(D) = 1 => (Alike(h, g) <=> ~ Parting(op, D))
                    /\ "no_token" \in D =>
                         HttpStatus(h) = 401 /\ GrpcStatus(g) = "Unauthenticated"
                    /\ "over_ip" \in Requires[request.op] => SameBuckets
                    /\ request.op \in {"user_likes", "leaderboard"} => SameLimits
  BY DEF TransportsAgree
<1>1. request \in Requests
  BY DEF FrontInv, Unanswered, Transports
<1>2. op \in Operations /\ D \subseteq Requires[op] \cup Omits(op)
  BY <1>1, RequestOK
<1>3. "http" \in Transports /\ "grpc" \in Transports
  BY DEF Transports
<1>4. h = Outcome("http", op, D) /\ g = Outcome("grpc", op, D)
  BY <1>3 DEF FrontInv
<1> HIDE DEF h, g, D, op
<1>5. "no_window" \notin Requires[op]
  BY <1>2 DEF Requires, Operations, Authenticated, Addressed
<1>6. /\ Caught("http", op) \cap D = Requires[op] \cap D
      /\ Caught("grpc", op) \cap D = D
      /\ \A f \in D : f = "no_window" \/ f \in Requires[op]
  BY <1>2 DEF Caught, Omits
<1>7. /\ (h = "Ok" <=> Requires[op] \cap D = {}) /\ (g = "Ok" <=> D = {})
      /\ h # "Ok" => ErrorOf(h, "http", op, D)
      /\ g # "Ok" => ErrorOf(g, "grpc", op, D)
      /\ "no_token" \in Requires[op] \cap D => h = "MissingToken" /\ g = "MissingToken"
  <2>1. /\ h = "Ok" <=> Caught("http", op) \cap D = {}
        /\ h # "Ok" => ErrorOf(h, "http", op, D)
        /\ "no_token" \in Requires[op] \cap D => h = "MissingToken"
    BY <1>2, <1>3, <1>4, FirstRefusal
  <2>2. /\ g = "Ok" <=> Caught("grpc", op) \cap D = {}
        /\ g # "Ok" => ErrorOf(g, "grpc", op, D)
        /\ "no_token" \in Requires[op] \cap D => g = "MissingToken"
    BY <1>2, <1>3, <1>4, FirstRefusal
  <2> QED
    BY <1>6, <2>1, <2>2
<1>8. ASSUME Cardinality(D) = 1
      PROVE  Alike(h, g) <=> ~ Parting(op, D)
  <2>1. IsFiniteSet(D)
    BY <1>2, FewFlaws, FS_Subset
  <2>2. PICK f : D = {f}
    BY <1>8, <2>1, FS_Singleton
  <2>3. CASE f = "no_window"
    <3>1. h = "Ok" /\ g # "Ok"
      BY <1>5, <1>7, <2>2, <2>3
    <3> QED
      BY <2>2, <2>3, <3>1 DEF Alike, Parting
  <2>4. CASE f # "no_window"
    <3>1. h # "Ok" /\ g # "Ok"
      BY <1>6, <1>7, <2>2, <2>4
    <3>2. PICK p \in Refusal : p[1] = f /\ h = p[2] /\ (p[1] = "id" => h = IdError("http", op))
      BY <1>7, <2>2, <3>1 DEF ErrorOf
    <3>3. PICK q \in Refusal : q[1] = f /\ g = q[2] /\ (q[1] = "id" => g = IdError("grpc", op))
      BY <1>7, <2>2, <3>1 DEF ErrorOf
    <3>4. f = "id" => g = "InvalidContentId"
      BY <3>3 DEF IdError
    <3>5. <<HttpStatus(h), GrpcStatus(g)>> \in Same <=> h # "JsonRejection"
      BY <3>2, <3>3, <3>4, StatusesMatch
    <3>6. h = "JsonRejection" <=> f = "id" /\ op \in JsonBodies
      <4>1. p[2] = "JsonRejection" => p[1] = "id"
        BY DEF Refusal
      <4> QED
        BY <3>2, <4>1 DEF IdError
    <3>7. Parting(op, D) <=> f = "id" /\ op \in JsonBodies
      BY <2>2, <2>4 DEF Parting
    <3> QED
      BY <3>1, <3>5, <3>6, <3>7 DEF Alike
  <2> QED
    BY <2>3, <2>4
<1>9. ASSUME "no_token" \in D
      PROVE  HttpStatus(h) = 401 /\ GrpcStatus(g) = "Unauthenticated"
  <2>1. h = "MissingToken" /\ g = "MissingToken"
    BY <1>6, <1>7, <1>9
  <2>2. HttpStatus("MissingToken") = 401
    BY DEF HttpStatus, HttpStatusOf, AuthErrorCode, AuthFailures
  <2>3. GrpcStatus("MissingToken") = "Unauthenticated"
    BY DEF GrpcStatus, AuthFailures, AuthFailureToStatus
  <2> QED
    BY <2>1, <2>2, <2>3
<1>10. (h = "Ok") = (g = "Ok") <=> D # {"no_window"}
  <2>1. CASE D = {"no_window"}
    BY <1>5, <1>7, <2>1
  <2>2. CASE D = {}
    BY <1>7, <2>2
  <2>3. CASE D # {"no_window"} /\ D # {}
    <3>1. Requires[op] \cap D # {}
      BY <1>6, <2>3
    <3> QED
      BY <1>7, <2>3, <3>1
  <2> QED
    BY <2>1, <2>2, <2>3
<1> QED
  BY <1>8, <1>9, <1>10, AddressesAndSizes DEF h, g, D, op

LEMMA FrontInitInv == ApiInit => FrontInv
  BY DEF ApiInit, FrontInv, Unanswered, Transports

LEMMA FrontStepInv == FrontInv /\ [ApiNext]_apiVars => FrontInv'
<1> SUFFICES ASSUME FrontInv, [ApiNext]_apiVars
             PROVE  FrontInv'
  OBVIOUS
<1>1. CASE UNCHANGED frontVars
  BY <1>1 DEF FrontInv, frontVars
<1>2. ASSUME NEW tr \in Transports, Handle(tr)
      PROVE  FrontInv'
  <2>1. /\ request # NoRequest /\ request' = request
        /\ answer' = [answer EXCEPT ![tr] = Outcome(tr, request.op, request.flaws)]
    BY <1>2 DEF Handle
  <2> QED
    BY <2>1 DEF FrontInv
<1>3. CASE Retire
  BY <1>3 DEF Retire, FrontInv, Unanswered
<1>4. FrontStep \/ UNCHANGED frontVars
  BY DEF ApiNext, apiVars, frontVars, Command, Query, Step, Drop, Cycle, Walk, TtlL1, TtlL2
<1> QED
  BY <1>1, <1>2, <1>3, <1>4 DEF FrontStep

\* HTTP and gRPC judge every request alike, but for a leaderboard window that is not
\* given and a malformed id in a JSON body: both let it through or neither does, one
\* flaw gets corresponding statuses, and a request without a token is told so first.
\* They charge a public read to the same address, and take a limit for the same
\* number, exactly where SameBuckets and SameLimits say.
THEOREM TransportsAlike == ApiSpec => []TransportsAgree
<1>1. FrontInv => TransportsAgree
  BY FrontAgrees
<1> QED
  BY <1>1, FrontInitInv, FrontStepInv, PTL DEF ApiSpec

\* What goes on to a mutation had no flaw.
LEMMA ServedFlawless ==
  ASSUME NEW op \in {"like", "unlike"}, NEW D \in Served[op]
  PROVE  D = {}
<1>1. op \in Operations
  BY DEF Operations
<1>2. /\ D \in {{}} \cup {{f} : f \in Requires[op]}
      /\ \E tr \in Transports : Outcome(tr, op, D) = "Ok"
  BY <1>1 DEF Served
<1>3. PICK tr \in Transports : Outcome(tr, op, D) = "Ok"
  BY <1>2
<1>4. Caught(tr, op) \cap D = {}
  BY <1>1, <1>3, FirstRefusal
<1>5. Requires[op] \subseteq Caught(tr, op)
  BY DEF Caught
<1> QED
  BY <1>2, <1>4, <1>5

\* On neither transport does a request without a valid token, over the write limit,
\* for a content that does not exist or with any other flaw get as far as a mutation.
THEOREM OnlyAuthorisedWrites == ApiSpec => []WritesAuthorised
<1>1. ApiInit => WritesAuthorised
  BY DEF ApiInit, WritesAuthorised
<1>2. WritesAuthorised /\ [ApiNext]_apiVars => WritesAuthorised'
  <2> SUFFICES ASSUME passed = {}, [ApiNext]_apiVars
               PROVE  passed' = {}
    BY DEF WritesAuthorised
  <2>1. ASSUME NEW t \in Tasks, Command(t)
        PROVE  passed' = {}
    <3>1. \E op \in {"like", "unlike"} : \E D \in Served[op] : passed' = passed \cup D
      <4>1. \/ \E D \in Served["like"] : passed' = passed \cup D
            \/ \E D \in Served["unlike"] : passed' = passed \cup D
        BY <2>1 DEF Command
      <4> QED
        BY <4>1
    <3> QED
      BY <3>1, ServedFlawless
  <2>2. (\E t \in Tasks : Command(t)) \/ passed' = passed
    BY DEF ApiNext, apiVars, FrontStep, Query, Step, Drop, Cycle, Walk, TtlL1, TtlL2
  <2> QED
    BY <2>1, <2>2
<1> QED
  BY <1>1, <1>2, PTL DEF ApiSpec

=============================================================================
