-------------------------- MODULE LikeStoreProofs --------------------------
(***************************************************************************)
(* LikeStore, for any number of users, contents and connections: the       *)
(* counters are exact, and the transactions implement LikeLedger.          *)
(***************************************************************************)
EXTENDS LikeStore, FiniteSetTheorems, TLAPS

-----------------------------------------------------------------------------
(* Counting likers.                                                        *)

\* The likers of a content are finitely many, so that counting them makes sense.
LEMMA LikersFinite ==
  ASSUME NEW S, NEW c
  PROVE  /\ IsFiniteSet(Ledger!Likers(S, c))
         /\ Cardinality(Ledger!Likers(S, c)) \in Nat
<1>1. Ledger!Likers(S, c) \subseteq Users
  BY DEF Ledger!Likers
<1> QED
  BY <1>1, StoreAssumption, FS_Subset, FS_CardinalityType

\* A new row in likes adds one to the count of its content and to no other.
LEMMA AddLiker ==
  ASSUME NEW S, NEW u \in Users, NEW c, <<u, c>> \notin S
  PROVE  /\ Cardinality(Ledger!Likers(S \cup {<<u, c>>}, c))
              = Cardinality(Ledger!Likers(S, c)) + 1
         /\ \A d : d # c => Ledger!Likers(S \cup {<<u, c>>}, d) = Ledger!Likers(S, d)
<1>1. Ledger!Likers(S \cup {<<u, c>>}, c) = Ledger!Likers(S, c) \cup {u}
  BY DEF Ledger!Likers
<1>2. u \notin Ledger!Likers(S, c)
  BY DEF Ledger!Likers
<1>3. Cardinality(Ledger!Likers(S, c) \cup {u}) = Cardinality(Ledger!Likers(S, c)) + 1
  BY <1>2, LikersFinite, FS_AddElement
<1>4. ASSUME NEW d, d # c
      PROVE  Ledger!Likers(S \cup {<<u, c>>}, d) = Ledger!Likers(S, d)
  BY <1>4 DEF Ledger!Likers
<1> QED
  BY <1>1, <1>3, <1>4

\* Deleting a row takes one from the count of its content and from no other.
LEMMA RemoveLiker ==
  ASSUME NEW S, NEW u \in Users, NEW c, <<u, c>> \in S
  PROVE  /\ Cardinality(Ledger!Likers(S \ {<<u, c>>}, c))
              = Cardinality(Ledger!Likers(S, c)) - 1
         /\ \A d : d # c => Ledger!Likers(S \ {<<u, c>>}, d) = Ledger!Likers(S, d)
<1>1. Ledger!Likers(S \ {<<u, c>>}, c) = Ledger!Likers(S, c) \ {u}
  BY DEF Ledger!Likers
<1>2. u \in Ledger!Likers(S, c)
  BY DEF Ledger!Likers
<1>3. Cardinality(Ledger!Likers(S, c) \ {u}) = Cardinality(Ledger!Likers(S, c)) - 1
  BY <1>2, LikersFinite, FS_RemoveElement
<1>4. ASSUME NEW d, d # c
      PROVE  Ledger!Likers(S \ {<<u, c>>}, d) = Ledger!Likers(S, d)
  BY <1>4 DEF Ledger!Likers
<1> QED
  BY <1>1, <1>3, <1>4

\* A content that somebody likes has a positive count.
LEMMA LikedIsPositive ==
  ASSUME NEW S, NEW u \in Users, NEW c, <<u, c>> \in S
  PROVE  Cardinality(Ledger!Likers(S, c)) > 0
<1>1. u \in Ledger!Likers(S, c)
  BY DEF Ledger!Likers
<1> QED
  BY <1>1, LikersFinite, FS_EmptySet

-----------------------------------------------------------------------------
(* Types.                                                                  *)

\* Every statement keeps the types.
LEMMA TypeStep == TypeOK /\ [Next]_vars => TypeOK'
<1> SUFFICES ASSUME TypeOK, [Next]_vars
             PROVE  TypeOK'
  OBVIOUS
<1> USE DEF TypeOK, PC, tables, call, Goto, Return, Ledger!ReplyKind
<1>1. ASSUME NEW s \in Sessions, NEW o \in {"like", "unlike"},
             NEW u \in Users, NEW c \in Contents, Begin(s, o, u, c)
      PROVE  TypeOK'
  BY <1>1 DEF Begin
<1>2. ASSUME NEW s \in Sessions, InsertRow(s)
      PROVE  TypeOK'
  BY <1>2 DEF InsertRow
<1>3. ASSUME NEW s \in Sessions, IncrementCount(s)
      PROVE  TypeOK'
  BY <1>3 DEF IncrementCount
<1>4. ASSUME NEW s \in Sessions, SelectExisting(s)
      PROVE  TypeOK'
  BY <1>4 DEF SelectExisting
<1>5. ASSUME NEW s \in Sessions, ReadAfterRemoval(s)
      PROVE  TypeOK'
  BY <1>5 DEF ReadAfterRemoval
<1>6. ASSUME NEW s \in Sessions, DeleteRow(s)
      PROVE  TypeOK'
  BY <1>6 DEF DeleteRow
<1>7. ASSUME NEW s \in Sessions, DecrementCount(s)
      PROVE  TypeOK'
  BY <1>7 DEF DecrementCount
<1>8. ASSUME NEW s \in Sessions, ReadMissed(s)
      PROVE  TypeOK'
  BY <1>8 DEF ReadMissed
<1>9. ASSUME NEW s \in Sessions, Commit(s)
      PROVE  TypeOK'
  <2>1. likes' \subseteq Users \X Contents
    BY <1>9 DEF Commit, Row
  <2>2. reply' \in [Sessions -> [kind : Ledger!ReplyKind, count : Nat] \cup {NoReply}]
    BY <1>9 DEF Commit
  <2>3. pc' \in [Sessions -> PC]
    BY <1>9 DEF Commit
  <2> QED
    BY <1>9, <2>1, <2>2, <2>3 DEF Commit
<1>10. ASSUME NEW s \in Sessions, Abort(s)
       PROVE  TypeOK'
  BY <1>10 DEF Abort
<1>11. CASE UNCHANGED vars
  BY <1>11 DEF vars
<1> QED
  BY <1>1, <1>2, <1>3, <1>4, <1>5, <1>6, <1>7, <1>8, <1>9, <1>10, <1>11 DEF Next, Statement

\* The tables, the transactions' local state and the replies keep their types;
\* in particular no count a reply carries is ever negative.
THEOREM TypeCorrect == Spec => []TypeOK
<1>1. Init => TypeOK
  BY DEF Init, TypeOK, PC
<1> QED
  BY <1>1, TypeStep, PTL DEF Spec

-----------------------------------------------------------------------------
(* Safety.                                                                 *)

\* A positive count is a count that has a row: without it the UPDATE of
\* delete_like would find nothing to decrement.
CountHasRow == \A c \in Contents : like_counts[c] > 0 => c \in counted

\* Two open transactions never hold the same likes row or the same counter, as
\* PostgreSQL's locks promise.
LocksExclusive ==
  \A s, t \in Sessions :
    s # t => /\ HoldsRow(s) /\ HoldsRow(t) => Row(s) # Row(t)
             /\ HoldsCount(s) /\ HoldsCount(t) => content[s] # content[t]

\* The inductive invariant. The counters are exact because what each open
\* transaction is about to commit fits the committed tables, and that stays so
\* while others commit because they hold different rows and counters.
IInv ==
  /\ TypeOK
  /\ CountsMatchLikes
  /\ LocksExclusive
  /\ PendingFits
  /\ CountHasRow

\* The empty tables satisfy it.
LEMMA InitIInv == Init => IInv
<1> SUFFICES ASSUME Init
             PROVE  IInv
  OBVIOUS
<1>1. TypeOK
  BY DEF Init, TypeOK, PC
<1>2. CountsMatchLikes
  <2>1. \A c \in Contents : Ledger!Likers(likes, c) = {}
    BY DEF Init, Ledger!Likers
  <2> QED
    BY <2>1, FS_EmptySet DEF Init, CountsMatchLikes
<1>3. LocksExclusive /\ PendingFits /\ CountHasRow
  BY DEF Init, LocksExclusive, PendingFits, CountHasRow, HoldsRow, HoldsCount
<1> QED
  BY <1>1, <1>2, <1>3 DEF IInv

\* A step that leaves the tables alone, and moves no session into a state where
\* it holds a lock, keeps the invariant.
LEMMA QuietStep ==
  ASSUME IInv, TypeOK', UNCHANGED tables,
         \A t \in Sessions : HoldsRow(t)' =>
            /\ HoldsRow(t)
            /\ UNCHANGED <<pc[t], op[t], user[t], content[t], newCount[t]>>
  PROVE  IInv'
<1>1. CountsMatchLikes' /\ CountHasRow'
  BY DEF IInv, CountsMatchLikes, CountHasRow, tables
<1>2. LocksExclusive'
  BY DEF IInv, LocksExclusive, HoldsRow, HoldsCount, Row
<1>3. PendingFits'
  BY DEF IInv, PendingFits, HoldsRow, HoldsCount, Row, tables
<1> QED
  BY <1>1, <1>2, <1>3 DEF IInv

\* Commit: the one step that changes the tables. The rows and counters of the
\* other transactions are untouched, and the count follows the likes.
LEMMA CommitStep ==
  ASSUME IInv, TypeOK', NEW s \in Sessions, Commit(s)
  PROVE  IInv'
<1> DEFINE u == user[s]
           c == content[s]
<1>1. u \in Users /\ c \in Contents /\ Row(s) = <<u, c>>
  BY DEF IInv, TypeOK, Row
<1>2. HoldsRow(s) /\ HoldsCount(s)
  BY DEF Commit, HoldsRow, HoldsCount
<1>3. newCount[s] = like_counts[c] + (IF op[s] = "like" THEN 1 ELSE -1)
  BY <1>2 DEF IInv, PendingFits
<1>4. /\ newCount[s] = Cardinality(Ledger!Likers(likes', c))
      /\ \A d : d # c => Ledger!Likers(likes', d) = Ledger!Likers(likes, d)
  <2>1. like_counts[c] = Cardinality(Ledger!Likers(likes, c))
    BY <1>1 DEF IInv, CountsMatchLikes
  <2>2. CASE op[s] = "like"
    <3>1. likes' = likes \cup {<<u, c>>} /\ <<u, c>> \notin likes
      BY <1>1, <1>2, <2>2 DEF Commit, IInv, PendingFits
    <3>2. /\ Cardinality(Ledger!Likers(likes', c))
               = Cardinality(Ledger!Likers(likes, c)) + 1
          /\ \A d : d # c => Ledger!Likers(likes', d) = Ledger!Likers(likes, d)
      BY <1>1, <3>1, AddLiker
    <3> QED
      BY <1>3, <2>1, <2>2, <3>2
  <2>3. CASE op[s] # "like"
    <3>1. likes' = likes \ {<<u, c>>} /\ <<u, c>> \in likes
      BY <1>1, <1>2, <2>3 DEF Commit, IInv, PendingFits
    <3>2. Cardinality(Ledger!Likers(likes, c)) \in Nat
      BY LikersFinite
    <3>3. /\ Cardinality(Ledger!Likers(likes', c))
               = Cardinality(Ledger!Likers(likes, c)) - 1
          /\ \A d : d # c => Ledger!Likers(likes', d) = Ledger!Likers(likes, d)
      BY <1>1, <3>1, RemoveLiker
    <3> QED
      BY <1>3, <2>1, <2>3, <3>2, <3>3
  <2> QED
    BY <2>2, <2>3
<1>5. CountsMatchLikes'
  BY <1>1, <1>4 DEF IInv, CountsMatchLikes, TypeOK, Commit
<1>6. CountHasRow'
  <2>1. op[s] # "like" => c \in counted
    BY <1>2 DEF IInv, PendingFits, TypeOK
  <2> QED
    BY <1>1, <2>1 DEF IInv, CountHasRow, TypeOK, Commit
<1>7. ASSUME NEW t \in Sessions
      PROVE  /\ UNCHANGED <<op[t], user[t], content[t], Row(t)>>
             /\ t # s => UNCHANGED newCount[t]
             /\ HoldsRow(t)' => t # s /\ HoldsRow(t)
             /\ HoldsCount(t)' => t # s /\ HoldsCount(t)
  BY DEF Commit, call, HoldsRow, HoldsCount, Row, IInv, TypeOK
<1>8. LocksExclusive'
  BY <1>7 DEF IInv, LocksExclusive
<1>9. PendingFits'
  <2> SUFFICES ASSUME NEW t \in Sessions, HoldsRow(t)'
               PROVE  /\ (op'[t] = "like") <=> (Row(t)' \notin likes')
                      /\ op'[t] = "unlike" =>
                           content'[t] \in counted' /\ like_counts'[content'[t]] > 0
                      /\ HoldsCount(t)' =>
                           newCount'[t] = like_counts'[content'[t]]
                                            + (IF op'[t] = "like" THEN 1 ELSE -1)
    BY DEF PendingFits
  <2>1. t # s /\ HoldsRow(t) /\ Row(t) # Row(s)
    BY <1>2, <1>7 DEF IInv, LocksExclusive
  <2>2. (op'[t] = "like") <=> (Row(t)' \notin likes')
    BY <1>7, <2>1 DEF IInv, PendingFits, Commit
  <2>3. ASSUME op'[t] = "unlike"
        PROVE  content'[t] \in counted' /\ like_counts'[content'[t]] > 0
    <3>1. Row(t)' \in likes' /\ Row(t)' = <<user'[t], content'[t]>>
      BY <2>2, <2>3 DEF Row
    <3>2. user'[t] \in Users /\ content'[t] \in Contents
      BY DEF TypeOK
    <3>3. Cardinality(Ledger!Likers(likes', content'[t])) > 0
      BY <3>1, <3>2, LikedIsPositive
    <3> QED
      BY <3>2, <3>3, <1>5, <1>6 DEF CountsMatchLikes, CountHasRow
  <2>4. ASSUME HoldsCount(t)'
        PROVE  newCount'[t] = like_counts'[content'[t]]
                                + (IF op'[t] = "like" THEN 1 ELSE -1)
    <3>1. HoldsCount(t) /\ content[t] # content[s]
      BY <1>2, <1>7, <2>1, <2>4 DEF IInv, LocksExclusive
    <3>2. like_counts'[content[t]] = like_counts[content[t]]
      BY <3>1 DEF Commit, IInv, TypeOK
    <3> QED
      BY <1>7, <2>1, <3>1, <3>2 DEF IInv, PendingFits
  <2> QED
    BY <2>2, <2>3, <2>4
<1> QED
  BY <1>5, <1>6, <1>8, <1>9 DEF IInv

\* Every statement keeps the invariant.
LEMMA NextIInv == IInv /\ [Next]_vars => IInv'
<1> SUFFICES ASSUME IInv, [Next]_vars
             PROVE  IInv'
  OBVIOUS
<1>0. TypeOK /\ TypeOK'
  BY TypeStep DEF IInv
<1>1. ASSUME NEW s \in Sessions, NEW o \in {"like", "unlike"},
             NEW u \in Users, NEW c \in Contents, Begin(s, o, u, c)
      PROVE  IInv'
  BY <1>0, <1>1, QuietStep DEF Begin, Goto, HoldsRow, TypeOK
<1>2. ASSUME NEW s \in Sessions, InsertRow(s)
      PROVE  IInv'
  <2>1. CASE Row(s) \in likes
    BY <1>0, <1>2, <2>1, QuietStep DEF InsertRow, Goto, HoldsRow, TypeOK, call
  <2>2. CASE Row(s) \notin likes
    <3>1. \A t \in Sessions : UNCHANGED <<op[t], user[t], content[t], newCount[t], Row(t)>>
      BY <1>2 DEF InsertRow, call, Row
    <3>2. \A t \in Sessions : /\ t # s => pc'[t] = pc[t]
                              /\ pc'[s] = "written"
      BY <1>0, <1>2, <2>2 DEF InsertRow, Goto, TypeOK
    <3>3. LocksExclusive'
      BY <1>2, <3>1, <3>2 DEF IInv, LocksExclusive, InsertRow, RowFree, HoldsRow, HoldsCount
    <3>4. PendingFits'
      BY <1>2, <2>2, <3>1, <3>2 DEF IInv, PendingFits, InsertRow, HoldsRow, HoldsCount, tables
    <3>5. CountsMatchLikes' /\ CountHasRow'
      BY <1>2 DEF IInv, CountsMatchLikes, CountHasRow, InsertRow, tables
    <3> QED
      BY <1>0, <3>3, <3>4, <3>5 DEF IInv
  <2> QED
    BY <2>1, <2>2
<1>3. ASSUME NEW s \in Sessions, IncrementCount(s) \/ DecrementCount(s)
      PROVE  IInv'
  <2>1. \A t \in Sessions : UNCHANGED <<op[t], user[t], content[t], Row(t)>>
    BY <1>3 DEF IncrementCount, DecrementCount, call, Row
  <2>2. \A t \in Sessions : /\ t # s => UNCHANGED <<pc[t], newCount[t]>>
                            /\ pc[s] = "written" /\ pc'[s] = "counted"
    BY <1>0, <1>3 DEF IncrementCount, DecrementCount, Goto, TypeOK
  <2>3. LocksExclusive'
    BY <1>3, <2>1, <2>2
    DEF IInv, LocksExclusive, IncrementCount, DecrementCount, CountFree, HoldsRow, HoldsCount
  <2>4. newCount'[s] = like_counts[content[s]] + (IF op[s] = "like" THEN 1 ELSE -1)
    <3>1. content[s] \in Contents /\ like_counts[content[s]] \in Nat
      BY <1>0 DEF TypeOK
    <3>2. CASE IncrementCount(s)
      BY <1>0, <3>1, <3>2 DEF IInv, CountHasRow, IncrementCount, TypeOK
    <3>3. CASE DecrementCount(s)
      BY <1>0, <3>1, <3>3 DEF IInv, PendingFits, DecrementCount, TypeOK, HoldsRow
    <3> QED
      BY <1>3, <3>2, <3>3
  <2>5. UNCHANGED tables
    BY <1>3 DEF IncrementCount, DecrementCount
  <2>6. PendingFits'
    BY <2>1, <2>2, <2>4, <2>5 DEF IInv, PendingFits, HoldsRow, HoldsCount, tables
  <2>7. CountsMatchLikes' /\ CountHasRow'
    BY <2>5 DEF IInv, CountsMatchLikes, CountHasRow, tables
  <2> QED
    BY <1>0, <2>3, <2>6, <2>7 DEF IInv
<1>4. ASSUME NEW s \in Sessions,
             SelectExisting(s) \/ ReadAfterRemoval(s) \/ ReadMissed(s)
      PROVE  IInv'
  BY <1>0, <1>4, QuietStep
  DEF SelectExisting, ReadAfterRemoval, ReadMissed, Goto, HoldsRow, TypeOK, call
<1>5. ASSUME NEW s \in Sessions, DeleteRow(s)
      PROVE  IInv'
  <2>1. CASE Row(s) \notin likes \/ ~RowFree(s)
    BY <1>0, <1>5, <2>1, QuietStep DEF DeleteRow, Goto, HoldsRow, TypeOK, call
  <2>2. CASE Row(s) \in likes /\ RowFree(s)
    <3>1. \A t \in Sessions : UNCHANGED <<op[t], user[t], content[t], newCount[t], Row(t)>>
      BY <1>5 DEF DeleteRow, call, Row
    <3>2. \A t \in Sessions : /\ t # s => pc'[t] = pc[t]
                              /\ pc'[s] = "written"
      BY <1>0, <1>5, <2>2 DEF DeleteRow, Goto, TypeOK
    <3>3. LocksExclusive'
      BY <2>2, <3>1, <3>2 DEF IInv, LocksExclusive, RowFree, HoldsRow, HoldsCount
    <3>4. content[s] \in counted /\ like_counts[content[s]] > 0
      <4>1. user[s] \in Users /\ content[s] \in Contents
        BY <1>0 DEF TypeOK
      <4>2. Cardinality(Ledger!Likers(likes, content[s])) > 0
        BY <2>2, <4>1, LikedIsPositive DEF Row
      <4> QED
        BY <4>1, <4>2 DEF IInv, CountsMatchLikes, CountHasRow
    <3>5. PendingFits'
      BY <1>5, <2>2, <3>1, <3>2, <3>4
      DEF IInv, PendingFits, DeleteRow, HoldsRow, HoldsCount, tables
    <3>6. CountsMatchLikes' /\ CountHasRow'
      BY <1>5 DEF IInv, CountsMatchLikes, CountHasRow, DeleteRow, tables
    <3> QED
      BY <1>0, <3>3, <3>5, <3>6 DEF IInv
  <2> QED
    BY <2>1, <2>2
<1>6. ASSUME NEW s \in Sessions, Commit(s)
      PROVE  IInv'
  BY <1>0, <1>6, CommitStep
<1>7. ASSUME NEW s \in Sessions, Abort(s)
      PROVE  IInv'
  BY <1>0, <1>7, QuietStep DEF Abort, HoldsRow, TypeOK, call
<1>8. CASE UNCHANGED vars
  BY <1>0, <1>8, QuietStep DEF vars, tables, HoldsRow, TypeOK
<1> QED
  BY <1>1, <1>2, <1>3, <1>4, <1>5, <1>6, <1>7, <1>8 DEF Next, Statement

\* The invariant holds throughout.
THEOREM Invariance == Spec => []IInv
BY InitIInv, NextIInv, PTL DEF Spec

\* total_count of every content equals its number of likes after every commit,
\* for any number of concurrent likes and unlikes.
THEOREM CountsExact == Spec => []CountsMatchLikes
<1>1. IInv => CountsMatchLikes
  BY DEF IInv
<1> QED
  BY <1>1, Invariance, PTL

\* What an open transaction is about to commit fits the tables it will be
\* committed to, whatever the others have committed since it wrote.
THEOREM TransactionsFit == Spec => []PendingFits
<1>1. IInv => PendingFits
  BY DEF IInv
<1> QED
  BY <1>1, Invariance, PTL

-----------------------------------------------------------------------------
(* Refinement.                                                             *)

\* A session that executes a call has not replied to it yet.
Unreplied == \A s \in Sessions : pc[s] # "idle" => reply[s] = NoReply

\* Unreplied is an invariant.
LEMMA UnrepliedInvariant == Spec => []Unreplied
<1>1. Init => Unreplied
  BY DEF Init, Unreplied
<1>2. TypeOK /\ Unreplied /\ [Next]_vars => Unreplied'
  <2> SUFFICES ASSUME TypeOK, Unreplied, [Next]_vars
               PROVE  Unreplied'
    OBVIOUS
  <2> USE DEF TypeOK, Unreplied, Goto, Return
  <2>1. ASSUME NEW s \in Sessions, NEW o \in {"like", "unlike"},
               NEW u \in Users, NEW c \in Contents, Begin(s, o, u, c)
        PROVE  Unreplied'
    BY <2>1 DEF Begin
  <2>2. ASSUME NEW s \in Sessions,
               \/ InsertRow(s) \/ IncrementCount(s) \/ SelectExisting(s)
               \/ ReadAfterRemoval(s) \/ DeleteRow(s) \/ DecrementCount(s)
               \/ ReadMissed(s)
        PROVE  Unreplied'
    BY <2>2 DEF InsertRow, IncrementCount, SelectExisting, ReadAfterRemoval,
                DeleteRow, DecrementCount, ReadMissed
  <2>3. ASSUME NEW s \in Sessions, Commit(s) \/ Abort(s)
        PROVE  Unreplied'
    BY <2>3 DEF Commit, Abort, Waiters
  <2>4. CASE UNCHANGED vars
    BY <2>4 DEF vars
  <2> QED
    BY <2>1, <2>2, <2>3, <2>4 DEF Next, Statement
<1> QED
  BY <1>1, <1>2, TypeCorrect, PTL DEF Spec

\* The ledger's Cardinality is this module's.
LEMMA LedgerCounts ==
  ASSUME NEW S
  PROVE  Ledger!Cardinality(S) = Cardinality(S)
BY DEF Ledger!Cardinality, Cardinality

\* Each statement is a step of the ledger or changes nothing the ledger shows:
\* writing commits are Add and Remove, the reads at the end of the other paths
\* are Observe, and a new call clears the reply to the one before.
THEOREM Refinement == Spec => ImplementsLedger
<1>1. Init => Ledger!Init
  BY DEF Init, Ledger!Init
<1>2. IInv /\ IInv' /\ Unreplied /\ [Next]_vars => [Ledger!Next]_<<likes, reply>>
  <2> SUFFICES ASSUME IInv, IInv', Unreplied, [Next]_vars
               PROVE  Ledger!Next \/ UNCHANGED <<likes, reply>>
    OBVIOUS
  <2>0. TypeOK /\ CountsMatchLikes /\ TypeOK' /\ CountsMatchLikes'
    BY DEF IInv
  <2>1. ASSUME NEW s \in Sessions, NEW o \in {"like", "unlike"},
               NEW u \in Users, NEW c \in Contents, Begin(s, o, u, c)
        PROVE  Ledger!Next
    BY <2>1 DEF Begin, tables, Ledger!Next, Ledger!Clear
  <2>2. ASSUME NEW s \in Sessions,
               InsertRow(s) \/ IncrementCount(s) \/ DeleteRow(s) \/ DecrementCount(s)
               \/ Abort(s)
        PROVE  UNCHANGED <<likes, reply>>
    BY <2>2 DEF InsertRow, IncrementCount, DeleteRow, DecrementCount, Abort, tables
  <2>3. ASSUME NEW s \in Sessions, NEW kind \in Ledger!ReplyKind,
               kind \in {"AlreadyExisted", "ConcurrentlyRemoved", "NotLiked"},
               kind = "AlreadyExisted" => Row(s) \in likes,
               Return(s, kind, like_counts[content[s]]), UNCHANGED likes
        PROVE  Ledger!Next
    <3>1. user[s] \in Users /\ content[s] \in Contents
      BY <2>0 DEF TypeOK
    <3>2. like_counts[content[s]] = Cardinality(Ledger!Likers(likes, content[s]))
      BY <2>0, <3>1 DEF CountsMatchLikes
    <3>3. Ledger!Reply(kind, likes, content[s])
            = [kind |-> kind, count |-> like_counts[content[s]]]
      BY <3>2, LedgerCounts DEF Ledger!Reply
    <3>4. Ledger!Observe(s, user[s], content[s], kind)
      BY <2>3, <3>3 DEF Ledger!Observe, Return, Row
    <3> QED
      BY <2>3, <3>1, <3>4 DEF Ledger!Next
  <2>4. ASSUME NEW s \in Sessions, SelectExisting(s)
        PROVE  Ledger!Next \/ UNCHANGED <<likes, reply>>
    BY <2>3, <2>4 DEF SelectExisting, tables, Ledger!ReplyKind
  <2>5. ASSUME NEW s \in Sessions, ReadAfterRemoval(s) \/ ReadMissed(s)
        PROVE  Ledger!Next
    BY <2>3, <2>5 DEF ReadAfterRemoval, ReadMissed, tables, Ledger!ReplyKind
  <2>6. ASSUME NEW s \in Sessions, Commit(s)
        PROVE  Ledger!Next
    <3> DEFINE kind == IF op[s] = "like" THEN "Inserted" ELSE "Removed"
    <3>1. user[s] \in Users /\ content[s] \in Contents /\ Row(s) = <<user[s], content[s]>>
      BY <2>0 DEF TypeOK, Row
    <3>2. newCount[s] = Cardinality(Ledger!Likers(likes', content[s]))
      BY <2>0, <2>6, <3>1 DEF Commit, CountsMatchLikes, TypeOK
    <3>3. reply' \in {[reply EXCEPT ![s] = Ledger!Reply(kind, likes', content[s])],
                     [reply EXCEPT ![s] = NoReply]}
      <4>1. reply = [reply EXCEPT ![s] = NoReply]
        BY <2>0, <2>6 DEF Commit, Unreplied, TypeOK
      <4>2. Ledger!Reply(kind, likes', content[s]) = [kind |-> kind, count |-> newCount[s]]
        BY <3>2, LedgerCounts DEF Ledger!Reply
      <4>3. CASE Return(s, kind, newCount[s])
        BY <4>2, <4>3 DEF Return
      <4>4. CASE UNCHANGED reply
        BY <4>1, <4>4
      <4> QED
        BY <2>6, <4>3, <4>4 DEF Commit
    <3>4. CASE op[s] = "like"
      <4>1. Row(s) \notin likes /\ likes' = likes \cup {Row(s)}
        BY <2>6, <3>4 DEF Commit, IInv, PendingFits, HoldsRow
      <4>2. Ledger!Add(s, user[s], content[s])
        BY <3>1, <3>3, <3>4, <4>1 DEF Ledger!Add, Ledger!Change
      <4> QED
        BY <3>1, <4>2 DEF Ledger!Next
    <3>5. CASE op[s] # "like"
      <4>1. Row(s) \in likes /\ likes' = likes \ {Row(s)}
        BY <2>6, <3>5 DEF Commit, IInv, PendingFits, HoldsRow
      <4>2. Ledger!Remove(s, user[s], content[s])
        BY <3>1, <3>3, <3>5, <4>1 DEF Ledger!Remove, Ledger!Change
      <4> QED
        BY <3>1, <4>2 DEF Ledger!Next
    <3> QED
      BY <3>4, <3>5
  <2>7. CASE UNCHANGED vars
    BY <2>7 DEF vars
  <2> QED
    BY <2>1, <2>2, <2>4, <2>5, <2>6, <2>7 DEF Next, Statement
<1> QED
  BY <1>1, <1>2, Invariance, UnrepliedInvariant, PTL
  DEF Spec, ImplementsLedger, Ledger!Spec

=============================================================================
