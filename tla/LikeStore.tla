----------------------------- MODULE LikeStore -----------------------------
(***************************************************************************)
(* insert_like and delete_like of repositories.rs, statement by statement, *)
(* on connections of the writer pools. PostgreSQL runs them at READ        *)
(* COMMITTED: a statement sees what was committed when it started, a       *)
(* writer of a row holds its lock until its transaction ends, and a        *)
(* statement that meets a locked row waits and then looks again.           *)
(*                                                                         *)
(* A transaction's writes stay with it (pc, newCount) and are applied to   *)
(* the tables by Commit; Abort is a failed statement, a lost connection or *)
(* a dropped future, all of which roll back.                               *)
(***************************************************************************)
EXTENDS Integers, FiniteSets

CONSTANTS
  Users, Contents,
  Sessions,   \* the calls that may be under way at once
  Pools,      \* the sessions by replica: the calls of one share a writer pool
  PoolSize,   \* DB_MAX_CONNECTIONS
  NoReply

ASSUME StoreAssumption ==
  /\ IsFiniteSet(Users) /\ IsFiniteSet(Sessions)
  /\ \A s \in Sessions : \E p \in Pools : s \in p
  /\ \A p \in Pools : p \subseteq Sessions
  /\ PoolSize \in Nat \ {0}

VARIABLES
  likes,        \* table likes: the committed pairs <<user, content>>
  like_counts,  \* table like_counts: committed total_count, 0 where no row is
  counted,      \* the contents with a row in like_counts
  pc,           \* the statement each session has got to
  op, user, content,   \* the call each session executes
  newCount,     \* RETURNING total_count of the uncommitted count statement
  reply         \* what each session's latest call returned

tables == <<likes, like_counts, counted>>
call   == <<op, user, content>>
vars   == <<likes, like_counts, counted, pc, op, user, content, newCount, reply>>

Ledger == INSTANCE LikeLedger

PC == {"idle", "begun", "waiting", "written", "counted", "conflict", "missed",
       "gone"}

Init ==
  /\ likes = {}
  /\ like_counts = [c \in Contents |-> 0]
  /\ counted = {}
  /\ pc = [s \in Sessions |-> "idle"]
  /\ op = [s \in Sessions |-> "like"]
  /\ user \in [Sessions -> Users]
  /\ content \in [Sessions -> Contents]
  /\ newCount = [s \in Sessions |-> 0]
  /\ reply = [s \in Sessions |-> NoReply]

-----------------------------------------------------------------------------
(* Locks.                                                                  *)

Row(s) == <<user[s], content[s]>>

\* s wrote its likes row and has not committed.
HoldsRow(s) == pc[s] \in {"written", "counted"}
RowFree(s)  == \A t \in Sessions : HoldsRow(t) => Row(t) # Row(s)

\* s wrote the like_counts row of its content and has not committed.
HoldsCount(s) == pc[s] = "counted"
CountFree(s)  == \A t \in Sessions : HoldsCount(t) => content[t] # content[s]

\* DELETEs that found their row locked by s.
Waiters(s) == {t \in Sessions : pc[t] = "waiting" /\ Row(t) = Row(s)}

-----------------------------------------------------------------------------
(* Connections.                                                            *)

\* Mutant: the transaction is still open while the count is read on the pool.
ConnectedWhileReading(s) == pc[s] # "idle"

\* A transaction has its connection until it is committed, which in insert_like
\* is before the count of a removed like is read on the pool.
Connected(s) == pc[s] \notin {"idle", "gone"}

\* The pool of s has a connection for it.
Acquires(s) ==
  \E p \in Pools : s \in p /\ Cardinality({t \in p : Connected(t)}) < PoolSize

Goto(s, l) == pc' = [pc EXCEPT ![s] = l]

Return(s, kind, n) ==
  reply' = [reply EXCEPT ![s] = [kind |-> kind, count |-> n]]

-----------------------------------------------------------------------------
\* pool.begin() for a call of like or unlike.
Begin(s, o, u, c) ==
  /\ pc[s] = "idle"
  /\ Acquires(s)
  /\ Goto(s, "begun")
  /\ op' = [op EXCEPT ![s] = o]
  /\ user' = [user EXCEPT ![s] = u]
  /\ content' = [content EXCEPT ![s] = c]
  /\ reply' = [reply EXCEPT ![s] = NoReply]
  /\ UNCHANGED <<tables, newCount>>

\* INSERT ... ON CONFLICT DO NOTHING: waits for a transaction that is writing
\* this row, whichever way it ends; then inserts, or meets a committed row.
InsertRow(s) ==
  /\ pc[s] = "begun" /\ op[s] = "like"
  /\ RowFree(s)
  /\ Goto(s, IF Row(s) \in likes THEN "conflict" ELSE "written")
  /\ UNCHANGED <<tables, call, newCount, reply>>

\* Mutant: the count is read, incremented and written back without a lock.
IncrementCountUnlocked(s) ==
  /\ pc[s] = "written" /\ op[s] = "like"
  /\ newCount' = [newCount EXCEPT ![s] = like_counts[content[s]] + 1]
  /\ Goto(s, "counted")
  /\ UNCHANGED <<tables, call, reply>>

\* INSERT INTO like_counts ... ON CONFLICT DO UPDATE total_count + 1.
IncrementCount(s) ==
  /\ pc[s] = "written" /\ op[s] = "like"
  /\ CountFree(s)
  /\ newCount' = [newCount EXCEPT ![s] = IF content[s] \in counted
                                           THEN like_counts[content[s]] + 1
                                           ELSE 1]
  /\ Goto(s, "counted")
  /\ UNCHANGED <<tables, call, reply>>

\* The conflict path: SELECT of the row joined with its count, then commit. The
\* SELECT has a snapshot of its own, and the row may be gone by then.
SelectExisting(s) ==
  /\ pc[s] = "conflict"
  /\ IF Row(s) \in likes
       THEN Goto(s, "idle") /\ Return(s, "AlreadyExisted", like_counts[content[s]])
       ELSE Goto(s, "gone") /\ UNCHANGED reply
  /\ UNCHANGED <<tables, call, newCount>>

\* Mutant: the count of a removed like is taken to be 0.
ReadAfterRemovalZero(s) ==
  /\ pc[s] = "gone"
  /\ Acquires(s)
  /\ Goto(s, "idle")
  /\ Return(s, "ConcurrentlyRemoved", 0)
  /\ UNCHANGED <<tables, call, newCount>>

\* The row is gone: the count is read outside the committed transaction, on
\* another connection of the pool.
ReadAfterRemoval(s) ==
  /\ pc[s] = "gone"
  /\ Acquires(s)
  /\ Goto(s, "idle")
  /\ Return(s, "ConcurrentlyRemoved", like_counts[content[s]])
  /\ UNCHANGED <<tables, call, newCount>>

\* Mutant: rows_affected is ignored.
DeleteRowUnchecked(s) ==
  /\ pc[s] = "begun" /\ op[s] = "unlike"
  /\ Goto(s, IF RowFree(s) THEN "written" ELSE "waiting")
  /\ UNCHANGED <<tables, call, newCount, reply>>

\* DELETE FROM likes: an uncommitted insert is invisible to it, a row that
\* another transaction is deleting makes it wait.
DeleteRow(s) ==
  /\ pc[s] = "begun" /\ op[s] = "unlike"
  /\ Goto(s, IF Row(s) \notin likes THEN "missed"
             ELSE IF RowFree(s) THEN "written" ELSE "waiting")
  /\ UNCHANGED <<tables, call, newCount, reply>>

\* UPDATE like_counts SET total_count = GREATEST(total_count - 1, 0). With no
\* row to update it returns nothing, and unwrap_or(0) makes that 0.
DecrementCount(s) ==
  /\ pc[s] = "written" /\ op[s] = "unlike"
  /\ CountFree(s)
  /\ newCount' = [newCount EXCEPT
                    ![s] = IF content[s] \in counted /\ like_counts[content[s]] > 0
                             THEN like_counts[content[s]] - 1 ELSE 0]
  /\ Goto(s, "counted")
  /\ UNCHANGED <<tables, call, reply>>

\* Mutant: a content without a count row has count -1.
ReadMissedNoRow(s) ==
  /\ pc[s] = "missed"
  /\ Goto(s, "idle")
  /\ Return(s, "NotLiked",
            IF content[s] \in counted THEN like_counts[content[s]] ELSE -1)
  /\ UNCHANGED <<tables, call, newCount>>

\* Nothing was deleted: the current count is read.
ReadMissed(s) ==
  /\ pc[s] = "missed"
  /\ Goto(s, "idle")
  /\ Return(s, "NotLiked", like_counts[content[s]])
  /\ UNCHANGED <<tables, call, newCount>>

\* tx.commit() of a writing transaction. The commit may take effect although
\* its caller gets an error or is gone. A DELETE that waited for a deleted row
\* finds no row, even if the like has been inserted anew in the meantime.
Commit(s) ==
  /\ pc[s] = "counted"
  /\ likes' = IF op[s] = "like" THEN likes \cup {Row(s)} ELSE likes \ {Row(s)}
  /\ like_counts' = [like_counts EXCEPT ![content[s]] = newCount[s]]
  /\ counted' = IF op[s] = "like" THEN counted \cup {content[s]} ELSE counted
  /\ pc' = [t \in Sessions |-> IF t = s THEN "idle"
                               ELSE IF t \in Waiters(s) THEN "missed" ELSE pc[t]]
  /\ \/ Return(s, IF op[s] = "like" THEN "Inserted" ELSE "Removed", newCount[s])
     \/ UNCHANGED reply
  /\ newCount' = [newCount EXCEPT ![s] = 0]
  /\ UNCHANGED call

\* Rollback: a DELETE that waited for the row tries again.
Abort(s) ==
  /\ pc[s] # "idle"
  /\ pc' = [t \in Sessions |->
              IF t = s THEN "idle"
              ELSE IF HoldsRow(s) /\ t \in Waiters(s) THEN "begun" ELSE pc[t]]
  /\ newCount' = [newCount EXCEPT ![s] = 0]
  /\ UNCHANGED <<tables, call, reply>>

\* A statement of s is executed.
Statement(s) ==
  \/ InsertRow(s) \/ IncrementCount(s) \/ SelectExisting(s) \/ ReadAfterRemoval(s)
  \/ DeleteRow(s) \/ DecrementCount(s) \/ ReadMissed(s)
  \/ Commit(s)

Next ==
  \E s \in Sessions :
    \/ \E o \in {"like", "unlike"}, u \in Users, c \in Contents : Begin(s, o, u, c)
    \/ Statement(s)
    \/ Abort(s)

\* Who asks for a lock or a connection again and again while others use it gets
\* it at last: PostgreSQL queues the waiters of a lock, sqlx those of a pool. No
\* call has to fail: neither acquire_timeout nor a rollback is relied on.
Fairness ==
  \A s \in Sessions : SF_vars(Statement(s) /\ pc'[s] # "waiting")

Spec == Init /\ [][Next]_vars /\ Fairness

-----------------------------------------------------------------------------
TypeOK ==
  /\ likes \subseteq Users \X Contents
  /\ like_counts \in [Contents -> Nat]
  /\ counted \subseteq Contents
  /\ pc \in [Sessions -> PC]
  /\ op \in [Sessions -> {"like", "unlike"}]
  /\ user \in [Sessions -> Users]
  /\ content \in [Sessions -> Contents]
  /\ newCount \in [Sessions -> Nat]
  /\ reply \in [Sessions -> [kind : Ledger!ReplyKind, count : Nat] \cup {NoReply}]

\* The denormalised counter is exact in every committed state: total_count of
\* a content is the number of its rows in likes, whatever interleaving of
\* likes, unlikes, conflicts and rollbacks led there.
CountsMatchLikes ==
  \A c \in Contents : like_counts[c] = Cardinality(Ledger!Likers(likes, c))

\* What a transaction wrote still fits the committed tables when it commits:
\* an insert's row is absent, a delete's row is present, and the pending count
\* is one more or one less than the committed one. In particular the decrement
\* is never clipped by GREATEST and never misses its row.
PendingFits ==
  \A s \in Sessions :
    HoldsRow(s) =>
      /\ (op[s] = "like") <=> (Row(s) \notin likes)
      /\ op[s] = "unlike" => content[s] \in counted /\ like_counts[content[s]] > 0
      /\ HoldsCount(s) =>
           newCount[s] = like_counts[content[s]] + (IF op[s] = "like" THEN 1 ELSE -1)

\* The transactions implement the ledger: each like and unlike takes effect
\* once, at one moment, and every reply's count is exact at such a moment.
ImplementsLedger == Ledger!Spec

\* Every call that got its connection ends: likes and unlikes of the same like
\* take the row before the counter, so no circle of lock waits closes, and no
\* call holds a connection while it waits for another one of the same pool,
\* as calls that met a removed like would if all of them kept theirs.
CallsEnd ==
  \A s \in Sessions : pc[s] # "idle" ~> pc[s] = "idle"

=============================================================================
