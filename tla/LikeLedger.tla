----------------------------- MODULE LikeLedger -----------------------------
(***************************************************************************)
(* What the like store promises: a set of likes that changes one like at a *)
(* time, and replies whose count is the exact number of likes of the       *)
(* content at one moment between the call and the reply.  LikeStore        *)
(* implements it with multi-statement transactions.                        *)
(***************************************************************************)
EXTENDS Naturals, FiniteSets

CONSTANTS Users, Contents, Sessions,
          NoReply     \* no answer (yet)

VARIABLES likes,      \* the pairs <<user, content>> that are liked
          reply       \* the latest answer to each session

Likers(S, c) == {u \in Users : <<u, c>> \in S}

ReplyKind == {"Inserted", "AlreadyExisted", "ConcurrentlyRemoved",
              "Removed", "NotLiked"}

Reply(kind, S, c) == [kind |-> kind, count |-> Cardinality(Likers(S, c))]

Init == likes = {} /\ reply = [s \in Sessions |-> NoReply]

\* A change takes effect once, and whoever hears of it hears the new count.
Change(s, kind, S, c) ==
  /\ likes' = S
  /\ \E r \in {Reply(kind, S, c), NoReply} : reply' = [reply EXCEPT ![s] = r]

Add(s, u, c) ==
  /\ <<u, c>> \notin likes
  /\ Change(s, "Inserted", likes \cup {<<u, c>>}, c)

Remove(s, u, c) ==
  /\ <<u, c>> \in likes
  /\ Change(s, "Removed", likes \ {<<u, c>>}, c)

\* A call that changes nothing reports the count of this very moment.
Observe(s, u, c, kind) ==
  /\ kind \in {"AlreadyExisted", "ConcurrentlyRemoved", "NotLiked"}
  /\ kind = "AlreadyExisted" => <<u, c>> \in likes
  /\ reply' = [reply EXCEPT ![s] = Reply(kind, likes, c)]
  /\ UNCHANGED likes

\* A new call begins, or a call fails.
Clear(s) == reply' = [reply EXCEPT ![s] = NoReply] /\ UNCHANGED likes

Next ==
  \E s \in Sessions :
    \/ Clear(s)
    \/ \E u \in Users, c \in Contents :
         \/ Add(s, u, c)
         \/ Remove(s, u, c)
         \/ \E kind \in ReplyKind : Observe(s, u, c, kind)

Spec == Init /\ [][Next]_<<likes, reply>>

=============================================================================
