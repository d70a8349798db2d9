------------------------------ MODULE FrontEnd ------------------------------
(***************************************************************************)
(* The HTTP and the gRPC front end: what a request must pass before the    *)
(* like service acts on it, in the order of each handler, and the answer   *)
(* it gets from the first check that refuses it.                           *)
(*                                                                         *)
(* A request is described by its flaws; a check is a pair of the flaw it   *)
(* refuses and the error it refuses it with.  Requests are well-formed at  *)
(* the level of HTTP, JSON and protobuf, except for the text of an id.     *)
(* The same request is made on both transports.                            *)
(***************************************************************************)
EXTENDS Integers, Sequences, FiniteSets

VARIABLES
  request,   \* [op, flaws], or NoRequest
  answer     \* what each transport answered it with, Unanswered before

frontVars == <<request, answer>>

Transports == {"http", "grpc"}
Operations == {"like", "unlike", "count", "status", "user_likes",
               "batch_counts", "batch_statuses", "leaderboard", "stream"}

-----------------------------------------------------------------------------
(* The checks.                                                             *)

(* A missing or malformed header is refused before the profile API is      *)
(* asked, by its breaker or by itself.                                     *)
ParseBearerToken == << <<"no_token", "MissingToken">> >>
AuthenticateToken ==
  << <<"profile_down", "ServiceUnavailable">>, <<"bad_token", "InvalidToken">> >>
AuthUser == ParseBearerToken \o AuthenticateToken
GrpcAuthenticate == ParseBearerToken \o AuthenticateToken

(* One bucket for a user's writes, one for its reads, one for an address;  *)
(* they are shared by the transports.                                      *)
UserWriteLimit == << <<"over_write", "RateLimited">> >>
UserReadLimit == << <<"over_read", "RateLimited">> >>
PublicReadLimit == << <<"over_ip", "RateLimited">> >>
GrpcWriteLimit == UserWriteLimit
GrpcReadLimit == UserReadLimit
GrpcPublicLimit == PublicReadLimit

RegisteredType == << <<"type", "ContentTypeUnknown">> >>
ParseUuid == << <<"id", "InvalidContentId">> >>
JsonBody == << <<"id", "JsonRejection">> >>
ContentPath == RegisteredType \o ParseUuid
Window == << <<"window", "InvalidWindow">> >>

(* Protobuf has no optional window: not given is a value, and refused.     *)
ProtoWindow == Window \o << <<"no_window", "InvalidWindow">> >>

(* LikeService and what it delegates to.                                   *)
Database == << <<"db_down", "Database">> >>
ValidateContent ==
  << <<"content_down", "DependencyUnavailable">>, <<"no_content", "ContentNotFound">> >>
Mutate == ValidateContent \o Database
Batch == << <<"size", "BatchTooLarge">> >> \o Database
Paginate == << <<"cursor", "InvalidCursor">> >> \o Database

-----------------------------------------------------------------------------
(* The HTTP handlers, behind the routes of build_router.                   *)

LikeContent == AuthUser \o JsonBody \o UserWriteLimit \o RegisteredType \o Mutate
UnlikeContent == AuthUser \o ContentPath \o UserWriteLimit \o Mutate
HttpGetCount == PublicReadLimit \o ContentPath \o Database
HttpGetStatus == AuthUser \o ContentPath \o UserReadLimit \o Database
HttpGetUserLikes == AuthUser \o UserReadLimit \o RegisteredType \o Paginate
HttpBatchCounts == PublicReadLimit \o JsonBody \o RegisteredType \o Batch
HttpBatchStatuses ==
  AuthUser \o JsonBody \o UserReadLimit \o RegisteredType \o Batch
HttpGetLeaderboard == PublicReadLimit \o RegisteredType \o Window \o Database
LikeStream == PublicReadLimit \o RegisteredType \o ParseUuid

(* The gRPC methods.                                                       *)

GrpcLike == GrpcAuthenticate \o GrpcWriteLimit \o RegisteredType \o ParseUuid \o Mutate

\* Mutant: the caller of Unlike is not authenticated.
GrpcUnlikeOpen == GrpcWriteLimit \o RegisteredType \o ParseUuid \o Mutate

GrpcUnlike == GrpcAuthenticate \o GrpcWriteLimit \o RegisteredType \o ParseUuid \o Mutate
GrpcGetCount == GrpcPublicLimit \o RegisteredType \o ParseUuid \o Database
GrpcGetStatus ==
  GrpcAuthenticate \o GrpcReadLimit \o RegisteredType \o ParseUuid \o Database
GrpcGetUserLikes == GrpcAuthenticate \o GrpcReadLimit \o RegisteredType \o Paginate
GrpcBatchCounts == GrpcPublicLimit \o ParseUuid \o RegisteredType \o Batch
GrpcBatchStatuses ==
  GrpcAuthenticate \o GrpcReadLimit \o ParseUuid \o RegisteredType \o Batch
GrpcGetLeaderboard == GrpcPublicLimit \o ProtoWindow \o RegisteredType \o Database
StreamLikes == GrpcPublicLimit \o RegisteredType \o ParseUuid

HttpRoutes ==
  [like |-> LikeContent, unlike |-> UnlikeContent, count |-> HttpGetCount,
   status |-> HttpGetStatus, user_likes |-> HttpGetUserLikes,
   batch_counts |-> HttpBatchCounts, batch_statuses |-> HttpBatchStatuses,
   leaderboard |-> HttpGetLeaderboard, stream |-> LikeStream]

GrpcMethods ==
  [like |-> GrpcLike, unlike |-> GrpcUnlike, count |-> GrpcGetCount,
   status |-> GrpcGetStatus, user_likes |-> GrpcGetUserLikes,
   batch_counts |-> GrpcBatchCounts, batch_statuses |-> GrpcBatchStatuses,
   leaderboard |-> GrpcGetLeaderboard, stream |-> StreamLikes]

Checks(tr, op) == IF tr = "http" THEN HttpRoutes[op] ELSE GrpcMethods[op]

(* The error of the first check that refuses a request with flaws D.       *)
Outcome(tr, op, D) ==
  LET checks == Checks(tr, op)
      refuse == {i \in DOMAIN checks : checks[i][1] \in D}
  IN IF refuse = {} THEN "Ok"
     ELSE checks[CHOOSE i \in refuse : \A j \in refuse : i <= j][2]

NoRequest == [op |-> "none", flaws |-> {}]
Unanswered == [tr \in Transports |-> "none"]

Handle(tr) ==
  /\ request # NoRequest /\ answer[tr] = "none"
  /\ answer' = [answer EXCEPT ![tr] = Outcome(tr, request.op, request.flaws)]
  /\ UNCHANGED request

Retire ==
  /\ request # NoRequest /\ \A tr \in Transports : answer[tr] # "none"
  /\ request' = NoRequest /\ answer' = Unanswered

-----------------------------------------------------------------------------
(* Errors as clients see them.                                             *)

(* to_api_error and AuthError.                                             *)
ErrorCode(e) == IF e = "Database" THEN "InternalError" ELSE e
AuthErrorCode(e) ==
  IF e = "ServiceUnavailable" THEN "DependencyUnavailable" ELSE "Unauthorized"

HttpStatusOf(code) ==
  CASE code = "Unauthorized" -> 401
    [] code = "ContentNotFound" -> 404
    [] code \in {"ContentTypeUnknown", "InvalidContentId", "BatchTooLarge",
                 "InvalidCursor", "InvalidWindow"} -> 400
    [] code = "RateLimited" -> 429
    [] code = "DependencyUnavailable" -> 503
    [] code = "InternalError" -> 500

AuthFailures == {"MissingToken", "InvalidToken", "ServiceUnavailable"}

(* A body that does not deserialise is refused by axum's Json.             *)
HttpStatus(e) ==
  IF e = "JsonRejection" THEN 422
  ELSE HttpStatusOf(IF e \in AuthFailures THEN AuthErrorCode(e) ELSE ErrorCode(e))

AuthFailureToStatus(e) ==
  IF e = "ServiceUnavailable" THEN "Unavailable" ELSE "Unauthenticated"

\* Mutant: an error of a dependency is reported as an internal one.
AppErrorToStatusCoarse(e) ==
  CASE e = "ContentNotFound" -> "NotFound"
    [] e = "RateLimited" -> "ResourceExhausted"
    [] e \in {"Database", "DependencyUnavailable"} -> "Internal"
    [] OTHER -> "InvalidArgument"

AppErrorToStatus(e) ==
  CASE e = "ContentNotFound" -> "NotFound"
    [] e = "RateLimited" -> "ResourceExhausted"
    [] e = "DependencyUnavailable" -> "Unavailable"
    [] e = "Database" -> "Internal"
    [] OTHER -> "InvalidArgument"

GrpcStatus(e) ==
  IF e \in AuthFailures THEN AuthFailureToStatus(e) ELSE AppErrorToStatus(e)

-----------------------------------------------------------------------------
(* What else the two derive from a request.                                *)

(* The address a public read is charged to, from x-forwarded-for and       *)
(* x-real-ip; gRPC goes on to the next one when the first is blank.        *)
Absent == "absent"
Blank == "blank"
ReadRateLimitIp(xff, xri) ==
  LET raw == IF xff # Absent THEN xff ELSE xri
  IN IF raw \in {Absent, Blank} THEN "unknown" ELSE raw
ExtractClientIp(xff, xri, peer) ==
  IF xff \notin {Absent, Blank} THEN xff
  ELSE IF xri \notin {Absent, Blank} THEN xri ELSE peer

(* The number of items asked for, a set of at most one number; the service *)
(* clamps whatever it is given.  An int32 that protobuf does not carry is  *)
(* 0, and only a request without the pagination message gets gRPC's page.  *)
UnwrapOr(asked, n) == IF asked = {} THEN n ELSE CHOOSE m \in asked : TRUE
Clamp(n, lo, hi) == IF n < lo THEN lo ELSE IF n > hi THEN hi ELSE n
UserLikesLimit(tr, pagination, asked) ==
  Clamp(CASE tr = "http" -> Clamp(UnwrapOr(asked, 20), 1, 100)
          [] tr = "grpc" -> IF pagination THEN UnwrapOr(asked, 0) ELSE 20,
        1, 100)
LeaderboardLimit(tr, asked) ==
  Clamp(IF tr = "http" THEN Clamp(UnwrapOr(asked, 10), 1, 50) ELSE UnwrapOr(asked, 0),
        1, 50)

-----------------------------------------------------------------------------
(* What each operation is meant to ask of a request, whatever transport.   *)
Authenticated == {"no_token", "profile_down", "bad_token"}
Addressed == {"type", "id"}
Requires ==
  [like |-> Authenticated \cup Addressed
              \cup {"over_write", "content_down", "no_content", "db_down"},
   unlike |-> Authenticated \cup Addressed
                \cup {"over_write", "content_down", "no_content", "db_down"},
   count |-> Addressed \cup {"over_ip", "db_down"},
   status |-> Authenticated \cup Addressed \cup {"over_read", "db_down"},
   user_likes |-> Authenticated \cup {"over_read", "type", "cursor", "db_down"},
   batch_counts |-> Addressed \cup {"over_ip", "size", "db_down"},
   batch_statuses |-> Authenticated \cup Addressed
                        \cup {"over_read", "size", "db_down"},
   leaderboard |-> {"over_ip", "type", "window", "db_down"},
   stream |-> Addressed \cup {"over_ip"}]

(* A leaderboard's window may also be left out.                            *)
Omits(op) == IF op = "leaderboard" THEN {"no_window"} ELSE {}

Requests ==
  {r \in UNION {[op : {op}, flaws : SUBSET (Requires[op] \cup Omits(op))] : op \in Operations} :
     ~ {"window", "no_window"} \subseteq r.flaws}

(* HTTP statuses and gRPC codes that say the same.                         *)
Same == {<<400, "InvalidArgument">>, <<401, "Unauthenticated">>,
         <<404, "NotFound">>, <<503, "Unavailable">>,
         <<429, "ResourceExhausted">>, <<500, "Internal">>}

Alike(h, g) ==
  \/ h = "Ok" /\ g = "Ok"
  \/ h # "Ok" /\ g # "Ok" /\ <<HttpStatus(h), GrpcStatus(g)>> \in Same

(* Where one flaw is judged differently.  A malformed content_id in a JSON *)
(* body is answered 422 by axum's Json, not the 400 that the handlers      *)
(* document and that gRPC's InvalidArgument stands for; a window that is   *)
(* not given means "all" to HTTP and is refused by gRPC.                   *)
JsonBodies == {"like", "batch_counts", "batch_statuses"}
Parting(op, D) == D = {"no_window"} \/ (D = {"id"} /\ op \in JsonBodies)

(* A public read is charged to the same bucket by both: when the client's  *)
(* address is in x-forwarded-for, or in x-real-ip alone, or nowhere at     *)
(* all.  A blank x-forwarded-for makes HTTP ignore x-real-ip, and without  *)
(* a header HTTP has one bucket for everybody and gRPC one per peer.       *)
SameBuckets ==
  \A xff \in {Absent, Blank, "a"}, xri \in {Absent, Blank, "b"}, peer \in {"p", "unknown"} :
    ReadRateLimitIp(xff, xri) = ExtractClientIp(xff, xri, peer) <=>
      \/ xff = "a"
      \/ xff = Absent /\ xri = "b"
      \/ xff # "a" /\ xri # "b" /\ peer = "unknown"

(* A limit that is given means the same to both, at the bounds of the      *)
(* clamps too.  One that is not is 20 and 10 for HTTP; for gRPC it is 1,   *)
(* except that a request without the pagination message gets 20.           *)
SameLimits ==
  /\ \A n \in {-1, 0, 1, 49, 50, 51, 99, 100, 101} :
       /\ UserLikesLimit("http", TRUE, {n}) = UserLikesLimit("grpc", TRUE, {n})
       /\ LeaderboardLimit("http", {n}) = LeaderboardLimit("grpc", {n})
  /\ \A p \in BOOLEAN :
       UserLikesLimit("http", p, {}) = UserLikesLimit("grpc", p, {}) <=> ~p
  /\ LeaderboardLimit("http", {}) # LeaderboardLimit("grpc", {})

(* A request is judged alike on both transports, for every operation and   *)
(* every combination of flaws, except where Parting says how they differ:  *)
(* both let it through or neither does, unless a missing window is all     *)
(* that is wrong; one flaw gets corresponding statuses, or is one of those *)
(* of Parting; and a request without a token is told so before anything    *)
(* else ("unauthenticated gets 401 not 429").  The address a public read   *)
(* is charged to and the number of items agree exactly where SameBuckets   *)
(* and SameLimits say.                                                     *)
TransportsAgree ==
  LET h == answer["http"]
      g == answer["grpc"]
      D == request.flaws
  IN "none" \notin {h, g} =>
       /\ (h = "Ok") = (g = "Ok") <=> D # {"no_window"}
       /\ Cardinality(D) = 1 => (Alike(h, g) <=> ~ Parting(request.op, D))
       /\ "no_token" \in D =>
            HttpStatus(h) = 401 /\ GrpcStatus(g) = "Unauthenticated"
       /\ "over_ip" \in Requires[request.op] => SameBuckets
       /\ request.op \in {"user_likes", "leaderboard"} => SameLimits

=============================================================================
