------------------------------ MODULE ApiServer ------------------------------
(***************************************************************************)
(* The API server (api/server.py): its thread, the middleware with token    *)
(* and rate limit, and the routes over the event store, the detection       *)
(* engine and the SOC exporter.  All requests run on the one event loop of   *)
(* the server's thread: the middleware does not wait between looking at a   *)
(* client's bucket and writing it, a route may wait for the part it asks.   *)
(*                                                                         *)
(* The clock counts half seconds, so that a request may come between two    *)
(* full seconds; what Retry-After says is in seconds.                       *)
(***************************************************************************)
EXTENDS Integers, Sequences, Filters

CONSTANTS
  Clients,
  Limit,        \* requests_per_window
  WindowLength, \* window_seconds
  MaxClock,     \* bound on the clock
  MaxRequests   \* bound: how many requests each client sends

VARIABLES
  server,   \* "down", "starting", "serving", "exiting" (should_exit), "ended"
  joined,   \* whether stop() has returned
  halves,   \* the clock, in half seconds
  buckets,  \* _buckets[c]: the times of the requests let through
  request,  \* request[c]: the route that is at work for c
  part,     \* what the routes find: "none" injected, one that "works" or "fails"
  sent,     \* how many requests each client has sent
  answer,   \* answer[c]: the status of the last answer
  (* what the properties remember *)
  refused      \* refused[c]: when c was last refused, and its Retry-After: <<time, seconds>>

apiVars == <<server, joined, halves, buckets, request, part, sent, answer, refused>>

\* The routes by what they answer when the part they ask is not there or fails.
Listings == {"events", "threats"}
Overviews == {"stats", "rules"}
Routes == Listings \cup Overviews \cup {"threat", "mark", "settings", "execute"}

Nobody == "none"
NotRefused == <<0, 0>>

Init ==
  /\ server = "down" /\ joined = FALSE /\ halves = 0
  /\ buckets = [c \in Clients |-> <<>>]
  /\ request = [c \in Clients |-> Nobody]
  /\ part \in {"none", "works", "fails"}
  /\ sent = [c \in Clients |-> 0]
  /\ answer = [c \in Clients |-> 0]
  /\ refused = [c \in Clients |-> NotRefused]

Tick ==
  /\ halves < MaxClock
  /\ halves' = halves + 1
  /\ UNCHANGED <<server, joined, buckets, request, part, sent, answer, refused>>

\* The part the routes ask begins or ceases to work; it is injected once.
PartChanges ==
  /\ part # "none"
  /\ part' = IF part = "works" THEN "fails" ELSE "works"
  /\ UNCHANGED <<server, joined, halves, buckets, request, sent, answer, refused>>

-----------------------------------------------------------------------------
(* The thread. *)

\* start(): the thread is started and given 0.8 seconds, whatever becomes of it.
Start ==
  /\ server = "down"
  /\ server' = "starting"
  /\ UNCHANGED <<joined, halves, buckets, request, part, sent, answer, refused>>

\* _run_server(): the port is bound, or the thread ends.
RunServer ==
  /\ server = "starting"
  /\ server' \in {"serving", "ended"}
  /\ UNCHANGED <<joined, halves, buckets, request, part, sent, answer, refused>>

\* The server exits once no request is at work.
ServerEnds ==
  /\ server = "exiting" /\ \A c \in Clients : request[c] = Nobody
  /\ server' = "ended"
  /\ UNCHANGED <<joined, halves, buckets, request, part, sent, answer, refused>>

\* stop() asks the server to exit ...
StopBegin ==
  /\ server = "serving"
  /\ server' = "exiting"
  /\ UNCHANGED <<joined, halves, buckets, request, part, sent, answer, refused>>

\* ... and waits for the thread, five seconds at most.
StopReturns ==
  /\ server \in {"exiting", "ended"} /\ ~joined
  /\ joined' = TRUE
  /\ UNCHANGED <<server, halves, buckets, request, part, sent, answer, refused>>

-----------------------------------------------------------------------------
(* The middleware. *)

\* The times of the window, of which only those in it are kept.
RecentRequests(c) ==
  LET cutoff == halves - 2 * WindowLength
  IN  Kept(buckets[c], {t \in 0..halves : t > cutoff})

\* int() of the seconds until the oldest request leaves the window, one at least.
RetryAfter(times) ==
  LET seconds == (2 * WindowLength - (halves - Head(times))) \div 2
  IN  IF seconds < 1 THEN 1 ELSE seconds

Sends(c) ==
  /\ server = "serving" /\ request[c] = Nobody
  /\ sent[c] < MaxRequests
  /\ sent' = [sent EXCEPT ![c] = @ + 1]

\* A public path is answered, a request without the token is not; neither counts.
Unlimited(c) ==
  /\ Sends(c)
  /\ \E status \in {200, 401} : answer' = [answer EXCEPT ![c] = status]
  /\ UNCHANGED <<server, joined, halves, buckets, request, part, refused>>

\* A request is let through and counted.
Admit(c, route) ==
  /\ Sends(c)
  /\ Len(RecentRequests(c)) < Limit
  /\ buckets' = [buckets EXCEPT ![c] = Append(RecentRequests(c), halves)]
  /\ request' = [request EXCEPT ![c] = route]
  /\ refused' = [refused EXCEPT ![c] = NotRefused]
  /\ UNCHANGED <<server, joined, halves, part, answer>>

\* Mutant: a refused request counts, too.
BucketAfterRefusalCounted(c) == Append(RecentRequests(c), halves)

\* A refused request leaves the bucket as it was.
BucketAfterRefusal(c) == buckets[c]

Refuse(c) ==
  /\ Sends(c)
  /\ Len(RecentRequests(c)) >= Limit
  /\ refused' = [refused EXCEPT ![c] = <<halves, RetryAfter(RecentRequests(c))>>]
  /\ buckets' = [buckets EXCEPT ![c] = BucketAfterRefusal(c)]
  /\ answer' = [answer EXCEPT ![c] = 429]
  /\ UNCHANGED <<server, joined, halves, request, part>>

-----------------------------------------------------------------------------
(* The routes: what each answers, by what it finds. *)

Answer(c, routes, status) ==
  /\ server \in {"serving", "exiting"} /\ request[c] \in routes
  /\ answer' = [answer EXCEPT ![c] = status]
  /\ request' = [request EXCEPT ![c] = Nobody]
  /\ UNCHANGED <<server, joined, halves, buckets, part, sent, refused>>

\* An empty list stands for a store that is not there, and for one that fails.
AnswerListing(c) == Answer(c, Listings, 200)

\* So do zeros, and no rules.
AnswerOverview(c) == Answer(c, Overviews, 200)

\* One threat: not available, not found, or what there is.  A failure of the store
\* looks like a threat that does not exist.
AnswerThreat(c) ==
  \/ part = "none" /\ Answer(c, {"threat"}, 503)
  \/ Answer(c, {"threat"}, 404) /\ part # "none"
  \/ part = "works" /\ Answer(c, {"threat"}, 200)

\* A mark, of a known threat or not.
AnswerMark(c) ==
  \/ part = "none" /\ Answer(c, {"mark"}, 503)
  \/ part = "fails" /\ Answer(c, {"mark"}, 500)
  \/ part = "works" /\ Answer(c, {"mark"}, 200)

\* Settings: a value is refused, or the exporter cannot store them.
AnswerSettings(c) ==
  \/ part = "none" /\ Answer(c, {"settings"}, 503)
  \/ part # "none" /\ Answer(c, {"settings"}, 400)
  \/ part = "fails" /\ Answer(c, {"settings"}, 500)
  \/ part = "works" /\ Answer(c, {"settings"}, 200)

\* A response action is said to be queued; there is no queue.
AnswerExecute(c) == Answer(c, {"execute"}, 200)

Next ==
  \/ Tick \/ PartChanges \/ Start \/ RunServer \/ ServerEnds \/ StopBegin \/ StopReturns
  \/ \E c \in Clients :
       \/ Unlimited(c) \/ Refuse(c) \/ \E r \in Routes : Admit(c, r)
       \/ AnswerListing(c) \/ AnswerOverview(c) \/ AnswerThreat(c) \/ AnswerMark(c)
       \/ AnswerSettings(c) \/ AnswerExecute(c)

Spec == Init /\ [][Next]_apiVars

-----------------------------------------------------------------------------
(* Properties *)

\* Whoever waits one second longer than Retry-After said is let through, however
\* often it asked before.  (The second is owed to int(), which cuts a half off: for
\* "How long to wait before retrying" as it stands, exceptions.py:876, this fails.)
WaitingHelps ==
  [][\A c \in Clients :
       refused[c] # NotRefused /\ halves >= refused[c][1] + 2 * (refused[c][2] + 1) =>
         refused'[c] = refused[c] \/ refused'[c] = NotRefused]_apiVars

-----------------------------------------------------------------------------
(* What makes WaitingHelps inductive. *)

\* Every variable keeps its type, and a bucket its bound.
TypeOK ==
  /\ server \in {"down", "starting", "serving", "exiting", "ended"} /\ joined \in BOOLEAN
  /\ part \in {"none", "works", "fails"}
  /\ halves \in Nat
  /\ buckets \in [Clients -> Seq(Nat)] /\ \A c \in Clients : Len(buckets[c]) <= Limit
  /\ request \in [Clients -> Routes \cup {Nobody}]
  /\ sent \in [Clients -> Nat] /\ answer \in [Clients -> Nat]
  /\ refused \in [Clients -> Nat \X Nat]

\* A refusal stands for a full bucket, the oldest request of which leaves the window
\* less than a second after Retry-After.
RefusalEnds ==
  \A c \in Clients :
    refused[c] # NotRefused =>
      /\ Len(buckets[c]) = Limit
      /\ buckets[c][1] + 2 * WindowLength < refused[c][1] + 2 * (refused[c][2] + 1)

IInv == TypeOK /\ RefusalEnds
=============================================================================
