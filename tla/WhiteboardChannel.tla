-------------------------- MODULE WhiteboardChannel --------------------------
(***************************************************************************)
(* The indirect (whiteboard) channel of the python comms plugin, for one   *)
(* hashtag: senders post packages (sendPackageMulticast to the /post       *)
(* route), the store appends each post at the next index and then resizes *)
(* itself, and a multicast connection monitor polls it                     *)
(* (_multicast_connection_monitor with _get_last_post_index and            *)
(* _get_new_posts).                                                        *)
(*                                                                         *)
(* The store's redis scripts are not in the repository: their contract is  *)
(* taken from the specification (an index per category that only grows,   *)
(* /latest answering the next index, /get/start/-1 answering the stored    *)
(* posts from start on with length = the next index, and trimming of the  *)
(* oldest posts when memory exceeds the threshold).  Memory is counted in  *)
(* posts: a resize keeps the newest Capacity posts.                        *)
(*                                                                         *)
(* Indices are Python's, from 0: post i is board[i + 1].                   *)
(***************************************************************************)
EXTENDS Naturals, Sequences, SequencesExt

CONSTANTS
    Posts,         \* the packages senders may post, each at most once
    Capacity,      \* posts the store keeps after a resize
    StoreMayFail,  \* may a redis script raise ResponseError?
    LatestMayFail  \* may /latest answer other than 200?

ASSUME Capacity \in Nat \ {0} /\ StoreMayFail \in BOOLEAN /\ LatestMayFail \in BOOLEAN

VARIABLES
    board,     \* every post appended, in index order
    first,     \* lowest index the store still holds
    posted,    \* packages sendPackageMulticast has been called for
    rpc,       \* monitor: "open" (before /latest), "poll", "closed"
    start,     \* the monitor's first latest
    latest,    \* the monitor's latest
    delivered, \* indices handed to receiveEncPkg, in order
    lost       \* sum of the lost_num the monitor logged

wbVars == <<board, first, posted, rpc, start, latest, delivered, lost>>

NextIndex == Len(board)

\* resize.lua: drop the oldest posts until the rest fit; n posts appended
Resized(n) == IF n - first > Capacity THEN n - Capacity ELSE first

-----------------------------------------------------------------------------
(* sendPackageMulticast posting package p through the /post route, and the *)
(* status st it reports.  The route runs post.lua, then resize.lua, then   *)
(* answers 201 with the index; a ResponseError from either script aborts   *)
(* with 500, and sendPackageMulticast reports PACKAGE_FAILED_GENERIC on     *)
(* any status other than 200/201.                                          *)

PostAppended(p) ==
    /\ board' = Append(board, p)
    /\ first' = Resized(Len(board) + 1)

\* post.lua raises: nothing appended
PostScriptFails(p) ==
    /\ StoreMayFail
    /\ UNCHANGED <<board, first>>

\* post.lua appended, resize.lua raises: the post stays, the answer is 500
ResizeFails(p) ==
    /\ StoreMayFail
    /\ board' = Append(board, p)
    /\ UNCHANGED first

SendPackageMulticast(p, st) ==
    /\ p \notin posted
    /\ posted' = posted \cup {p}
    /\ \/ PostAppended(p) /\ st = "PACKAGE_SENT"
       \/ PostScriptFails(p) /\ st = "PACKAGE_FAILED_GENERIC"
       \/ ResizeFails(p) /\ st = "PACKAGE_FAILED_GENERIC"
    /\ UNCHANGED <<rpc, start, latest, delivered, lost>>

\* requests.post raising (the service unreachable, or the connection lost
\* before the answer is read): the route ran fully or not at all, and
\* sendPackageMulticast reports nothing
SendPackageMulticastRaises(p) ==
    /\ p \notin posted
    /\ posted' = posted \cup {p}
    /\ PostAppended(p) \/ UNCHANGED <<board, first>>
    /\ UNCHANGED <<rpc, start, latest, delivered, lost>>

-----------------------------------------------------------------------------
(* _multicast_connection_monitor                                           *)

\* after reporting CONNECTION_OPEN: latest = _get_last_post_index(conn),
\* which answers 0 when /latest does not answer 200
MonitorStart ==
    /\ rpc = "open"
    /\ \E l \in {NextIndex} \cup (IF LatestMayFail THEN {0} ELSE {}) :
          /\ latest' = l
          /\ start' = l
    /\ rpc' = "poll"
    /\ UNCHANGED <<board, first, posted, delivered, lost>>

\* Mutant: the range taken through the next index inclusive.
GetRangeInclusive(l) ==
    LET lo == IF l > first THEN l ELSE first
    IN  [k \in 1..(NextIndex - lo + 1) |-> lo + k - 1]

\* the /get/<l>/-1 route (get_range.lua): the indices of the posts still
\* stored from index l on; its length field is the next index
GetRange(l) ==
    LET lo == IF l > first THEN l ELSE first
    IN  [k \in 1..(NextIndex - lo) |-> lo + k - 1]

\* Mutant: latest advanced by the posts received, not to new_latest.
PollAdvanceByReceived ==
    /\ rpc = "poll"
    /\ LET posts == GetRange(latest)
           expected == NextIndex - latest
       IN  /\ lost' = lost + (IF Len(posts) < expected THEN expected - Len(posts) ELSE 0)
           /\ latest' = latest + Len(posts)
           /\ delivered' = delivered \o posts
    /\ UNCHANGED <<board, first, posted, rpc, start>>

\* One pass of the loop: _get_new_posts(conn, latest) answers the posts and
\* new_latest; the monitor logs expected - actual as lost when fewer came,
\* sets latest = new_latest and hands each post to receiveEncPkg.
Poll ==
    /\ rpc = "poll"
    /\ LET posts == GetRange(latest)
           expected == NextIndex - latest
       IN  /\ lost' = lost + (IF Len(posts) < expected THEN expected - Len(posts) ELSE 0)
           /\ latest' = NextIndex
           /\ delivered' = delivered \o posts
    /\ UNCHANGED <<board, first, posted, rpc, start>>

\* get_range.lua raises: the route aborts 404, _get_new_posts raises and the
\* monitor leaves its loop (CONNECTION_CLOSED for its ids)
PollFails ==
    /\ StoreMayFail
    /\ rpc = "poll"
    /\ rpc' = "closed"
    /\ UNCHANGED <<board, first, posted, start, latest, delivered, lost>>

MonitorNext == MonitorStart \/ Poll \/ PollFails

-----------------------------------------------------------------------------

WBInit ==
    /\ board = <<>>
    /\ first = 0
    /\ posted = {}
    /\ rpc = "open"
    /\ start = 0
    /\ latest = 0
    /\ delivered = <<>>
    /\ lost = 0

WBNext ==
    \/ \E p \in Posts, st \in {"PACKAGE_SENT", "PACKAGE_FAILED_GENERIC"} :
          SendPackageMulticast(p, st)
    \/ \E p \in Posts : SendPackageMulticastRaises(p)
    \/ MonitorNext

WBSpec == WBInit /\ [][WBNext]_wbVars /\ WF_wbVars(MonitorStart) /\ WF_wbVars(Poll)

-----------------------------------------------------------------------------

WBTypeOK ==
    /\ board \in Seq(Posts) /\ Len(board) <= Cardinality(Posts)
    /\ first \in 0..Len(board)
    /\ posted \subseteq Posts
    /\ rpc \in {"open", "poll", "closed"}
    /\ start \in 0..Len(board) /\ latest \in start..Len(board)
    /\ delivered \in Seq(0..(Len(board) - 1))
    /\ lost \in 0..Len(board)

(***************************************************************************)
(* The monitor's loss accounting (spec 4.6, backlog recovery): every post  *)
(* whose index lies between the monitor's first latest and its current     *)
(* latest was handed to receiveEncPkg exactly once, in index order, or is  *)
(* counted in the losses the monitor logged; nothing outside that range    *)
(* was handed over.  Posts, resizes that trim what the monitor has not     *)
(* read yet, and polls interleave freely.                                  *)
(***************************************************************************)
PollAccountsForEveryPost ==
    /\ \A k \in 1..(Len(delivered) - 1) : delivered[k] < delivered[k + 1]
    /\ \A k \in DOMAIN delivered : delivered[k] \in start..(latest - 1)
    /\ Len(delivered) + lost = latest - start

=============================================================================
