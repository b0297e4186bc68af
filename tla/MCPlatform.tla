----------------------------- MODULE MCPlatform -----------------------------
(***************************************************************************)
(* Model checking of Platform: two requests at a time.  The first is any   *)
(* of the inputs below, where every early return of a handler has an input *)
(* that differs from a good one in that point only; the second is an event *)
(* of a pull request or a scrape of the metrics.                           *)
(***************************************************************************)
EXTENDS Platform

CONSTANTS r1, r2

Good == [route |-> "submit", decodable |-> TRUE, repoURL |-> TRUE, commitSHA |-> TRUE, litd |-> "no"]
Hook == [route |-> "webhook", readable |-> TRUE, signed |-> TRUE, event |-> "pull_request",
         decodable |-> TRUE, action |-> "opened", fullName |-> <<"owner", "name">>, litd |-> "no"]

AllInputs ==
    { [Good EXCEPT !.litd = "wait"], [Good EXCEPT !.litd = "scan"],
      [Good EXCEPT !.decodable = FALSE], [Good EXCEPT !.commitSHA = FALSE],
      Hook, [Hook EXCEPT !.readable = FALSE], [Hook EXCEPT !.signed = FALSE],
      [Hook EXCEPT !.event = "ping"], [Hook EXCEPT !.event = "push"],
      [Hook EXCEPT !.decodable = FALSE], [Hook EXCEPT !.action = "closed"] }
    \cup Others

AnyAndOne ==
    [r \in Requests |-> IF r = r1 THEN AllInputs
                       ELSE {Hook, [route |-> "metrics", litd |-> "no"]}]

TwoBuckets == <<1, 2>>
=============================================================================
