----------------------------- MODULE LiveParts -----------------------------
(***************************************************************************)
(* What the part log promises its callers and readers (part_log.rs: "a     *)
(* part may be added exactly once"; an append that returned Committed is   *)
(* durable): a part becomes live once, leaves the live set once, and never *)
(* comes back; what was reported committed has happened.                   *)
(***************************************************************************)
VARIABLES
    live,       \* the live parts
    gone,       \* the parts that were removed
    ackAdded,   \* parts whose addition was reported
    ackRemoved  \* parts whose removal was reported

vars == <<live, gone, ackAdded, ackRemoved>>

Init == live = {} /\ gone = {} /\ ackAdded = {} /\ ackRemoved = {}

\* One entry takes effect: parts leave for good, new ones arrive.
Change ==
    /\ (live' \ live) \cap gone = {}
    /\ gone' = gone \cup (live \ live')

\* Only what happened is reported, and a report is never taken back.
Report ==
    /\ ackAdded \subseteq ackAdded' /\ ackAdded' \subseteq live' \cup gone'
    /\ ackRemoved \subseteq ackRemoved' /\ ackRemoved' \subseteq gone'

Next == Change /\ Report

Spec == Init /\ [][Next]_vars
=============================================================================
