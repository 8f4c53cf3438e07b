----------------------------- MODULE DurableLog -----------------------------
(***************************************************************************)
(* What the write-ahead log promises its callers, without threads, queues  *)
(* or condition variables: records 1..appended exist in that order, a      *)
(* prefix of them has been handed to the operating system, a shorter       *)
(* prefix is on disk, and an answer is given to a commit only when the     *)
(* prefix its durability level names covers its record.  After a failed    *)
(* write or fdatasync the log is frozen: nothing is appended, written or   *)
(* acknowledged any more.                                                  *)
(***************************************************************************)
EXTENDS Naturals

CONSTANT Levels   \* commit durabilities

VARIABLES appended, written, durable,
          failed,            \* the log has refused service
          acked, rejected    \* commits answered Ok (with their level) and Err

vars == <<appended, written, durable, failed, acked, rejected>>

Init ==
  /\ appended = 0 /\ written = 0 /\ durable = 0
  /\ failed = FALSE
  /\ acked = {} /\ rejected = {}

\* The prefix of the log that an answer at a level relies on.
Covered(level) ==
  IF level = "Strict" THEN durable ELSE IF level = "Normal" THEN written ELSE appended

\* A record gets the next position.  A commit that waits for nothing is
\* answered at once.
AppendRecord ==
  /\ ~failed
  /\ appended' = appended + 1
  /\ \E level \in Levels \cup {"none"} :
       acked' = IF level = "UnsafeDev" THEN acked \cup {<<appended', level>>} ELSE acked
  /\ UNCHANGED <<written, durable, failed, rejected>>

Write ==
  /\ ~failed
  /\ written' \in written..appended
  /\ UNCHANGED <<appended, durable, failed, acked, rejected>>

Sync ==
  /\ ~failed
  /\ durable' = written
  /\ UNCHANGED <<appended, written, failed, acked, rejected>>

Answer(r, level) ==
  /\ ~failed
  /\ r <= Covered(level)
  /\ acked' = acked \cup {<<r, level>>}
  /\ UNCHANGED <<appended, written, durable, failed, rejected>>

\* A failed fdatasync may have reached the disk with any prefix.
Fail ==
  /\ ~failed
  /\ failed' = TRUE
  /\ durable' \in durable..written
  /\ UNCHANGED <<appended, written, acked, rejected>>

Reject(r) ==
  /\ failed
  /\ rejected' = rejected \cup {r}
  /\ UNCHANGED <<appended, written, durable, failed, acked>>

Next ==
  \/ AppendRecord \/ Write \/ Sync \/ Fail
  \/ \E r \in 1..appended : Reject(r) \/ \E level \in Levels : Answer(r, level)

Spec == Init /\ [][Next]_vars
=============================================================================
