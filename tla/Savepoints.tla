------------------------------ MODULE Savepoints ------------------------------
(***************************************************************************)
(* The transaction state of one SQL connection: BEGIN, COMMIT, ROLLBACK,   *)
(* SAVEPOINT, RELEASE and ROLLBACK TO over SessionState.  A savepoint is   *)
(* undone by rolling the kernel transaction back and executing a prefix of *)
(* the journal of statements again.  A statement is a number; its effect   *)
(* in the kernel transaction is that number in work.                       *)
(***************************************************************************)
EXTENDS Naturals, Sequences, FiniteSets, Functions

CONSTANTS Names,        \* savepoint names
          MaxStmts,     \* bound on the statements of a behaviour
          MaxDepth,     \* bound on the savepoint stack
          Hazards       \* circumstances in which ROLLBACK TO must restore, too

\* "release": the last savepoint is released and the transaction goes on;
\* "rql": an RQL mutation is part of the transaction.
ASSUME SavepointsAssumption ==
  MaxStmts \in Nat /\ MaxDepth \in Nat /\ Hazards \subseteq {"release", "rql"}

VARIABLES
  tx, failed,             \* SessionState.tx.is_some(), SessionState.failed
  journal, savepoints,    \* SessionState.journal, SessionState.savepoints
  work,                   \* effects of the open kernel transaction, in order
  broken,                 \* effects of failed statements among them
  done,                   \* statements acknowledged in it and not undone
  committed,              \* effects of committed transactions
  nextStmt,
  met                     \* the circumstances the transaction has met

vars ==
  <<tx, failed, journal, savepoints, work, broken, done, committed, nextStmt, met>>

\* SavepointFrame; saved (not in the code) is what had been done at SAVEPOINT.
Frame(name, implicit) ==
  [name |-> name, journal_len |-> Len(journal), implicit_tx |-> implicit,
   saved |-> done]

\* The most recent frame of that name.
FrameIndex(name) ==
  LET named == {i \in DOMAIN savepoints : savepoints[i].name = name}
  IN  CHOOSE i \in named : \A j \in named : j <= i

HasFrame(name) == \E i \in DOMAIN savepoints : savepoints[i].name = name

\* The transaction is gone: tx taken, clear_savepoints().
Ended ==
  /\ tx' = FALSE /\ failed' = FALSE
  /\ journal' = <<>> /\ savepoints' = <<>>
  /\ work' = <<>> /\ broken' = {} /\ done' = <<>> /\ met' = {}

Init ==
  /\ tx = FALSE /\ failed = FALSE
  /\ journal = <<>> /\ savepoints = <<>>
  /\ work = <<>> /\ broken = {} /\ done = <<>> /\ committed = {}
  /\ nextStmt = 1 /\ met = {}

Begin ==
  /\ ~tx
  /\ tx' = TRUE /\ failed' = FALSE
  /\ journal' = <<>> /\ savepoints' = <<>>
  /\ UNCHANGED <<work, broken, done, committed, nextStmt, met>>

\* Mutant: failed statements are journaled too.
ExecErrJournaled ==
  /\ tx /\ ~failed /\ nextStmt <= MaxStmts
  /\ failed' = TRUE
  /\ work' = Append(work, nextStmt)
  /\ broken' = broken \cup {nextStmt}
  /\ journal' = Append(journal, nextStmt)
  /\ nextStmt' = nextStmt + 1
  /\ UNCHANGED <<tx, savepoints, done, committed, met>>

\* A statement fails in an open transaction, which keeps what the statement
\* had done and is marked failed.
ExecErr ==
  /\ tx /\ ~failed /\ nextStmt <= MaxStmts
  /\ failed' = TRUE
  /\ work' = Append(work, nextStmt)
  /\ broken' = broken \cup {nextStmt}
  /\ nextStmt' = nextStmt + 1
  /\ UNCHANGED <<tx, journal, savepoints, done, committed, met>>

\* Mutant: statements are journaled only once a savepoint is open.
ExecSqlLateJournal ==
  /\ tx /\ ~failed /\ nextStmt <= MaxStmts
  /\ work' = Append(work, nextStmt) /\ done' = Append(done, nextStmt)
  /\ journal' = IF savepoints = <<>> THEN journal ELSE Append(journal, nextStmt)
  /\ nextStmt' = nextStmt + 1
  /\ UNCHANGED <<tx, failed, savepoints, broken, committed, met>>

\* A SQL statement in an open transaction; journal_statement() after it.
ExecSql ==
  /\ tx /\ ~failed /\ nextStmt <= MaxStmts
  /\ work' = Append(work, nextStmt) /\ done' = Append(done, nextStmt)
  /\ journal' = Append(journal, nextStmt)
  /\ nextStmt' = nextStmt + 1
  /\ UNCHANGED <<tx, failed, savepoints, broken, committed, met>>

\* An RQL mutation: refused while a savepoint is open, and never journaled.
ExecRql ==
  /\ tx /\ ~failed /\ nextStmt <= MaxStmts /\ savepoints = <<>>
  /\ work' = Append(work, nextStmt) /\ done' = Append(done, nextStmt)
  /\ nextStmt' = nextStmt + 1
  /\ met' = met \cup {"rql"}
  /\ UNCHANGED <<tx, failed, journal, savepoints, broken, committed>>

\* A statement outside a transaction commits by itself.
Autocommit ==
  /\ ~tx /\ nextStmt <= MaxStmts
  /\ committed' = committed \cup {nextStmt}
  /\ nextStmt' = nextStmt + 1
  /\ UNCHANGED <<tx, failed, journal, savepoints, work, broken, done, met>>

\* savepoint(): outside a transaction it opens one.
Savepoint(name) ==
  /\ Len(savepoints) < MaxDepth
  /\ savepoints' = Append(savepoints, Frame(name, ~tx))
  /\ tx' = TRUE
  /\ failed' = (tx /\ failed)
  /\ UNCHANGED <<journal, work, broken, done, committed, nextStmt, met>>

CommitWork == committed' = committed \cup Range(work)

\* Mutant: RELEASE clears the journal although outer savepoints remain.
ReleaseClearsAll(name) ==
  /\ HasFrame(name)
  /\ LET pos == FrameIndex(name)
         implicit == pos = 1 /\ savepoints[1].implicit_tx
     IN  IF implicit /\ ~failed
         THEN Ended /\ (CommitWork \/ UNCHANGED committed)
         ELSE /\ savepoints' = SubSeq(savepoints, 1, pos - 1)
              /\ journal' = <<>>
              /\ met' = met \cup IF pos = 1 THEN {"release"} ELSE {}
              /\ UNCHANGED <<tx, failed, work, broken, done, committed>>
  /\ UNCHANGED nextStmt

\* release(): pops the frame and those above it; the last frame takes the
\* journal with it, and commits the transaction if it had opened it.  commit()
\* refuses a failed transaction and leaves it open; one the kernel rejects is
\* rolled back.
Release(name) ==
  /\ HasFrame(name)
  /\ LET pos == FrameIndex(name)
         implicit == pos = 1 /\ savepoints[1].implicit_tx
     IN  IF implicit /\ ~failed
         THEN Ended /\ (CommitWork \/ UNCHANGED committed)
         ELSE /\ savepoints' = SubSeq(savepoints, 1, pos - 1)
              /\ journal' = IF pos = 1 THEN <<>> ELSE journal
              /\ met' = met \cup IF pos = 1 THEN {"release"} ELSE {}
              /\ UNCHANGED <<tx, failed, work, broken, done, committed>>
  /\ UNCHANGED nextStmt

\* rollback_to(): roll the kernel transaction back, begin another, and
\* replay_journal() of the prefix.  The snapshot is new and the locks are
\* gone, so a replayed statement may fail; the rest is then not replayed.
RollbackTo(name) ==
  /\ HasFrame(name)
  /\ LET pos == FrameIndex(name)
         prefix == SubSeq(journal, 1, savepoints[pos].journal_len)
     IN  /\ savepoints' = SubSeq(savepoints, 1, pos)
         /\ journal' = prefix
         /\ done' = savepoints[pos].saved
         /\ \/ /\ work' = prefix /\ broken' = {}
               /\ failed' = FALSE
            \/ \E i \in DOMAIN prefix :
                 /\ work' = SubSeq(prefix, 1, i)
                 /\ broken' = {prefix[i]}
                 /\ failed' = TRUE
  /\ UNCHANGED <<tx, committed, nextStmt, met>>

\* Mutant: COMMIT does not look at the failed flag.
CommitUnchecked ==
  /\ tx
  /\ Ended /\ CommitWork
  /\ UNCHANGED nextStmt

\* commit() of a transaction that has not failed.
Commit ==
  /\ tx /\ ~failed
  /\ Ended /\ CommitWork
  /\ UNCHANGED nextStmt

\* Mutant: ROLLBACK without clear_savepoints().
RollbackKeepsFrames ==
  /\ tx
  /\ tx' = FALSE /\ failed' = FALSE
  /\ work' = <<>> /\ broken' = {} /\ done' = <<>>
  /\ UNCHANGED <<journal, savepoints, committed, nextStmt, met>>

\* rollback(), or a commit() that a deferred foreign key or the kernel rejects.
Rollback ==
  /\ tx
  /\ Ended
  /\ UNCHANGED <<committed, nextStmt>>

Next ==
  \/ Begin \/ ExecSql \/ ExecErr \/ ExecRql \/ Autocommit \/ Commit \/ Rollback
  \/ \E name \in Names : Savepoint(name) \/ Release(name) \/ RollbackTo(name)

Spec == Init /\ [][Next]_vars

-----------------------------------------------------------------------------
\* Statement numbers.
Stmts == 1..MaxStmts

\* The variables have the types of SessionState, and without a transaction
\* there is neither journal nor savepoint.
TypeOK ==
  /\ {tx, failed} \subseteq BOOLEAN
  /\ journal \in Seq(Stmts) /\ work \in Seq(Stmts)
  /\ broken \subseteq Range(work) /\ committed \subseteq Stmts
  /\ \A i \in DOMAIN savepoints :
       /\ savepoints[i].name \in Names /\ savepoints[i].implicit_tx \in BOOLEAN
       /\ savepoints[i].journal_len \in Nat
  /\ Len(savepoints) <= MaxDepth /\ nextStmt \in 1..(MaxStmts + 1)
  /\ ~tx => ~failed /\ journal = <<>> /\ savepoints = <<>> /\ work = <<>>

\* ROLLBACK TO slices the journal at the length a frame recorded: every such
\* length lies within the journal, in the order of the stack, so the slice
\* never panics, and only the outermost frame can have opened the transaction.
FramesWithinJournal ==
  \A i \in DOMAIN savepoints :
    /\ savepoints[i].journal_len <= Len(journal)
    /\ i > 1 => /\ ~savepoints[i].implicit_tx
                /\ savepoints[i - 1].journal_len <= savepoints[i].journal_len

\* Nothing that a failed statement left behind is ever committed, although a
\* failed transaction can be revived by ROLLBACK TO.
FailedWorkNeverCommitted == [][(committed' \ committed) \cap broken = {}]_vars

\* s is t without some of its elements, the others in their order.
Subsequence(s, t) ==
  \E at \in [DOMAIN s -> DOMAIN t] :
    /\ \A i \in DOMAIN s : s[i] = t[at[i]]
    /\ \A i, j \in DOMAIN s : i < j => at[i] < at[j]

\* ROLLBACK TO brings back nothing that was not there at SAVEPOINT, and
\* replays in the original order.
UndoneStaysUndone ==
  \A i \in DOMAIN savepoints :
    Subsequence(SubSeq(journal, 1, savepoints[i].journal_len), savepoints[i].saved)

\* ROLLBACK TO can replay everything the transaction had done at SAVEPOINT,
\* after any nesting of savepoints and earlier rollbacks.
PrefixReplaysSavepoint ==
  met \subseteq Hazards => \A i \in DOMAIN savepoints :
    SubSeq(journal, 1, savepoints[i].journal_len) = savepoints[i].saved
=============================================================================
