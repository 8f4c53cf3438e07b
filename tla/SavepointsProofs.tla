-------------------------- MODULE SavepointsProofs --------------------------
(***************************************************************************)
(* Savepoints, for every set of names and every bound: the journal can     *)
(* always be sliced where a frame says, what a failed statement left is    *)
(* never committed, and a ROLLBACK TO replays what the savepoint covered.  *)
(***************************************************************************)
EXTENDS Savepoints, SequenceTheorems, WellFoundedInduction, TLAPS

\* SavepointFrame as a type.
FrameType ==
  [name : Names, journal_len : Nat, implicit_tx : BOOLEAN, saved : Seq(Stmts)]

\* SessionState as a type; without a transaction it is empty.
Types ==
  /\ tx \in BOOLEAN /\ failed \in BOOLEAN
  /\ journal \in Seq(Stmts) /\ work \in Seq(Stmts) /\ done \in Seq(Stmts)
  /\ savepoints \in Seq(FrameType) /\ Len(savepoints) <= MaxDepth
  /\ committed \subseteq Stmts /\ nextStmt \in 1..(MaxStmts + 1)
  /\ ~tx => /\ ~failed
            /\ journal = <<>> /\ savepoints = <<>> /\ work = <<>> /\ done = <<>>

\* What failed statements left is in a failed transaction only.
Broken == broken \subseteq Range(work) /\ (~failed => broken = {})

\* FramesWithinJournal with the frames compared pairwise: ROLLBACK TO drops
\* any number of them at once.
Stack ==
  \A i \in DOMAIN savepoints :
    /\ savepoints[i].journal_len <= Len(journal)
    /\ i > 1 => ~savepoints[i].implicit_tx
    /\ \A k \in 1..i : savepoints[k].journal_len <= savepoints[i].journal_len

\* The journal, too, holds only what was done, in its order.
Order == Subsequence(journal, done) /\ UndoneStaysUndone

\* With neither a released outermost savepoint nor an RQL mutation the
\* journal is all that was done.
Replay ==
  met = {} =>
    /\ journal = done
    /\ \A i \in DOMAIN savepoints :
         SubSeq(journal, 1, savepoints[i].journal_len) = savepoints[i].saved

-----------------------------------------------------------------------------
\* Every nonempty set of naturals has a smallest element.
LEMMA SmallestNat ==
  ASSUME NEW T, T \subseteq Nat, T # {}
  PROVE  \E m \in T : \A y \in T : m <= y
<1> DEFINE R == OpToRel(<, Nat)
<1>1. IsWellFoundedOn(R, Nat)
  BY Zenon, NatLessThanWellFounded, Zenon
<1>2. R = {ss \in Nat \X Nat : ss[1] < ss[2]}
  BY Zenon DEF OpToRel
<1> HIDE DEF R
<1>3. PICK x \in T : \A y \in T : ~ (<<y, x>> \in R)
  BY Zenon, <1>1, WFMin, Zenon
<1>4. ASSUME NEW y \in T PROVE x <= y
  <2>1. x \in Nat /\ y \in Nat OBVIOUS
  <2>2. <<y, x>> \in R \/ ~ (y < x) BY Zenon, <2>1, <1>2
  <2> QED BY <2>1, <2>2, <1>3
<1> QED BY Zenon, <1>4

\* The search of RELEASE and ROLLBACK TO for a frame finds one.
LEMMA FrameFound ==
  ASSUME Types, NEW name, HasFrame(name)
  PROVE  /\ FrameIndex(name) \in 1..Len(savepoints)
         /\ DOMAIN savepoints = 1..Len(savepoints)
         /\ Len(savepoints) \in Nat
         /\ tx
<1> DEFINE n == Len(savepoints)
           named == {i \in DOMAIN savepoints : savepoints[i].name = name}
           above == {n - i : i \in named}
<1>1. n \in Nat /\ DOMAIN savepoints = 1..n
  BY DEF Types
<1>2. above \subseteq Nat /\ above # {}
  BY <1>1 DEF HasFrame
<1>3. PICK m \in above : \A y \in above : m <= y
  <2> HIDE DEF above
  <2> QED BY Zenon, <1>2, SmallestNat
<1>4. PICK i \in named : m = n - i
  BY Zenon, <1>3
<1>5. ASSUME NEW j \in named PROVE j <= i
  <2>1. i \in 1..n /\ j \in 1..n BY Zenon, <1>1, <1>4
  <2>2. m <= n - j BY Zenon, <1>3
  <2> QED BY <2>1, <2>2, <1>1, <1>4
<1>6. FrameIndex(name) \in named
  <2> HIDE DEF named
  <2>1. FrameIndex(name) = CHOOSE k \in named : \A j \in named : j <= k
    BY Zenon DEF FrameIndex, named
  <2> QED BY Zenon, <2>1, <1>5
<1>7. tx
  <2>1. savepoints # <<>> BY <1>1, <1>4
  <2> QED BY Zenon, <2>1 DEF Types
<1> QED BY Zenon, <1>1, <1>6, <1>7

\* A prefix of a sequence: the slice &journal[..len].
LEMMA PrefixOf ==
  ASSUME NEW S, NEW s \in Seq(S), NEW n \in Nat, n <= Len(s)
  PROVE  /\ SubSeq(s, 1, n) \in Seq(S)
         /\ Len(SubSeq(s, 1, n)) = n
         /\ DOMAIN SubSeq(s, 1, n) = 1..n
         /\ \A i \in 1..n : SubSeq(s, 1, n)[i] = s[i]
<1>1. \A i \in 1..n : s[i] \in S
  BY ElementOfSeq
<1> QED BY <1>1, SubSeqProperties

\* A longer journal has the same prefixes.
LEMMA PrefixOfAppend ==
  ASSUME NEW S, NEW s \in Seq(S), NEW x \in S, NEW n \in Nat, n <= Len(s)
  PROVE  SubSeq(Append(s, x), 1, n) = SubSeq(s, 1, n)
<1>1. /\ Append(s, x) \in Seq(S)
      /\ n <= Len(Append(s, x))
      /\ \A i \in 1..n : Append(s, x)[i] = s[i]
  BY AppendProperties
<1> DEFINE a == SubSeq(Append(s, x), 1, n)
           b == SubSeq(s, 1, n)
<1>2. /\ a \in Seq(S) /\ Len(a) = n
      /\ \A i \in 1..n : a[i] = s[i]
  BY Zenon, <1>1, PrefixOf
<1>3. b \in Seq(S) /\ Len(b) = n /\ \A i \in 1..n : b[i] = s[i]
  BY Zenon, PrefixOf
<1> HIDE DEF a, b
<1>4. a = b BY Zenon, <1>2, <1>3, SeqEqual
<1> QED BY Zenon, <1>4 DEF a, b

\* The prefixes of a prefix are prefixes of the journal.
LEMMA PrefixOfPrefix ==
  ASSUME NEW S, NEW s \in Seq(S), NEW n \in Nat, n <= Len(s), NEW m \in Nat, m <= n
  PROVE  SubSeq(SubSeq(s, 1, n), 1, m) = SubSeq(s, 1, m)
<1> DEFINE p == SubSeq(s, 1, n)
           a == SubSeq(p, 1, m)
           b == SubSeq(s, 1, m)
<1>1. p \in Seq(S) /\ Len(p) = n /\ \A i \in 1..n : p[i] = s[i]
  BY Zenon, PrefixOf
<1> HIDE DEF p
<1>2. a \in Seq(S) /\ Len(a) = m /\ \A i \in 1..m : a[i] = s[i]
  BY <1>1, PrefixOf
<1>3. b \in Seq(S) /\ Len(b) = m /\ \A i \in 1..m : b[i] = s[i]
  BY PrefixOf
<1> HIDE DEF a, b
<1>4. a = b BY Zenon, <1>2, <1>3, SeqEqual
<1> QED BY Zenon, <1>4 DEF a, b, p

-----------------------------------------------------------------------------
\* The empty sequence is a subsequence of every sequence.
LEMMA SubsequenceEmpty ==
  ASSUME NEW t
  PROVE  Subsequence(<<>>, t)
<1> DEFINE at == [i \in {} |-> 0]
<1>1. DOMAIN <<>> = {} OBVIOUS
<1>2. at \in [{} -> DOMAIN t] OBVIOUS
<1> QED BY Zenon, <1>1, <1>2 DEF Subsequence

\* A statement that is done after the others may be left out.
LEMMA SubsequenceSkip ==
  ASSUME NEW S, NEW s \in Seq(S), NEW t \in Seq(S), NEW x \in S,
         Subsequence(s, t)
  PROVE  Subsequence(s, Append(t, x))
<1> DEFINE u == Append(t, x)
<1>1. PICK at \in [DOMAIN s -> DOMAIN t] :
        /\ \A i \in DOMAIN s : s[i] = t[at[i]]
        /\ \A i, j \in DOMAIN s : i < j => at[i] < at[j]
  BY Zenon DEF Subsequence
<1>2. /\ DOMAIN t = 1..Len(t) /\ Len(t) \in Nat
      /\ u \in Seq(S) /\ Len(u) = Len(t) + 1 /\ \A i \in 1..Len(t) : u[i] = t[i]
  BY AppendProperties
<1> HIDE DEF u
<1>3. DOMAIN t \subseteq DOMAIN u
  BY <1>2
<1>4. at \in [DOMAIN s -> DOMAIN u]
  BY Zenon, <1>1, <1>3
<1>5. \A i \in DOMAIN s : s[i] = u[at[i]]
  BY Zenon, <1>1, <1>2
<1>6. Subsequence(s, u)
  BY Zenon, <1>1, <1>4, <1>5 DEF Subsequence
<1> QED BY Zenon, <1>6 DEF u

\* A statement that is done and journaled after the others comes last in both.
LEMMA SubsequenceAppend ==
  ASSUME NEW S, NEW s \in Seq(S), NEW t \in Seq(S), NEW x \in S,
         Subsequence(s, t)
  PROVE  Subsequence(Append(s, x), Append(t, x))
<1> DEFINE v == Append(s, x)
           u == Append(t, x)
           m == Len(s)
           n == Len(t)
<1>1. PICK at \in [DOMAIN s -> DOMAIN t] :
        /\ \A i \in DOMAIN s : s[i] = t[at[i]]
        /\ \A i, j \in DOMAIN s : i < j => at[i] < at[j]
  BY Zenon DEF Subsequence
<1>2. /\ DOMAIN t = 1..n /\ n \in Nat
      /\ DOMAIN u = 1..(n + 1) /\ \A i \in 1..n : u[i] = t[i]
      /\ u[n + 1] = x
  BY AppendProperties
<1>3. /\ DOMAIN s = 1..m /\ m \in Nat
      /\ DOMAIN v = 1..(m + 1) /\ \A i \in 1..m : v[i] = s[i]
      /\ v[m + 1] = x
  BY AppendProperties
<1> HIDE DEF u, v, m, n
<1> DEFINE to == [i \in 1..(m + 1) |-> IF i = m + 1 THEN n + 1 ELSE at[i]]
<1>4. \A i \in 1..m : at[i] \in 1..n
  BY Zenon, <1>1, <1>2, <1>3
<1>5. to \in [DOMAIN v -> DOMAIN u]
  BY <1>2, <1>3, <1>4
<1>6. \A i \in 1..m : to[i] = at[i]
  BY <1>3
<1>7. to[m + 1] = n + 1
  BY <1>3
<1> HIDE DEF to
<1>8. ASSUME NEW i \in DOMAIN v PROVE v[i] = u[to[i]]
  <2>1. CASE i = m + 1 BY Zenon, <2>1, <1>2, <1>3, <1>7
  <2>2. CASE i # m + 1
    <3>1. i \in 1..m BY <2>2, <1>3
    <3>2. s[i] = t[at[i]] BY Zenon, <3>1, <1>1, <1>3
    <3> QED BY Zenon, <3>1, <3>2, <1>2, <1>3, <1>4, <1>6
  <2> QED BY Zenon, <2>1, <2>2
<1>9. ASSUME NEW i \in DOMAIN v, NEW j \in DOMAIN v, i < j
      PROVE  to[i] < to[j]
  <2>1. i \in 1..m BY <1>3, <1>9
  <2>2. CASE j = m + 1 BY <2>1, <2>2, <1>2, <1>4, <1>6, <1>7
  <2>3. CASE j # m + 1
    <3>1. j \in 1..m BY <2>3, <1>3
    <3>2. at[i] < at[j] BY Zenon, <3>1, <2>1, <1>1, <1>3, <1>9
    <3> QED BY Zenon, <3>1, <3>2, <2>1, <1>6
  <2> QED BY Zenon, <2>2, <2>3
<1>10. Subsequence(v, u)
  BY Zenon, <1>5, <1>8, <1>9 DEF Subsequence
<1> QED BY Zenon, <1>10 DEF u, v

-----------------------------------------------------------------------------
\* The fields of a frame on the stack.
LEMMA FrameFields ==
  ASSUME Types, NEW i \in DOMAIN savepoints
  PROVE  /\ savepoints[i] \in FrameType
         /\ savepoints[i].name \in Names
         /\ savepoints[i].journal_len \in Nat
         /\ savepoints[i].implicit_tx \in BOOLEAN
         /\ savepoints[i].saved \in Seq(Stmts)
<1>1. savepoints[i] \in FrameType
  BY DEF Types
<1> QED BY Zenon, <1>1 DEF FrameType

\* A new frame is a SavepointFrame.
LEMMA NewFrame ==
  ASSUME Types, NEW name \in Names, NEW implicit \in BOOLEAN
  PROVE  /\ Frame(name, implicit) \in FrameType
         /\ Frame(name, implicit).journal_len = Len(journal)
         /\ Frame(name, implicit).implicit_tx = implicit
         /\ Frame(name, implicit).saved = done
<1>1. Len(journal) \in Nat BY DEF Types
<1>2. done \in Seq(Stmts) BY Zenon DEF Types
<1> QED BY Zenon, <1>1, <1>2 DEF Frame, FrameType

\* What the statements of the connection do to a sequence of statements.
LEMMA OneMore ==
  ASSUME Types, nextStmt <= MaxStmts, NEW s \in Seq(Stmts)
  PROVE  /\ nextStmt \in Stmts /\ nextStmt + 1 \in 1..(MaxStmts + 1)
         /\ Append(s, nextStmt) \in Seq(Stmts)
         /\ Len(Append(s, nextStmt)) = Len(s) + 1
         /\ Range(Append(s, nextStmt)) = Range(s) \cup {nextStmt}
<1>1. nextStmt \in Stmts /\ nextStmt + 1 \in 1..(MaxStmts + 1)
  BY SavepointsAssumption DEF Types, Stmts
<1> DEFINE u == Append(s, nextStmt)
<1>2. /\ u \in Seq(Stmts) /\ Len(u) = Len(s) + 1
      /\ \A i \in 1..Len(s) : u[i] = s[i]
      /\ u[Len(s) + 1] = nextStmt
  BY <1>1, AppendProperties
<1> HIDE DEF u
<1>3. DOMAIN u = 1..(Len(s) + 1) /\ DOMAIN s = 1..Len(s) /\ Len(s) \in Nat
  BY <1>2
<1>4. DOMAIN u = DOMAIN s \cup {Len(s) + 1}
  BY <1>3
<1>5. Range(u) = Range(s) \cup {nextStmt}
  BY <1>2, <1>3, <1>4 DEF Range
<1> QED BY Zenon, <1>1, <1>2, <1>5 DEF u

\* A frame that RELEASE or ROLLBACK TO finds, with those below it.
LEMMA FramesBelow ==
  ASSUME Types, NEW name, HasFrame(name), NEW pos, pos = FrameIndex(name),
         NEW n \in {pos - 1, pos}, NEW below, below = SubSeq(savepoints, 1, n)
  PROVE  /\ pos \in 1..Len(savepoints) /\ DOMAIN savepoints = 1..Len(savepoints)
         /\ savepoints[pos] \in FrameType
         /\ below \in Seq(FrameType) /\ Len(below) = n /\ n <= Len(savepoints)
         /\ n \in Nat /\ DOMAIN below = 1..n
         /\ \A i \in 1..n : below[i] = savepoints[i]
         /\ tx /\ Len(savepoints) \in Nat
<1>1. /\ pos \in 1..Len(savepoints) /\ DOMAIN savepoints = 1..Len(savepoints)
      /\ Len(savepoints) \in Nat /\ tx
  BY Zenon, FrameFound
<1>2. n \in Nat /\ n <= Len(savepoints)
  BY <1>1
<1>3. savepoints \in Seq(FrameType)
  BY Zenon DEF Types
<1>4. /\ below \in Seq(FrameType) /\ Len(below) = n /\ DOMAIN below = 1..n
      /\ \A i \in 1..n : below[i] = savepoints[i]
  BY ZenonT(30), <1>2, <1>3, PrefixOf
<1>5. savepoints[pos] \in FrameType
  BY Zenon, <1>1, <1>3, ElementOfSeq
<1> QED BY Zenon, <1>1, <1>2, <1>4, <1>5

\* The transaction ends in the state in which a connection begins.
LEMMA EndedTypes ==
  ASSUME Types, Ended, committed' \subseteq Stmts, UNCHANGED nextStmt
  PROVE  Types' /\ broken' = {} /\ savepoints' = <<>> /\ journal' = <<>> /\ done' = <<>>
<1>1. Len(savepoints') <= MaxDepth BY SavepointsAssumption DEF Ended
<1>2. /\ journal' \in Seq(Stmts) /\ work' \in Seq(Stmts) /\ done' \in Seq(Stmts)
      /\ savepoints' \in Seq(FrameType)
  BY DEF Ended
<1>3. nextStmt' \in 1..(MaxStmts + 1) BY Zenon DEF Types
<1> QED BY Zenon, <1>1, <1>2, <1>3 DEF Types, Ended

\* What COMMIT adds to the committed effects.
LEMMA CommitTypes ==
  ASSUME Types, CommitWork \/ UNCHANGED committed
  PROVE  committed' \subseteq Stmts
<1>1. Range(work) \subseteq Stmts
  BY DEF Types, Range
<1> QED BY Zenon, <1>1 DEF CommitWork, Types

\* Every statement keeps SessionState well-formed.
LEMMA TypesStep ==
  ASSUME Types, Stack, Next
  PROVE  Types'
<1>1. CASE Begin
  <2>1. 0 <= MaxDepth BY SavepointsAssumption
  <2> QED BY Zenon, <1>1, <2>1 DEF Begin, Types
<1>2. CASE ExecSql
  <2>1. nextStmt <= MaxStmts /\ tx BY Zenon, <1>2 DEF ExecSql
  <2>2. journal \in Seq(Stmts) /\ work \in Seq(Stmts) /\ done \in Seq(Stmts) BY Zenon DEF Types
  <2>3. journal' \in Seq(Stmts) /\ work' \in Seq(Stmts) /\ done' \in Seq(Stmts)
        /\ nextStmt' \in 1..(MaxStmts + 1)
    BY Zenon, <1>2, <2>1, <2>2, OneMore DEF ExecSql
  <2> QED BY Zenon, <1>2, <2>1, <2>3 DEF ExecSql, Types
<1>3. CASE ExecErr
  <2>1. nextStmt <= MaxStmts /\ tx BY Zenon, <1>3 DEF ExecErr
  <2>2. work \in Seq(Stmts) BY Zenon DEF Types
  <2>3. work' \in Seq(Stmts) /\ nextStmt' \in 1..(MaxStmts + 1)
    BY Zenon, <1>3, <2>1, <2>2, OneMore DEF ExecErr
  <2> QED BY Zenon, <1>3, <2>1, <2>3 DEF ExecErr, Types
<1>4. CASE ExecRql
  <2>1. nextStmt <= MaxStmts /\ tx BY Zenon, <1>4 DEF ExecRql
  <2>2. work \in Seq(Stmts) /\ done \in Seq(Stmts) BY Zenon DEF Types
  <2>3. work' \in Seq(Stmts) /\ done' \in Seq(Stmts) /\ nextStmt' \in 1..(MaxStmts + 1)
    BY Zenon, <1>4, <2>1, <2>2, OneMore DEF ExecRql
  <2> QED BY Zenon, <1>4, <2>1, <2>3 DEF ExecRql, Types
<1>5. CASE Autocommit
  <2>1. nextStmt <= MaxStmts BY Zenon, <1>5 DEF Autocommit
  <2>2. nextStmt \in Stmts /\ nextStmt' \in 1..(MaxStmts + 1)
    <3>1. work \in Seq(Stmts) BY Zenon DEF Types
    <3> QED BY Zenon, <1>5, <2>1, <3>1, OneMore DEF Autocommit
  <2> QED BY Zenon, <1>5, <2>2 DEF Autocommit, Types
<1>6. CASE Commit
  BY Zenon, <1>6, EndedTypes, CommitTypes DEF Commit
<1>7. CASE Rollback
  <2>1. committed' \subseteq Stmts BY Zenon, <1>7 DEF Rollback, Types
  <2> QED BY Zenon, <1>7, <2>1, EndedTypes DEF Rollback
<1>8. ASSUME NEW name \in Names, Savepoint(name) PROVE Types'
  <2>1. (~tx) \in BOOLEAN BY Zenon DEF Types
  <2>2. PICK f \in FrameType : f = Frame(name, ~tx)
    BY Zenon, <2>1, NewFrame
  <2>3. savepoints' = Append(savepoints, f)
    BY Zenon, <1>8, <2>2 DEF Savepoint
  <2>4. savepoints' \in Seq(FrameType) /\ Len(savepoints') = Len(savepoints) + 1
    BY Zenon, <2>3, AppendProperties DEF Types
  <2>5. Len(savepoints') <= MaxDepth
    BY <1>8, <2>4, SavepointsAssumption DEF Savepoint, Types
  <2> QED BY Zenon, <1>8, <2>4, <2>5 DEF Savepoint, Types
<1>9. ASSUME NEW name \in Names, Release(name) PROVE Types'
  <2>1. HasFrame(name) BY Zenon, <1>9 DEF Release
  <2>2. PICK pos : pos = FrameIndex(name) OBVIOUS
  <2>3. CASE Ended /\ (CommitWork \/ UNCHANGED committed) /\ UNCHANGED nextStmt
    BY Zenon, <2>3, EndedTypes, CommitTypes
  <2>4. CASE /\ savepoints' = SubSeq(savepoints, 1, pos - 1)
             /\ journal' = IF pos = 1 THEN <<>> ELSE journal
             /\ UNCHANGED <<tx, failed, work, broken, done, committed, nextStmt>>
    <3>1. savepoints' \in Seq(FrameType) /\ Len(savepoints') <= Len(savepoints) /\ tx
          /\ Len(savepoints') \in Nat /\ Len(savepoints) \in Nat
      BY ZenonT(30), <2>1, <2>2, <2>4, FramesBelow
    <3>2. journal' \in Seq(Stmts) BY <2>4 DEF Types
    <3>3. Len(savepoints') <= MaxDepth
      BY <3>1, SavepointsAssumption DEF Types
    <3> QED BY Zenon, <2>4, <3>1, <3>2, <3>3 DEF Types
  <2> QED BY Zenon, <1>9, <2>2, <2>3, <2>4 DEF Release
<1>10. ASSUME NEW name \in Names, RollbackTo(name) PROVE Types'
  <2>1. HasFrame(name) BY Zenon, <1>10 DEF RollbackTo
  <2>2. PICK pos : pos = FrameIndex(name) OBVIOUS
  <2>3. PICK prefix : prefix = SubSeq(journal, 1, savepoints[pos].journal_len) BY Zenon
  <2>4. savepoints' = SubSeq(savepoints, 1, pos) /\ journal' = prefix
        /\ done' = savepoints[pos].saved
        /\ UNCHANGED <<tx, committed, nextStmt>>
    BY Zenon, <1>10, <2>2, <2>3 DEF RollbackTo
  <2>5. /\ pos \in 1..Len(savepoints) /\ DOMAIN savepoints = 1..Len(savepoints)
        /\ savepoints[pos] \in FrameType
        /\ savepoints' \in Seq(FrameType) /\ Len(savepoints') <= Len(savepoints) /\ tx
        /\ Len(savepoints') \in Nat /\ Len(savepoints) \in Nat
    BY Zenon, <2>1, <2>2, <2>4, FramesBelow
  <2>6. savepoints[pos].journal_len \in Nat
        /\ savepoints[pos].journal_len <= Len(journal)
        /\ savepoints[pos].saved \in Seq(Stmts)
    BY Zenon, <2>5 DEF FrameType, Stack
  <2>7. prefix \in Seq(Stmts) /\ Len(prefix) = savepoints[pos].journal_len
    BY <2>3, <2>6, PrefixOf DEF Types
  <2>8. work' \in Seq(Stmts) /\ failed' \in BOOLEAN
    <3>1. CASE work' = prefix /\ failed' = FALSE BY Zenon, <3>1, <2>7
    <3>2. CASE \E i \in DOMAIN prefix : work' = SubSeq(prefix, 1, i) /\ failed' = TRUE
      <4>1. PICK i \in DOMAIN prefix : work' = SubSeq(prefix, 1, i) /\ failed' = TRUE
        BY Zenon, <3>2
      <4>2. i \in Nat /\ i <= Len(prefix) BY <2>7
      <4> QED BY Zenon, <4>1, <4>2, <2>7, PrefixOf
    <3> QED BY Zenon, <1>10, <2>2, <2>3, <3>1, <3>2 DEF RollbackTo
  <2>9. Len(savepoints') <= MaxDepth
    BY <2>5, SavepointsAssumption DEF Types
  <2> QED BY Zenon, <2>4, <2>5, <2>6, <2>7, <2>8, <2>9 DEF Types
<1> QED BY Zenon, <1>1, <1>2, <1>3, <1>4, <1>5, <1>6, <1>7, <1>8, <1>9, <1>10 DEF Next

-----------------------------------------------------------------------------
\* What failed statements left behind stays within a failed transaction.
LEMMA BrokenStep ==
  ASSUME Types, Stack, Broken, Next
  PROVE  Broken'
<1> USE DEF Broken
<1>1. CASE Begin
  BY Zenon, <1>1 DEF Begin, Types
<1>2. CASE ExecSql
  <2>1. Range(work') = Range(work) \cup {nextStmt}
    BY Zenon, <1>2, OneMore DEF ExecSql, Types
  <2> QED BY Zenon, <1>2, <2>1 DEF ExecSql
<1>3. CASE ExecErr
  <2>1. Range(work') = Range(work) \cup {nextStmt}
    BY Zenon, <1>3, OneMore DEF ExecErr, Types
  <2> QED BY Zenon, <1>3, <2>1 DEF ExecErr
<1>4. CASE ExecRql
  <2>1. Range(work') = Range(work) \cup {nextStmt}
    BY Zenon, <1>4, OneMore DEF ExecRql, Types
  <2> QED BY Zenon, <1>4, <2>1 DEF ExecRql
<1>5. CASE Autocommit
  BY Zenon, <1>5 DEF Autocommit
<1>6. CASE Ended
  BY Zenon, <1>6 DEF Ended
<1>7. ASSUME NEW name \in Names, Savepoint(name) PROVE Broken'
  BY Zenon, <1>7 DEF Savepoint, Types
<1>8. ASSUME NEW name \in Names, Release(name) PROVE Broken'
  <2>1. Ended \/ UNCHANGED <<failed, work, broken>>
    BY Zenon, <1>8 DEF Release
  <2> QED BY Zenon, <2>1, <1>6
<1>9. ASSUME NEW name \in Names, RollbackTo(name) PROVE Broken'
  <2>1. PICK pos : pos = FrameIndex(name) OBVIOUS
  <2>2. PICK prefix : prefix = SubSeq(journal, 1, savepoints[pos].journal_len) BY Zenon
  <2>3. CASE work' = prefix /\ broken' = {}
    BY Zenon, <2>3
  <2>4. CASE \E i \in DOMAIN prefix :
               work' = SubSeq(prefix, 1, i) /\ broken' = {prefix[i]} /\ failed' = TRUE
    <3>1. PICK i \in DOMAIN prefix :
            work' = SubSeq(prefix, 1, i) /\ broken' = {prefix[i]} /\ failed' = TRUE
      BY Zenon, <2>4
    <3>2. prefix \in Seq(Stmts)
      <4>1. HasFrame(name) /\ journal' = prefix
        BY Zenon, <1>9, <2>1, <2>2 DEF RollbackTo
      <4> QED BY Zenon, <4>1, TypesStep DEF Types
    <3>3. i \in Nat /\ i <= Len(prefix) /\ i \in 1..i
      BY <3>2
    <3>4. DOMAIN SubSeq(prefix, 1, i) = 1..i /\ SubSeq(prefix, 1, i)[i] = prefix[i]
      BY <3>2, <3>3, PrefixOf
    <3>5. prefix[i] \in Range(work')
      BY Zenon, <3>1, <3>3, <3>4 DEF Range
    <3> QED BY Zenon, <3>1, <3>5
  <2> QED BY Zenon, <1>9, <2>1, <2>2, <2>3, <2>4 DEF RollbackTo
<1> QED BY ZenonT(30), <1>1, <1>2, <1>3, <1>4, <1>5, <1>6, <1>7, <1>8, <1>9 DEF Next, Commit, Rollback

\* Frames stay in the order of the journal and within it.
LEMMA StackStep ==
  ASSUME Types, Stack, Next
  PROVE  Stack'
<1> USE DEF Stack
<1>1. CASE savepoints' = <<>>
  BY <1>1
<1>2. CASE UNCHANGED savepoints /\ (journal' = journal \/ journal' = Append(journal, nextStmt))
           /\ nextStmt <= MaxStmts
  <2>1. Len(journal') \in Nat /\ Len(journal) \in Nat /\ Len(journal) <= Len(journal')
    BY <1>2, OneMore DEF Types
  <2>2. ASSUME NEW i \in DOMAIN savepoints PROVE savepoints[i].journal_len \in Nat
    BY Zenon, FrameFields
  <2>3. ASSUME NEW i \in DOMAIN savepoints PROVE savepoints[i].journal_len <= Len(journal')
    BY <2>1, <2>2
  <2> QED BY Zenon, <1>2, <2>3
<1>3. ASSUME NEW name \in Names, Savepoint(name) PROVE Stack'
  <2>1. PICK f \in FrameType : /\ f = Frame(name, ~tx) /\ f.journal_len = Len(journal)
                               /\ f.implicit_tx = ~tx
    <3>1. (~tx) \in BOOLEAN BY Zenon DEF Types
    <3> QED BY Zenon, <3>1, NewFrame
  <2>2. savepoints' = Append(savepoints, f) /\ journal' = journal
    BY Zenon, <1>3, <2>1 DEF Savepoint
  <2>3. PICK n \in Nat : n = Len(savepoints)
    BY DEF Types
  <2>4. /\ DOMAIN savepoints' = 1..(n + 1) /\ DOMAIN savepoints = 1..n
        /\ \A i \in 1..n : savepoints'[i] = savepoints[i]
        /\ savepoints'[n + 1] = f
    BY <2>2, <2>3, AppendProperties DEF Types
  <2>5. n > 0 => tx
    BY <2>3 DEF Types
  <2>6. ASSUME NEW i \in 1..(n + 1)
        PROVE  /\ savepoints'[i].journal_len <= Len(journal)
               /\ i > 1 => ~savepoints'[i].implicit_tx
               /\ \A k \in 1..i : savepoints'[k].journal_len <= savepoints'[i].journal_len
    <3>1. Len(journal) \in Nat BY DEF Types
    <3>2. CASE i = n + 1
      <4>1. ASSUME NEW k \in 1..i PROVE savepoints'[k].journal_len <= Len(journal)
        <5>1. CASE k = n + 1 BY <5>1, <2>1, <2>4, <3>1
        <5>2. CASE k # n + 1
          <6>1. k \in 1..n BY <5>2, <3>2
          <6> QED BY Zenon, <6>1, <2>4
        <5> QED BY Zenon, <5>1, <5>2
      <4>2. savepoints'[i] = f BY Zenon, <3>2, <2>4
      <4>3. i > 1 => tx BY <3>2, <2>3, <2>5
      <4>4. i > 1 => ~savepoints'[i].implicit_tx BY Zenon, <4>2, <4>3, <2>1
      <4> QED BY <3>1, <4>1, <4>2, <4>4, <2>1
    <3>3. CASE i # n + 1
      <4>1. i \in 1..n /\ \A k \in 1..i : k \in 1..n BY <3>3, <2>6
      <4> QED BY Zenon, <4>1, <2>4
    <3> QED BY Zenon, <3>2, <3>3
  <2> QED BY Zenon, <2>2, <2>4, <2>6
<1>4. ASSUME NEW name \in Names, Release(name) PROVE Stack'
  <2>1. HasFrame(name) BY Zenon, <1>4 DEF Release
  <2>2. PICK pos : pos = FrameIndex(name) OBVIOUS
  <2>3. CASE Ended
    BY Zenon, <2>3, <1>1 DEF Ended
  <2>4. CASE /\ savepoints' = SubSeq(savepoints, 1, pos - 1)
             /\ journal' = IF pos = 1 THEN <<>> ELSE journal
    <3>1. /\ pos \in 1..Len(savepoints) /\ DOMAIN savepoints = 1..Len(savepoints)
          /\ DOMAIN savepoints' = 1..(pos - 1) /\ Len(savepoints) \in Nat
          /\ \A i \in 1..(pos - 1) : savepoints'[i] = savepoints[i]
      BY ZenonT(30), <2>1, <2>2, <2>4, FramesBelow
    <3>2. ASSUME NEW i \in 1..(pos - 1)
          PROVE  i \in DOMAIN savepoints /\ journal' = journal
                 /\ \A k \in 1..i : k \in 1..(pos - 1)
      BY <2>4, <3>1
    <3> QED BY <3>1, <3>2
  <2> QED BY Zenon, <1>4, <2>2, <2>3, <2>4 DEF Release
<1>5. ASSUME NEW name \in Names, RollbackTo(name) PROVE Stack'
  <2>1. HasFrame(name) BY Zenon, <1>5 DEF RollbackTo
  <2>2. PICK pos : pos = FrameIndex(name) OBVIOUS
  <2>3. savepoints' = SubSeq(savepoints, 1, pos)
        /\ journal' = SubSeq(journal, 1, savepoints[pos].journal_len)
    BY Zenon, <1>5, <2>2 DEF RollbackTo
  <2>4. /\ pos \in 1..Len(savepoints) /\ DOMAIN savepoints = 1..Len(savepoints)
        /\ savepoints[pos] \in FrameType /\ Len(savepoints) \in Nat
        /\ DOMAIN savepoints' = 1..pos
        /\ \A i \in 1..pos : savepoints'[i] = savepoints[i]
    BY ZenonT(30), <2>1, <2>2, <2>3, FramesBelow
  <2>5. savepoints[pos].journal_len \in Nat
        /\ savepoints[pos].journal_len <= Len(journal)
    BY Zenon, <2>4 DEF FrameType
  <2>6. Len(journal') = savepoints[pos].journal_len
    BY <2>3, <2>5, PrefixOf DEF Types
  <2>7. ASSUME NEW i \in 1..pos
        PROVE  /\ i \in DOMAIN savepoints /\ savepoints[i].journal_len <= Len(journal')
               /\ \A k \in 1..i : k \in 1..pos
    BY <2>4, <2>6
  <2> QED BY <2>4, <2>7
<1>6. CASE Autocommit
  BY Zenon, <1>6, <1>1 DEF Autocommit, Types
<1> QED
  BY Zenon, <1>1, <1>2, <1>3, <1>4, <1>5, <1>6
  DEF Next, Begin, ExecSql, ExecErr, ExecRql, Commit, Rollback, Ended

-----------------------------------------------------------------------------
\* A statement leaves the slices of the frames alone.
LEMMA SlicesKept ==
  ASSUME Types, Stack, NEW x \in Stmts, NEW i \in DOMAIN savepoints
  PROVE  SubSeq(Append(journal, x), 1, savepoints[i].journal_len)
           = SubSeq(journal, 1, savepoints[i].journal_len)
<1>1. savepoints[i].journal_len \in Nat /\ savepoints[i].journal_len <= Len(journal)
  BY Zenon, FrameFields DEF Stack
<1>2. journal \in Seq(Stmts) BY Zenon DEF Types
<1> QED BY Zenon, <1>1, <1>2, PrefixOfAppend

\* A savepoint covers the whole journal; ROLLBACK TO keeps the slices of the
\* frames it leaves.
LEMMA SavepointSlices ==
  ASSUME Types, NEW name \in Names, Savepoint(name)
  PROVE  /\ journal' = journal /\ done' = done /\ met' = met
         /\ \A i \in DOMAIN savepoints' :
              \/ i \in DOMAIN savepoints /\ savepoints'[i] = savepoints[i]
              \/ /\ savepoints'[i].saved = done
                 /\ SubSeq(journal, 1, savepoints'[i].journal_len) = journal
<1>1. PICK f \in FrameType : /\ f = Frame(name, ~tx) /\ f.journal_len = Len(journal)
                             /\ f.saved = done
  <2>1. (~tx) \in BOOLEAN BY Zenon DEF Types
  <2> QED BY Zenon, <2>1, NewFrame
<1>2. savepoints' = Append(savepoints, f) /\ journal' = journal /\ done' = done /\ met' = met
  BY Zenon, <1>1, Zenon DEF Savepoint
<1>3. PICK n \in Nat : n = Len(savepoints)
  BY DEF Types
<1>4. /\ DOMAIN savepoints' = 1..(n + 1) /\ DOMAIN savepoints = 1..n
      /\ \A i \in 1..n : savepoints'[i] = savepoints[i]
      /\ savepoints'[n + 1] = f
  BY <1>2, <1>3, AppendProperties DEF Types
<1>5. SubSeq(journal, 1, f.journal_len) = journal
  BY Zenon, <1>1, SubSeqFull DEF Types
<1>6. ASSUME NEW i \in DOMAIN savepoints'
      PROVE  \/ i \in DOMAIN savepoints /\ savepoints'[i] = savepoints[i]
             \/ /\ savepoints'[i].saved = done
                /\ SubSeq(journal, 1, savepoints'[i].journal_len) = journal
  <2>1. CASE i = n + 1 BY Zenon, <2>1, <1>1, <1>4, <1>5
  <2>2. CASE i # n + 1
    <3>1. i \in 1..n BY <2>2, <1>4
    <3> QED BY Zenon, <3>1, <1>4
  <2> QED BY Zenon, <2>1, <2>2
<1> QED BY Zenon, <1>2, <1>6

\* RELEASE either empties the stack, and the journal with it, or keeps the
\* journal and the frames below.
LEMMA ReleaseSlices ==
  ASSUME Types, NEW name \in Names, Release(name)
  PROVE  \/ Ended
         \/ savepoints' = <<>> /\ journal' = <<>> /\ done' = done /\ "release" \in met'
         \/ /\ journal' = journal /\ done' = done /\ met' = met
            /\ \A i \in DOMAIN savepoints' :
                 i \in DOMAIN savepoints /\ savepoints'[i] = savepoints[i]
<1>1. HasFrame(name) BY Zenon DEF Release
<1>2. PICK pos : pos = FrameIndex(name) OBVIOUS
<1>3. CASE /\ savepoints' = SubSeq(savepoints, 1, pos - 1)
           /\ journal' = IF pos = 1 THEN <<>> ELSE journal
           /\ met' = met \cup IF pos = 1 THEN {"release"} ELSE {}
           /\ done' = done
  <2>1. /\ pos \in 1..Len(savepoints) /\ DOMAIN savepoints = 1..Len(savepoints)
        /\ DOMAIN savepoints' = 1..(pos - 1) /\ Len(savepoints) \in Nat
        /\ savepoints' \in Seq(FrameType) /\ Len(savepoints') = pos - 1
        /\ \A i \in 1..(pos - 1) : savepoints'[i] = savepoints[i]
    BY ZenonT(30), <1>1, <1>2, <1>3, FramesBelow
  <2>2. CASE pos = 1
    <3>1. savepoints' = <<>> BY <2>1, <2>2, EmptySeq
    <3> QED BY Zenon, <3>1, <2>2, <1>3
  <2>3. CASE pos # 1
    <3>1. \A i \in 1..(pos - 1) : i \in DOMAIN savepoints BY <2>1
    <3> QED BY Zenon, <3>1, <2>1, <2>3, <1>3
  <2> QED BY Zenon, <2>2, <2>3
<1> QED BY Zenon, <1>2, <1>3 DEF Release

\* ROLLBACK TO makes a frame's slice the journal and what it had saved what
\* is done; the slices of the frames it leaves are the same.
LEMMA RollbackToSlices ==
  ASSUME Types, Stack, NEW name \in Names, RollbackTo(name)
  PROVE  /\ met' = met
         /\ \E p \in DOMAIN savepoints :
              /\ journal' = SubSeq(journal, 1, savepoints[p].journal_len)
              /\ done' = savepoints[p].saved
         /\ \A i \in DOMAIN savepoints' :
              /\ i \in DOMAIN savepoints /\ savepoints'[i] = savepoints[i]
              /\ SubSeq(journal', 1, savepoints[i].journal_len)
                   = SubSeq(journal, 1, savepoints[i].journal_len)
<1>1. HasFrame(name) BY Zenon DEF RollbackTo
<1>2. PICK pos : pos = FrameIndex(name) OBVIOUS
<1>3. /\ savepoints' = SubSeq(savepoints, 1, pos)
      /\ journal' = SubSeq(journal, 1, savepoints[pos].journal_len)
      /\ done' = savepoints[pos].saved /\ met' = met
  BY Zenon, <1>2 DEF RollbackTo
<1>4. /\ pos \in 1..Len(savepoints) /\ DOMAIN savepoints = 1..Len(savepoints)
      /\ Len(savepoints) \in Nat /\ DOMAIN savepoints' = 1..pos
      /\ \A i \in 1..pos : savepoints'[i] = savepoints[i]
  BY ZenonT(30), <1>1, <1>2, <1>3, FramesBelow
<1>5. ASSUME NEW i \in 1..pos
      PROVE  /\ i \in DOMAIN savepoints
             /\ SubSeq(journal', 1, savepoints[i].journal_len)
                  = SubSeq(journal, 1, savepoints[i].journal_len)
  <2>1. i \in DOMAIN savepoints /\ pos \in DOMAIN savepoints BY <1>4
  <2>2. PICK m \in Nat : m = savepoints[i].journal_len
    BY Zenon, <2>1, FrameFields
  <2>3. PICK n \in Nat : n = savepoints[pos].journal_len
    BY Zenon, <2>1, FrameFields
  <2>4. m <= n /\ n <= Len(journal)
    BY Zenon, <2>1, <2>2, <2>3, <1>4 DEF Stack
  <2>5. journal \in Seq(Stmts) BY Zenon DEF Types
  <2>6. SubSeq(SubSeq(journal, 1, n), 1, m) = SubSeq(journal, 1, m)
    BY Zenon, <2>4, <2>5, PrefixOfPrefix
  <2> QED BY Zenon, <2>1, <2>2, <2>3, <2>6, <1>3
<1> QED BY Zenon, <1>3, <1>4, <1>5

\* The statements a frame would replay stay a subsequence of what it saved.
LEMMA OrderStep ==
  ASSUME Types, Stack, Order, Next
  PROVE  Order'
<1>0. journal \in Seq(Stmts) /\ done \in Seq(Stmts)
  BY Zenon DEF Types
<1>1. CASE savepoints' = <<>> /\ journal' = <<>>
  <2>1. Subsequence(<<>>, done') BY Zenon, SubsequenceEmpty
  <2> QED BY <1>1, <2>1 DEF Order, UndoneStaysUndone
<1>2. CASE UNCHANGED <<savepoints, journal, done>>
  BY Zenon, <1>2 DEF Order, UndoneStaysUndone
<1>3. CASE ExecSql
  <2>1. nextStmt \in Stmts BY Zenon, <1>0, <1>3, OneMore DEF ExecSql
  <2>2. Subsequence(Append(journal, nextStmt), Append(done, nextStmt))
    BY Zenon, <1>0, <2>1, SubsequenceAppend DEF Order
  <2>3. /\ journal' = Append(journal, nextStmt) /\ done' = Append(done, nextStmt)
        /\ savepoints' = savepoints
    BY Zenon, <1>3 DEF ExecSql
  <2>4. Subsequence(journal', done') BY Zenon, <2>2, <2>3
  <2>5. ASSUME NEW i \in DOMAIN savepoints'
        PROVE  Subsequence(SubSeq(journal', 1, savepoints'[i].journal_len),
                           savepoints'[i].saved)
    <3>1. SubSeq(journal', 1, savepoints[i].journal_len)
            = SubSeq(journal, 1, savepoints[i].journal_len)
      BY Zenon, <2>1, <2>3, SlicesKept
    <3> QED BY Zenon, <2>3, <3>1 DEF Order, UndoneStaysUndone
  <2> QED BY Zenon, <2>4, <2>5 DEF Order, UndoneStaysUndone
<1>4. CASE ExecRql
  <2>1. nextStmt \in Stmts BY Zenon, <1>0, <1>4, OneMore DEF ExecRql
  <2>2. Subsequence(journal, Append(done, nextStmt))
    BY Zenon, <1>0, <2>1, SubsequenceSkip DEF Order
  <2>3. /\ journal' = journal /\ done' = Append(done, nextStmt)
        /\ savepoints' = savepoints /\ savepoints = <<>>
    BY Zenon, <1>4 DEF ExecRql
  <2>4. Subsequence(journal', done') BY Zenon, <2>2, <2>3
  <2> QED BY Zenon, <2>3, <2>4 DEF Order, UndoneStaysUndone
<1>5. ASSUME NEW name \in Names, Savepoint(name) PROVE Order'
  <2>1. Subsequence(journal', done') BY Zenon, <1>5, SavepointSlices DEF Order
  <2>2. ASSUME NEW i \in DOMAIN savepoints'
        PROVE  Subsequence(SubSeq(journal', 1, savepoints'[i].journal_len),
                           savepoints'[i].saved)
    <3>1. CASE i \in DOMAIN savepoints /\ savepoints'[i] = savepoints[i]
      <4>1. journal' = journal BY Zenon, <1>5, SavepointSlices
      <4> QED BY Zenon, <3>1, <4>1 DEF Order, UndoneStaysUndone
    <3>2. CASE /\ savepoints'[i].saved = done
               /\ SubSeq(journal, 1, savepoints'[i].journal_len) = journal
      <4>1. journal' = journal BY Zenon, <1>5, SavepointSlices
      <4> QED BY Zenon, <3>2, <4>1 DEF Order
    <3> QED BY Zenon, <1>5, <3>1, <3>2, SavepointSlices
  <2> QED BY Zenon, <2>1, <2>2 DEF Order, UndoneStaysUndone
<1>6. ASSUME NEW name \in Names, Release(name) PROVE Order'
  <2>1. CASE Ended BY Zenon, <2>1, <1>1 DEF Ended
  <2>2. CASE /\ journal' = journal /\ done' = done
             /\ \A i \in DOMAIN savepoints' :
                  i \in DOMAIN savepoints /\ savepoints'[i] = savepoints[i]
    <3>1. Subsequence(journal', done') BY Zenon, <2>2 DEF Order
    <3>2. ASSUME NEW i \in DOMAIN savepoints'
          PROVE  Subsequence(SubSeq(journal', 1, savepoints'[i].journal_len),
                             savepoints'[i].saved)
      BY Zenon, <2>2 DEF Order, UndoneStaysUndone
    <3> QED BY Zenon, <3>1, <3>2 DEF Order, UndoneStaysUndone
  <2> QED BY Zenon, <1>1, <1>6, <2>1, <2>2, ReleaseSlices
<1>7. ASSUME NEW name \in Names, RollbackTo(name) PROVE Order'
  <2>1. PICK p \in DOMAIN savepoints :
          /\ journal' = SubSeq(journal, 1, savepoints[p].journal_len)
          /\ done' = savepoints[p].saved
    BY Zenon, <1>7, RollbackToSlices
  <2>2. Subsequence(journal', done') BY Zenon, <2>1 DEF Order, UndoneStaysUndone
  <2>3. ASSUME NEW i \in DOMAIN savepoints'
        PROVE  Subsequence(SubSeq(journal', 1, savepoints'[i].journal_len),
                           savepoints'[i].saved)
    <3>1. /\ i \in DOMAIN savepoints /\ savepoints'[i] = savepoints[i]
          /\ SubSeq(journal', 1, savepoints[i].journal_len)
               = SubSeq(journal, 1, savepoints[i].journal_len)
      BY Zenon, <1>7, RollbackToSlices
    <3> QED BY Zenon, <3>1 DEF Order, UndoneStaysUndone
  <2> QED BY Zenon, <2>2, <2>3 DEF Order, UndoneStaysUndone
<1> QED
  BY ZenonT(30), <1>1, <1>2, <1>3, <1>4, <1>5, <1>6, <1>7
  DEF Next, Begin, ExecErr, Autocommit, Commit, Rollback, Ended

\* The journal is what was done, in every frame and in all.
LEMMA ReplayStep ==
  ASSUME Types, Stack, Replay, Next
  PROVE  Replay'
<1>1. CASE savepoints' = <<>> /\ journal' = <<>> /\ done' = <<>>
  BY <1>1 DEF Replay
<1>2. CASE UNCHANGED <<savepoints, journal, done, met>>
  BY Zenon, <1>2 DEF Replay
<1>3. CASE Begin
  BY Zenon, <1>1, <1>3 DEF Begin, Types
<1>4. CASE ExecSql
  <2>1. nextStmt \in Stmts BY Zenon, <1>4, OneMore DEF ExecSql, Types
  <2>2. /\ journal' = Append(journal, nextStmt) /\ done' = Append(done, nextStmt)
        /\ savepoints' = savepoints /\ met' = met
    BY Zenon, <1>4 DEF ExecSql
  <2>3. \A i \in DOMAIN savepoints :
          SubSeq(journal', 1, savepoints[i].journal_len)
            = SubSeq(journal, 1, savepoints[i].journal_len)
    BY Zenon, <2>1, <2>2, SlicesKept
  <2> QED BY Zenon, <2>2, <2>3 DEF Replay
<1>5. CASE ExecRql
  <2>1. met' # {} BY Zenon, <1>5 DEF ExecRql
  <2> QED BY Zenon, <2>1 DEF Replay
<1>6. ASSUME NEW name \in Names, Savepoint(name) PROVE Replay'
  <2> SUFFICES ASSUME met' = {} PROVE Replay' BY Zenon DEF Replay
  <2>1. journal' = journal /\ done' = done /\ journal = done
    BY Zenon, <1>6, SavepointSlices DEF Replay
  <2>2. ASSUME NEW i \in DOMAIN savepoints'
        PROVE  SubSeq(journal', 1, savepoints'[i].journal_len) = savepoints'[i].saved
    <3>1. CASE i \in DOMAIN savepoints /\ savepoints'[i] = savepoints[i]
      <4>1. met = {} BY Zenon, <1>6, SavepointSlices
      <4> QED BY Zenon, <2>1, <3>1, <4>1 DEF Replay
    <3>2. CASE /\ savepoints'[i].saved = done
               /\ SubSeq(journal, 1, savepoints'[i].journal_len) = journal
      BY Zenon, <2>1, <3>2
    <3> QED BY Zenon, <1>6, <3>1, <3>2, SavepointSlices
  <2> QED BY Zenon, <2>1, <2>2 DEF Replay
<1>7. ASSUME NEW name \in Names, Release(name) PROVE Replay'
  <2>1. CASE Ended BY Zenon, <2>1, <1>1 DEF Ended
  <2>2. CASE "release" \in met' BY Zenon, <2>2 DEF Replay
  <2>3. CASE /\ journal' = journal /\ done' = done /\ met' = met
             /\ \A i \in DOMAIN savepoints' :
                  i \in DOMAIN savepoints /\ savepoints'[i] = savepoints[i]
    BY Zenon, <2>3 DEF Replay
  <2> QED BY Zenon, <1>7, <2>1, <2>2, <2>3, ReleaseSlices
<1>8. ASSUME NEW name \in Names, RollbackTo(name) PROVE Replay'
  <2> SUFFICES ASSUME met' = {} PROVE Replay' BY Zenon DEF Replay
  <2>1. met = {} BY Zenon, <1>8, RollbackToSlices
  <2>2. PICK p \in DOMAIN savepoints :
          /\ journal' = SubSeq(journal, 1, savepoints[p].journal_len)
          /\ done' = savepoints[p].saved
    BY Zenon, <1>8, RollbackToSlices
  <2>3. journal' = done' BY Zenon, <2>1, <2>2 DEF Replay
  <2>4. ASSUME NEW i \in DOMAIN savepoints'
        PROVE  SubSeq(journal', 1, savepoints'[i].journal_len) = savepoints'[i].saved
    <3>1. /\ i \in DOMAIN savepoints /\ savepoints'[i] = savepoints[i]
          /\ SubSeq(journal', 1, savepoints[i].journal_len)
               = SubSeq(journal, 1, savepoints[i].journal_len)
      BY Zenon, <1>8, RollbackToSlices
    <3> QED BY Zenon, <2>1, <3>1 DEF Replay
  <2> QED BY Zenon, <2>3, <2>4 DEF Replay
<1> QED
  BY ZenonT(30), <1>1, <1>2, <1>3, <1>4, <1>5, <1>6, <1>7, <1>8
  DEF Next, ExecErr, Autocommit, Commit, Rollback, Ended

-----------------------------------------------------------------------------
\* The inductive invariant: each part is needed by the next.
SavepointsInv == Types /\ Broken /\ Stack /\ Order /\ Replay

\* SessionState satisfies the inductive invariant, whatever statements the
\* connection executes and whichever of them fail.
THEOREM SessionSafety == Spec => []SavepointsInv
<1>1. Init => SavepointsInv
  <2> SUFFICES ASSUME Init PROVE SavepointsInv OBVIOUS
  <2>1. 0 <= MaxDepth /\ 1 \in 1..(MaxStmts + 1) BY SavepointsAssumption
  <2>2. Types
    <3>1. /\ journal \in Seq(Stmts) /\ work \in Seq(Stmts) /\ done \in Seq(Stmts)
          /\ savepoints \in Seq(FrameType) /\ Len(savepoints) <= MaxDepth
      BY <2>1 DEF Init
    <3> QED BY Zenon, <2>1, <3>1 DEF Init, Types
  <2>3. Broken BY Zenon DEF Init, Broken
  <2>4. Stack BY DEF Init, Stack
  <2>5. Order
    <3>1. Subsequence(<<>>, <<>>) BY Zenon, SubsequenceEmpty
    <3> QED BY <3>1 DEF Init, Order, UndoneStaysUndone
  <2>6. Replay BY DEF Init, Replay
  <2> QED BY Zenon, <2>2, <2>3, <2>4, <2>5, <2>6 DEF SavepointsInv
<1>2. SavepointsInv /\ [Next]_vars => SavepointsInv'
  <2> SUFFICES ASSUME SavepointsInv, [Next]_vars PROVE SavepointsInv' OBVIOUS
  <2>1. CASE Next
    BY Zenon, <2>1, TypesStep, BrokenStep, StackStep, OrderStep, ReplayStep DEF SavepointsInv
  <2>2. CASE UNCHANGED vars
    <3>1. Types' BY Zenon, <2>2, Zenon DEF vars, SavepointsInv, Types, FrameType, Stmts
    <3>2. Broken' BY Zenon, <2>2 DEF vars, SavepointsInv, Broken, Range
    <3>3. Stack' BY Zenon, <2>2, Zenon DEF vars, SavepointsInv, Stack
    <3>4. Order'
      BY Zenon, <2>2 DEF vars, SavepointsInv, Order, UndoneStaysUndone
    <3>5. Replay' BY Zenon, <2>2, Zenon DEF vars, SavepointsInv, Replay
    <3> QED BY Zenon, <3>1, <3>2, <3>3, <3>4, <3>5 DEF SavepointsInv
  <2> QED BY Zenon, <2>1, <2>2
<1> QED BY <1>1, <1>2, PTL DEF Spec

\* SessionState keeps its types, and without a transaction there is neither
\* journal nor savepoint.
THEOREM SessionIsWellFormed == Spec => []TypeOK
<1>1. SavepointsInv => TypeOK
  <2> SUFFICES ASSUME SavepointsInv PROVE TypeOK OBVIOUS
  <2>1. Types /\ Broken BY Zenon DEF SavepointsInv
  <2>2. \A i \in DOMAIN savepoints :
          /\ savepoints[i].name \in Names /\ savepoints[i].implicit_tx \in BOOLEAN
          /\ savepoints[i].journal_len \in Nat
    BY Zenon, <2>1, FrameFields
  <2> QED BY Zenon, <2>1, <2>2 DEF Types, Broken, TypeOK
<1> QED BY <1>1, SessionSafety, PTL

\* ROLLBACK TO never slices the journal beyond its end, and only the outermost
\* frame can have opened the transaction.
THEOREM SlicesNeverPanic == Spec => []FramesWithinJournal
<1>1. SavepointsInv => FramesWithinJournal
  <2> SUFFICES ASSUME SavepointsInv, NEW i \in DOMAIN savepoints
               PROVE  /\ savepoints[i].journal_len <= Len(journal)
                      /\ i > 1 => /\ ~savepoints[i].implicit_tx
                                  /\ savepoints[i - 1].journal_len
                                       <= savepoints[i].journal_len
    BY Zenon DEF FramesWithinJournal
  <2>1. Types /\ Stack BY Zenon DEF SavepointsInv
  <2>2. i \in Nat /\ (i > 1 => i - 1 \in 1..i)
    BY <2>1 DEF Types
  <2> QED BY Zenon, <2>1, <2>2 DEF Stack
<1> QED BY <1>1, SessionSafety, PTL

\* COMMIT, RELEASE and the statements that commit by themselves never commit
\* what a failed statement left behind.
THEOREM FailedWorkIsDropped == Spec => FailedWorkNeverCommitted
<1>1. SavepointsInv /\ [Next]_vars => [(committed' \ committed) \cap broken = {}]_vars
  <2> SUFFICES ASSUME SavepointsInv, Next
               PROVE  (committed' \ committed) \cap broken = {}
    OBVIOUS
  <2>1. ~failed => broken = {} BY Zenon DEF SavepointsInv, Broken
  <2>2. CASE committed' = committed BY Zenon, <2>2
  <2>3. CASE Autocommit BY Zenon, <2>1, <2>3 DEF Autocommit, SavepointsInv, Types
  <2>4. CASE Commit BY Zenon, <2>1, <2>4 DEF Commit
  <2>5. ASSUME NEW name \in Names, Release(name), committed' # committed
        PROVE  ~failed
    BY Zenon, <2>5 DEF Release
  <2> QED
    BY Zenon, <2>1, <2>2, <2>3, <2>4, <2>5
    DEF Next, Begin, ExecSql, ExecErr, ExecRql, Rollback, Savepoint, RollbackTo
<1> QED BY <1>1, SessionSafety, PTL DEF Spec, FailedWorkNeverCommitted

\* ROLLBACK TO never brings back a statement that was not done at SAVEPOINT,
\* and replays in the original order, whatever the transaction has met.
THEOREM ReplayInOrder == Spec => []UndoneStaysUndone
<1>1. SavepointsInv => UndoneStaysUndone
  BY Zenon DEF SavepointsInv, Order
<1> QED BY <1>1, SessionSafety, PTL

\* In a transaction without an RQL mutation that never released its outermost
\* savepoint, ROLLBACK TO replays exactly what had been done at SAVEPOINT.
THEOREM ReplayIsComplete ==
  ASSUME Hazards = {}
  PROVE  Spec => []PrefixReplaysSavepoint
<1>1. SavepointsInv => PrefixReplaysSavepoint
  BY Zenon DEF SavepointsInv, Replay, PrefixReplaysSavepoint
<1> QED BY <1>1, SessionSafety, PTL
=============================================================================
