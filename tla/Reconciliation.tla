---------------------------- MODULE Reconciliation ----------------------------
(***************************************************************************)
(* The storage scans: jobs that page through the contents, the users or    *)
(* the stored objects, compare what they read with what the database       *)
(* promises, and open or resolve findings.  The world moves while a page   *)
(* runs, pages fail and are retried, a stalled worker keeps applying a     *)
(* page somebody else has already redone, and a scan may be armed again.   *)
(***************************************************************************)
EXTENDS Integers, FiniteSets, FiniteSetsExt

CONSTANTS LastObject,    \* the objects in storage are 1..LastObject, by locator
          LastContent,   \* the rows of file_contents are 1..LastContent
          ScanWorkers,   \* attempts that may be running at once
          MaxScans,      \* bound: scans that are ever enqueued
          MaxMoves,      \* bound: changes of the world behind the scans
          MaxScanFaults  \* bound: failures, lapsed claims and rearmed scans

ASSUME ReconciliationAssumption ==
    /\ {LastObject, LastContent, MaxScans} \subseteq Nat \ {0}
    /\ {MaxMoves, MaxScanFaults} \subseteq Nat
    /\ ScanWorkers \cap {"none", "pending", "succeeded"} = {}

VARIABLES rcObject,   \* [object -> "absent", "orphan", "referenced"]
          rcRow,      \* [content -> its row and what its blob is]
          rcDrift,    \* the user totals that do not add up
          rcFinding,  \* [<<type, resource>> -> [open, seen]]
          rcScope,    \* what this behaviour's scans look at
          rcClock,    \* NOW(), as coarse as the scans tell it apart
          rcScan,     \* [scan -> scope, start and what it is judged by]
          rcPage,     \* [<<scan, cursor>> -> status of that page's job]
          rcWork,     \* [worker -> the attempt it is running]
          rcGc,       \* [content -> status of its blob_gc job]
          rcLeft      \* [moves, faults] still allowed

rcVars == <<rcObject, rcRow, rcDrift, rcFinding, rcScope, rcClock, rcScan, rcPage,
            rcWork, rcGc, rcLeft>>

-----------------------------------------------------------------------------
RcObjects == 1..LastObject
RcContents == 1..LastContent
RcScans == 1..MaxScans
RcCursors == 0..Max({LastObject, LastContent})
ScanScopes == {"contents", "users", "objects"}

\* Finding types of each scope, and the resources they are about.
FindingTypes(scope) ==
    CASE scope = "contents" -> {"refs", "zero", "missing", "size"} \X RcContents
      [] scope = "users" -> {"used", "reserved"} \X {0}
      [] scope = "objects" -> {"orphan"} \X RcObjects
AllFindings == UNION {FindingTypes(scope) : scope \in ScanScopes}

\* Scans of different scopes share no finding and no resource, so one
\* behaviour has the scans of one scope.

Row(stored, actual, blob) == [stored |-> stored, actual |-> actual, blob |-> blob]
NoRow == Row(0, 0, "deleted")

IdleAttempt == [scan |-> 0, cursor |-> 0, at |-> "idle", items |-> {},
                last |-> 0, more |-> FALSE, saw |-> {}]
NoScan == [start |-> 0, alone |-> FALSE, fresh |-> FALSE,
           steady |-> {}]

RcInit ==
    /\ rcScope \in ScanScopes
    /\ rcObject = [o \in RcObjects |-> "orphan"]
    /\ rcRow \in [RcContents -> {Row(1, 1, "whole"), Row(0, 1, "whole")}]
    /\ rcScope # "contents" => rcRow = [c \in RcContents |-> Row(1, 1, "whole")]
    /\ rcDrift = {}
    /\ rcFinding = [f \in AllFindings |-> [open |-> FALSE, seen |-> 0]]
    /\ rcClock = 0
    /\ rcScan = [s \in RcScans |-> NoScan]
    /\ rcPage = [p \in RcScans \X RcCursors |-> "none"]
    /\ rcWork = [w \in ScanWorkers |-> IdleAttempt]
    /\ rcGc = [c \in RcContents |-> IF rcRow[c].stored = 0 THEN "succeeded" ELSE "none"]
    /\ rcLeft = [moves |-> MaxMoves, faults |-> MaxScanFaults]

-----------------------------------------------------------------------------
(* The finding table.                                                      *)
RecordFinding(find, f) == [find EXCEPT ![f] = [open |-> TRUE, seen |-> rcClock]]

ResolveFinding(find, f) ==
    IF find[f].open THEN [find EXCEPT ![f] = [open |-> FALSE, seen |-> rcClock]]
    ELSE find

Verdict(find, f, holds) ==
    IF holds THEN RecordFinding(find, f) ELSE ResolveFinding(find, f)

\* Open findings of the scope that nothing has touched since the scan began.
StaleFindings_All(s) == {f \in FindingTypes("objects") : rcFinding[f].open}
StaleFindings(s) ==
    {f \in FindingTypes("objects") :
        rcFinding[f].open /\ rcFinding[f].seen < rcScan[s].start}

ResolveStaleObjectFindings(s) ==
    [f \in AllFindings |->
        IF f \in StaleFindings(s) THEN [open |-> FALSE, seen |-> rcClock]
        ELSE rcFinding[f]]

-----------------------------------------------------------------------------
(* The world behind the scans.  Uploads, deletions, copies, losses and     *)
(* repairs, each an indivisible change of one resource.                    *)
Unsettled(s) == \E c \in RcCursors : rcPage[<<s, c>>] \notin {"none", "succeeded"}
AttemptOf(s) == {w \in ScanWorkers : rcWork[w].scan = s /\ rcWork[w].at # "idle"}
Running(s) == Unsettled(s) \/ AttemptOf(s) # {}

Disturbed(kind, r) ==
    [s \in RcScans |-> [rcScan[s] EXCEPT !.steady = @ \ {<<kind, r>>}]]

WorldMoves(kind, r) ==
    /\ rcScope = kind
    /\ rcLeft.moves > 0
    /\ rcLeft' = [rcLeft EXCEPT !.moves = @ - 1]
    /\ rcScan' = Disturbed(kind, r)
    /\ UNCHANGED <<rcFinding, rcClock, rcPage, rcWork>>

\* A chunk or blob is stored, gets its row, loses it, is deleted.
ObjectMoves(o) ==
    /\ WorldMoves("objects", o)
    /\ \E after \in (CASE rcObject[o] = "orphan" -> {"absent", "referenced"}
                       [] OTHER -> {"orphan"}) :
          rcObject' = [rcObject EXCEPT ![o] = after]
    /\ UNCHANGED <<rcRow, rcDrift, rcGc>>

\* A reference goes, counted or not; a blob is lost, truncated, restored.
ContentMoves(c) ==
    /\ rcRow[c] # NoRow
    /\ WorldMoves("contents", c)
    /\ \E after \in {Row(0, 0, rcRow[c].blob), Row(1, 0, rcRow[c].blob)}
                    \cup {[rcRow[c] EXCEPT !.blob = b] : b \in {"gone", "short", "whole"}} :
          rcRow' = [rcRow EXCEPT ![c] = after]
    /\ UNCHANGED <<rcObject, rcDrift, rcGc>>

UserMoves ==
    /\ WorldMoves("users", 0)
    /\ rcDrift' \in SUBSET {"used", "reserved"}
    /\ UNCHANGED <<rcObject, rcRow, rcGc>>

\* The blob_gc job: a row nobody refers to goes with its blob; whatever it
\* finds, the zero-reference finding is resolved with the job's success.
ExecuteBlobGc(c) ==
    /\ rcGc[c] = "pending"
    /\ rcGc' = [rcGc EXCEPT ![c] = "succeeded"]
    /\ rcFinding' = ResolveFinding(rcFinding, <<"zero", c>>)
    /\ IF rcRow[c].stored = 0 /\ rcRow[c].actual = 0
       THEN /\ rcRow' = [rcRow EXCEPT ![c] = NoRow]
            /\ rcScan' = Disturbed("contents", c)
       ELSE UNCHANGED <<rcRow, rcScan>>
    /\ UNCHANGED <<rcObject, rcDrift, rcClock, rcPage, rcWork, rcLeft>>

-----------------------------------------------------------------------------
(* Scans begin: the periodic seeder and an administrator both enqueue the  *)
(* first page under a deduplicated key; a failed completion arms its own   *)
(* scan again.                                                             *)
Everything == {<<rcScope, f[2]>> : f \in FindingTypes(rcScope)}

EnqueueReconciliation ==
    LET s == rcClock + 1
        others == {t \in RcScans : Running(t)}
    IN /\ s \in RcScans
       /\ rcClock' = s
       /\ rcPage' = [rcPage EXCEPT ![<<s, 0>>] = "pending"]
       /\ rcScan' = [t \in RcScans |->
             CASE t = s -> [start |-> s, alone |-> others = {}, fresh |-> TRUE,
                            steady |-> Everything]
               [] t \in others -> [rcScan[t] EXCEPT !.alone = FALSE]
               [] OTHER -> rcScan[t]]
       /\ UNCHANGED <<rcObject, rcRow, rcDrift, rcFinding, rcWork, rcGc, rcLeft>>

\* EnqueueOrRearmSucceeded on a first page that has succeeded: the job's
\* created_at stays what it was, and so do the jobs of the later pages.
TriggerStagingReconciliation(s) ==
    /\ rcLeft.faults > 0
    /\ rcScope = "objects"
    /\ rcPage[<<s, 0>>] = "succeeded"
    /\ rcLeft' = [rcLeft EXCEPT !.faults = @ - 1]
    /\ rcPage' = [rcPage EXCEPT ![<<s, 0>>] = "pending"]
    /\ rcScan' = [t \in RcScans |->
          IF t = s THEN [rcScan[t] EXCEPT !.fresh = FALSE]
          ELSE IF Running(t) THEN [rcScan[t] EXCEPT !.alone = FALSE] ELSE rcScan[t]]
    /\ UNCHANGED <<rcObject, rcRow, rcDrift, rcFinding, rcClock, rcWork, rcGc>>

-----------------------------------------------------------------------------
(* One page.                                                               *)
AttemptGoes(w, attempt) == rcWork' = [rcWork EXCEPT ![w] = attempt]
FindingsKept == UNCHANGED <<rcObject, rcRow, rcDrift, rcClock, rcScan, rcPage, rcLeft>>

\* Claimed when pending, or taken from a worker whose claim has lapsed.
ClaimPage(w, s, c) ==
    /\ rcWork[w].at = "idle"
    /\ IF rcPage[<<s, c>>] = "pending" THEN UNCHANGED rcLeft
       ELSE /\ rcPage[<<s, c>>] \in ScanWorkers
            /\ rcLeft.faults > 0
            /\ rcLeft' = [rcLeft EXCEPT !.faults = @ - 1]
    /\ rcPage' = [rcPage EXCEPT ![<<s, c>>] = w]
    /\ AttemptGoes(w, [IdleAttempt EXCEPT !.scan = s, !.cursor = c, !.at = "read"])
    /\ UNCHANGED <<rcObject, rcRow, rcDrift, rcFinding, rcClock, rcScan, rcGc>>

\* A page is the first items after the cursor.  The page size is one.
PageAfter(ids, cursor) ==
    LET later == {i \in ids : i > cursor}
    IN IF later = {} THEN {} ELSE {Min(later)}

\* upper_bound of the token among the sorted locators; more when some remain.
ReadInventory(w) ==
    LET a == rcWork[w]
        listed == {o \in RcObjects : rcObject[o] # "absent"}
        page == PageAfter(listed, a.cursor)
    IN /\ a.at = "read" /\ rcScope = "objects"
       /\ AttemptGoes(w, [a EXCEPT !.items = page, !.at = "references",
                             !.last = IF page = {} THEN 0 ELSE Max(page),
                             !.more = \E o \in listed, i \in page : o > i])
       /\ FindingsKept
       /\ UNCHANGED <<rcFinding, rcGc>>

\* S3 asks for each listed key again and skips the ones that have gone; the
\* references are read once the listing is complete.
ReadReferences(w) ==
    LET a == rcWork[w]
    IN /\ a.at = "references"
       /\ \E there \in {a.items, {o \in a.items : rcObject[o] # "absent"}} :
             AttemptGoes(w, [a EXCEPT !.at = "apply", !.items = there,
                                !.saw = {o \in there : rcObject[o] = "referenced"}])
       /\ FindingsKept
       /\ UNCHANGED <<rcFinding, rcGc>>

ApplyObject(w) ==
    LET a == rcWork[w]
    IN /\ a.at = "apply"
       /\ \E o \in a.items :
             /\ rcFinding' = Verdict(rcFinding, <<"orphan", o>>, o \notin a.saw)
             /\ AttemptGoes(w, [a EXCEPT !.items = @ \ {o}])
       /\ FindingsKept
       /\ UNCHANGED rcGc

\* The last page of the inventory resolves what no page has seen.
EndInventory(w) ==
    LET a == rcWork[w]
    IN /\ a.at = "apply" /\ a.items = {}
       /\ rcFinding' = IF a.more THEN rcFinding ELSE ResolveStaleObjectFindings(a.scan)
       /\ AttemptGoes(w, [a EXCEPT !.at = "done"])
       /\ FindingsKept
       /\ UNCHANGED rcGc

\* One statement reads the row with its files and trash counted.
ReadContents(w) ==
    LET a == rcWork[w]
        page == PageAfter({c \in RcContents : rcRow[c] # NoRow}, a.cursor)
    IN /\ a.at = "read" /\ rcScope = "contents"
       /\ AttemptGoes(w, [a EXCEPT !.items = page, !.more = page # {},
                             !.last = IF page = {} THEN 0 ELSE Max(page),
                             !.at = IF page = {} THEN "done" ELSE "row",
                             !.saw = {rcRow[c] : c \in page}])
       /\ FindingsKept
       /\ UNCHANGED <<rcFinding, rcGc>>

RefsVerdict(find, c, row) == Verdict(find, <<"refs", c>>, row.stored # row.actual)

\* Count mismatch, then the zero-reference finding with its repair.
ApplyRow(w) ==
    LET a == rcWork[w]
    IN /\ a.at = "row"
       /\ \E c \in a.items, row \in a.saw :
             LET counted == RefsVerdict(rcFinding, c, row)
             IN IF row.stored = 0 /\ row.actual = 0
                THEN /\ rcFinding' = RecordFinding(counted, <<"zero", c>>)
                     /\ AttemptGoes(w, [a EXCEPT !.at = "collect"])
                ELSE /\ rcFinding' = ResolveFinding(counted, <<"zero", c>>)
                     /\ AttemptGoes(w, [a EXCEPT
                           !.at = IF row.actual = 0 THEN "done" ELSE "exists"])
       /\ FindingsKept
       /\ UNCHANGED rcGc

\* A blob_gc job that is already waiting or dead stays as it is.
RearmsFrom == {"none", "succeeded"}

EnqueueOrRearmBlobGc(w) ==
    LET a == rcWork[w]
    IN /\ a.at = "collect"
       /\ \E c \in a.items :
             rcGc' = [rcGc EXCEPT ![c] = IF @ \in RearmsFrom THEN "pending" ELSE @]
       /\ AttemptGoes(w, [a EXCEPT !.at = "done"])
       /\ FindingsKept
       /\ UNCHANGED rcFinding

\* BlobExists reads the store; the verdict is written afterwards.
BlobExists(w) ==
    LET a == rcWork[w]
    IN /\ a.at = "exists"
       /\ \E c \in a.items :
             AttemptGoes(w, [a EXCEPT !.at = "size", !.saw = {rcRow[c].blob}])
       /\ FindingsKept
       /\ UNCHANGED <<rcFinding, rcGc>>

IsMissing(blob) == blob \in {"gone", "deleted"}

GetBlobSize(w) ==
    LET a == rcWork[w]
    IN /\ a.at = "size"
       /\ \E c \in a.items :
             /\ rcFinding' = Verdict(rcFinding, <<"missing", c>>,
                                     \E b \in a.saw : IsMissing(b))
             /\ AttemptGoes(w, [a EXCEPT !.at = "verdict",
                   !.saw = IF \E b \in a.saw : IsMissing(b) THEN @
                           ELSE {rcRow[c].blob}])
       /\ FindingsKept
       /\ UNCHANGED rcGc

\* A blob that vanished since BlobExists is missing after all, and a missing
\* blob has no size to be wrong about.
ApplySize(w) ==
    LET a == rcWork[w]
    IN /\ a.at = "verdict"
       /\ \E c \in a.items, b \in a.saw :
             LET sized == Verdict(rcFinding, <<"size", c>>, b = "short")
             IN rcFinding' = IF IsMissing(b) THEN RecordFinding(sized, <<"missing", c>>)
                             ELSE sized
       /\ AttemptGoes(w, [a EXCEPT !.at = "done"])
       /\ FindingsKept
       /\ UNCHANGED rcGc

\* Used and reserved bytes and the rows they should add up to, in one read.
ReadUsers(w) ==
    LET a == rcWork[w]
    IN /\ a.at = "read" /\ rcScope = "users"
       /\ AttemptGoes(w, [a EXCEPT !.at = "totals", !.saw = rcDrift])
       /\ FindingsKept
       /\ UNCHANGED <<rcFinding, rcGc>>

ApplyUser(w) ==
    LET a == rcWork[w]
        used == Verdict(rcFinding, <<"used", 0>>, "used" \in a.saw)
    IN /\ a.at = "totals"
       /\ rcFinding' = Verdict(used, <<"reserved", 0>>, "reserved" \in a.saw)
       /\ AttemptGoes(w, [a EXCEPT !.at = "done"])
       /\ FindingsKept
       /\ UNCHANGED rcGc

\* The next page's job is enqueued whoever runs the page, unless one exists;
\* success is marked only by the worker that still holds the claim.
FinishPage(w) ==
    LET a == rcWork[w]
        marked == IF rcPage[<<a.scan, a.cursor>>] = w
                  THEN [rcPage EXCEPT ![<<a.scan, a.cursor>>] = "succeeded"] ELSE rcPage
        next == <<a.scan, a.last>>
    IN /\ a.at = "done"
       /\ rcPage' = IF a.more /\ marked[next] = "none"
                    THEN [marked EXCEPT ![next] = "pending"] ELSE marked
       /\ AttemptGoes(w, IdleAttempt)
       /\ UNCHANGED <<rcObject, rcRow, rcDrift, rcFinding, rcClock, rcScan, rcGc, rcLeft>>

\* Any read or statement of the page fails, or the process dies: the attempt
\* is over wherever it stood and the page waits for its retry.
FailPage(w) ==
    LET a == rcWork[w]
    IN /\ a.at # "idle"
       /\ rcLeft.faults > 0
       /\ rcLeft' = [rcLeft EXCEPT !.faults = @ - 1]
       /\ rcPage' = IF rcPage[<<a.scan, a.cursor>>] = w
                    THEN [rcPage EXCEPT ![<<a.scan, a.cursor>>] = "pending"] ELSE rcPage
       /\ AttemptGoes(w, IdleAttempt)
       /\ UNCHANGED <<rcObject, rcRow, rcDrift, rcFinding, rcClock, rcScan, rcGc>>

PageStep(w) ==
    \/ ReadInventory(w) \/ ReadReferences(w) \/ ApplyObject(w) \/ EndInventory(w)
    \/ ReadContents(w) \/ ApplyRow(w) \/ EnqueueOrRearmBlobGc(w)
    \/ BlobExists(w) \/ GetBlobSize(w) \/ ApplySize(w)
    \/ ReadUsers(w) \/ ApplyUser(w)
    \/ FinishPage(w) \/ FailPage(w)

RcNext ==
  /\ UNCHANGED rcScope
  /\ \/ \E o \in RcObjects : ObjectMoves(o)
     \/ \E c \in RcContents : ContentMoves(c) \/ ExecuteBlobGc(c)
     \/ UserMoves
     \/ EnqueueReconciliation
     \/ \E s \in RcScans : TriggerStagingReconciliation(s)
     \/ \E w \in ScanWorkers :
          PageStep(w) \/ \E s \in RcScans, c \in RcCursors : ClaimPage(w, s, c)

RcSpec == RcInit /\ [][RcNext]_rcVars

-----------------------------------------------------------------------------
(* Properties.                                                             *)

\* What a finding says, of the world as it is.
Holds(f) ==
    LET row == rcRow[f[2]]
    IN CASE f[1] = "orphan" -> rcObject[f[2]] = "orphan"
         [] f[1] = "refs" -> row.stored # row.actual
         [] f[1] = "zero" -> row.stored = 0 /\ row.actual = 0
         [] f[1] = "missing" -> row.blob = "gone"
         [] f[1] = "size" -> row.blob = "short"
         [] OTHER -> f[1] \in rcDrift

\* A scan looks at the rows that exist, and at the blobs of referenced ones.
Judged(f) ==
    /\ f[1] \in {"refs", "zero", "missing", "size"} => rcRow[f[2]] # NoRow
    /\ f[1] \in {"missing", "size"} => rcRow[f[2]].actual > 0

\* Once a scan that no other scan overlapped is over, the findings are the
\* truth about everything that has not changed since it began: whatever is
\* wrong is open and whatever is right is closed, though pages were retried,
\* redone by a second worker or applied late, and though objects before and
\* behind the cursor came and went (RunPage, ResolveStaleObjectFindings).
FindingsTruthful ==
    \A s \in RcScans :
        rcScan[s].fresh /\ rcScan[s].alone /\ ~Running(s) =>
            \A f \in FindingTypes(rcScope) :
                <<rcScope, f[2]>> \in rcScan[s].steady /\ Judged(f)
                    => (rcFinding[f].open <=> Holds(f))

\* Once such a scan is over, an open zero-reference finding of a row that has
\* not changed since has somebody to act on it: the row's blob_gc job waits.
\* A job that succeeded earlier, when the content was still referenced, is
\* armed again, and a page that failed between the finding and the job was
\* redone (RunContentPage, EnqueueOrRearmSucceeded).
ZeroReferenceHasRepair ==
    \A s \in RcScans :
        rcScan[s].fresh /\ rcScan[s].alone /\ ~Running(s) =>
            \A c \in RcContents :
                <<"contents", c>> \in rcScan[s].steady /\ rcRow[c] # NoRow
                /\ rcFinding[<<"zero", c>>].open => rcGc[c] = "pending"

\* An operator can act on the findings: they are true, and a content without
\* references is on its way out (StorageReconciliationService::RunPage).
ScansTruthful == FindingsTruthful /\ ZeroReferenceHasRepair

===============================================================================
